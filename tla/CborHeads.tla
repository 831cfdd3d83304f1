-------------------------------- MODULE CborHeads ------------------------------
(* The heads of canonical CBOR (rcx-registry-crown/src/canonical.rs): how     *)
(* many bytes an argument or a float is written with, and which of the        *)
(* possible forms are read back.  A form is canonical when no narrower one    *)
(* holds the number.                                                          *)
EXTENDS Integers

\* A head of width 0 holds its argument itself; widths 1 to 4 stand for 1, 2, 4
\* and 8 bytes that follow it.
Widths == 0 .. 4

CONSTANT Limit   \* the arguments below Limit[w] fit in a head of width w

ASSUME LimitAssumption ==
  /\ Limit \in [Widths -> Nat \ {0}]
  /\ \A w \in 1 .. 4 : Limit[w - 1] < Limit[w]

Heads == {h \in [width : Widths, arg : Nat] : h.arg < Limit[h.width]}

\* write_head takes the first width that holds the argument.
FirstWidth(n, w) == n < Limit[w] /\ \A v \in 0 .. w - 1 : n >= Limit[v]

\* Mutant of WriteHead: a number always takes eight bytes.
WriteWideHead(n) == [width |-> 4, arg |-> n]

WriteHead(n) == [width |-> CHOOSE w \in Widths : FirstWidth(n, w), arg |-> n]

\* Mutant of AcceptsHead: any width that holds the argument is read.
AcceptsAnyHead(h) == h \in Heads

\* read_arg: an argument that a narrower head would hold is refused.
AcceptsHead(h) == h.width > 0 => h.arg >= Limit[h.width - 1]

\* A float needs a half, a single or a double; infinities and NaN fit a half.
Precisions == 1 .. 3
Numbers == {x \in [needs : Precisions, finite : BOOLEAN] : ~x.finite => x.needs = 1}
Floats == {f \in [width : Precisions, number : Numbers] : f.number.needs <= f.width}

\* write_float takes the first precision that keeps the value, and asserts that
\* the number is finite.
CanWriteFloat(x) == x.finite
WriteFloat(x) == [width |-> x.needs, number |-> x]

\* read_float: only the two wider forms are checked, for the width and for
\* finiteness.
AcceptsFloat(f) == f.width > 1 => f.number.finite /\ f.number.needs = f.width
================================================================================
