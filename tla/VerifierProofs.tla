------------------------------ MODULE VerifierProofs ----------------------------
(* Canonical documents and what their verification tells, for any limits of   *)
(* the heads, keys, entry lists, declarations and bounds: one form for each   *)
(* document, one signature for each form, one chain for each history.         *)
EXTENDS Verifier, TLAPS, FunctionTheorems, FiniteSetTheorems, SequenceTheorems, WellFoundedInduction

--------------------------------------------------------------------------------
(* A number has one form, which is the one that is written.                   *)

\* The limits are numbers, and a wider head holds more.
LEMMA LimitsGrow ==
  /\ \A w \in Widths : Limit[w] \in Nat
  /\ \A v, w \in Widths : v < w => Limit[v] < Limit[w]
<1>1. \A w \in Widths : Limit[w] \in Nat
  BY LimitAssumption
<1>2. Limit[0] < Limit[1] /\ Limit[1] < Limit[2] /\ Limit[2] < Limit[3] /\ Limit[3] < Limit[4]
  BY LimitAssumption, 1 - 1 = 0, 2 - 1 = 1, 3 - 1 = 2, 4 - 1 = 3
<1>3. Limit[0] \in Nat /\ Limit[1] \in Nat /\ Limit[2] \in Nat /\ Limit[3] \in Nat /\ Limit[4] \in Nat
  BY <1>1 DEF Widths
<1>4. \A w \in Widths : w = 0 \/ w = 1 \/ w = 2 \/ w = 3 \/ w = 4
  BY DEF Widths
<1>5. QED
  BY <1>1, <1>2, <1>3, <1>4

\* Some width is the first that holds an argument of 64 bits, and only one is.
LEMMA FirstWidthExists ==
  ASSUME NEW n \in Nat, n < Limit[4]
  PROVE  \E w \in Widths : FirstWidth(n, w)
<1>1. CASE n < Limit[0]
  <2>1. FirstWidth(n, 0)
    BY <1>1 DEF FirstWidth
  <2>2. QED
    BY <2>1 DEF Widths
<1>2. CASE n >= Limit[0] /\ n < Limit[1]
  <2>1. FirstWidth(n, 1)
    BY <1>2, 1 - 1 = 0 DEF FirstWidth
  <2>2. QED
    BY <2>1 DEF Widths
<1>3. CASE n >= Limit[0] /\ n >= Limit[1] /\ n < Limit[2]
  <2>1. FirstWidth(n, 2)
    BY <1>3, \A v \in 0 .. 2 - 1 : v = 0 \/ v = 1 DEF FirstWidth
  <2>2. QED
    BY <2>1 DEF Widths
<1>4. CASE n >= Limit[0] /\ n >= Limit[1] /\ n >= Limit[2] /\ n < Limit[3]
  <2>1. FirstWidth(n, 3)
    BY <1>4, \A v \in 0 .. 3 - 1 : v = 0 \/ v = 1 \/ v = 2 DEF FirstWidth
  <2>2. QED
    BY <2>1 DEF Widths
<1>5. CASE n >= Limit[0] /\ n >= Limit[1] /\ n >= Limit[2] /\ n >= Limit[3]
  <2>1. FirstWidth(n, 4)
    BY <1>5, \A v \in 0 .. 4 - 1 : v = 0 \/ v = 1 \/ v = 2 \/ v = 3 DEF FirstWidth
  <2>2. QED
    BY <2>1 DEF Widths
<1>6. Limit[0] \in Nat /\ Limit[1] \in Nat /\ Limit[2] \in Nat /\ Limit[3] \in Nat
  BY LimitsGrow DEF Widths
<1>7. QED
  BY <1>1, <1>2, <1>3, <1>4, <1>5, <1>6

\* No two widths are the first one that holds an argument.
LEMMA FirstWidthUnique ==
  ASSUME NEW n \in Nat, NEW v \in Widths, NEW w \in Widths, FirstWidth(n, v), FirstWidth(n, w)
  PROVE  v = w
<1>1. Limit[v] \in Nat /\ Limit[w] \in Nat
  BY LimitsGrow
<1>2. ~(v < w)
  <2>1. SUFFICES ASSUME v < w PROVE FALSE
    OBVIOUS
  <2>2. v \in 0 .. w - 1
    BY <2>1 DEF Widths
  <2>3. QED
    BY <1>1, <2>2 DEF FirstWidth
<1>3. ~(w < v)
  <2>1. SUFFICES ASSUME w < v PROVE FALSE
    OBVIOUS
  <2>2. w \in 0 .. v - 1
    BY <2>1 DEF Widths
  <2>3. QED
    BY <1>1, <2>2 DEF FirstWidth
<1>4. QED
  BY <1>2, <1>3 DEF Widths

\* Every argument of 64 bits is written in a head that holds it and that the
\* decoder takes back (write_head, read_arg).
THEOREM HeadsRoundTrip ==
  ASSUME NEW n \in 0 .. (Limit[4] - 1)
  PROVE  WriteHead(n) \in Heads /\ WriteHead(n).arg = n /\ AcceptsHead(WriteHead(n))
<1>1. n \in Nat /\ n < Limit[4]
  BY LimitsGrow DEF Widths
<1>2. PICK w \in Widths : w = WriteHead(n).width /\ FirstWidth(n, w)
  BY <1>1, FirstWidthExists DEF WriteHead
<1>3. WriteHead(n) = [width |-> w, arg |-> n]
  BY <1>2 DEF WriteHead
<1>4. w > 0 => w - 1 \in 0 .. w - 1
  BY DEF Widths
<1>5. QED
  BY <1>1, <1>2, <1>3, <1>4 DEF Heads, AcceptsHead, FirstWidth

\* The decoder takes no head but the one that is written: two encodings of a
\* document never differ in the width of a head (read_arg).
THEOREM HeadsAreUnique ==
  ASSUME NEW h \in Heads, AcceptsHead(h)
  PROVE  h = WriteHead(h.arg)
<1>1. h.width \in Widths /\ h.arg \in Nat /\ h.arg < Limit[h.width]
      /\ h = [width |-> h.width, arg |-> h.arg]
  BY DEF Heads
<1>2. FirstWidth(h.arg, h.width)
  <2>1. SUFFICES ASSUME NEW v \in 0 .. h.width - 1 PROVE h.arg >= Limit[v]
    BY <1>1 DEF FirstWidth
  <2>2. v \in Widths /\ h.width - 1 \in Widths /\ h.width > 0
        /\ (v < h.width - 1 \/ v = h.width - 1)
    BY <1>1 DEF Widths
  <2>3. PICK u \in Widths : u = h.width - 1
    BY <2>2
  <2>4. h.arg >= Limit[u]
    BY <2>2, <2>3 DEF AcceptsHead
  <2>5. v < u \/ v = u
    BY <2>2, <2>3
  <2>6. Limit[v] \in Nat /\ Limit[u] \in Nat /\ (v < u => Limit[v] < Limit[u])
    BY <2>2, <2>3, LimitsGrow
  <2>7. QED
    BY <1>1, <2>4, <2>5, <2>6
<1>3. \A w \in Widths : FirstWidth(h.arg, w) => w = h.width
  BY <1>1, <1>2, FirstWidthUnique
<1>4. WriteHead(h.arg).width = h.width
  BY <1>1, <1>2, <1>3 DEF WriteHead
<1>5. QED
  BY <1>1, <1>4 DEF WriteHead

\* A float that the decoder takes and the encoder can write is written in the
\* form it was read in (read_float, write_float).
THEOREM FloatsAreUnique ==
  ASSUME NEW f \in Floats, AcceptsFloat(f), CanWriteFloat(f.number)
  PROVE  f = WriteFloat(f.number)
<1>1. f.width \in Precisions /\ f.number \in Numbers /\ f.number.needs <= f.width
      /\ f = [width |-> f.width, number |-> f.number]
  BY DEF Floats
<1>2. f.number.needs \in Precisions
  BY <1>1 DEF Numbers
<1>3. f.width = f.number.needs
  BY <1>1, <1>2 DEF AcceptsFloat, Precisions
<1>4. QED
  BY <1>1, <1>3 DEF WriteFloat

--------------------------------------------------------------------------------
(* Sets put in order.                                                         *)

\* A set of numbers up to n has a least element.
LEMMA HasLeast ==
  ASSUME NEW n \in Nat, NEW T, T \subseteq 1 .. n, T # {}
  PROVE  \E x \in T : \A y \in T : x <= y
<1> DEFINE F == {1 .. k : k \in T}
<1>0. \A k \in T : k \in Nat /\ 1 <= k /\ k <= n
  OBVIOUS
<1>1. IsWellFoundedOn(StrictSubsetOrdering(1 .. n), SUBSET (1 .. n))
  <2>1. IsFiniteSet(1 .. n)
    BY FS_Interval
  <2>2. SUBSET (1 .. n) = FiniteSubsetsOf(1 .. n)
    BY <2>1, FS_FiniteSubsetsOfFinite
  <2> QED BY <2>2, FS_StrictSubsetOrderingWellFounded
<1>2. F \subseteq SUBSET (1 .. n) /\ F # {}
  <2>1. \A k \in T : 1 .. k \subseteq 1 .. n
    BY <1>0
  <2> QED BY <2>1
<1>3. PICK s \in F : \A t \in F : ~ (<<t, s>> \in StrictSubsetOrdering(1 .. n))
  <2> HIDE DEF F
  <2> QED BY <1>1, <1>2, WFMin
<1>4. PICK x \in T : s = 1 .. x
  OBVIOUS
<1>5. ASSUME NEW y \in T PROVE x <= y
  <2>1. 1 .. y \in F
    OBVIOUS
  <2>2. ~ (1 .. y \subseteq 1 .. x /\ 1 .. y # 1 .. x)
    <3>1. 1 .. y \in SUBSET (1 .. n) /\ 1 .. x \in SUBSET (1 .. n)
      BY <1>0
    <3>2. ~ (<<1 .. y, 1 .. x>> \in StrictSubsetOrdering(1 .. n))
      BY <1>3, <1>4, <2>1
    <3> QED BY <3>1, <3>2 DEF StrictSubsetOrdering
  <2>3. ASSUME y < x PROVE FALSE
    <3>1. 1 .. y \subseteq 1 .. x /\ x \in 1 .. x /\ x \notin 1 .. y
      BY <1>0, <2>3
    <3> QED BY <2>2, <3>1
  <2> QED BY <1>0, <2>3
<1> QED BY <1>5

\* Every element of the set has one place.
LEMMA ArrangedIsAll ==
  ASSUME NEW set, IsFiniteSet(set), NEW upto,
         \A x \in set : upto[x] \subseteq set /\ x \in upto[x],
         \A x, y \in set : \/ x = y
                           \/ upto[x] \subseteq upto[y] /\ y \notin upto[x]
                           \/ upto[y] \subseteq upto[x] /\ x \notin upto[y]
  PROVE  LET C == Cardinality(set)
             seq == Arranged(set, upto)
         IN  /\ C \in Nat /\ seq \in [1 .. C -> set]
             /\ \A x \in set : \E k \in 1 .. C : seq[k] = x
             /\ \A i, j \in 1 .. C : seq[i] = seq[j] => i = j
             /\ \A i, j \in 1 .. C : i < j => seq[j] \notin upto[seq[i]]
<1> DEFINE C == Cardinality(set)
           place == [x \in set |-> Cardinality(upto[x])]
           seq == Arranged(set, upto)
<1>0. C \in Nat
  BY FS_CardinalityType
<1>1. ASSUME NEW x \in set
      PROVE  IsFiniteSet(upto[x]) /\ Cardinality(upto[x]) \in 1 .. C
  <2>1. IsFiniteSet(upto[x]) /\ Cardinality(upto[x]) <= C /\ Cardinality(upto[x]) \in Nat
    BY FS_Subset, FS_CardinalityType
  <2>2. Cardinality(upto[x]) # 0
    BY <2>1, FS_EmptySet
  <2> QED BY <1>0, <2>1, <2>2
<1> HIDE DEF C
<1>2. ASSUME NEW x \in set, NEW y \in set, Cardinality(upto[x]) = Cardinality(upto[y])
      PROVE  x = y
  <2>1. ASSUME NEW u \in set, NEW w \in set, upto[u] \subseteq upto[w], w \notin upto[u],
               Cardinality(upto[u]) = Cardinality(upto[w])
        PROVE  FALSE
    <3>1. upto[u] = upto[w]
      BY <1>1, <2>1, FS_Subset
    <3> QED BY <2>1, <3>1
  <2> QED BY <1>2, <2>1
<1>3. place \in Surjection(set, 1 .. C)
  <2>1. place \in [set -> 1 .. C]
    BY <1>1
  <2>2. place \in Injection(set, 1 .. C)
    BY <1>2, <2>1, Fun_IsInj
  <2>3. IsFiniteSet(1 .. C) /\ Cardinality(1 .. C) = IF 1 > C THEN 0 ELSE C - 1 + 1
    BY <1>0, FS_Interval
  <2>4. Cardinality(1 .. C) = Cardinality(set)
    BY <1>0, <2>3 DEF C
  <2> HIDE DEF place
  <2> QED BY <2>2, <2>3, <2>4, FS_Injection
<1>4. \A k \in 1 .. C : \E x \in set : Cardinality(upto[x]) = k
  <2> HIDE DEF place, seq
  <2>1. \A k \in 1 .. C : \E x \in set : place[x] = k
    BY <1>3, Zenon DEF Surjection
  <2> QED BY <2>1 DEF place
<1>5. \A k \in 1 .. C : seq[k] \in set /\ Cardinality(upto[seq[k]]) = k
  <2>1. ASSUME NEW k \in 1 .. C PROVE seq[k] \in set /\ Cardinality(upto[seq[k]]) = k
    <3>1. seq[k] = CHOOSE x \in set : Cardinality(upto[x]) = k
      BY DEF Arranged, C
    <3> QED BY <1>4, <3>1
  <2> QED BY <2>1
<1>6. seq \in [1 .. C -> set]
  BY <1>5 DEF Arranged, C
<1> HIDE DEF seq
<1>7. \A x \in set : \E k \in 1 .. C : seq[k] = x
  BY <1>1, <1>2, <1>5
<1>8. \A i, j \in 1 .. C : seq[i] = seq[j] => i = j
  BY <1>5
<1>10. \A i, j \in 1 .. C : i < j => seq[j] \notin upto[seq[i]]
  <2>1. ASSUME NEW i \in 1 .. C, NEW j \in 1 .. C, i < j, seq[j] \in upto[seq[i]]
        PROVE  FALSE
    <3>1. seq[i] \in set /\ seq[j] \in set /\ seq[i] # seq[j]
      BY <1>5, <1>8, <2>1
    <3>2. upto[seq[j]] \subseteq upto[seq[i]]
      BY <2>1, <3>1
    <3>3. Cardinality(upto[seq[j]]) <= Cardinality(upto[seq[i]])
      BY <1>1, <3>1, <3>2, FS_Subset
    <3> QED BY <1>5, <2>1, <3>3
  <2> QED BY <2>1
<1>9. C \in Nat /\ seq \in [1 .. C -> set] /\ (\A x \in set : \E k \in 1 .. C : seq[k] = x)
      /\ (\A i, j \in 1 .. C : seq[i] = seq[j] => i = j)
      /\ \A i, j \in 1 .. C : i < j => seq[j] \notin upto[seq[i]]
  BY <1>0, <1>6, <1>7, <1>8, <1>10
<1> QED BY <1>9 DEF C, seq

\* A list in which each element of a set stands once, behind what is up to it.
IsThatOrder(n, set, upto, s) ==
  /\ n \in Nat /\ s \in [1 .. n -> set]
  /\ \A x \in set : \E k \in 1 .. n : s[k] = x
  /\ \A j, k \in 1 .. n : s[j] = s[k] => j = k
  /\ \A x \in set : upto[x] \subseteq set
  /\ \A j, k \in 1 .. n : s[j] \in upto[s[k]] <=> j <= k

\* There is no other such list.
LEMMA OrderIsUnique ==
  ASSUME NEW n, NEW set, NEW upto, NEW s, IsThatOrder(n, set, upto, s)
  PROVE  IsFiniteSet(set) /\ Cardinality(set) = n /\ s = Arranged(set, upto)
<1>0. /\ n \in Nat /\ s \in [1 .. n -> set]
      /\ \A x \in set : \E k \in 1 .. n : s[k] = x
      /\ \A j, k \in 1 .. n : s[j] = s[k] => j = k
      /\ \A x \in set : upto[x] \subseteq set
      /\ \A j, k \in 1 .. n : s[j] \in upto[s[k]] <=> j <= k
  BY DEF IsThatOrder
<1>1. \A k \in 0 .. n : IsFiniteSet(1 .. k) /\ Cardinality(1 .. k) = k
  <2>1. ASSUME NEW k \in 0 .. n PROVE IsFiniteSet(1 .. k) /\ Cardinality(1 .. k) = k
    <3>1. k \in Nat
      BY <1>0
    <3>2. IsFiniteSet(1 .. k) /\ Cardinality(1 .. k) = IF 1 > k THEN 0 ELSE k - 1 + 1
      BY <3>1, FS_Interval
    <3> QED BY <3>1, <3>2
  <2> QED BY <2>1
<1>2. ASSUME NEW k \in 0 .. n
      PROVE  IsFiniteSet({s[j] : j \in 1 .. k}) /\ Cardinality({s[j] : j \in 1 .. k}) = k
  <2> DEFINE T == {s[j] : j \in 1 .. k}
             f == [j \in 1 .. k |-> s[j]]
  <2>1. f \in [1 .. k -> T]
    BY <1>0
  <2>2. \A i, j \in 1 .. k : f[i] = f[j] => i = j
    BY <1>0
  <2>3. \A t \in T : \E j \in 1 .. k : f[j] = t
    BY <1>0
  <2> HIDE DEF T, f
  <2>4. f \in Bijection(1 .. k, T)
    BY <2>1, <2>2, <2>3, Zenon DEF Bijection, Injection, Surjection, IsInjective
  <2>5. IsFiniteSet(T) /\ Cardinality(T) = Cardinality(1 .. k)
    BY <1>1, <2>4, FS_Bijection DEF ExistsBijection
  <2> QED BY <1>1, <2>5 DEF T
<1>3. set = {s[j] : j \in 1 .. n}
  BY <1>0
<1>4. IsFiniteSet(set) /\ Cardinality(set) = n
  BY <1>0, <1>2, <1>3
<1>5. ASSUME NEW k \in 1 .. n PROVE Cardinality(upto[s[k]]) = k
  <2>1. k \in 0 .. n /\ s[k] \in set
    BY <1>0
  <2>2. upto[s[k]] = {s[j] : j \in 1 .. k}
    <3>1. \A x \in upto[s[k]] : \E j \in 1 .. n : x = s[j]
      BY <1>0, <2>1
    <3>2. \A x \in upto[s[k]] : \E j \in 1 .. k : x = s[j]
      BY <1>0, <3>1
    <3>3. \A j \in 1 .. k : s[j] \in upto[s[k]]
      BY <1>0
    <3> QED BY <3>2, <3>3
  <2> QED BY <1>2, <2>1, <2>2
<1>6. ASSUME NEW k \in 1 .. n
      PROVE  s[k] = CHOOSE x \in set : Cardinality(upto[x]) = k
  <2>1. \A x \in set : Cardinality(upto[x]) = k => x = s[k]
    BY <1>0, <1>5
  <2> QED BY <1>0, <1>5, <2>1
<1>7. s = [k \in 1 .. n |-> CHOOSE x \in set : Cardinality(upto[x]) = k]
  BY <1>0, <1>6
<1> QED BY <1>4, <1>7 DEF Arranged

--------------------------------------------------------------------------------
(* The fields of a receipt.                                                   *)

\* Fields with names of the format, each of them once.
AreNamed(fields) ==
  /\ \A p \in fields : p[1] \in ToSet(FieldOrder)
  /\ \A p, q \in fields : p[1] = q[1] => p = q

LEMMA RankOfNames ==
  /\ IsFiniteSet(DOMAIN FieldOrder) /\ Cardinality(DOMAIN FieldOrder) = Len(FieldOrder)
  /\ Len(FieldOrder) \in Nat
  /\ \A a \in ToSet(FieldOrder) : Rank[a] \in DOMAIN FieldOrder /\ Rank[a] \in Nat
  /\ \A a, b \in ToSet(FieldOrder) : Rank[a] = Rank[b] => a = b
<1>1. Len(FieldOrder) \in Nat /\ Len(FieldOrder) >= 1 /\ DOMAIN FieldOrder = 1 .. Len(FieldOrder)
  BY DEF FieldOrder
<1>2. ASSUME NEW n \in Nat, n >= 1 PROVE IsFiniteSet(1 .. n) /\ Cardinality(1 .. n) = n
  <2>1. IsFiniteSet(1 .. n) /\ Cardinality(1 .. n) = IF 1 > n THEN 0 ELSE n - 1 + 1
    BY FS_Interval
  <2> QED BY <1>2, <2>1
<1>3. ASSUME NEW a \in ToSet(FieldOrder) PROVE Rank[a] \in DOMAIN FieldOrder /\ FieldOrder[Rank[a]] = a
  <2>1. \E i \in DOMAIN FieldOrder : FieldOrder[i] = a
    BY DEF ToSet
  <2>2. Rank[a] = CHOOSE i \in DOMAIN FieldOrder : FieldOrder[i] = a
    BY DEF Rank
  <2> QED BY <2>1, <2>2
<1> QED BY <1>1, <1>2, <1>3

\* Pairs that are the fields, in the order of the format.
AreWritten(pairs, fields) ==
  /\ pairs \in [1 .. Len(pairs) -> fields] /\ Len(pairs) \in Nat
  /\ \A p \in fields : \E i \in 1 .. Len(pairs) : pairs[i] = p
  /\ \A i, j \in 1 .. Len(pairs) : i < j => Rank[pairs[i][1]] < Rank[pairs[j][1]]

\* The length of a list that is given place by place.
LEMMA LengthOf ==
  ASSUME NEW n \in Nat, NEW S, NEW s \in [1 .. n -> S]
  PROVE  s \in Seq(S) /\ Len(s) = n
<1>1. s \in Seq(S)
  BY SeqDef
<1>2. DOMAIN s = 1 .. Len(s) /\ Len(s) \in Nat /\ DOMAIN s = 1 .. n
  BY <1>1, LenProperties
<1> QED BY <1>1, <1>2

\* Every field is written once, and in order.
LEMMA FieldsAreWritten ==
  ASSUME NEW fields, AreNamed(fields)
  PROVE  /\ AreWritten(Ordered(fields), fields)
         /\ Len(Ordered(fields)) = Cardinality(fields)
         /\ Cardinality(fields) \in 0 .. Len(FieldOrder)
<1> DEFINE f == [p \in fields |-> Rank[p[1]]]
           upto == [p \in fields |-> {q \in fields : Rank[q[1]] <= Rank[p[1]]}]
           C == Cardinality(fields)
<1>1. \A p \in fields : Rank[p[1]] \in DOMAIN FieldOrder /\ Rank[p[1]] \in Nat
  BY RankOfNames DEF AreNamed
<1>2. \A p, q \in fields : Rank[p[1]] = Rank[q[1]] => p = q
  BY RankOfNames DEF AreNamed
<1>3. IsFiniteSet(fields) /\ C \in 0 .. Len(FieldOrder)
  <2>1. f \in [fields -> DOMAIN FieldOrder]
    BY <1>1
  <2>2. f \in Injection(fields, DOMAIN FieldOrder)
    BY <1>2, <2>1, Fun_IsInj
  <2> HIDE DEF f
  <2>3. IsFiniteSet(fields) /\ C <= Cardinality(DOMAIN FieldOrder)
    BY <2>2, RankOfNames, FS_Injection
  <2> QED BY <2>3, RankOfNames, FS_CardinalityType
<1>4. \A p \in fields : upto[p] \subseteq fields /\ p \in upto[p]
  BY <1>1
<1>5. ASSUME NEW p \in fields, NEW q \in fields
      PROVE  \/ p = q
             \/ upto[p] \subseteq upto[q] /\ q \notin upto[p]
             \/ upto[q] \subseteq upto[p] /\ p \notin upto[q]
  <2>1. p = q \/ Rank[p[1]] < Rank[q[1]] \/ Rank[q[1]] < Rank[p[1]]
    BY <1>1, <1>2
  <2>2. ASSUME NEW u \in fields, NEW w \in fields, Rank[u[1]] < Rank[w[1]]
        PROVE  upto[u] \subseteq upto[w] /\ w \notin upto[u]
    <3>1. \A r \in fields : Rank[r[1]] <= Rank[u[1]] => Rank[r[1]] <= Rank[w[1]]
      BY <1>1, <2>2
    <3>2. ~(Rank[w[1]] <= Rank[u[1]])
      BY <1>1, <2>2
    <3> QED BY <3>1, <3>2
  <2> QED BY <2>1, <2>2
<1> DEFINE s == Ordered(fields)
<1>6. s = Arranged(fields, upto)
  BY DEF Ordered
<1>7. /\ s \in [1 .. C -> fields] /\ \A p \in fields : \E k \in 1 .. C : s[k] = p
      /\ \A i, j \in 1 .. C : i < j => s[j] \notin upto[s[i]]
  <2> HIDE DEF upto, s
  <2> QED BY <1>3, <1>4, <1>5, <1>6, ArrangedIsAll
<1> HIDE DEF s, C
<1>8. C \in Nat /\ Len(s) = C
  BY <1>3, <1>7, RankOfNames, LengthOf
<1>9. \A i, j \in 1 .. C : i < j => Rank[s[i][1]] < Rank[s[j][1]]
  <2>1. ASSUME NEW i \in 1 .. C, NEW j \in 1 .. C, i < j
        PROVE  Rank[s[i][1]] < Rank[s[j][1]]
    <3>1. s[i] \in fields /\ s[j] \in fields
      BY <1>7
    <3>2. ~(Rank[s[j][1]] <= Rank[s[i][1]])
      BY <1>7, <2>1, <3>1
    <3>3. Rank[s[i][1]] \in Nat /\ Rank[s[j][1]] \in Nat
      BY <1>1, <3>1
    <3> QED BY <3>2, <3>3
  <2> QED BY <2>1
<1>10. AreWritten(s, fields)
  BY <1>7, <1>8, <1>9 DEF AreWritten
<1> QED BY <1>3, <1>8, <1>10 DEF s, C

\* There is no other way of writing them.
LEMMA WrittenOneWay ==
  ASSUME NEW fields, AreNamed(fields), NEW pairs, AreWritten(pairs, fields)
  PROVE  pairs = Ordered(fields) /\ Cardinality(fields) = Len(pairs)
<1> DEFINE n == Len(pairs)
           upto == [p \in fields |-> {q \in fields : Rank[q[1]] <= Rank[p[1]]}]
<1>1. n \in Nat /\ pairs \in [1 .. n -> fields] /\ \A p \in fields : \E i \in 1 .. n : pairs[i] = p
  BY DEF AreWritten
<1>2. \A i, j \in 1 .. n : i < j => Rank[pairs[i][1]] < Rank[pairs[j][1]]
  BY DEF AreWritten
<1>3. \A i \in 1 .. n : pairs[i] \in fields /\ Rank[pairs[i][1]] \in Nat
  BY <1>1, RankOfNames DEF AreNamed
<1> HIDE DEF n
<1>4. \A i, j \in 1 .. n : Rank[pairs[i][1]] <= Rank[pairs[j][1]] <=> i <= j
  <2>1. \A i, j \in 1 .. n : i < j \/ i = j \/ j < i
    BY <1>1
  <2>2. ASSUME NEW i \in 1 .. n, NEW j \in 1 .. n
        PROVE  Rank[pairs[i][1]] <= Rank[pairs[j][1]] <=> i <= j
    <3>1. Rank[pairs[i][1]] \in Nat /\ Rank[pairs[j][1]] \in Nat /\ i \in Nat /\ j \in Nat
      BY <1>3
    <3>2. CASE i < j
      <4>1. Rank[pairs[i][1]] < Rank[pairs[j][1]]
        BY <1>2, <3>2
      <4> QED BY <3>1, <3>2, <4>1
    <3>3. CASE i = j
      BY <3>1, <3>3
    <3>4. CASE j < i
      <4>1. Rank[pairs[j][1]] < Rank[pairs[i][1]]
        BY <1>2, <3>4
      <4> QED BY <3>1, <3>4, <4>1
    <3> QED BY <2>1, <3>2, <3>3, <3>4
  <2> QED BY <2>2
<1>5. \A i, j \in 1 .. n : pairs[i] = pairs[j] => i = j
  <2>1. ASSUME NEW i \in 1 .. n, NEW j \in 1 .. n, pairs[i] = pairs[j] PROVE i = j
    <3>1. i <= j /\ j <= i
      BY <1>3, <1>4, <2>1
    <3> QED BY <3>1
  <2> QED BY <2>1
<1>6. /\ \A x \in fields : upto[x] \subseteq fields
      /\ \A j, k \in 1 .. n : pairs[j] \in upto[pairs[k]] <=> j <= k
  BY <1>3, <1>4
<1>7. \A j, k \in 1 .. n : pairs[j] = pairs[k] => j = k
  BY <1>5
<1> HIDE DEF upto
<1>8. IsThatOrder(n, fields, upto, pairs)
  BY <1>1, <1>6, <1>7 DEF IsThatOrder
<1>9. Cardinality(fields) = n /\ pairs = Arranged(fields, upto)
  BY <1>8, OrderIsUnique
<1> QED BY <1>9 DEF n, upto, Ordered

--------------------------------------------------------------------------------
(* Verdicts.                                                                  *)

\* The verdict of a list of checks is that of the first one that fails.
LEMMA FirstFailed ==
  ASSUME NEW n \in Nat, NEW checks, DOMAIN checks = 1 .. n
  PROVE  \/ First(checks) = "verified" /\ \A i \in 1 .. n : checks[i][2]
         \/ \E i \in 1 .. n : First(checks) = checks[i][1] /\ ~checks[i][2]
<1> DEFINE failed == {i \in DOMAIN checks : ~checks[i][2]}
<1>1. CASE failed = {}
  BY <1>1 DEF First
<1>2. CASE failed # {}
  <2>1. \E x \in failed : \A y \in failed : x <= y
    <3>1. failed \subseteq 1 .. n
      OBVIOUS
    <3> HIDE DEF failed
    <3> QED BY <1>2, <3>1, HasLeast
  <2>2. Min(failed) \in failed
    <3> HIDE DEF failed
    <3> QED BY <2>1 DEF Min
  <2>3. First(checks) = checks[Min(failed)][1]
    BY <1>2 DEF First
  <2> QED BY <2>2, <2>3
<1> QED BY <1>1, <1>2

\* What a reader checks before anything is hashed.
IsReadable(w, k) ==
  /\ k \in Keys /\ ~DecoderPanics(w) /\ Decodes(w) /\ Reencodes(w) /\ IsCanonical(w)
  /\ IsBytes(Lookup(w, "receipt_hash"), 32) /\ IsBytes(Lookup(w, "receipt_signature"), 64)
  /\ IsText(Lookup(w, "signer_kid"))

\* What ends a program that reads a document.
Crashes(w) == DecoderPanics(w) \/ ~Reencodes(w)

LEMMA ReadTells ==
  ASSUME NEW w, NEW k
  PROVE  /\ Read(w, k) = "verified" <=> IsReadable(w, k)
         /\ Read(w, k) = "panic" => Crashes(w)
<1> DEFINE hash == Lookup(w, "receipt_hash")
           signature == Lookup(w, "receipt_signature")
           kid == Lookup(w, "signer_kid")
           checks == <<
        <<"bad_public_key", k \in Keys>>,
        <<"panic", ~DecoderPanics(w)>>,
        <<"decode_error", Decodes(w)>>,
        <<"panic", Reencodes(w)>>,
        <<"not_canonical", IsCanonical(w)>>,
        <<"missing_field", hash # Missing>>, <<"decode_error", IsBytes(hash, 32)>>,
        <<"missing_field", signature # Missing>>, <<"decode_error", IsBytes(signature, 64)>>,
        <<"missing_field", kid # Missing>>, <<"decode_error", IsText(kid)>> >>
<1>1. Read(w, k) = First(checks)
  BY DEF Read
<1>2. DOMAIN checks = 1 .. 11
  OBVIOUS
<1>3. (\A i \in 1 .. 11 : checks[i][2]) <=> IsReadable(w, k)
  <2>1. /\ IsBytes(hash, 32) => hash # Missing
        /\ IsBytes(signature, 64) => signature # Missing
        /\ IsText(kid) => kid # Missing
    BY DEF IsBytes, IsText, Missing
  <2>2. /\ checks[1][2] <=> k \in Keys
        /\ checks[2][2] <=> ~DecoderPanics(w)
        /\ checks[3][2] <=> Decodes(w)
        /\ checks[4][2] <=> Reencodes(w)
        /\ checks[5][2] <=> IsCanonical(w)
        /\ checks[6][2] <=> hash # Missing
        /\ checks[7][2] <=> IsBytes(hash, 32)
        /\ checks[8][2] <=> signature # Missing
        /\ checks[9][2] <=> IsBytes(signature, 64)
        /\ checks[10][2] <=> kid # Missing
        /\ checks[11][2] <=> IsText(kid)
    OBVIOUS
  <2> HIDE DEF checks, hash, signature, kid
  <2>3. \A i \in 1 .. 11 : i = 1 \/ i = 2 \/ i = 3 \/ i = 4 \/ i = 5 \/ i = 6 \/ i = 7 \/ i = 8 \/ i = 9 \/ i = 10
                       \/ i = 11
    OBVIOUS
  <2> QED BY <2>1, <2>2, <2>3 DEF IsReadable, hash, signature, kid
<1>4. \A i \in 1 .. 11 : checks[i][1] # "verified" /\ (checks[i][1] = "panic" => i = 2 \/ i = 4)
  OBVIOUS
<1>5. (checks[2][2] <=> ~DecoderPanics(w)) /\ (checks[4][2] <=> Reencodes(w))
  OBVIOUS
<1> HIDE DEF checks
<1>6. \/ First(checks) = "verified" /\ \A i \in 1 .. 11 : checks[i][2]
      \/ \E i \in 1 .. 11 : First(checks) = checks[i][1] /\ ~checks[i][2]
  BY <1>2, FirstFailed
<1> QED BY <1>1, <1>3, <1>4, <1>5, <1>6 DEF Crashes

\* A receipt verifies when it can be read, and its hash and its signature are
\* those of its two preimages.
LEMMA ReceiptTells ==
  ASSUME NEW w, NEW k
  PROVE  /\ VerifyReceipt(w, k) = "verified" <=>
              /\ IsReadable(w, k)
              /\ Lookup(w, "receipt_hash") = Bytes(32, Blake3(<<"cbor", HashPreimage(w)>>))
              /\ Lookup(w, "receipt_signature") = Bytes(64, Ed25519(k, SigningPreimage(w)))
         /\ VerifyReceipt(w, k) = "panic" => Crashes(w)
<1> DEFINE hashed == Lookup(w, "receipt_hash") = Bytes(32, Blake3(<<"cbor", HashPreimage(w)>>))
           signed == Lookup(w, "receipt_signature") = Bytes(64, Ed25519(k, SigningPreimage(w)))
           checks == << <<"hash_mismatch", hashed>>, <<"bad_signature", signed>> >>
<1>1. VerifyReceipt(w, k) = IF Read(w, k) # "verified" THEN Read(w, k) ELSE First(checks)
  BY DEF VerifyReceipt
<1>2. DOMAIN checks = 1 .. 2 /\ checks[1][1] = "hash_mismatch" /\ checks[2][1] = "bad_signature"
  OBVIOUS
<1>3. (checks[1][2] <=> hashed) /\ (checks[2][2] <=> signed)
  OBVIOUS
<1> HIDE DEF checks, hashed, signed
<1>4. \A i \in 1 .. 2 : i = 1 \/ i = 2
  OBVIOUS
<1>5. \/ First(checks) = "verified" /\ \A i \in 1 .. 2 : checks[i][2]
      \/ \E i \in 1 .. 2 : First(checks) = checks[i][1] /\ ~checks[i][2]
  BY <1>2, FirstFailed
<1>6. First(checks) = "verified" <=> hashed /\ signed
  BY <1>2, <1>3, <1>4, <1>5
<1>7. First(checks) # "panic"
  BY <1>2, <1>4, <1>5
<1> QED BY <1>1, <1>6, <1>7, ReadTells DEF hashed, signed

\* A link verifies when its receipt does and it rests on the one before it.
RestsOn(links, i, kind) ==
  /\ LinkOf(kind, links[i - 1])[2] # Missing
  /\ Lookup(links[i], LinkOf(kind, links[i - 1])[1]) = LinkOf(kind, links[i - 1])[2]

LEMMA LinkTells ==
  ASSUME NEW links, NEW i, NEW k, NEW kind
  PROVE  /\ LinkVerdict(links, i, k, kind) = "verified" <=>
              VerifyReceipt(links[i], k) = "verified" /\ (i = 1 \/ RestsOn(links, i, kind))
         /\ LinkVerdict(links, i, k, kind) = "panic" => Crashes(links[i])
<1> DEFINE receipt == VerifyReceipt(links[i], k)
           linked == i = 1 \/ LinkOf(kind, links[i - 1])[2] # Missing
           same == i = 1 \/ Lookup(links[i], LinkOf(kind, links[i - 1])[1]) = LinkOf(kind, links[i - 1])[2]
           checks == << <<receipt, receipt = "verified">>, <<"missing_field", linked>>,
                        <<"chain_broken", same>> >>
<1>1. LinkVerdict(links, i, k, kind) = First(checks)
  BY DEF LinkVerdict
<1>2. /\ DOMAIN checks = 1 .. 3 /\ checks[1][1] = receipt /\ checks[2][1] = "missing_field"
      /\ checks[3][1] = "chain_broken"
  OBVIOUS
<1>3. (checks[1][2] <=> receipt = "verified") /\ (checks[2][2] <=> linked) /\ (checks[3][2] <=> same)
  OBVIOUS
<1>4. linked /\ same <=> i = 1 \/ RestsOn(links, i, kind)
  BY DEF RestsOn
<1> HIDE DEF checks, linked, same, receipt
<1>5. \A j \in 1 .. 3 : j = 1 \/ j = 2 \/ j = 3
  OBVIOUS
<1>6. \/ First(checks) = "verified" /\ \A j \in 1 .. 3 : checks[j][2]
      \/ \E j \in 1 .. 3 : First(checks) = checks[j][1] /\ ~checks[j][2]
  BY <1>2, FirstFailed
<1>7. First(checks) = "verified" <=> receipt = "verified" /\ linked /\ same
  BY <1>2, <1>3, <1>5, <1>6
<1>8. First(checks) = "panic" => receipt = "panic"
  BY <1>2, <1>3, <1>5, <1>6
<1> QED BY <1>1, <1>4, <1>7, <1>8, ReceiptTells DEF receipt

\* A history verifies when each of its links does.
LEMMA HistoryTells ==
  ASSUME NEW n \in Nat, NEW links, DOMAIN links = 1 .. n, NEW k, NEW kind
  PROVE  /\ VerifyHistory(links, k, kind) = "verified" <=>
              \A i \in 1 .. n : LinkVerdict(links, i, k, kind) = "verified"
         /\ VerifyHistory(links, k, kind) = "panic" => \E i \in 1 .. n : Crashes(links[i])
<1> DEFINE verdicts == [i \in DOMAIN links |-> LinkVerdict(links, i, k, kind)]
           checks == [i \in DOMAIN links |-> <<verdicts[i], verdicts[i] = "verified">>]
<1>1. VerifyHistory(links, k, kind) = First(checks)
  BY DEF VerifyHistory
<1>2. DOMAIN checks = 1 .. n
  OBVIOUS
<1>3. \A i \in 1 .. n : checks[i][1] = LinkVerdict(links, i, k, kind)
  OBVIOUS
<1>4. \A i \in 1 .. n : checks[i][2] <=> LinkVerdict(links, i, k, kind) = "verified"
  OBVIOUS
<1> HIDE DEF checks
<1>5. \/ First(checks) = "verified" /\ \A i \in 1 .. n : checks[i][2]
      \/ \E i \in 1 .. n : First(checks) = checks[i][1] /\ ~checks[i][2]
  BY <1>2, FirstFailed
<1> QED BY <1>1, <1>3, <1>4, <1>5, LinkTells

--------------------------------------------------------------------------------
(* Reading what is written in order.                                          *)

\* The written pairs are the fields, in increasing order, each at one place.
LEMMA PlacesOfFields ==
  ASSUME NEW fields, AreNamed(fields), NEW pairs, AreWritten(pairs, fields)
  PROVE  /\ DOMAIN pairs = 1 .. Len(pairs) /\ Len(pairs) \in Nat
         /\ \A i \in DOMAIN pairs : pairs[i] \in fields
         /\ \A p \in fields : \E i \in DOMAIN pairs : pairs[i] = p
         /\ \A i, j \in DOMAIN pairs : pairs[i][1] = pairs[j][1] => i = j
         /\ InOrder(pairs) /\ ToSet(pairs) = fields
<1>1. /\ DOMAIN pairs = 1 .. Len(pairs) /\ Len(pairs) \in Nat
      /\ \A i \in DOMAIN pairs : pairs[i] \in fields
      /\ \A p \in fields : \E i \in DOMAIN pairs : pairs[i] = p
  BY DEF AreWritten
<1>2. \A i, j \in DOMAIN pairs : i < j => Rank[pairs[i][1]] < Rank[pairs[j][1]]
  BY <1>1 DEF AreWritten
<1>3. \A i \in DOMAIN pairs : Rank[pairs[i][1]] \in Nat
  BY <1>1, RankOfNames DEF AreNamed
<1>4. ASSUME NEW i \in DOMAIN pairs, NEW j \in DOMAIN pairs, pairs[i][1] = pairs[j][1]
      PROVE  i = j
  <2>1. ~(i < j) /\ ~(j < i)
    BY <1>2, <1>3, <1>4
  <2> QED BY <1>1, <2>1
<1>5. InOrder(pairs)
  <2>1. ASSUME NEW i \in 1 .. Len(pairs) - 1 PROVE Rank[pairs[i][1]] <= Rank[pairs[i + 1][1]]
    <3>1. i \in DOMAIN pairs /\ i + 1 \in DOMAIN pairs /\ i < i + 1
      BY <1>1
    <3> QED BY <1>2, <1>3, <3>1
  <2> QED BY <2>1 DEF InOrder
<1>6. ToSet(pairs) = fields
  BY <1>1 DEF ToSet
<1> QED BY <1>1, <1>4, <1>5, <1>6

\* A field is found under its name.
LEMMA LookupOfField ==
  ASSUME NEW fields, AreNamed(fields), NEW w, AreWritten(w.pairs, fields), NEW name
  PROVE  /\ \A p \in fields : p[1] = name => Lookup(w, name) = p[2]
         /\ (\A p \in fields : p[1] # name) => Lookup(w, name) = Missing
<1> DEFINE found == {i \in DOMAIN w.pairs : w.pairs[i][1] = name}
<1>1. ASSUME NEW p \in fields, p[1] = name PROVE Lookup(w, name) = p[2]
  <2>1. PICK i \in DOMAIN w.pairs : w.pairs[i] = p
    BY PlacesOfFields
  <2>2. found = {i}
    BY <1>1, <2>1, PlacesOfFields
  <2>3. i \in Nat
    BY PlacesOfFields
  <2>4. Min({i}) = i
    BY <2>3 DEF Min
  <2> QED BY <2>1, <2>2, <2>4 DEF Lookup
<1>2. ASSUME \A p \in fields : p[1] # name PROVE Lookup(w, name) = Missing
  <2>1. found = {}
    BY <1>2, PlacesOfFields
  <2> QED BY <2>1 DEF Lookup
<1> QED BY <1>1, <1>2

\* Documents are small enough for the largest head.
LEMMA SizeIsWritten ==
  ASSUME NEW fields, AreNamed(fields)
  PROVE  LET head == WriteHead(Cardinality(fields))
         IN  /\ head \in Heads /\ head.arg = Cardinality(fields) /\ AcceptsHead(head)
             /\ ~(head.arg > Capacity)
<1>1. Cardinality(fields) \in 0 .. Len(FieldOrder) /\ Len(FieldOrder) \in Nat
  BY FieldsAreWritten, RankOfNames
<1>2. Limit[4] \in Nat
  BY LimitsGrow DEF Widths
<1>3. Cardinality(fields) \in 0 .. (Limit[4] - 1) /\ ~(Cardinality(fields) > Capacity)
  BY <1>1, <1>2, VerifierAssumption
<1> QED BY <1>3, HeadsRoundTrip

\* What is encoded is decoded, and encoded again as it was.
LEMMA EncodeIsCanonical ==
  ASSUME NEW fields, AreNamed(fields)
  PROVE  LET w == Encode(fields)
         IN  /\ AreWritten(w.pairs, fields) /\ w.head \in Heads /\ AcceptsHead(w.head)
             /\ w.head.arg = Len(w.pairs)
             /\ IsCanonical(w)
             /\ (\A p \in fields : IsData(p[2])) =>
                  Decodes(w) /\ Reencodes(w) /\ ~DecoderPanics(w)
<1> DEFINE w == Encode(fields)
<1>1. /\ w = [head |-> w.head, pairs |-> w.pairs] /\ w.pairs = Ordered(fields)
      /\ w.head = WriteHead(Cardinality(fields))
  BY DEF Encode
<1> HIDE DEF w
<1>2. AreWritten(w.pairs, fields) /\ Len(w.pairs) = Cardinality(fields)
  BY <1>1, FieldsAreWritten
<1>3. w.head \in Heads /\ w.head.arg = Len(w.pairs) /\ AcceptsHead(w.head)
  BY <1>1, <1>2, SizeIsWritten
<1>4. IsCanonical(w)
  BY <1>1, <1>2, PlacesOfFields DEF IsCanonical, Encoded
<1>5. ASSUME \A p \in fields : IsData(p[2])
      PROVE  Decodes(w) /\ Reencodes(w) /\ ~DecoderPanics(w)
  <2>1. \A i \in DOMAIN w.pairs : IsData(w.pairs[i][2])
    BY <1>2, <1>5, PlacesOfFields
  <2>2. Decodes(w) /\ Reencodes(w)
    BY <1>3, <2>1 DEF Decodes, Reencodes, AcceptsValue, IsData
  <2>3. \A i \in DOMAIN w.pairs : w.pairs[i][2] # Overload
    BY <2>1 DEF Overload, IsData
  <2>4. ~(w.head.arg > Capacity)
    BY <1>1, <1>2, <1>3, SizeIsWritten, VerifierAssumption
  <2> QED BY <2>2, <2>3, <2>4 DEF DecoderPanics
<1>6. /\ AreWritten(w.pairs, fields) /\ w.head \in Heads /\ AcceptsHead(w.head)
      /\ w.head.arg = Len(w.pairs) /\ IsCanonical(w)
      /\ (\A p \in fields : IsData(p[2])) =>
           Decodes(w) /\ Reencodes(w) /\ ~DecoderPanics(w)
  BY <1>2, <1>3, <1>4, <1>5
<1> QED BY <1>6 DEF w

\* A field with its value neutralised if it is named, and all fields so.
ZeroOf(p, names) == IF p[1] \in names THEN <<p[1], Neutral(p[2])>> ELSE p
ZeroesOf(fields, names) == {ZeroOf(p, names) : p \in fields}

\* Neutralising fields leaves them where they are.
LEMMA ZeroFieldsIsEncode ==
  ASSUME NEW fields, AreNamed(fields), NEW w, AreWritten(w.pairs, fields),
         w = [head |-> w.head, pairs |-> w.pairs], NEW names
  PROVE  ZeroFields(w, names) = Encode(ZeroesOf(fields, names)) /\ AreNamed(ZeroesOf(fields, names))
<1> DEFINE pairs == [i \in DOMAIN w.pairs |->
     IF w.pairs[i][1] \in names THEN <<w.pairs[i][1], Neutral(w.pairs[i][2])>> ELSE w.pairs[i]]
           zeroes == ZeroesOf(fields, names)
           n == Len(w.pairs)
<1>1. ZeroFields(w, names) = Encoded([head |-> w.head, pairs |-> pairs])
  <2>1. [w EXCEPT !.pairs = pairs] = [head |-> w.head, pairs |-> pairs]
    OBVIOUS
  <2> QED BY <2>1 DEF ZeroFields
<1>2. n \in Nat /\ DOMAIN w.pairs = 1 .. n
  BY PlacesOfFields
<1>3. \A i \in 1 .. n : pairs[i] = ZeroOf(w.pairs[i], names) /\ pairs[i][1] = w.pairs[i][1]
  BY <1>2 DEF ZeroOf
<1>4. \A i \in 1 .. n : pairs[i] \in zeroes
  BY <1>2, <1>3, PlacesOfFields DEF ZeroesOf
<1>5. pairs \in [1 .. n -> zeroes]
  BY <1>2, <1>4
<1>6. Len(pairs) = n
  <2> HIDE DEF pairs, zeroes, n
  <2> QED BY <1>2, <1>5, LengthOf
<1>7. \A p \in zeroes : \E i \in 1 .. n : pairs[i] = p
  <2>1. ASSUME NEW p \in zeroes PROVE \E i \in 1 .. n : pairs[i] = p
    <3>1. PICK q \in fields : p = ZeroOf(q, names)
      BY DEF ZeroesOf
    <3>2. PICK i \in 1 .. n : w.pairs[i] = q
      BY <1>2, PlacesOfFields
    <3> QED BY <1>3, <3>1, <3>2
  <2> QED BY <2>1
<1>8. AreNamed(zeroes)
  <2>1. \A p \in fields : ZeroOf(p, names)[1] = p[1]
    BY DEF ZeroOf
  <2> QED BY <2>1 DEF AreNamed, ZeroesOf
<1> HIDE DEF pairs, zeroes
<1>9. AreWritten(pairs, zeroes)
  <2>1. \A i, j \in 1 .. n : i < j => Rank[w.pairs[i][1]] < Rank[w.pairs[j][1]]
    BY DEF AreWritten
  <2>2. \A i, j \in 1 .. n : i < j => Rank[pairs[i][1]] < Rank[pairs[j][1]]
    BY <1>3, <2>1
  <2> QED BY <1>2, <1>5, <1>6, <1>7, <2>2 DEF AreWritten
<1>10. pairs = Ordered(zeroes) /\ Cardinality(zeroes) = Len(pairs) /\ InOrder(pairs)
  BY <1>8, <1>9, WrittenOneWay, PlacesOfFields
<1> QED BY <1>1, <1>8, <1>10 DEF Encoded, Encode, zeroes

--------------------------------------------------------------------------------
(* Receipts.                                                                  *)

LEMMA SharedAreNames == Shared \subseteq ToSet(FieldOrder)
<1>1. FieldOrder[15] = "receipt_hash" /\ FieldOrder[27] = "receipt_signature" /\ FieldOrder[8] = "signer_kid"
  BY DEF FieldOrder
<1>2. 15 \in DOMAIN FieldOrder /\ 27 \in DOMAIN FieldOrder /\ 8 \in DOMAIN FieldOrder
  BY DEF FieldOrder
<1> QED BY <1>1, <1>2 DEF ToSet, Shared

\* A body and the three fields beside it.
Whole(body, hash, signature, kid) == body \cup Trio(hash, signature, kid)

LEMMA FieldsOfReceipt ==
  ASSUME NEW body, IsBody(body), NEW hash, NEW signature, NEW kid
  PROVE  LET fields == Whole(body, hash, signature, kid)
         IN  /\ AreNamed(fields)
             /\ {p \in fields : p[1] \notin Shared} = body
             /\ \A p \in fields : p \in body \/ p = <<"receipt_hash", hash>>
                                  \/ p = <<"receipt_signature", signature>> \/ p = <<"signer_kid", kid>>
             /\ <<"receipt_hash", hash>> \in fields /\ <<"receipt_signature", signature>> \in fields
             /\ <<"signer_kid", kid>> \in fields
<1> DEFINE fields == Whole(body, hash, signature, kid)
<1>1. \A p \in fields : p \in body \/ p = <<"receipt_hash", hash>>
                        \/ p = <<"receipt_signature", signature>> \/ p = <<"signer_kid", kid>>
  BY DEF Whole, Trio
<1>2. /\ <<"receipt_hash", hash>> \in fields /\ <<"receipt_signature", signature>> \in fields
      /\ <<"signer_kid", kid>> \in fields /\ body \subseteq fields
  BY DEF Whole, Trio
<1>3. \A p \in body : p[1] \in ToSet(FieldOrder) /\ p[1] \notin Shared
  BY DEF IsBody
<1>4. "receipt_hash" \in Shared /\ "receipt_signature" \in Shared /\ "signer_kid" \in Shared
  BY DEF Shared
<1> HIDE DEF fields
<1>5. {p \in fields : p[1] \notin Shared} = body
  BY <1>1, <1>2, <1>3, <1>4
<1>6. \A p \in fields : p[1] \in ToSet(FieldOrder)
  BY <1>1, <1>3, <1>4, SharedAreNames
<1>7. \A p, q \in fields : p[1] = q[1] => p = q
  <2>1. \A p, q \in body : p[1] = q[1] => p = q
    BY DEF IsBody
  <2> QED BY <1>1, <1>3, <1>4, <2>1
<1>8. AreNamed(fields)
  BY <1>6, <1>7 DEF AreNamed
<1> QED BY <1>1, <1>2, <1>5, <1>8 DEF fields

\* The two preimages neutralise three fields and one.
LEMMA NeutralFields ==
  ASSUME NEW body, IsBody(body), NEW hash, NEW signature, NEW kid
  PROVE  LET fields == Whole(body, hash, signature, kid)
         IN  /\ ZeroesOf(fields, Shared) = Whole(body, Neutral(hash), Neutral(signature), Neutral(kid))
             /\ ZeroesOf(fields, {"receipt_signature"}) = Whole(body, hash, Neutral(signature), kid)
<1> DEFINE fields == Whole(body, hash, signature, kid)
<1>1. \A p \in fields : p \in body \/ p = <<"receipt_hash", hash>>
                        \/ p = <<"receipt_signature", signature>> \/ p = <<"signer_kid", kid>>
  BY DEF Whole, Trio
<1>2. /\ <<"receipt_hash", hash>> \in fields /\ <<"receipt_signature", signature>> \in fields
      /\ <<"signer_kid", kid>> \in fields /\ body \subseteq fields
  BY DEF Whole, Trio
<1>3. \A p \in body : p[1] \notin Shared
  BY DEF IsBody
<1>4. \A names : names \subseteq Shared => \A p \in body : ZeroOf(p, names) = p
  BY <1>3 DEF ZeroOf
<1>5. /\ ZeroOf(<<"receipt_hash", hash>>, Shared) = <<"receipt_hash", Neutral(hash)>>
      /\ ZeroOf(<<"receipt_signature", signature>>, Shared) = <<"receipt_signature", Neutral(signature)>>
      /\ ZeroOf(<<"signer_kid", kid>>, Shared) = <<"signer_kid", Neutral(kid)>>
  BY DEF ZeroOf, Shared
<1>6. /\ ZeroOf(<<"receipt_hash", hash>>, {"receipt_signature"}) = <<"receipt_hash", hash>>
      /\ ZeroOf(<<"receipt_signature", signature>>, {"receipt_signature"}) =
           <<"receipt_signature", Neutral(signature)>>
      /\ ZeroOf(<<"signer_kid", kid>>, {"receipt_signature"}) = <<"signer_kid", kid>>
  BY DEF ZeroOf
<1>7. {"receipt_signature"} \subseteq Shared
  BY DEF Shared
<1> HIDE DEF fields
<1>8. ZeroesOf(fields, Shared) = Whole(body, Neutral(hash), Neutral(signature), Neutral(kid))
  BY <1>1, <1>2, <1>4, <1>5 DEF ZeroesOf, Whole, Trio
<1>9. ZeroesOf(fields, {"receipt_signature"}) = Whole(body, hash, Neutral(signature), kid)
  BY <1>1, <1>2, <1>4, <1>6, <1>7 DEF ZeroesOf, Whole, Trio
<1> QED BY <1>8, <1>9 DEF fields

\* A receipt as it is published, signed or not.
SignatureOf(body, k) ==
  IF k = "none" THEN Zeros(64) ELSE Bytes(64, Ed25519(k, SigningBytes(body, ReceiptHash(body), Kid)))
FieldsOf(body, k) == Whole(body, Bytes(32, ReceiptHash(body)), SignatureOf(body, k), Kid)
Published(body, k) == IF k = "none" THEN UnsignedReceipt(body) ELSE SignedReceipt(body, k)

\* What can be read of a published receipt.
LEMMA PublishedReceipt ==
  ASSUME NEW body, IsBody(body), NEW k
  PROVE  LET w == Published(body, k)
         IN  /\ w = Encode(FieldsOf(body, k)) /\ AreNamed(FieldsOf(body, k))
             /\ AreWritten(w.pairs, FieldsOf(body, k))
             /\ ToSet(w.pairs) = FieldsOf(body, k) /\ BodyOf(w) = body
             /\ \A name, v : <<name, v>> \in FieldsOf(body, k) => FieldOf(w, name) = v
             /\ w.head \in Heads /\ AcceptsHead(w.head) /\ IsCanonical(w)
             /\ Decodes(w) /\ Reencodes(w) /\ ~DecoderPanics(w)
             /\ Lookup(w, "receipt_hash") = Bytes(32, ReceiptHash(body))
             /\ Lookup(w, "receipt_signature") = SignatureOf(body, k)
             /\ Lookup(w, "signer_kid") = Kid
             /\ \A p \in body : Lookup(w, p[1]) = p[2]
             /\ \A name \in ToSet(FieldOrder) \ Shared :
                  (\A p \in body : p[1] # name) => Lookup(w, name) = Missing
<1> DEFINE w == Published(body, k)
           fields == FieldsOf(body, k)
<1>1. w = Encode(fields)
  BY DEF Published, FieldsOf, Whole, SignatureOf, UnsignedReceipt, SignedReceipt
<1>2. /\ AreNamed(fields)
      /\ \A p \in fields : p \in body \/ p = <<"receipt_hash", Bytes(32, ReceiptHash(body))>>
                           \/ p = <<"receipt_signature", SignatureOf(body, k)>> \/ p = <<"signer_kid", Kid>>
      /\ <<"receipt_hash", Bytes(32, ReceiptHash(body))>> \in fields
      /\ <<"receipt_signature", SignatureOf(body, k)>> \in fields
      /\ <<"signer_kid", Kid>> \in fields /\ body \subseteq fields
      /\ {p \in fields : p[1] \notin Shared} = body
  BY FieldsOfReceipt DEF FieldsOf
<1>3. \A p \in fields : IsData(p[2])
  <2>1. \A p \in body : IsData(p[2])
    BY DEF IsBody
  <2> QED BY <1>2, <2>1 DEF IsData, Bytes, Zeros, SignatureOf, Kid, Text
<1> HIDE DEF w, fields
<1>4. /\ AreWritten(w.pairs, fields) /\ w.head \in Heads /\ AcceptsHead(w.head) /\ IsCanonical(w)
      /\ Decodes(w) /\ Reencodes(w) /\ ~DecoderPanics(w)
  BY <1>1, <1>2, <1>3, EncodeIsCanonical
<1>5. \A name, v : <<name, v>> \in fields => Lookup(w, name) = v
  BY <1>2, <1>4, LookupOfField
<1>6. /\ Lookup(w, "receipt_hash") = Bytes(32, ReceiptHash(body))
      /\ Lookup(w, "receipt_signature") = SignatureOf(body, k)
      /\ Lookup(w, "signer_kid") = Kid
  BY <1>2, <1>5
<1>7. \A p \in body : Lookup(w, p[1]) = p[2]
  BY <1>2, <1>4, LookupOfField
<1>8. \A name \in ToSet(FieldOrder) \ Shared :
        (\A p \in body : p[1] # name) => Lookup(w, name) = Missing
  BY <1>2, <1>4, LookupOfField DEF Shared
<1>9. ToSet(w.pairs) = fields /\ BodyOf(w) = body
  <2>1. ToSet(w.pairs) = fields
    BY <1>2, <1>4, PlacesOfFields
  <2> QED BY <1>2, <2>1 DEF BodyOf
<1>10. \A name, v : <<name, v>> \in fields => FieldOf(w, name) = v
  <2>1. ASSUME NEW name, NEW v, <<name, v>> \in fields PROVE FieldOf(w, name) = v
    <3>1. \A p \in fields : p[1] = name => p = <<name, v>>
      BY <1>2, <2>1 DEF AreNamed
    <3> QED BY <1>9, <2>1, <3>1 DEF FieldOf
  <2> QED BY <2>1
<1> QED BY <1>1, <1>2, <1>4, <1>6, <1>7, <1>8, <1>9, <1>10 DEF w, fields

\* What the registry has signed verifies, by its fields and by its bytes.
LEMMA SignedVerifies ==
  ASSUME NEW body, IsBody(body), NEW k \in Keys
  PROVE  LET w == Published(body, k)
         IN  VerifyReceipt(w, k) = "verified" /\ TypedVerifies(w, k)
<1> DEFINE w == Published(body, k)
           hash == Bytes(32, ReceiptHash(body))
           signature == SignatureOf(body, k)
<1>1. k # "none" /\ signature = Bytes(64, Ed25519(k, SigningBytes(body, ReceiptHash(body), Kid)))
  BY VerifierAssumption DEF SignatureOf
<1>2. Neutral(hash) = Zeros(32) /\ Neutral(signature) = Zeros(64) /\ Neutral(Kid) = Null
  BY <1>1 DEF Neutral, Bytes, Zeros, Kid, Text
<1>3. /\ w = [head |-> w.head, pairs |-> w.pairs] /\ AreWritten(w.pairs, FieldsOf(body, k))
      /\ AreNamed(FieldsOf(body, k)) /\ IsCanonical(w)
      /\ Decodes(w) /\ Reencodes(w) /\ ~DecoderPanics(w)
      /\ Lookup(w, "receipt_hash") = hash /\ Lookup(w, "receipt_signature") = signature
      /\ Lookup(w, "signer_kid") = Kid
  <2>1. w = Encode(FieldsOf(body, k))
    BY PublishedReceipt
  <2>2. w = [head |-> w.head, pairs |-> w.pairs]
    BY <2>1 DEF Encode
  <2> QED BY <2>2, PublishedReceipt
<1> HIDE DEF w
<1>4. FieldsOf(body, k) = Whole(body, hash, signature, Kid)
  BY DEF FieldsOf
<1>5. /\ HashPreimage(w) = Encode(Zeroed(body))
      /\ SigningPreimage(w) = SigningBytes(body, ReceiptHash(body), Kid)
  <2>1. /\ HashPreimage(w) = Encode(ZeroesOf(FieldsOf(body, k), Shared))
        /\ SigningPreimage(w) = Encode(ZeroesOf(FieldsOf(body, k), {"receipt_signature"}))
    BY <1>3, ZeroFieldsIsEncode DEF HashPreimage, SigningPreimage
  <2> HIDE DEF hash, signature
  <2>2. /\ ZeroesOf(FieldsOf(body, k), Shared) = Whole(body, Zeros(32), Zeros(64), Null)
        /\ ZeroesOf(FieldsOf(body, k), {"receipt_signature"}) = Whole(body, hash, Zeros(64), Kid)
    BY <1>2, <1>4, NeutralFields
  <2> QED BY <2>1, <2>2 DEF SigningBytes, Zeroed, Whole, hash
<1>6. IsReadable(w, k)
  BY <1>1, <1>3 DEF IsReadable, IsBytes, IsText, Bytes, Kid, Text
<1>7. VerifyReceipt(w, k) = "verified"
  BY <1>1, <1>3, <1>5, <1>6, ReceiptTells DEF ReceiptHash
<1>8. TypedVerifies(w, k)
  <2>1. BodyOf(w) = body
    BY PublishedReceipt DEF w
  <2>2. \A name, v : <<name, v>> \in FieldsOf(body, k) => FieldOf(w, name) = v
    BY PublishedReceipt DEF w
  <2>3. /\ FieldOf(w, "receipt_hash") = hash /\ FieldOf(w, "receipt_signature") = signature
        /\ FieldOf(w, "signer_kid") = Kid
    <3> HIDE DEF hash, signature
    <3>1. /\ <<"receipt_hash", hash>> \in FieldsOf(body, k) /\ <<"signer_kid", Kid>> \in FieldsOf(body, k)
          /\ <<"receipt_signature", signature>> \in FieldsOf(body, k)
      BY <1>4 DEF Whole, Trio
    <3> QED BY <2>2, <3>1
  <2>4. hash[3] = ReceiptHash(body)
    BY DEF Bytes
  <2> QED BY <1>1, <2>1, <2>3, <2>4 DEF TypedVerifies
<1> QED BY <1>7, <1>8 DEF w

--------------------------------------------------------------------------------
(* What verifies was signed.                                                  *)

\* A head and pairs of a name and a value, in any order.
IsDocument(w) ==
  /\ w = [head |-> w.head, pairs |-> w.pairs] /\ w.head \in Heads
  /\ \E S : w.pairs \in Seq(S)
  /\ \A i \in 1 .. Len(w.pairs) :
       w.pairs[i] = <<w.pairs[i][1], w.pairs[i][2]>> /\ w.pairs[i][1] \in ToSet(FieldOrder)

LEMMA PairsOfDocument ==
  ASSUME NEW w, IsDocument(w)
  PROVE  /\ Len(w.pairs) \in Nat /\ DOMAIN w.pairs = 1 .. Len(w.pairs)
         /\ \A i \in 1 .. Len(w.pairs) :
              w.pairs[i][1] \in ToSet(FieldOrder) /\ Rank[w.pairs[i][1]] \in Nat
<1>1. PICK S : w.pairs \in Seq(S)
  BY DEF IsDocument
<1>2. Len(w.pairs) \in Nat /\ DOMAIN w.pairs = 1 .. Len(w.pairs)
  BY <1>1, LenProperties
<1> QED BY <1>2, RankOfNames DEF IsDocument

\* Sorting the pairs puts them in order.
LEMMA SortedIsInOrder ==
  ASSUME NEW w, IsDocument(w)
  PROVE  InOrder(Sorted(w.pairs))
<1> DEFINE pairs == w.pairs
           n == Len(pairs)
           upto == [i \in DOMAIN pairs |->
                      {j \in DOMAIN pairs : \/ Rank[pairs[j][1]] < Rank[pairs[i][1]]
                                            \/ pairs[j][1] = pairs[i][1] /\ j <= i}]
           order == Arranged(1 .. n, upto)
<1>1. n \in Nat /\ DOMAIN pairs = 1 .. n
  BY PairsOfDocument
<1>2. \A i \in 1 .. n : pairs[i][1] \in ToSet(FieldOrder) /\ Rank[pairs[i][1]] \in Nat
  BY PairsOfDocument
<1>3. \A i, j \in 1 .. n : Rank[pairs[i][1]] = Rank[pairs[j][1]] => pairs[i][1] = pairs[j][1]
  BY <1>2, RankOfNames
<1> HIDE DEF pairs, n
<1>4. \A i \in 1 .. n : upto[i] \subseteq 1 .. n /\ i \in upto[i]
  BY <1>1
<1>5. ASSUME NEW i \in 1 .. n, NEW j \in 1 .. n
      PROVE  \/ i = j
             \/ upto[i] \subseteq upto[j] /\ j \notin upto[i]
             \/ upto[j] \subseteq upto[i] /\ i \notin upto[j]
  <2>1. ASSUME NEW u \in 1 .. n, NEW v \in 1 .. n,
               \/ Rank[pairs[u][1]] < Rank[pairs[v][1]]
               \/ pairs[u][1] = pairs[v][1] /\ u < v
        PROVE  upto[u] \subseteq upto[v] /\ v \notin upto[u]
    <3>1. Rank[pairs[u][1]] \in Nat /\ Rank[pairs[v][1]] \in Nat
      BY <1>2
    <3>2. ASSUME NEW x \in upto[u] PROVE x \in upto[v]
      <4>1. x \in 1 .. n /\ Rank[pairs[x][1]] \in Nat
        BY <1>1, <1>2, <3>2
      <4> QED BY <1>1, <2>1, <3>1, <3>2, <4>1
    <3>3. v \notin upto[u]
      BY <1>1, <2>1, <3>1
    <3> QED BY <3>2, <3>3
  <2>2. \/ i = j
        \/ Rank[pairs[i][1]] < Rank[pairs[j][1]] \/ (pairs[i][1] = pairs[j][1] /\ i < j)
        \/ Rank[pairs[j][1]] < Rank[pairs[i][1]] \/ (pairs[j][1] = pairs[i][1] /\ j < i)
    BY <1>1, <1>2, <1>3
  <2> QED BY <2>1, <2>2
<1>6. IsFiniteSet(1 .. n) /\ Cardinality(1 .. n) = n
  <2>1. IsFiniteSet(1 .. n) /\ Cardinality(1 .. n) = IF 1 > n THEN 0 ELSE n - 1 + 1
    BY <1>1, FS_Interval
  <2> QED BY <1>1, <2>1
<1>7. /\ order \in [1 .. n -> 1 .. n]
      /\ \A i, j \in 1 .. n : i < j => order[j] \notin upto[order[i]]
  <2> HIDE DEF upto
  <2> QED BY <1>4, <1>5, <1>6, ArrangedIsAll
<1>8. Sorted(pairs) = [k \in 1 .. n |-> pairs[order[k]]]
  BY <1>1 DEF Sorted
<1>9. Len(Sorted(pairs)) = n
  <2> DEFINE S == {pairs[i] : i \in 1 .. n}
  <2>2. \A k \in 1 .. n : pairs[order[k]] \in S
    <3> HIDE DEF order
    <3> QED BY <1>7
  <2> HIDE DEF order, S
  <2>1. Sorted(pairs) \in [1 .. n -> S]
    BY <1>8, <2>2
  <2> QED BY <1>1, <2>1, LengthOf
<1>10. ASSUME NEW k \in 1 .. n - 1
       PROVE  Rank[pairs[order[k]][1]] <= Rank[pairs[order[k + 1]][1]]
  <2>1. k \in 1 .. n /\ k + 1 \in 1 .. n /\ k < k + 1
    BY <1>1
  <2>2. order[k] \in 1 .. n /\ order[k + 1] \in 1 .. n /\ order[k + 1] \notin upto[order[k]]
    BY <1>7, <2>1
  <2>3. ~(Rank[pairs[order[k + 1]][1]] < Rank[pairs[order[k]][1]])
    BY <1>1, <2>2
  <2>4. Rank[pairs[order[k]][1]] \in Nat /\ Rank[pairs[order[k + 1]][1]] \in Nat
    BY <1>2, <2>2
  <2> HIDE DEF order, upto
  <2> QED BY <2>3, <2>4
<1> HIDE DEF order
<1>11. \A k \in 1 .. n - 1 : Rank[Sorted(pairs)[k][1]] <= Rank[Sorted(pairs)[k + 1][1]]
  <2>1. \A k \in 1 .. n - 1 : k \in 1 .. n /\ k + 1 \in 1 .. n
    BY <1>1
  <2> QED BY <1>8, <1>10, <2>1
<1> QED BY <1>9, <1>11 DEF InOrder, pairs

\* A canonical document has its pairs in order, and their number in its head.
LEMMA CanonicalIsInOrder ==
  ASSUME NEW w, IsDocument(w), IsCanonical(w)
  PROVE  InOrder(w.pairs) /\ w.head = WriteHead(Len(w.pairs))
<1>1. w.head = WriteHead(Len(w.pairs)) /\ (InOrder(w.pairs) \/ w.pairs = Sorted(w.pairs))
  BY DEF IsCanonical, Encoded
<1> QED BY <1>1, SortedIsInOrder

\* A canonical document that the same bytes were signed for is the published one.
LEMMA VerifiedIsPublished ==
  ASSUME NEW w, IsDocument(w), NEW k, VerifyReceipt(w, k) = "verified",
         NEW body, IsBody(body), NEW j \in Keys, Lookup(w, "receipt_signature") = SignatureOf(body, j)
  PROVE  w = Published(body, k) /\ j = k
<1> DEFINE signature == SignatureOf(body, j)
           hash == Bytes(32, ReceiptHash(body))
           blank == Whole(body, hash, Zeros(64), Kid)
           fields == FieldsOf(body, j)
           n == Len(w.pairs)
           pairs == [i \in DOMAIN w.pairs |->
             IF w.pairs[i][1] \in {"receipt_signature"}
             THEN <<w.pairs[i][1], Neutral(w.pairs[i][2])>> ELSE w.pairs[i]]
<1>1. /\ k \in Keys /\ IsCanonical(w)
      /\ Lookup(w, "receipt_signature") = Bytes(64, Ed25519(k, SigningPreimage(w)))
  BY ReceiptTells DEF IsReadable
<1>2. j # "none" /\ signature = Bytes(64, Ed25519(j, SigningBytes(body, ReceiptHash(body), Kid)))
  BY VerifierAssumption DEF SignatureOf
<1>3. j = k /\ SigningPreimage(w) = Encode(blank)
  BY <1>1, <1>2 DEF Bytes, Ed25519, SigningBytes, Whole
<1>4. /\ n \in Nat /\ DOMAIN w.pairs = 1 .. n
      /\ InOrder(w.pairs) /\ w.head = WriteHead(n)
  BY <1>1, PairsOfDocument, CanonicalIsInOrder
<1>5. \A i \in 1 .. n : pairs[i][1] = w.pairs[i][1]
  BY <1>4
<1>6. Len(pairs) = n
  <2>1. pairs \in [1 .. n -> {pairs[i] : i \in 1 .. n}]
    BY <1>4
  <2> HIDE DEF pairs, n
  <2> QED BY <1>4, <2>1, LengthOf
<1>7. InOrder(pairs)
  <2>1. \A i \in 1 .. n - 1 : i \in 1 .. n /\ i + 1 \in 1 .. n
    BY <1>4
  <2> HIDE DEF pairs
  <2> QED BY <1>4, <1>5, <1>6, <2>1 DEF InOrder
<1>8. SigningPreimage(w) = [head |-> WriteHead(n), pairs |-> pairs]
  <2>1. [w EXCEPT !.pairs = pairs] = [head |-> w.head, pairs |-> pairs]
    <3>1. w = [head |-> w.head, pairs |-> w.pairs]
      BY DEF IsDocument
    <3> HIDE DEF pairs
    <3> QED BY <3>1
  <2>2. SigningPreimage(w) = Encoded([head |-> w.head, pairs |-> pairs])
    BY <2>1 DEF SigningPreimage, ZeroFields
  <2> HIDE DEF pairs
  <2> QED BY <1>6, <1>7, <2>2 DEF Encoded
<1>9. AreNamed(blank)
  <2>1. \A h, s, i : AreNamed(Whole(body, h, s, i))
    BY FieldsOfReceipt
  <2> QED BY <2>1
<1>10. AreWritten(pairs, blank)
  <2> HIDE DEF pairs, blank
  <2>1. pairs = Ordered(blank)
    BY <1>3, <1>8 DEF Encode
  <2> QED BY <1>9, <2>1, FieldsAreWritten
<1>11. /\ \A i \in 1 .. n : pairs[i] \in blank
       /\ \A p \in blank : \E i \in 1 .. n : pairs[i] = p
       /\ \A i, m \in 1 .. n : pairs[i][1] = pairs[m][1] => i = m
  <2> HIDE DEF pairs, blank
  <2> QED BY <1>6, <1>9, <1>10, PlacesOfFields
<1>12. /\ \A p \in blank : p[1] = "receipt_signature" => p = <<"receipt_signature", Zeros(64)>>
       /\ \A p \in blank : p[1] # "receipt_signature" => p \in fields
       /\ \A p \in fields : p[1] # "receipt_signature" => p \in blank
       /\ \A p \in fields : p[1] = "receipt_signature" => p = <<"receipt_signature", signature>>
       /\ <<"receipt_signature", signature>> \in fields
       /\ <<"receipt_signature", Zeros(64)>> \in blank
  <2>1. \A p \in body : p[1] # "receipt_signature"
    BY DEF IsBody, Shared
  <2> HIDE DEF signature, hash
  <2>2. fields = Whole(body, hash, signature, Kid)
    BY DEF FieldsOf, signature, hash
  <2> HIDE DEF fields
  <2> QED BY <2>1, <2>2 DEF Whole, Trio
<1>13. PICK place \in 1 .. n : pairs[place] = <<"receipt_signature", Zeros(64)>>
  <2> HIDE DEF pairs, blank, fields
  <2> QED BY <1>11, <1>12
<1>14. w.pairs[place] = <<"receipt_signature", signature>>
  <2>1. {i \in DOMAIN w.pairs : w.pairs[i][1] = "receipt_signature"} = {place}
    <3> HIDE DEF pairs, blank
    <3>1. \A i \in 1 .. n : w.pairs[i][1] = "receipt_signature" <=> i = place
      BY <1>5, <1>11, <1>13
    <3> QED BY <1>4, <3>1
  <2>2. Min({place}) = place
    BY <1>4 DEF Min
  <2>3. Lookup(w, "receipt_signature") = w.pairs[place][2]
    BY <2>1, <2>2 DEF Lookup
  <2>4. w.pairs[place] = <<w.pairs[place][1], w.pairs[place][2]>> /\ w.pairs[place][1] = "receipt_signature"
    BY <1>4, <2>1 DEF IsDocument
  <2> QED BY <2>3, <2>4
<1>15. \A i \in 1 .. n : i # place => w.pairs[i] = pairs[i] /\ pairs[i][1] # "receipt_signature"
  <2>1. \A i \in 1 .. n : w.pairs[i][1] # "receipt_signature" => w.pairs[i] = pairs[i]
    BY <1>4
  <2> HIDE DEF pairs, blank
  <2> QED BY <1>5, <1>11, <1>13, <2>1
<1>16. AreWritten(w.pairs, fields)
  <2> HIDE DEF pairs, blank, fields, signature
  <2>1. \A i \in 1 .. n : w.pairs[i] \in fields
    BY <1>11, <1>12, <1>14, <1>15
  <2>2. ASSUME NEW p \in fields PROVE \E i \in 1 .. n : w.pairs[i] = p
    <3>1. CASE p[1] = "receipt_signature"
      BY <1>12, <1>14, <3>1
    <3>2. CASE p[1] # "receipt_signature"
      <4>1. PICK i \in 1 .. n : pairs[i] = p
        BY <1>11, <1>12, <3>2
      <4>2. i # place
        BY <1>13, <3>2, <4>1
      <4> QED BY <1>15, <4>1, <4>2
    <3> QED BY <3>1, <3>2
  <2>3. w.pairs \in [1 .. n -> fields]
    <3>1. PICK S : w.pairs \in Seq(S)
      BY DEF IsDocument
    <3>2. w.pairs = [i \in 1 .. n |-> w.pairs[i]]
      BY <1>4, <3>1, SeqDef
    <3> QED BY <2>1, <3>2
  <2>4. \A i, m \in 1 .. n : i < m => Rank[w.pairs[i][1]] < Rank[w.pairs[m][1]]
    BY <1>5, <1>6, <1>10 DEF AreWritten
  <2> QED BY <1>4, <2>2, <2>3, <2>4 DEF AreWritten
<1>17. w.pairs = Ordered(fields) /\ Cardinality(fields) = n
  <2>1. AreNamed(fields)
    BY PublishedReceipt
  <2> HIDE DEF fields
  <2> QED BY <1>16, <2>1, WrittenOneWay
<1>18. w = Encode(fields)
  BY <1>4, <1>17 DEF IsDocument, Encode
<1> QED BY <1>3, <1>18, PublishedReceipt

--------------------------------------------------------------------------------
(* The log, and the receipts of a kind in it.                                 *)

PlacesIn(l, kind) ==
  LET of == {i \in DOMAIN l : l[i].kind = kind}
  IN  Arranged(of, [i \in of |-> {j \in of : j <= i}])
CountOf(l, kind) == Cardinality({i \in DOMAIN l : l[i].kind = kind})
OfIn(l, kind) == [n \in DOMAIN PlacesIn(l, kind) |-> l[PlacesIn(l, kind)[n]]]

\* The receipts of a kind stand in the order of the log, and are all of them.
LEMMA PlacesOfKind ==
  ASSUME NEW S, NEW l \in Seq(S), NEW kind
  PROVE  LET places == PlacesIn(l, kind)
             C == CountOf(l, kind)
         IN  /\ C \in 0 .. Len(l) /\ places \in [1 .. C -> 1 .. Len(l)]
             /\ DOMAIN OfIn(l, kind) = 1 .. C
             /\ \A n \in 1 .. C : l[places[n]].kind = kind /\ OfIn(l, kind)[n] = l[places[n]]
             /\ \A i \in 1 .. Len(l) : l[i].kind = kind => \E n \in 1 .. C : places[n] = i
             /\ \A m, n \in 1 .. C : m < n => places[m] < places[n]
<1> DEFINE of == {i \in DOMAIN l : l[i].kind = kind}
           C == CountOf(l, kind)
           upto == [i \in of |-> {j \in of : j <= i}]
           places == PlacesIn(l, kind)
<1>1. DOMAIN l = 1 .. Len(l) /\ Len(l) \in Nat
  BY LenProperties
<1>2. of \subseteq 1 .. Len(l)
  BY <1>1
<1>3. C = Cardinality(of)
  BY DEF CountOf
<1> HIDE DEF C
<1>4. IsFiniteSet(of) /\ C \in 0 .. Len(l)
  <2>1. \A k \in Int : IsFiniteSet(1 .. k) /\ Cardinality(1 .. k) = IF 1 > k THEN 0 ELSE k - 1 + 1
    BY FS_Interval
  <2>2. IsFiniteSet(1 .. Len(l)) /\ Cardinality(1 .. Len(l)) = Len(l)
    BY <1>1, <2>1
  <2> HIDE DEF of
  <2>3. IsFiniteSet(of) /\ Cardinality(of) <= Len(l) /\ Cardinality(of) \in Nat
    BY <1>2, <2>2, FS_Subset, FS_CardinalityType
  <2> QED BY <1>1, <1>3, <2>3
<1>5. \A i \in of : upto[i] \subseteq of /\ i \in upto[i]
  BY <1>2
<1>6. ASSUME NEW i \in of, NEW j \in of
      PROVE  \/ i = j
             \/ upto[i] \subseteq upto[j] /\ j \notin upto[i]
             \/ upto[j] \subseteq upto[i] /\ i \notin upto[j]
  <2>1. ASSUME NEW u \in of, NEW v \in of, u < v PROVE upto[u] \subseteq upto[v] /\ v \notin upto[u]
    <3> HIDE DEF of
    <3>1. u \in Nat /\ v \in Nat /\ \A x \in of : x \in Nat
      BY <1>1, <1>2
    <3>2. \A x \in of : x <= u => x <= v
      BY <2>1, <3>1
    <3>3. ~(v <= u)
      BY <2>1, <3>1
    <3> QED BY <3>2, <3>3
  <2>2. i = j \/ i < j \/ j < i
    BY <1>2
  <2> QED BY <2>1, <2>2
<1>7. places = Arranged(of, upto)
  BY DEF PlacesIn
<1>8. /\ places \in [1 .. C -> of]
      /\ \A i \in of : \E n \in 1 .. C : places[n] = i
      /\ \A m, n \in 1 .. C : m < n => places[n] \notin upto[places[m]]
  <2> HIDE DEF of, upto, places
  <2> QED BY <1>3, <1>4, <1>5, <1>6, <1>7, ArrangedIsAll
<1> HIDE DEF places
<1>9. \A m, n \in 1 .. C : m < n => places[m] < places[n]
  <2>1. ASSUME NEW m \in 1 .. C, NEW n \in 1 .. C, m < n PROVE places[m] < places[n]
    <3>1. places[m] \in of /\ places[n] \in of
      BY <1>8
    <3>2. places[m] \in Nat /\ places[n] \in Nat
      BY <1>2, <3>1
    <3>3. ~(places[n] <= places[m])
      BY <1>8, <2>1, <3>1
    <3> QED BY <3>2, <3>3
  <2> QED BY <2>1
<1>10. places \in [1 .. C -> 1 .. Len(l)]
  BY <1>2, <1>8
<1>11. /\ DOMAIN OfIn(l, kind) = 1 .. C
       /\ \A n \in 1 .. C : l[places[n]].kind = kind /\ OfIn(l, kind)[n] = l[places[n]]
  BY <1>8 DEF OfIn, places
<1>12. \A i \in 1 .. Len(l) : l[i].kind = kind => \E n \in 1 .. C : places[n] = i
  BY <1>1, <1>8
<1> QED BY <1>4, <1>9, <1>10, <1>11, <1>12 DEF places, C

\* A receipt that is added is the last of its kind, and no other moves.
LEMMA PlacesGrow ==
  ASSUME NEW S, NEW l \in Seq(S), NEW e \in S, NEW kind
  PROVE  LET g == Append(l, e)
             C == CountOf(l, kind)
         IN  /\ e.kind # kind => PlacesIn(g, kind) = PlacesIn(l, kind) /\ OfIn(g, kind) = OfIn(l, kind)
             /\ e.kind = kind =>
                  /\ DOMAIN OfIn(g, kind) = 1 .. C + 1
                  /\ \A n \in 1 .. C : PlacesIn(g, kind)[n] = PlacesIn(l, kind)[n]
                                       /\ OfIn(g, kind)[n] = OfIn(l, kind)[n]
                  /\ PlacesIn(g, kind)[C + 1] = Len(l) + 1 /\ OfIn(g, kind)[C + 1] = e
<1> DEFINE g == Append(l, e)
           of == {i \in DOMAIN l : l[i].kind = kind}
           more == {i \in DOMAIN g : g[i].kind = kind}
           C == CountOf(l, kind)
           upto == [i \in more |-> {j \in more : j <= i}]
           places == PlacesIn(l, kind)
<1>1. /\ Len(l) \in Nat /\ DOMAIN l = 1 .. Len(l) /\ DOMAIN g = 1 .. Len(l) + 1
      /\ \A i \in 1 .. Len(l) : g[i] = l[i]
      /\ g[Len(l) + 1] = e
  BY AppendProperties, LenProperties
<1> HIDE DEF g
<1>2. CASE e.kind # kind
  <2>1. more = of
    BY <1>1, <1>2
  <2>2. PlacesIn(g, kind) = places
    BY <2>1 DEF PlacesIn
  <2>3. \A n \in DOMAIN places : places[n] \in 1 .. Len(l)
    BY PlacesOfKind
  <2>4. OfIn(g, kind) = OfIn(l, kind)
    <3> HIDE DEF places
    <3>1. \A n \in DOMAIN places : g[places[n]] = l[places[n]]
      BY <1>1, <2>3
    <3> QED BY <2>2, <3>1 DEF OfIn, places
  <2> QED BY <1>2, <2>2, <2>4 DEF g
<1>3. CASE e.kind = kind
  <2> DEFINE s == [n \in 1 .. C + 1 |-> IF n = C + 1 THEN Len(l) + 1 ELSE places[n]]
  <2>1. /\ C \in Nat /\ places \in [1 .. C -> 1 .. Len(l)]
        /\ \A n \in 1 .. C : l[places[n]].kind = kind
        /\ \A i \in 1 .. Len(l) : l[i].kind = kind => \E n \in 1 .. C : places[n] = i
        /\ \A m, n \in 1 .. C : m < n => places[m] < places[n]
    BY PlacesOfKind
  <2> HIDE DEF C, places
  <2>2. \A n \in 1 .. C + 1 : n \in 1 .. C \/ n = C + 1
    BY <2>1
  <2>3. s[C + 1] = Len(l) + 1 /\ \A n \in 1 .. C : s[n] = places[n]
    BY <2>1
  <2> HIDE DEF s
  <2>4. \A n \in 1 .. C + 1 : s[n] \in more
    BY <1>1, <1>3, <2>1, <2>2, <2>3
  <2>5. s \in [1 .. C + 1 -> more]
    BY <2>4 DEF s
  <2>6. \A i \in more : \E n \in 1 .. C + 1 : s[n] = i
    <3>1. ASSUME NEW i \in more PROVE \E n \in 1 .. C + 1 : s[n] = i
      <4>1. CASE i = Len(l) + 1
        BY <2>1, <2>3, <4>1
      <4>2. CASE i \in 1 .. Len(l)
        <5>1. PICK n \in 1 .. C : places[n] = i
          BY <1>1, <2>1, <4>2
        <5> QED BY <2>1, <2>3, <5>1
      <4> QED BY <1>1, <4>1, <4>2
    <3> QED BY <3>1
  <2>7. \A m, n \in 1 .. C + 1 : m < n => s[m] < s[n]
    <3>1. ASSUME NEW m \in 1 .. C + 1, NEW n \in 1 .. C + 1, m < n PROVE s[m] < s[n]
      <4>1. m \in 1 .. C
        BY <2>1, <3>1
      <4>2. CASE n \in 1 .. C
        BY <2>1, <2>3, <3>1, <4>1, <4>2
      <4>3. CASE n = C + 1
        BY <1>1, <2>1, <2>3, <4>1, <4>3
      <4> QED BY <2>2, <4>2, <4>3
    <3> QED BY <3>1
  <2>8. \A m \in 1 .. C + 1 : s[m] \in Nat
    BY <1>1, <2>4
  <2>9. \A m, n \in 1 .. C + 1 : (s[m] <= s[n] <=> m <= n) /\ (s[m] = s[n] => m = n)
    <3>1. ASSUME NEW m \in 1 .. C + 1, NEW n \in 1 .. C + 1
          PROVE  (s[m] <= s[n] <=> m <= n) /\ (s[m] = s[n] => m = n)
      <4>1. m < n \/ m = n \/ n < m
        BY <2>1
      <4> QED BY <2>1, <2>7, <2>8, <4>1
    <3> QED BY <3>1
  <2>10. /\ \A i \in more : upto[i] \subseteq more
         /\ \A m, n \in 1 .. C + 1 : s[m] \in upto[s[n]] <=> m <= n
    BY <2>4, <2>9
  <2>11. C + 1 \in Nat /\ \A m, n \in 1 .. C + 1 : s[m] = s[n] => m = n
    BY <2>1, <2>9
  <2>12. s = Arranged(more, upto)
    <3> HIDE DEF more, upto
    <3>1. IsThatOrder(C + 1, more, upto, s)
      BY <2>5, <2>6, <2>10, <2>11 DEF IsThatOrder
    <3> QED BY <3>1, OrderIsUnique
  <2>13. PlacesIn(g, kind) = s
    BY <2>12 DEF PlacesIn
  <2>14. DOMAIN OfIn(g, kind) = 1 .. C + 1 /\ \A n \in 1 .. C + 1 : OfIn(g, kind)[n] = g[s[n]]
    BY <2>5, <2>13 DEF OfIn
  <2>15. \A n \in 1 .. C : OfIn(l, kind)[n] = l[places[n]]
    BY PlacesOfKind DEF C, places
  <2>16. \A n \in 1 .. C : OfIn(g, kind)[n] = OfIn(l, kind)[n]
    BY <1>1, <2>1, <2>3, <2>14, <2>15
  <2>17. OfIn(g, kind)[C + 1] = e
    BY <1>1, <2>1, <2>3, <2>14
  <2> QED BY <1>3, <2>3, <2>13, <2>14, <2>16, <2>17 DEF g, C, places
<1> QED BY <1>2, <1>3

--------------------------------------------------------------------------------
(* What is in the log.                                                        *)

LEMMA ChainFieldsAreNames ==
  {"event_id", "snapshot_id", "scraped_at", "server_count", "snapshot_merkle_root",
   "previous_snapshot_hash", "upstream_registry_uri", "upstream_snapshot_etag", "changes",
   "server_name", "publisher_passport", "declared_uri", "declared_hash", "enrichment_bytes",
   "supersedes_prior"} \subseteq ToSet(FieldOrder) \ Shared
<1>1. /\ FieldOrder[4] = "event_id" /\ FieldOrder[11] = "snapshot_id" /\ FieldOrder[7] = "scraped_at"
      /\ FieldOrder[16] = "server_count" /\ FieldOrder[31] = "snapshot_merkle_root"
      /\ FieldOrder[34] = "previous_snapshot_hash" /\ FieldOrder[33] = "upstream_registry_uri"
      /\ FieldOrder[35] = "upstream_snapshot_etag" /\ FieldOrder[3] = "changes"
      /\ FieldOrder[9] = "server_name" /\ FieldOrder[28] = "publisher_passport"
      /\ FieldOrder[13] = "declared_uri" /\ FieldOrder[18] = "declared_hash"
      /\ FieldOrder[22] = "enrichment_bytes" /\ FieldOrder[25] = "supersedes_prior"
  BY DEF FieldOrder
<1>2. \A i \in 1 .. 35 : FieldOrder[i] \in ToSet(FieldOrder)
  <2>1. DOMAIN FieldOrder = 1 .. 35
    BY DEF FieldOrder
  <2> QED BY <2>1 DEF ToSet
<1>3. /\ FieldOrder[4] \in ToSet(FieldOrder) /\ FieldOrder[11] \in ToSet(FieldOrder)
      /\ FieldOrder[7] \in ToSet(FieldOrder) /\ FieldOrder[16] \in ToSet(FieldOrder)
      /\ FieldOrder[31] \in ToSet(FieldOrder) /\ FieldOrder[34] \in ToSet(FieldOrder)
      /\ FieldOrder[33] \in ToSet(FieldOrder) /\ FieldOrder[35] \in ToSet(FieldOrder)
      /\ FieldOrder[3] \in ToSet(FieldOrder) /\ FieldOrder[9] \in ToSet(FieldOrder)
      /\ FieldOrder[28] \in ToSet(FieldOrder) /\ FieldOrder[13] \in ToSet(FieldOrder)
      /\ FieldOrder[18] \in ToSet(FieldOrder) /\ FieldOrder[22] \in ToSet(FieldOrder)
      /\ FieldOrder[25] \in ToSet(FieldOrder)
  BY <1>2
<1> QED BY <1>1, <1>3 DEF Shared

\* The bodies of the two kinds that form chains.
LEMMA SnapshotIsBody ==
  ASSUME NEW id, NEW root, NEW prev, NEW count
  PROVE  LET body == RegistrySnapshot(id, root, prev, count)
         IN  /\ IsBody(body)
             /\ <<"event_id", Id(id)>> \in body
             /\ <<"snapshot_merkle_root", Bytes(32, root)>> \in body
             /\ <<"previous_snapshot_hash", Optional(prev)>> \in body
             /\ \A p \in body : p[1] # "supersedes_prior"
<1> DEFINE body == RegistrySnapshot(id, root, prev, count)
<1>1. \A p \in body :
        \/ p = <<"event_id", Id(id)>> \/ p = <<"snapshot_id", Id(id)>>
        \/ p = <<"scraped_at", Uint(id)>> \/ p = <<"server_count", Uint(count)>>
        \/ p = <<"snapshot_merkle_root", Bytes(32, root)>>
        \/ p = <<"previous_snapshot_hash", Optional(prev)>>
        \/ p = <<"upstream_registry_uri", Text("upstream")>>
        \/ p = <<"upstream_snapshot_etag", Null>> \/ p = <<"changes", Map("changes")>>
  BY DEF RegistrySnapshot
<1>2. /\ <<"event_id", Id(id)>> \in body /\ <<"snapshot_merkle_root", Bytes(32, root)>> \in body
      /\ <<"previous_snapshot_hash", Optional(prev)>> \in body
  BY DEF RegistrySnapshot
<1> HIDE DEF body
<1>3. /\ IsData(Id(id)) /\ IsData(Uint(id)) /\ IsData(Uint(count)) /\ IsData(Bytes(32, root))
      /\ IsData(Optional(prev)) /\ IsData(Text("upstream")) /\ IsData(Null) /\ IsData(Map("changes"))
  BY DEF IsData, Id, Uint, Bytes, Optional, Text, Null, Map
<1>4. \A p \in body : p = <<p[1], p[2]>> /\ p[1] \in ToSet(FieldOrder) \ Shared /\ IsData(p[2])
  BY <1>1, <1>3, ChainFieldsAreNames
<1>5. \A p, q \in body : p[1] = q[1] => p = q
  BY <1>1
<1>6. IsBody(body)
  BY <1>4, <1>5 DEF IsBody
<1>7. \A p \in body : p[1] # "supersedes_prior"
  BY <1>1
<1> QED BY <1>2, <1>6, <1>7 DEF body

LEMMA EnrichmentIsBody ==
  ASSUME NEW id, NEW server, NEW declared, NEW prior
  PROVE  LET body == EntryEnriched(id, server, declared, prior)
         IN  /\ IsBody(body)
             /\ <<"event_id", Id(id)>> \in body
             /\ <<"server_name", Text(server)>> \in body
             /\ <<"supersedes_prior", Optional(prior)>> \in body
             /\ \A p \in body : p[1] # "snapshot_merkle_root" /\ p[1] # "previous_snapshot_hash"
<1> DEFINE body == EntryEnriched(id, server, declared, prior)
<1>1. \A p \in body :
        \/ p = <<"event_id", Id(id)>> \/ p = <<"server_name", Text(server)>>
        \/ p = <<"publisher_passport", Text("publisher")>> \/ p = <<"declared_uri", Text("uri")>>
        \/ p = <<"declared_hash", Bytes(32, declared)>>
        \/ p = <<"enrichment_bytes", Bytes(64, <<"id", id>>)>>
        \/ p = <<"supersedes_prior", Optional(prior)>>
  BY DEF EntryEnriched
<1>2. /\ <<"event_id", Id(id)>> \in body /\ <<"server_name", Text(server)>> \in body
      /\ <<"supersedes_prior", Optional(prior)>> \in body
  BY DEF EntryEnriched
<1> HIDE DEF body
<1>3. /\ IsData(Id(id)) /\ IsData(Text(server)) /\ IsData(Text("publisher")) /\ IsData(Text("uri"))
      /\ IsData(Bytes(32, declared)) /\ IsData(Bytes(64, <<"id", id>>)) /\ IsData(Optional(prior))
  BY DEF IsData, Id, Bytes, Optional, Text, Null
<1>4. \A p \in body : p = <<p[1], p[2]>> /\ p[1] \in ToSet(FieldOrder) \ Shared /\ IsData(p[2])
  BY <1>1, <1>3, ChainFieldsAreNames
<1>5. \A p, q \in body : p[1] = q[1] => p = q
  BY <1>1
<1>6. IsBody(body)
  BY <1>4, <1>5 DEF IsBody
<1>7. \A p \in body : p[1] # "snapshot_merkle_root" /\ p[1] # "previous_snapshot_hash"
  BY <1>1
<1> QED BY <1>2, <1>6, <1>7 DEF body

\* The receipts of a kind as a list.
LEMMA ChainIsList ==
  ASSUME NEW S, NEW l \in Seq(S), NEW kind
  PROVE  /\ OfIn(l, kind) \in Seq(S) /\ Len(OfIn(l, kind)) = CountOf(l, kind)
         /\ DOMAIN OfIn(l, kind) = 1 .. CountOf(l, kind) /\ CountOf(l, kind) \in Nat
         /\ OfIn(l, kind) = <<>> <=> CountOf(l, kind) = 0
         /\ CountOf(l, kind) = 0 <=> \A i \in 1 .. Len(l) : l[i].kind # kind
<1> DEFINE C == CountOf(l, kind)
           chain == OfIn(l, kind)
           places == PlacesIn(l, kind)
<1>1. /\ C \in Nat /\ places \in [1 .. C -> 1 .. Len(l)] /\ DOMAIN chain = 1 .. C
      /\ \A n \in 1 .. C : chain[n] = l[places[n]] /\ l[places[n]].kind = kind
      /\ \A i \in 1 .. Len(l) : l[i].kind = kind => \E n \in 1 .. C : places[n] = i
  <2>1. C \in 0 .. Len(l) /\ Len(l) \in Nat
    BY PlacesOfKind, LenProperties
  <2> QED BY <2>1, PlacesOfKind
<1>2. \A i \in 1 .. Len(l) : l[i] \in S
  BY ElementOfSeq
<1>3. chain = [n \in 1 .. C |-> chain[n]]
  BY <1>1 DEF OfIn
<1> HIDE DEF C, chain, places
<1>4. chain \in [1 .. C -> S]
  BY <1>1, <1>2, <1>3
<1>5. chain \in Seq(S) /\ Len(chain) = C
  BY <1>1, <1>4, LengthOf
<1>6. chain = <<>> <=> C = 0
  BY <1>5, EmptySeq
<1>7. C = 0 <=> \A i \in 1 .. Len(l) : l[i].kind # kind
  <2>1. ASSUME C = 0, NEW i \in 1 .. Len(l), l[i].kind = kind PROVE FALSE
    BY <1>1, <2>1
  <2>2. ASSUME C # 0 PROVE \E i \in 1 .. Len(l) : l[i].kind = kind
    <3>1. 1 \in 1 .. C
      BY <1>1, <2>2
    <3> QED BY <1>1, <3>1
  <2> QED BY <2>1, <2>2
<1> QED BY <1>1, <1>5, <1>6, <1>7 DEF C, chain

\* The body of the n-th receipt of either chain: it is given its place in the
\* log for an id, and what the receipt before it has for a link.
PriorRoot(l, n) ==
  IF n = 1 THEN <<>> ELSE SnapshotMerkleRoot(OfIn(l, "snapshot")[n - 1].entries)
SnapshotAt(l, n) ==
  RegistrySnapshot(PlacesIn(l, "snapshot")[n] - 1,
    SnapshotMerkleRoot(OfIn(l, "snapshot")[n].entries), PriorRoot(l, n),
    Len(OfIn(l, "snapshot")[n].entries))
PriorHash(l, n) ==
  IF n = 1 THEN <<>> ELSE Lookup(OfIn(l, "entry_enriched")[n - 1].wire, "receipt_hash")[3]
EnrichmentAt(l, n) ==
  EntryEnriched(PlacesIn(l, "entry_enriched")[n] - 1,
    NameIn(OfIn(l, "entry_enriched")[n].text),
    DeclarationHash(OfIn(l, "entry_enriched")[n].text), PriorHash(l, n))

SnapshotsHold(l) ==
  \A n \in 1 .. CountOf(l, "snapshot") :
    /\ OfIn(l, "snapshot")[n].entries \in EntrySets
    /\ OfIn(l, "snapshot")[n].wire = Published(SnapshotAt(l, n), OfIn(l, "snapshot")[n].signedBy)
EnrichmentsHold(l) ==
  \A n \in 1 .. CountOf(l, "entry_enriched") :
    /\ OfIn(l, "entry_enriched")[n].text \in Texts
    /\ OfIn(l, "entry_enriched")[n].wire =
         Published(EnrichmentAt(l, n), OfIn(l, "entry_enriched")[n].signedBy)
OthersHold(l) ==
  \A i \in 1 .. Len(l) : l[i].kind = "other" =>
    Len(l) = 1 /\ \E body \in Others : l[i].wire = Published(body, l[i].signedBy)

LogInv(l) ==
  /\ \E S : l \in Seq(S)
  /\ Len(l) <= MaxLog
  /\ \A i \in 1 .. Len(l) : l[i].kind \in Kinds /\ l[i].signedBy \in Keys \cup {"none"}
  /\ SnapshotsHold(l) /\ EnrichmentsHold(l) /\ OthersHold(l)

\* A receipt that is published is added to its own chain.
LEMMA ChainsGrow ==
  ASSUME NEW l, \E S : l \in Seq(S), NEW e
  PROVE  LET g == Append(l, e)
         IN  /\ \E S : g \in Seq(S) /\ l \in Seq(S)
             /\ Len(l) \in Nat /\ Len(g) = Len(l) + 1 /\ g[Len(l) + 1] = e
             /\ \A i \in 1 .. Len(l) : g[i] = l[i]
             /\ \A i \in 1 .. Len(g) : i \in 1 .. Len(l) \/ i = Len(l) + 1
             /\ \A kind : e.kind # kind =>
                  /\ PlacesIn(g, kind) = PlacesIn(l, kind) /\ OfIn(g, kind) = OfIn(l, kind)
                  /\ CountOf(g, kind) = CountOf(l, kind)
             /\ \A kind : e.kind = kind =>
                  /\ CountOf(g, kind) = CountOf(l, kind) + 1
                  /\ \A n \in 1 .. CountOf(l, kind) :
                       PlacesIn(g, kind)[n] = PlacesIn(l, kind)[n] /\ OfIn(g, kind)[n] = OfIn(l, kind)[n]
                  /\ PlacesIn(g, kind)[CountOf(l, kind) + 1] = Len(l) + 1
                  /\ OfIn(g, kind)[CountOf(l, kind) + 1] = e
<1> DEFINE g == Append(l, e)
<1>1. PICK S : l \in Seq(S) /\ e \in S
  <2>1. PICK T : l \in Seq(T)
    OBVIOUS
  <2>2. l \in Seq(T \cup {e})
    <3>1. Len(l) \in Nat /\ l \in [1 .. Len(l) -> T]
      BY <2>1, LenProperties
    <3>2. l \in [1 .. Len(l) -> T \cup {e}]
      BY <3>1
    <3> QED BY <3>1, <3>2, SeqDef
  <2> QED BY <2>2
<1>2. /\ g \in Seq(S) /\ Len(l) \in Nat /\ Len(g) = Len(l) + 1 /\ g[Len(l) + 1] = e
      /\ \A i \in 1 .. Len(l) : g[i] = l[i]
      /\ \A i \in 1 .. Len(g) : i \in 1 .. Len(l) \/ i = Len(l) + 1
  BY <1>1, AppendProperties, LenProperties
<1>3. ASSUME NEW kind, e.kind # kind
      PROVE  /\ PlacesIn(g, kind) = PlacesIn(l, kind) /\ OfIn(g, kind) = OfIn(l, kind)
             /\ CountOf(g, kind) = CountOf(l, kind)
  <2>1. PlacesIn(g, kind) = PlacesIn(l, kind) /\ OfIn(g, kind) = OfIn(l, kind)
    BY <1>1, <1>3, PlacesGrow
  <2> HIDE DEF g
  <2>2. CountOf(l, kind) = Len(OfIn(l, kind)) /\ CountOf(g, kind) = Len(OfIn(g, kind))
    BY <1>1, <1>2, ChainIsList
  <2> QED BY <2>1, <2>2
<1>4. ASSUME NEW kind, e.kind = kind
      PROVE  /\ CountOf(g, kind) = CountOf(l, kind) + 1
             /\ \A n \in 1 .. CountOf(l, kind) :
                  PlacesIn(g, kind)[n] = PlacesIn(l, kind)[n] /\ OfIn(g, kind)[n] = OfIn(l, kind)[n]
             /\ PlacesIn(g, kind)[CountOf(l, kind) + 1] = Len(l) + 1
             /\ OfIn(g, kind)[CountOf(l, kind) + 1] = e
  <2>1. /\ DOMAIN OfIn(g, kind) = 1 .. CountOf(l, kind) + 1
        /\ \A n \in 1 .. CountOf(l, kind) :
             PlacesIn(g, kind)[n] = PlacesIn(l, kind)[n] /\ OfIn(g, kind)[n] = OfIn(l, kind)[n]
        /\ PlacesIn(g, kind)[CountOf(l, kind) + 1] = Len(l) + 1
        /\ OfIn(g, kind)[CountOf(l, kind) + 1] = e
    BY <1>1, <1>4, PlacesGrow
  <2> HIDE DEF g
  <2>2. /\ CountOf(l, kind) \in Nat /\ CountOf(g, kind) \in Nat
        /\ DOMAIN OfIn(g, kind) = 1 .. CountOf(g, kind)
    BY <1>1, <1>2, ChainIsList
  <2>3. CountOf(g, kind) = CountOf(l, kind) + 1
    BY <2>1, <2>2
  <2> QED BY <2>1, <2>3
<1> HIDE DEF g
<1>5. \E T : g \in Seq(T) /\ l \in Seq(T)
  BY <1>1, <1>2
<1>6. \A kind : e.kind # kind =>
        /\ PlacesIn(g, kind) = PlacesIn(l, kind) /\ OfIn(g, kind) = OfIn(l, kind)
        /\ CountOf(g, kind) = CountOf(l, kind)
  BY <1>3
<1>7. \A kind : e.kind = kind =>
        /\ CountOf(g, kind) = CountOf(l, kind) + 1
        /\ \A n \in 1 .. CountOf(l, kind) :
             PlacesIn(g, kind)[n] = PlacesIn(l, kind)[n] /\ OfIn(g, kind)[n] = OfIn(l, kind)[n]
        /\ PlacesIn(g, kind)[CountOf(l, kind) + 1] = Len(l) + 1
        /\ OfIn(g, kind)[CountOf(l, kind) + 1] = e
  BY <1>4
<1> QED BY <1>2, <1>5, <1>6, <1>7 DEF g

\* What is published next keeps all this.
LEMMA SnapshotKeepsLog ==
  ASSUME NEW l, LogInv(l), Len(l) < MaxLog, OfIn(l, "other") = <<>>,
         NEW e, e.kind = "snapshot", e.signedBy \in Keys \cup {"none"}, e.entries \in EntrySets,
         NEW prev,
         prev = IF OfIn(l, "snapshot") = <<>> THEN <<>>
                ELSE SnapshotMerkleRoot(Last(OfIn(l, "snapshot")).entries),
         e.wire = Published(RegistrySnapshot(Len(l), SnapshotMerkleRoot(e.entries), prev, Len(e.entries)),
                            e.signedBy)
  PROVE  LogInv(Append(l, e))
<1> DEFINE g == Append(l, e)
           C == CountOf(l, "snapshot")
<1>1. PICK S : g \in Seq(S) /\ l \in Seq(S)
  BY ChainsGrow DEF LogInv
<1>2. /\ Len(l) \in Nat /\ Len(g) = Len(l) + 1 /\ g[Len(l) + 1] = e
      /\ \A i \in 1 .. Len(l) : g[i] = l[i]
      /\ \A i \in 1 .. Len(g) : i \in 1 .. Len(l) \/ i = Len(l) + 1
  BY ChainsGrow DEF LogInv
<1>3. /\ PlacesIn(g, "entry_enriched") = PlacesIn(l, "entry_enriched")
      /\ OfIn(g, "entry_enriched") = OfIn(l, "entry_enriched")
      /\ CountOf(g, "entry_enriched") = CountOf(l, "entry_enriched")
  BY ChainsGrow DEF LogInv
<1>4. /\ CountOf(g, "snapshot") = C + 1
      /\ \A n \in 1 .. C : PlacesIn(g, "snapshot")[n] = PlacesIn(l, "snapshot")[n]
                           /\ OfIn(g, "snapshot")[n] = OfIn(l, "snapshot")[n]
      /\ PlacesIn(g, "snapshot")[C + 1] = Len(l) + 1 /\ OfIn(g, "snapshot")[C + 1] = e
  BY ChainsGrow DEF LogInv
<1> HIDE DEF g
<1>5. /\ C \in Nat /\ Len(OfIn(l, "snapshot")) = C
      /\ OfIn(l, "snapshot") = <<>> <=> C = 0
  BY <1>1, ChainIsList
<1> HIDE DEF C
<1>6. \A n \in 1 .. C : SnapshotAt(g, n) = SnapshotAt(l, n)
  <2>1. ASSUME NEW n \in 1 .. C PROVE SnapshotAt(g, n) = SnapshotAt(l, n)
    <3>1. n # 1 => n - 1 \in 1 .. C
      BY <1>5
    <3> QED BY <1>4, <3>1 DEF SnapshotAt, PriorRoot
  <2> QED BY <2>1
<1>7. SnapshotAt(g, C + 1) = RegistrySnapshot(Len(l), SnapshotMerkleRoot(e.entries), prev, Len(e.entries))
  <2>1. C + 1 - 1 = C /\ Len(l) + 1 - 1 = Len(l) /\ (C + 1 = 1 <=> C = 0)
    BY <1>2, <1>5
  <2>2. PriorRoot(g, C + 1) = prev
    <3>1. CASE C = 0
      BY <1>5, <3>1 DEF PriorRoot
    <3>2. CASE C # 0
      <4>1. C \in 1 .. C
        BY <1>5, <3>2
      <4>2. Last(OfIn(l, "snapshot")) = OfIn(g, "snapshot")[C]
        BY <1>4, <1>5, <4>1 DEF Last
      <4> QED BY <1>5, <2>1, <3>2, <4>2 DEF PriorRoot
    <3> QED BY <3>1, <3>2
  <2> QED BY <1>4, <2>1, <2>2 DEF SnapshotAt
<1>8. SnapshotsHold(g)
  <2>1. \A n \in 1 .. C + 1 : n \in 1 .. C \/ n = C + 1
    BY <1>5
  <2> QED BY <1>4, <1>6, <1>7, <2>1 DEF LogInv, SnapshotsHold, C
<1>9. EnrichmentsHold(g)
  BY <1>3 DEF LogInv, EnrichmentsHold, EnrichmentAt, PriorHash
<1>10. OthersHold(g)
  <2>1. \A i \in 1 .. Len(l) : l[i].kind # "other"
    BY <1>1, ChainIsList
  <2> QED BY <1>2, <2>1 DEF OthersHold
<1>11. \A i \in 1 .. Len(g) : g[i].kind \in Kinds /\ g[i].signedBy \in Keys \cup {"none"}
  BY <1>2 DEF LogInv, Kinds
<1>12. Len(g) <= MaxLog
  BY <1>2, VerifierAssumption
<1>13. LogInv(g)
  BY <1>1, <1>8, <1>9, <1>10, <1>11, <1>12 DEF LogInv
<1> QED BY <1>13 DEF g

LEMMA EnrichmentKeepsLog ==
  ASSUME NEW l, LogInv(l), Len(l) < MaxLog, OfIn(l, "other") = <<>>,
         NEW e, e.kind = "entry_enriched", e.signedBy \in Keys \cup {"none"}, e.text \in Texts,
         NEW prior,
         prior = IF OfIn(l, "entry_enriched") = <<>> THEN <<>>
                 ELSE Lookup(Last(OfIn(l, "entry_enriched")).wire, "receipt_hash")[3],
         e.wire = Published(EntryEnriched(Len(l), NameIn(e.text), DeclarationHash(e.text), prior),
                            e.signedBy)
  PROVE  LogInv(Append(l, e))
<1> DEFINE g == Append(l, e)
           C == CountOf(l, "entry_enriched")
<1>1. PICK S : g \in Seq(S) /\ l \in Seq(S)
  BY ChainsGrow DEF LogInv
<1>2. /\ Len(l) \in Nat /\ Len(g) = Len(l) + 1 /\ g[Len(l) + 1] = e
      /\ \A i \in 1 .. Len(l) : g[i] = l[i]
      /\ \A i \in 1 .. Len(g) : i \in 1 .. Len(l) \/ i = Len(l) + 1
  BY ChainsGrow DEF LogInv
<1>3. /\ PlacesIn(g, "snapshot") = PlacesIn(l, "snapshot")
      /\ OfIn(g, "snapshot") = OfIn(l, "snapshot")
      /\ CountOf(g, "snapshot") = CountOf(l, "snapshot")
  BY ChainsGrow DEF LogInv
<1>4. /\ CountOf(g, "entry_enriched") = C + 1
      /\ \A n \in 1 .. C : PlacesIn(g, "entry_enriched")[n] = PlacesIn(l, "entry_enriched")[n]
                           /\ OfIn(g, "entry_enriched")[n] = OfIn(l, "entry_enriched")[n]
      /\ PlacesIn(g, "entry_enriched")[C + 1] = Len(l) + 1 /\ OfIn(g, "entry_enriched")[C + 1] = e
  BY ChainsGrow DEF LogInv
<1> HIDE DEF g
<1>5. /\ C \in Nat /\ Len(OfIn(l, "entry_enriched")) = C
      /\ OfIn(l, "entry_enriched") = <<>> <=> C = 0
  BY <1>1, ChainIsList
<1> HIDE DEF C
<1>6. \A n \in 1 .. C : EnrichmentAt(g, n) = EnrichmentAt(l, n)
  <2>1. ASSUME NEW n \in 1 .. C PROVE EnrichmentAt(g, n) = EnrichmentAt(l, n)
    <3>1. n # 1 => n - 1 \in 1 .. C
      BY <1>5
    <3> QED BY <1>4, <3>1 DEF EnrichmentAt, PriorHash
  <2> QED BY <2>1
<1>7. EnrichmentAt(g, C + 1) = EntryEnriched(Len(l), NameIn(e.text), DeclarationHash(e.text), prior)
  <2>1. C + 1 - 1 = C /\ Len(l) + 1 - 1 = Len(l) /\ (C + 1 = 1 <=> C = 0)
    BY <1>2, <1>5
  <2>2. PriorHash(g, C + 1) = prior
    <3>1. CASE C = 0
      BY <1>5, <3>1 DEF PriorHash
    <3>2. CASE C # 0
      <4>1. C \in 1 .. C
        BY <1>5, <3>2
      <4>2. Last(OfIn(l, "entry_enriched")) = OfIn(g, "entry_enriched")[C]
        BY <1>4, <1>5, <4>1 DEF Last
      <4> QED BY <1>5, <2>1, <3>2, <4>2 DEF PriorHash
    <3> QED BY <3>1, <3>2
  <2> QED BY <1>4, <2>1, <2>2 DEF EnrichmentAt
<1>8. EnrichmentsHold(g)
  <2>1. \A n \in 1 .. C + 1 : n \in 1 .. C \/ n = C + 1
    BY <1>5
  <2> QED BY <1>4, <1>6, <1>7, <2>1 DEF LogInv, EnrichmentsHold, C
<1>9. SnapshotsHold(g)
  BY <1>3 DEF LogInv, SnapshotsHold, SnapshotAt, PriorRoot
<1>10. OthersHold(g)
  <2>1. \A i \in 1 .. Len(l) : l[i].kind # "other"
    BY <1>1, ChainIsList
  <2> QED BY <1>2, <2>1 DEF OthersHold
<1>11. \A i \in 1 .. Len(g) : g[i].kind \in Kinds /\ g[i].signedBy \in Keys \cup {"none"}
  BY <1>2 DEF LogInv, Kinds
<1>12. Len(g) <= MaxLog
  BY <1>2, VerifierAssumption
<1>13. LogInv(g)
  BY <1>1, <1>8, <1>9, <1>10, <1>11, <1>12 DEF LogInv
<1> QED BY <1>13 DEF g

LEMMA OtherKeepsLog ==
  ASSUME NEW e, e.kind = "other", e.signedBy \in Keys \cup {"none"}, 0 < MaxLog,
         NEW body \in Others, e.wire = Published(body, e.signedBy)
  PROVE  LogInv(Append(<<>>, e))
<1> DEFINE g == Append(<<>>, e)
<1>1. \A S : <<>> \in Seq(S) /\ Len(<<>>) = 0
  BY EmptySeq
<1>2. PICK S : g \in Seq(S)
  BY <1>1, ChainsGrow
<1>3. /\ Len(g) = 1 /\ g[1] = e /\ \A i \in 1 .. Len(g) : i = 1
  BY <1>1, ChainsGrow
<1> HIDE DEF g
<1>4. CountOf(g, "snapshot") = 0 /\ CountOf(g, "entry_enriched") = 0
  BY <1>2, <1>3, ChainIsList
<1>5. LogInv(g)
  BY <1>2, <1>3, <1>4, VerifierAssumption DEF LogInv, SnapshotsHold, EnrichmentsHold, OthersHold, Kinds
<1> QED BY <1>5 DEF g

\* Each receipt in the log is the one of some body, and a chain's of its own.
LEMMA EachIsPublished ==
  ASSUME NEW l, LogInv(l)
  PROVE  /\ Len(l) \in Nat /\ DOMAIN l = 1 .. Len(l)
         /\ \A n \in 1 .. CountOf(l, "snapshot") :
              /\ IsBody(SnapshotAt(l, n)) /\ OfIn(l, "snapshot")[n].entries \in EntrySets
              /\ OfIn(l, "snapshot")[n].wire =
                   Published(SnapshotAt(l, n), OfIn(l, "snapshot")[n].signedBy)
         /\ \A n \in 1 .. CountOf(l, "entry_enriched") :
              /\ IsBody(EnrichmentAt(l, n)) /\ OfIn(l, "entry_enriched")[n].text \in Texts
              /\ OfIn(l, "entry_enriched")[n].wire =
                   Published(EnrichmentAt(l, n), OfIn(l, "entry_enriched")[n].signedBy)
         /\ \A i \in 1 .. Len(l) :
              /\ l[i].signedBy \in Keys \cup {"none"}
              /\ \E body : IsBody(body) /\ l[i].wire = Published(body, l[i].signedBy)
<1>1. PICK S : l \in Seq(S)
  BY DEF LogInv
<1>2. Len(l) \in Nat /\ DOMAIN l = 1 .. Len(l)
  BY <1>1, LenProperties
<1>3. \A n \in 1 .. CountOf(l, "snapshot") :
        /\ IsBody(SnapshotAt(l, n)) /\ OfIn(l, "snapshot")[n].entries \in EntrySets
        /\ OfIn(l, "snapshot")[n].wire = Published(SnapshotAt(l, n), OfIn(l, "snapshot")[n].signedBy)
  <2>1. \A n : IsBody(SnapshotAt(l, n))
    BY SnapshotIsBody DEF SnapshotAt
  <2> QED BY <2>1 DEF LogInv, SnapshotsHold
<1>4. \A n \in 1 .. CountOf(l, "entry_enriched") :
        /\ IsBody(EnrichmentAt(l, n)) /\ OfIn(l, "entry_enriched")[n].text \in Texts
        /\ OfIn(l, "entry_enriched")[n].wire =
             Published(EnrichmentAt(l, n), OfIn(l, "entry_enriched")[n].signedBy)
  <2>1. \A n : IsBody(EnrichmentAt(l, n))
    BY EnrichmentIsBody DEF EnrichmentAt
  <2> QED BY <2>1 DEF LogInv, EnrichmentsHold
<1>5. ASSUME NEW i \in 1 .. Len(l)
      PROVE  /\ l[i].signedBy \in Keys \cup {"none"}
             /\ \E body : IsBody(body) /\ l[i].wire = Published(body, l[i].signedBy)
  <2>1. l[i].kind \in Kinds /\ l[i].signedBy \in Keys \cup {"none"}
    BY DEF LogInv
  <2>2. ASSUME NEW kind, l[i].kind = kind
        PROVE  \E n \in 1 .. CountOf(l, kind) : OfIn(l, kind)[n] = l[i]
    BY <1>1, <2>2, PlacesOfKind
  <2>3. CASE l[i].kind = "snapshot"
    <3>1. PICK n \in 1 .. CountOf(l, "snapshot") : OfIn(l, "snapshot")[n] = l[i]
      BY <2>2, <2>3
    <3> QED BY <1>3, <2>1, <3>1
  <2>4. CASE l[i].kind = "entry_enriched"
    <3>1. PICK n \in 1 .. CountOf(l, "entry_enriched") : OfIn(l, "entry_enriched")[n] = l[i]
      BY <2>2, <2>4
    <3> QED BY <1>4, <2>1, <3>1
  <2>5. CASE l[i].kind = "other"
    BY <2>1, <2>5, VerifierAssumption DEF LogInv, OthersHold
  <2> QED BY <2>1, <2>3, <2>4, <2>5 DEF Kinds
<1> QED BY <1>2, <1>3, <1>4, <1>5

--------------------------------------------------------------------------------
(* Documents that are held.                                                   *)

\* A published receipt is a document of at most as many fields as there are
\* names, one of them its signature.
LEMMA PublishedIsDocument ==
  ASSUME NEW body, IsBody(body), NEW k
  PROVE  LET w == Published(body, k)
         IN  /\ IsDocument(w) /\ Len(w.pairs) <= Len(FieldOrder)
             /\ \A i \in 1 .. Len(w.pairs) :
                  w.pairs[i][1] = "receipt_signature" => w.pairs[i][2] = SignatureOf(body, k)
<1> DEFINE w == Published(body, k)
           fields == FieldsOf(body, k)
<1>1. w = Encode(fields) /\ AreNamed(fields) /\ AreWritten(w.pairs, fields) /\ w.head \in Heads
  BY PublishedReceipt
<1>2. w = [head |-> w.head, pairs |-> w.pairs] /\ w.pairs = Ordered(fields)
  BY <1>1 DEF Encode
<1> HIDE DEF w
<1>3. \A p \in fields : p \in body \/ p = <<"receipt_hash", Bytes(32, ReceiptHash(body))>>
                        \/ p = <<"receipt_signature", SignatureOf(body, k)>> \/ p = <<"signer_kid", Kid>>
  BY DEF FieldsOf, Whole, Trio
<1> HIDE DEF fields
<1>4. \A p \in body : p = <<p[1], p[2]>> /\ p[1] # "receipt_signature"
  BY DEF IsBody, Shared
<1>5. /\ DOMAIN w.pairs = 1 .. Len(w.pairs) /\ Len(w.pairs) \in Nat
      /\ \A i \in 1 .. Len(w.pairs) : w.pairs[i] \in fields
  BY <1>1, PlacesOfFields
<1>6. Len(w.pairs) <= Len(FieldOrder)
  BY <1>1, <1>2, FieldsAreWritten, RankOfNames
<1>7. w.pairs \in Seq(fields)
  BY <1>1, SeqDef DEF AreWritten
<1>8. \A i \in 1 .. Len(w.pairs) :
        w.pairs[i] = <<w.pairs[i][1], w.pairs[i][2]>> /\ w.pairs[i][1] \in ToSet(FieldOrder)
  BY <1>1, <1>3, <1>4, <1>5 DEF AreNamed
<1>9. \A i \in 1 .. Len(w.pairs) :
        w.pairs[i][1] = "receipt_signature" => w.pairs[i][2] = SignatureOf(body, k)
  BY <1>3, <1>4, <1>5
<1>10. IsDocument(w)
  BY <1>1, <1>2, <1>7, <1>8 DEF IsDocument
<1> QED BY <1>6, <1>9, <1>10 DEF w

\* The pairs an edit leaves behind: those that were there, with their values or
\* with one that was put there.
PairsLeft(w) ==
  {w.pairs[i] : i \in 1 .. Len(w.pairs)} \cup {<<w.pairs[i][1], v>> : i \in 1 .. Len(w.pairs), v \in Literals}

LEMMA PairsLeftAre ==
  ASSUME NEW w, IsDocument(w), NEW p \in PairsLeft(w)
  PROVE  /\ p = <<p[1], p[2]>> /\ p[1] \in ToSet(FieldOrder)
         /\ p[2] \in Literals \/ \E i \in 1 .. Len(w.pairs) : p = w.pairs[i]
<1>1. CASE \E i \in 1 .. Len(w.pairs) : p = w.pairs[i]
  BY <1>1 DEF IsDocument
<1>2. CASE \E i \in 1 .. Len(w.pairs), v \in Literals : p = <<w.pairs[i][1], v>>
  BY <1>2 DEF IsDocument
<1> QED BY <1>1, <1>2 DEF PairsLeft

LEMMA EditsAreDocuments ==
  ASSUME NEW w, IsDocument(w), Len(w.pairs) + 1 < Limit[4], NEW v \in Edits(w)
  PROVE  /\ IsDocument(v) /\ Len(v.pairs) <= Len(w.pairs) + 1
         /\ v.pairs \in Seq(PairsLeft(w))
<1> DEFINE pairs == w.pairs
           n == Len(pairs)
           left == PairsLeft(w)
           touched == {i \in DOMAIN pairs : pairs[i][1] \in Edited}
<1>1. /\ n \in Nat /\ DOMAIN pairs = 1 .. n
      /\ w = [head |-> w.head, pairs |-> pairs] /\ w.head \in Heads
  BY PairsOfDocument DEF IsDocument
<1>2. /\ \A i \in 1 .. n : pairs[i] \in left
      /\ \A i \in 1 .. n, u \in Literals : <<pairs[i][1], u>> \in left
  BY DEF PairsLeft
<1>3. pairs \in Seq(left)
  <2>1. PICK S : pairs \in Seq(S)
    BY DEF IsDocument
  <2>2. pairs = [i \in 1 .. n |-> pairs[i]]
    BY <1>1, <2>1, SeqDef
  <2> HIDE DEF left, pairs, n
  <2>3. pairs \in [1 .. n -> left]
    BY <1>2, <2>2
  <2> QED BY <1>1, <2>3, SeqDef
<1>4. \A m \in 0 .. n + 1 : WriteHead(m) \in Heads
  <2>1. Limit[4] \in Nat
    BY LimitsGrow DEF Widths
  <2>2. \A m \in 0 .. n + 1 : m \in 0 .. (Limit[4] - 1)
    BY <1>1, <2>1
  <2> QED BY <2>2, HeadsRoundTrip
<1>5. touched \subseteq 1 .. n
  BY <1>1
<1> HIDE DEF pairs, n, left, touched
<1>6. ASSUME NEW s \in Seq(left), Len(s) <= n + 1, NEW h \in Heads, v = [head |-> h, pairs |-> s]
      PROVE  /\ IsDocument(v) /\ Len(v.pairs) <= n + 1
             /\ v.pairs \in Seq(left)
  <2>1. v.head = h /\ v.pairs = s
    BY <1>6
  <2>2. \A i \in 1 .. Len(s) : s[i] \in left
    BY <1>6, ElementOfSeq
  <2>3. \A i \in 1 .. Len(s) : s[i] = <<s[i][1], s[i][2]>> /\ s[i][1] \in ToSet(FieldOrder)
    BY <2>2, PairsLeftAre DEF left
  <2> QED BY <1>6, <2>1, <2>3 DEF IsDocument
<1>7. CASE \E i \in touched \ {n} : v = Swapped(w, i)
  <2>1. PICK i \in touched \ {n} : v = Swapped(w, i)
    BY <1>7
  <2> DEFINE s == [pairs EXCEPT ![i] = pairs[i + 1], ![i + 1] = pairs[i]]
  <2>2. i \in 1 .. n /\ i + 1 \in 1 .. n
    BY <1>1, <1>5
  <2>3. s \in [1 .. n -> left]
    BY <1>1, <1>2, <1>3, <2>2
  <2>4. v = [head |-> w.head, pairs |-> s]
    BY <1>1, <2>1 DEF Swapped, pairs
  <2> HIDE DEF s
  <2>5. s \in Seq(left) /\ Len(s) = n
    BY <1>1, <2>3, LengthOf
  <2> QED BY <1>1, <1>6, <2>4, <2>5 DEF n, pairs, left
<1>8. CASE \E i \in touched : v = Recount(RemoveAt(pairs, i))
  <2>1. PICK i \in touched : v = Recount(RemoveAt(pairs, i))
    BY <1>8
  <2> DEFINE s == RemoveAt(pairs, i)
  <2>2. i \in 1 .. n /\ i - 1 \in 0 .. n /\ i + 1 \in 1 .. n + 1
    BY <1>1, <1>5
  <2>3. /\ SubSeq(pairs, 1, i - 1) \in Seq(left) /\ Len(SubSeq(pairs, 1, i - 1)) = i - 1
        /\ SubSeq(pairs, i + 1, n) \in Seq(left) /\ Len(SubSeq(pairs, i + 1, n)) = n - i
    BY <1>1, <1>3, <2>2, SubSeqProperties DEF n
  <2>4. s \in Seq(left) /\ Len(s) = n - 1
    <3>1. s = SubSeq(pairs, 1, i - 1) \o SubSeq(pairs, i + 1, n)
      BY DEF RemoveAt, n
    <3>2. s \in Seq(left) /\ Len(s) = (i - 1) + (n - i)
      BY <2>3, <3>1, ConcatProperties
    <3> QED BY <1>1, <2>2, <3>2
  <2> HIDE DEF s
  <2>5. v = [head |-> WriteHead(n - 1), pairs |-> s]
    BY <2>1, <2>4 DEF Recount, s
  <2>6. n - 1 \in 0 .. n + 1
    BY <1>1, <2>2
  <2> QED BY <1>1, <1>4, <1>6, <2>4, <2>5, <2>6 DEF n, pairs, left
<1>9. CASE \E i \in touched : v = Recount(InsertAt(pairs, i, pairs[i]))
  <2>1. PICK i \in touched : v = Recount(InsertAt(pairs, i, pairs[i]))
    BY <1>9
  <2> DEFINE s == InsertAt(pairs, i, pairs[i])
  <2>2. i \in 1 .. n /\ i - 1 \in 0 .. n
    BY <1>1, <1>5
  <2>3. /\ SubSeq(pairs, 1, i - 1) \in Seq(left) /\ Len(SubSeq(pairs, 1, i - 1)) = i - 1
        /\ SubSeq(pairs, i, n) \in Seq(left) /\ Len(SubSeq(pairs, i, n)) = n - i + 1
    BY <1>1, <1>3, <2>2, SubSeqProperties DEF n
  <2>4. <<pairs[i]>> \in Seq(left) /\ Len(<<pairs[i]>>) = 1
    BY <1>2, <2>2
  <2>5. s \in Seq(left) /\ Len(s) = n + 1
    BY <1>1, <2>2, <2>3, <2>4, ConcatProperties DEF InsertAt, n
  <2> HIDE DEF s
  <2>6. v = [head |-> WriteHead(n + 1), pairs |-> s]
    BY <2>1, <2>5 DEF Recount, s
  <2>7. n + 1 \in 0 .. n + 1
    BY <1>1
  <2> QED BY <1>1, <1>4, <1>6, <2>5, <2>6, <2>7 DEF n, pairs, left
<1>10. CASE \E i \in touched, u \in Literals : v = Put(w, i, u)
  <2>1. PICK i \in touched, u \in Literals : v = Put(w, i, u)
    BY <1>10
  <2> DEFINE s == [pairs EXCEPT ![i] = <<pairs[i][1], u>>]
  <2>2. i \in 1 .. n
    BY <1>5
  <2>3. s \in [1 .. n -> left]
    BY <1>1, <1>2, <1>3, <2>2
  <2>4. v = [head |-> w.head, pairs |-> s]
    BY <1>1, <2>1 DEF Put, pairs
  <2> HIDE DEF s
  <2>5. s \in Seq(left) /\ Len(s) = n
    BY <1>1, <2>3, LengthOf
  <2> QED BY <1>1, <1>6, <2>4, <2>5 DEF n, pairs, left
<1>11. CASE \E h \in Heads : v = [w EXCEPT !.head = h]
  <2>1. PICK h \in Heads : v = [w EXCEPT !.head = h]
    BY <1>11
  <2>2. v = [head |-> h, pairs |-> pairs]
    BY <1>1, <2>1
  <2>3. Len(pairs) = n
    BY DEF n
  <2> QED BY <1>1, <1>3, <1>6, <2>2, <2>3 DEF n, pairs, left
<1>12. \/ \E i \in touched \ {n} : v = Swapped(w, i)
       \/ \E i \in touched : v = Recount(RemoveAt(pairs, i))
       \/ \E i \in touched : v = Recount(InsertAt(pairs, i, pairs[i]))
       \/ \E i \in touched, u \in Literals : v = Put(w, i, u)
       \/ \E h \in Heads : v = [w EXCEPT !.head = h]
  BY DEF Edits, touched, pairs, n
<1> QED BY <1>7, <1>8, <1>9, <1>10, <1>11, <1>12

LEMMA RehashedIsDocument ==
  ASSUME NEW w, IsDocument(w)
  PROVE  LET v == Rehashed(w)
         IN  /\ IsDocument(v) /\ Len(v.pairs) = Len(w.pairs)
             /\ \A i \in 1 .. Len(w.pairs) : v.pairs[i] = w.pairs[i] \/ v.pairs[i][1] = "receipt_hash"
<1> DEFINE v == Rehashed(w)
           n == Len(w.pairs)
           hash == Bytes(32, Blake3(<<"cbor", HashPreimage(w)>>))
           s == [i \in DOMAIN w.pairs |->
                   IF w.pairs[i][1] = "receipt_hash" THEN <<"receipt_hash", hash>> ELSE w.pairs[i]]
           S == {s[i] : i \in 1 .. n}
<1>1. n \in Nat /\ DOMAIN w.pairs = 1 .. n /\ w = [head |-> w.head, pairs |-> w.pairs] /\ w.head \in Heads
  BY PairsOfDocument DEF IsDocument
<1>2. v = [w EXCEPT !.pairs = s]
  BY DEF Rehashed
<1>3. v = [head |-> w.head, pairs |-> s]
  <2> HIDE DEF s, v
  <2> QED BY <1>1, <1>2
<1>4. "receipt_hash" \in ToSet(FieldOrder)
  BY SharedAreNames DEF Shared
<1>5. \A i \in 1 .. n : s[i] = w.pairs[i] \/ s[i] = <<"receipt_hash", hash>>
  BY <1>1
<1>6. s \in [1 .. n -> S]
  BY <1>1
<1> HIDE DEF v, s, S, n
<1>7. s \in Seq(S) /\ Len(s) = n
  BY <1>1, <1>6, LengthOf
<1>8. \A i \in 1 .. n : s[i] = <<s[i][1], s[i][2]>> /\ s[i][1] \in ToSet(FieldOrder)
  BY <1>4, <1>5 DEF IsDocument, n
<1>9. v.head = w.head /\ v.pairs = s
  BY <1>3
<1>10. IsDocument(v)
  BY <1>1, <1>3, <1>7, <1>8, <1>9 DEF IsDocument
<1>11. \A i \in 1 .. n : v.pairs[i] = w.pairs[i] \/ v.pairs[i][1] = "receipt_hash"
  BY <1>5, <1>9
<1> QED BY <1>7, <1>9, <1>10, <1>11 DEF v, n

\* Each signature in a document was put there, or is the one of a published
\* receipt.
SignaturesKnown(w, l) ==
  \A i \in 1 .. Len(w.pairs) : w.pairs[i][1] = "receipt_signature" =>
    \/ w.pairs[i][2] \in Literals
    \/ \E j \in 1 .. Len(l) : w.pairs[i][2] = Lookup(l[j].wire, "receipt_signature")

HeldInv(h, l, e) ==
  /\ \E S : h \in Seq(S)
  /\ Len(h) <= MaxHeld /\ e \in 0 .. MaxEdits /\ (e > 0 => Len(h) = 1)
  /\ \A i \in 1 .. Len(h) :
       IsDocument(h[i]) /\ Len(h[i].pairs) <= Len(FieldOrder) + e /\ SignaturesKnown(h[i], l)
  /\ e = 0 => \A i \in 1 .. Len(h) : \E j \in 1 .. Len(l) : h[i] = l[j].wire

\* What is published later changes nothing of it.
LEMMA LogGrows ==
  ASSUME NEW l, \E S : l \in Seq(S), NEW r, NEW h, NEW e, HeldInv(h, l, e)
  PROVE  HeldInv(h, Append(l, r), e)
<1>1. \A i \in 1 .. Len(l) : i \in 1 .. Len(Append(l, r)) /\ Append(l, r)[i] = l[i]
  <2>1. /\ Len(l) \in Nat /\ Len(Append(l, r)) = Len(l) + 1
        /\ \A i \in 1 .. Len(l) : Append(l, r)[i] = l[i]
    BY ChainsGrow
  <2> QED BY <2>1
<1> QED BY <1>1 DEF HeldInv, SignaturesKnown

LEMMA FetchKeepsHeld ==
  ASSUME NEW l, LogInv(l), NEW h, HeldInv(h, l, 0), Len(h) < MaxHeld, NEW i \in 1 .. Len(l)
  PROVE  HeldInv(Append(h, l[i].wire), l, 0)
<1> DEFINE w == l[i].wire
           g == Append(h, w)
<1>1. /\ \E S : g \in Seq(S)
      /\ Len(h) \in Nat /\ Len(g) = Len(h) + 1 /\ g[Len(h) + 1] = w
      /\ \A n \in 1 .. Len(h) : g[n] = h[n]
      /\ \A n \in 1 .. Len(g) : n \in 1 .. Len(h) \/ n = Len(h) + 1
  BY ChainsGrow DEF HeldInv
<1> HIDE DEF g
<1>2. PICK body : IsBody(body) /\ w = Published(body, l[i].signedBy)
  BY EachIsPublished
<1>3. /\ IsDocument(w) /\ Len(w.pairs) <= Len(FieldOrder)
      /\ \A n \in 1 .. Len(w.pairs) :
           w.pairs[n][1] = "receipt_signature" => w.pairs[n][2] = Lookup(w, "receipt_signature")
  BY <1>2, PublishedIsDocument, PublishedReceipt
<1>4. SignaturesKnown(w, l)
  BY <1>3 DEF SignaturesKnown
<1>5. Len(FieldOrder) + 0 = Len(FieldOrder)
  BY RankOfNames
<1>6. \A n \in 1 .. Len(g) :
        IsDocument(g[n]) /\ Len(g[n].pairs) <= Len(FieldOrder) + 0 /\ SignaturesKnown(g[n], l)
  BY <1>1, <1>3, <1>4, <1>5 DEF HeldInv
<1>7. \A n \in 1 .. Len(g) : \E j \in 1 .. Len(l) : g[n] = l[j].wire
  BY <1>1 DEF HeldInv
<1>8. Len(g) <= MaxHeld
  BY <1>1, VerifierAssumption
<1>9. HeldInv(g, l, 0)
  BY <1>1, <1>6, <1>7, <1>8 DEF HeldInv
<1> QED BY <1>9 DEF g, w

LEMMA EditKeepsHeld ==
  ASSUME NEW l, LogInv(l), NEW h, NEW e, HeldInv(h, l, e), Len(h) = 1, e < MaxEdits,
         NEW v \in Edits(h[1]), NEW g \in {<<v>>, <<Rehashed(v)>>}
  PROVE  HeldInv(g, l, e + 1)
<1> DEFINE w == h[1]
<1>1. /\ IsDocument(w) /\ Len(w.pairs) <= Len(FieldOrder) + e /\ SignaturesKnown(w, l)
      /\ e \in 0 .. MaxEdits /\ 1 <= MaxHeld
  BY DEF HeldInv
<1>2. MaxEdits \in Nat /\ MaxHeld \in Nat /\ Len(FieldOrder) \in Nat /\ Limit[4] \in Nat
      /\ Len(FieldOrder) + MaxEdits < Limit[4] /\ Len(w.pairs) \in Nat
  BY <1>1, VerifierAssumption, RankOfNames, LimitsGrow, PairsOfDocument DEF Widths
<1>3. /\ IsDocument(v) /\ Len(v.pairs) <= Len(w.pairs) + 1
      /\ v.pairs \in Seq(PairsLeft(w))
  <2>1. Len(w.pairs) + 1 < Limit[4]
    BY <1>1, <1>2
  <2> QED BY <1>1, <2>1, EditsAreDocuments
<1>4. Len(v.pairs) \in Nat /\ Len(v.pairs) <= Len(FieldOrder) + (e + 1)
  <2>1. Len(v.pairs) \in Nat
    BY <1>3, PairsOfDocument
  <2> QED BY <1>1, <1>2, <1>3, <2>1
<1>5. SignaturesKnown(v, l)
  <2>1. ASSUME NEW i \in 1 .. Len(v.pairs), v.pairs[i][1] = "receipt_signature"
        PROVE  \/ v.pairs[i][2] \in Literals
               \/ \E j \in 1 .. Len(l) : v.pairs[i][2] = Lookup(l[j].wire, "receipt_signature")
    <3>1. v.pairs[i] \in PairsLeft(w)
      BY <1>3, ElementOfSeq
    <3>2. v.pairs[i][2] \in Literals \/ \E n \in 1 .. Len(w.pairs) : v.pairs[i] = w.pairs[n]
      BY <1>1, <3>1, PairsLeftAre
    <3> QED BY <1>1, <2>1, <3>2 DEF SignaturesKnown
  <2> QED BY <2>1 DEF SignaturesKnown
<1> HIDE DEF w
<1>6. ASSUME NEW u, IsDocument(u), Len(u.pairs) = Len(v.pairs), SignaturesKnown(u, l), g = <<u>>
      PROVE  HeldInv(g, l, e + 1)
  <2>1. g \in Seq({u}) /\ Len(g) = 1 /\ g[1] = u /\ \A i \in 1 .. Len(g) : i = 1
    BY <1>6
  <2>2. e + 1 \in 0 .. MaxEdits /\ e + 1 # 0
    BY <1>1, <1>2
  <2>3. \A i \in 1 .. Len(g) :
          IsDocument(g[i]) /\ Len(g[i].pairs) <= Len(FieldOrder) + (e + 1) /\ SignaturesKnown(g[i], l)
    BY <1>4, <1>6, <2>1
  <2> QED BY <1>1, <2>1, <2>2, <2>3 DEF HeldInv
<1>7. CASE g = <<v>>
  BY <1>3, <1>5, <1>6, <1>7
<1>8. CASE g = <<Rehashed(v)>>
  <2> DEFINE u == Rehashed(v)
  <2>1. /\ IsDocument(u) /\ Len(u.pairs) = Len(v.pairs)
        /\ \A i \in 1 .. Len(v.pairs) : u.pairs[i] = v.pairs[i] \/ u.pairs[i][1] = "receipt_hash"
    BY <1>3, RehashedIsDocument
  <2> HIDE DEF u
  <2>2. SignaturesKnown(u, l)
    BY <1>5, <2>1 DEF SignaturesKnown
  <2> QED BY <1>6, <1>8, <2>1, <2>2 DEF u
<1> QED BY <1>7, <1>8

--------------------------------------------------------------------------------
(* The invariant.                                                             *)

IInv ==
  /\ key \in Keys \cup {"none"}
  /\ LogInv(log)
  /\ HeldInv(held, log, edits)

LEMMA OfIsOfIn == \A kind : Places(kind) = PlacesIn(log, kind) /\ Of(kind) = OfIn(log, kind)
  BY DEF Places, PlacesIn, Of, OfIn

LEMMA InitIInv == Init => IInv
<1> SUFFICES ASSUME Init PROVE IInv
  OBVIOUS
<1>1. (\A S : <<>> \in Seq(S)) /\ Len(<<>>) = 0 /\ 1 .. 0 = {}
  BY EmptySeq
<1>2. log = <<>> /\ held = <<>> /\ edits = 0 /\ key \in Keys \cup {"none"}
  BY DEF Init
<1>3. CountOf(log, "snapshot") = 0 /\ CountOf(log, "entry_enriched") = 0
  BY <1>1, <1>2, ChainIsList
<1>4. LogInv(log)
  BY <1>1, <1>2, <1>3, VerifierAssumption DEF LogInv, SnapshotsHold, EnrichmentsHold, OthersHold
<1>5. HeldInv(held, log, edits)
  BY <1>1, <1>2, VerifierAssumption DEF HeldInv
<1> QED BY <1>2, <1>4, <1>5 DEF IInv

LEMMA PublishKeeps ==
  ASSUME IInv, NEW kind, NEW body, NEW entries, NEW text, Publish(kind, body, entries, text),
         LogInv(log')
  PROVE  IInv'
<1>1. PICK r : log' = Append(log, r)
  BY DEF Publish
<1>2. key' = key /\ held' = held /\ edits' = edits
  BY DEF Publish
<1>3. HeldInv(held, log', edits)
  BY <1>1, LogGrows DEF IInv, LogInv
<1> QED BY <1>2, <1>3 DEF IInv

\* The receipt that is added.
LEMMA PublishAdds ==
  ASSUME NEW kind, NEW body, NEW entries, NEW text, Publish(kind, body, entries, text)
  PROVE  /\ Len(log) < MaxLog /\ OfIn(log, "other") = <<>>
         /\ \E e : /\ log' = Append(log, e) /\ e.kind = kind /\ e.signedBy = key /\ e.entries = entries
                   /\ e.text = text /\ e.wire = Published(body, key)
<1> DEFINE e == [kind |-> kind, signedBy |-> key, entries |-> entries, text |-> text,
                 wire |-> Published(body, key)]
<1>1. Len(log) < MaxLog /\ OfIn(log, "other") = <<>> /\ log' = Append(log, e)
  BY OfIsOfIn DEF Publish, Published
<1>2. /\ e.kind = kind /\ e.signedBy = key /\ e.entries = entries
      /\ e.text = text /\ e.wire = Published(body, key)
  OBVIOUS
<1> QED BY <1>1, <1>2

LEMMA NextIInv == IInv /\ [Next]_vars => IInv'
<1> SUFFICES ASSUME IInv, [Next]_vars PROVE IInv'
  OBVIOUS
<1>1. key \in Keys \cup {"none"} /\ LogInv(log) /\ HeldInv(held, log, edits)
  BY DEF IInv
<1>2. CASE PublishSnapshot
  <2>1. PICK entries \in EntrySets :
          LET chain == Of("snapshot")
              prev == IF chain = <<>> THEN <<>> ELSE SnapshotMerkleRoot(Last(chain).entries)
          IN  Publish("snapshot",
                RegistrySnapshot(Len(log), SnapshotMerkleRoot(entries), prev, Len(entries)), entries, NoText)
    BY <1>2 DEF PublishSnapshot
  <2> DEFINE prev == IF OfIn(log, "snapshot") = <<>> THEN <<>>
                     ELSE SnapshotMerkleRoot(Last(OfIn(log, "snapshot")).entries)
             body == RegistrySnapshot(Len(log), SnapshotMerkleRoot(entries), prev, Len(entries))
  <2>2. Publish("snapshot", body, entries, NoText)
    BY <2>1, OfIsOfIn
  <2> HIDE DEF body
  <2>3. Len(log) < MaxLog /\ OfIn(log, "other") = <<>>
    BY <2>2, PublishAdds
  <2>4. PICK e : /\ log' = Append(log, e) /\ e.kind = "snapshot" /\ e.signedBy = key
                 /\ e.entries = entries /\ e.wire = Published(body, key)
    BY <2>2, PublishAdds
  <2>5. LogInv(Append(log, e))
    <3> HIDE DEF prev
    <3>1. e.wire = Published(RegistrySnapshot(Len(log), SnapshotMerkleRoot(e.entries), prev, Len(e.entries)),
                             e.signedBy)
      BY <2>4 DEF body
    <3>2. prev = IF OfIn(log, "snapshot") = <<>> THEN <<>>
                 ELSE SnapshotMerkleRoot(Last(OfIn(log, "snapshot")).entries)
      BY DEF prev
    <3> QED BY <1>1, <2>3, <2>4, <3>1, <3>2, SnapshotKeepsLog
  <2> QED BY <2>2, <2>4, <2>5, PublishKeeps
<1>3. CASE PublishEnrichment
  <2>1. PICK text \in {t \in Texts : t.json /\ NameIn(t) # "absent"} :
          LET chain == Of("entry_enriched")
              prior == IF chain = <<>> THEN <<>> ELSE Lookup(Last(chain).wire, "receipt_hash")[3]
          IN  Publish("entry_enriched",
                EntryEnriched(Len(log), NameIn(text), DeclarationHash(text), prior), <<>>, text)
    BY <1>3 DEF PublishEnrichment
  <2> DEFINE prior == IF OfIn(log, "entry_enriched") = <<>> THEN <<>>
                      ELSE Lookup(Last(OfIn(log, "entry_enriched")).wire, "receipt_hash")[3]
             body == EntryEnriched(Len(log), NameIn(text), DeclarationHash(text), prior)
  <2>2. Publish("entry_enriched", body, <<>>, text)
    BY <2>1, OfIsOfIn
  <2> HIDE DEF body
  <2>3. Len(log) < MaxLog /\ OfIn(log, "other") = <<>>
    BY <2>2, PublishAdds
  <2>4. PICK e : /\ log' = Append(log, e) /\ e.kind = "entry_enriched" /\ e.signedBy = key
                 /\ e.text = text /\ e.wire = Published(body, key)
    BY <2>2, PublishAdds
  <2>5. LogInv(Append(log, e))
    <3> HIDE DEF prior
    <3>1. e.wire = Published(EntryEnriched(Len(log), NameIn(e.text), DeclarationHash(e.text), prior),
                             e.signedBy)
      BY <2>4 DEF body
    <3>2. prior = IF OfIn(log, "entry_enriched") = <<>> THEN <<>>
                  ELSE Lookup(Last(OfIn(log, "entry_enriched")).wire, "receipt_hash")[3]
      BY DEF prior
    <3> QED BY <1>1, <2>1, <2>3, <2>4, <3>1, <3>2, EnrichmentKeepsLog
  <2> QED BY <2>2, <2>4, <2>5, PublishKeeps
<1>4. CASE PublishOther
  <2>1. PICK body \in Others : Publish("other", body, <<>>, NoText)
    BY <1>4 DEF PublishOther
  <2>2. log = <<>> /\ Len(log) < MaxLog
    BY <1>4, <2>1, PublishAdds DEF PublishOther
  <2>3. PICK e : /\ log' = Append(log, e) /\ e.kind = "other" /\ e.signedBy = key
                 /\ e.wire = Published(body, key)
    BY <2>1, PublishAdds
  <2>4. LogInv(Append(log, e))
    <3>1. 0 < MaxLog
      BY <2>2, EmptySeq
    <3> QED BY <1>1, <2>2, <2>3, <3>1, OtherKeepsLog
  <2> QED BY <2>1, <2>3, <2>4, PublishKeeps
<1>5. CASE \E k \in Keys \cup {"none"} : Rotate(k)
  BY <1>1, <1>5 DEF Rotate, IInv
<1>6. CASE \E i \in DOMAIN log : Fetch(i)
  <2>1. PICK i \in 1 .. Len(log) : Fetch(i)
    BY <1>1, <1>6, EachIsPublished
  <2>2. /\ Len(held) < MaxHeld /\ edits = 0 /\ held' = Append(held, log[i].wire)
        /\ key' = key /\ log' = log /\ edits' = edits
    BY <2>1 DEF Fetch
  <2>3. HeldInv(held', log, 0)
    BY <1>1, <2>2, FetchKeepsHeld
  <2> QED BY <1>1, <2>2, <2>3 DEF IInv
<1>7. CASE Edit
  <2>1. /\ Len(held) = 1 /\ edits < MaxEdits /\ edits' = edits + 1
        /\ key' = key /\ log' = log
    BY <1>7 DEF Edit
  <2>2. PICK v \in Edits(held[1]) : held' \in {<<v>>, <<Rehashed(v)>>}
    BY <1>7 DEF Edit
  <2>3. HeldInv(held', log, edits + 1)
    BY <1>1, <2>1, <2>2, EditKeepsHeld
  <2> QED BY <1>1, <2>1, <2>3 DEF IInv
<1>8. CASE UNCHANGED vars
  BY <1>1, <1>8 DEF vars, IInv
<1> QED BY <1>2, <1>3, <1>4, <1>5, <1>6, <1>7, <1>8 DEF Next

\* Everything in the log is a receipt of the registry, in its place in its chain,
\* and what is held is a document with signatures that were published.
THEOREM SpecIInv == Spec => []IInv
<1> QED BY InitIInv, NextIInv, PTL DEF Spec

\* Every head that is published is written as the decoder wants it, and none
\* that is held is without a form (write_head, read_arg).
THEOREM TypeCorrect == Spec => []TypeOK
<1>1. ASSUME IInv PROVE TypeOK
  <2>1. key \in Keys \cup {"none"} /\ LogInv(log) /\ HeldInv(held, log, edits)
    BY <1>1 DEF IInv
  <2>2. ASSUME NEW i \in DOMAIN log
        PROVE  /\ log[i].kind \in Kinds /\ log[i].signedBy \in Keys \cup {"none"}
               /\ AcceptsHead(log[i].wire.head) /\ log[i].wire.head \in Heads
    <3>1. i \in 1 .. Len(log)
      BY <2>1, EachIsPublished
    <3>2. PICK body : IsBody(body) /\ log[i].wire = Published(body, log[i].signedBy)
      BY <2>1, <3>1, EachIsPublished
    <3>3. AcceptsHead(log[i].wire.head) /\ log[i].wire.head \in Heads
      BY <3>2, PublishedReceipt
    <3> QED BY <2>1, <3>1, <3>3 DEF LogInv
  <2>3. ASSUME NEW i \in DOMAIN held PROVE held[i].head \in Heads
    <3>1. PICK S : held \in Seq(S)
      BY <2>1 DEF HeldInv
    <3>2. i \in 1 .. Len(held)
      BY <3>1, LenProperties
    <3> QED BY <2>1, <3>2 DEF HeldInv, IsDocument
  <2> QED BY <2>1, <2>2, <2>3 DEF TypeOK, LogInv, HeldInv
<1> QED BY <1>1, SpecIInv, PTL

--------------------------------------------------------------------------------
(* What a verdict tells of the log.                                           *)

\* The value that is found under a name is the value of some pair of that name.
LEMMA LookupIsSome ==
  ASSUME NEW w, IsDocument(w), NEW name, Lookup(w, name) # Missing
  PROVE  \E i \in 1 .. Len(w.pairs) : w.pairs[i][1] = name /\ w.pairs[i][2] = Lookup(w, name)
<1> DEFINE found == {i \in DOMAIN w.pairs : w.pairs[i][1] = name}
<1>1. Len(w.pairs) \in Nat /\ DOMAIN w.pairs = 1 .. Len(w.pairs)
  BY PairsOfDocument
<1>2. found # {} /\ Lookup(w, name) = w.pairs[Min(found)][2]
  BY DEF Lookup
<1>3. found \subseteq 1 .. Len(w.pairs)
  BY <1>1
<1>4. Min(found) \in found
  <2> HIDE DEF found
  <2>1. \E x \in found : \A y \in found : x <= y
    BY <1>1, <1>2, <1>3, HasLeast
  <2> QED BY <2>1 DEF Min
<1> QED BY <1>1, <1>2, <1>4

\* A document that is held verifies under the key its receipt was signed with.
LEMMA HeldVerifiedWasSigned ==
  ASSUME NEW l, LogInv(l), NEW w, IsDocument(w), SignaturesKnown(w, l),
         NEW k, VerifyReceipt(w, k) = "verified"
  PROVE  \E j \in 1 .. Len(l) : l[j].wire = w /\ l[j].signedBy = k
<1> DEFINE signature == Lookup(w, "receipt_signature")
<1>1. k \in Keys /\ signature = Bytes(64, Ed25519(k, SigningPreimage(w)))
  BY ReceiptTells DEF IsReadable
<1>2. signature # Missing
  BY <1>1 DEF Bytes, Missing
<1>3. PICK i \in 1 .. Len(w.pairs) : w.pairs[i][1] = "receipt_signature" /\ w.pairs[i][2] = signature
  <2> HIDE DEF signature
  <2>1. Lookup(w, "receipt_signature") = signature
    BY DEF signature
  <2> QED BY <1>2, <2>1, LookupIsSome
<1>4. signature \notin Literals
  <2> HIDE DEF signature
  <2>1. ASSUME signature \in Literals PROVE FALSE
    <3>1. signature[1] = "bytes" /\ signature[2] = 64 /\ signature[3] = Ed25519(k, SigningPreimage(w))
      BY <1>1 DEF Bytes
    <3>2. signature = Zeros(64)
      BY <2>1, <3>1, VerifierAssumption
    <3> QED BY <3>1, <3>2 DEF Zeros, Bytes, Ed25519
  <2> QED BY <2>1
<1>5. PICK j \in 1 .. Len(l) : signature = Lookup(l[j].wire, "receipt_signature")
  BY <1>3, <1>4 DEF SignaturesKnown
<1>6. PICK body : IsBody(body) /\ l[j].wire = Published(body, l[j].signedBy)
  BY EachIsPublished
<1>7. signature = SignatureOf(body, l[j].signedBy)
  BY <1>5, <1>6, PublishedReceipt
<1>8. l[j].signedBy \in Keys
  <2>1. l[j].signedBy # "none"
    <3> HIDE DEF signature
    <3>1. signature # Zeros(64)
      BY <1>1 DEF Zeros, Bytes, Ed25519
    <3> QED BY <1>7, <3>1 DEF SignatureOf
  <2> QED BY <2>1, EachIsPublished
<1>9. w = Published(body, k) /\ l[j].signedBy = k
  BY <1>6, <1>7, <1>8, VerifiedIsPublished
<1> QED BY <1>6, <1>9

\* A document that verifies under a key was signed with it, byte for byte, for
\* any edits of any fields and any number of them (verify_receipt).
THEOREM VerifiedWasSignedAlways == Spec => []VerifiedWasSigned
<1>1. ASSUME IInv PROVE VerifiedWasSigned
  <2>1. LogInv(log) /\ HeldInv(held, log, edits)
    BY <1>1 DEF IInv
  <2>2. ASSUME NEW i \in DOMAIN held, NEW k \in Keys, VerifyReceipt(held[i], k) = "verified"
        PROVE  \E j \in DOMAIN log : log[j].wire = held[i] /\ log[j].signedBy = k
    <3>1. PICK S : held \in Seq(S)
      BY <2>1 DEF HeldInv
    <3>2. i \in 1 .. Len(held)
      BY <3>1, LenProperties
    <3>3. IsDocument(held[i]) /\ SignaturesKnown(held[i], log)
      BY <2>1, <3>2 DEF HeldInv
    <3>4. \E j \in 1 .. Len(log) : log[j].wire = held[i] /\ log[j].signedBy = k
      BY <2>1, <2>2, <3>3, HeldVerifiedWasSigned
    <3> QED BY <2>1, <3>4, EachIsPublished
  <2> QED BY <2>2 DEF VerifiedWasSigned
<1> QED BY <1>1, SpecIInv, PTL

\* The value of a field, as the typed check finds it.
LEMMA FieldOfBody ==
  ASSUME NEW body, IsBody(body), NEW k, NEW name, NEW v, <<name, v>> \in body
  PROVE  FieldOf(Published(body, k), name) = v
<1>1. <<name, v>> \in FieldsOf(body, k)
  BY DEF FieldsOf, Whole
<1> QED BY <1>1, PublishedReceipt

\* Equal digests are of equal declarations, with one name.
LEMMA NamespaceTells ==
  ASSUME NEW text, NEW hash, NEW name, VerifyNamespace(text, hash, name) = "verified"
  PROVE  DeclarationHash(text) = hash /\ NameIn(text) = name
<1> DEFINE declared == VerifyPublisher(text, hash)
           named == NameIn(text) # "absent"
           claimed == NameIn(text) = name
           equal == DeclarationHash(text) = hash
           checks == << <<declared, declared = "verified">>, <<"missing_field", named>>,
                        <<"namespace_mismatch", claimed>> >>
           same == << <<"decode_error", text.json>>, <<"declaration_hash_mismatch", equal>> >>
<1>1. First(checks) = "verified" /\ declared = First(same)
  BY DEF VerifyNamespace, VerifyPublisher
<1>2. DOMAIN checks = 1 .. 3 /\ DOMAIN same = 1 .. 2
  OBVIOUS
<1>3. /\ checks[1][1] = declared /\ checks[2][1] = "missing_field" /\ checks[3][1] = "namespace_mismatch"
      /\ same[1][1] = "decode_error" /\ same[2][1] = "declaration_hash_mismatch"
  OBVIOUS
<1>4. (checks[1][2] <=> declared = "verified") /\ (checks[3][2] <=> claimed) /\ (same[2][2] <=> equal)
  OBVIOUS
<1> HIDE DEF checks, same, declared, named, claimed, equal
<1>5. declared = "verified" /\ claimed
  <2>1. \/ First(checks) = "verified" /\ \A i \in 1 .. 3 : checks[i][2]
        \/ \E i \in 1 .. 3 : First(checks) = checks[i][1] /\ ~checks[i][2]
    BY <1>2, FirstFailed
  <2>2. \A i \in 1 .. 3 : i = 1 \/ i = 2 \/ i = 3
    OBVIOUS
  <2> QED BY <1>1, <1>3, <1>4, <2>1, <2>2
<1>6. equal
  <2>1. \/ First(same) = "verified" /\ \A i \in 1 .. 2 : same[i][2]
        \/ \E i \in 1 .. 2 : First(same) = same[i][1] /\ ~same[i][2]
    BY <1>2, FirstFailed
  <2>2. \A i \in 1 .. 2 : i = 1 \/ i = 2
    OBVIOUS
  <2> QED BY <1>1, <1>3, <1>4, <1>5, <2>1, <2>2
<1> QED BY <1>5, <1>6 DEF claimed, equal

\* A namespace that verifies against the digest of a published declaration is
\* the name in its receipt, for any declarations (verify_namespace).
THEOREM DeclarationsBindTheNameAlways == Spec => []DeclarationsBindTheName
<1>1. ASSUME IInv PROVE DeclarationsBindTheName
  <2>1. LogInv(log)
    BY <1>1 DEF IInv
  <2>2. ASSUME NEW i \in DOMAIN log, log[i].kind = "entry_enriched", NEW text \in Texts, NEW name \in Names,
               VerifyNamespace(text, DeclarationHash(log[i].text), name) = "verified"
        PROVE  FieldOf(log[i].wire, "server_name") = Text(name)
    <3>1. DeclarationHash(text) = DeclarationHash(log[i].text) /\ NameIn(text) = name
      BY <2>2, NamespaceTells
    <3>2. Parsed(text) = Parsed(log[i].text)
      BY <3>1 DEF DeclarationHash, Blake3
    <3>3. NameIn(log[i].text) = name
      BY <3>1, <3>2 DEF NameIn
    <3>4. PICK n \in 1 .. CountOf(log, "entry_enriched") : OfIn(log, "entry_enriched")[n] = log[i]
      <4>1. i \in 1 .. Len(log) /\ \E S : log \in Seq(S)
        BY <2>1, EachIsPublished DEF LogInv
      <4> QED BY <2>2, <4>1, PlacesOfKind
    <3>5. /\ log[i].wire = Published(EnrichmentAt(log, n), log[i].signedBy)
          /\ IsBody(EnrichmentAt(log, n))
      BY <2>1, <3>4, EachIsPublished
    <3>6. <<"server_name", Text(name)>> \in EnrichmentAt(log, n)
      BY <3>3, <3>4 DEF EnrichmentAt, EntryEnriched
    <3> QED BY <3>5, <3>6, FieldOfBody
  <2> QED BY <2>2 DEF DeclarationsBindTheName
<1> QED BY <1>1, SpecIInv, PTL

--------------------------------------------------------------------------------
(* Digests of entry lists.                                                    *)

\* Rows are in one order, whatever list they are taken from.
LEMMA RowsAreOrdered ==
  ASSUME NEW e, IsEntryList(e)
  PROVE  /\ Len(e) \in Nat /\ DOMAIN e = 1 .. Len(e)
         /\ \A i, j \in 1 .. Len(e) : i = j \/ Before(e[i], e[j]) \/ Before(e[j], e[i])
         /\ \A i, j \in 1 .. Len(e) : Before(e[i], e[j]) => i # j /\ e[i] # e[j] /\ ~Before(e[j], e[i])
         /\ \A i, j, k \in 1 .. Len(e) : Before(e[i], e[j]) /\ Before(e[j], e[k]) => Before(e[i], e[k])
<1>1. Len(e) \in Nat /\ DOMAIN e = 1 .. Len(e) /\ \A i \in 1 .. Len(e) : e[i] \in Entry
  BY LenProperties, ElementOfSeq DEF IsEntryList
<1>2. \A i \in 1 .. Len(e) : e[i].name \in Nat /\ e[i].version \in Nat
  BY <1>1 DEF Entry
<1>3. \A i, j \in 1 .. Len(e) : e[i].name = e[j].name /\ e[i].version = e[j].version => i = j
  BY <1>1 DEF IsEntryList
<1>4. \A i, j \in 1 .. Len(e) : i = j \/ Before(e[i], e[j]) \/ Before(e[j], e[i])
  BY <1>2, <1>3 DEF Before
<1>5. \A i, j \in 1 .. Len(e) : Before(e[i], e[j]) => i # j /\ e[i] # e[j] /\ ~Before(e[j], e[i])
  BY <1>2 DEF Before
<1>6. \A i, j, k \in 1 .. Len(e) : Before(e[i], e[j]) /\ Before(e[j], e[k]) => Before(e[i], e[k])
  BY <1>2 DEF Before
<1> QED BY <1>1, <1>4, <1>5, <1>6

\* Sorting a list arranges its set.
LEMMA SortedIsOfTheSet ==
  ASSUME NEW e, IsEntryList(e)
  PROVE  /\ SortedEntries(e) = Arranged(ToSet(e), [x \in ToSet(e) |-> {y \in ToSet(e) : y = x \/ Before(y, x)}])
         /\ SortedEntries(e) \in [1 .. Len(e) -> ToSet(e)]
         /\ \A x \in ToSet(e) : \E k \in 1 .. Len(e) : SortedEntries(e)[k] = x
         /\ Cardinality(ToSet(e)) = Len(e)
<1> DEFINE n == Len(e)
           set == ToSet(e)
           upto == [x \in set |-> {y \in set : y = x \/ Before(y, x)}]
           below == [i \in 1 .. n |-> {j \in 1 .. n : j = i \/ Before(e[j], e[i])}]
           order == Arranged(1 .. n, below)
           s == SortedEntries(e)
<1>1. /\ n \in Nat /\ DOMAIN e = 1 .. n
      /\ \A i, j \in 1 .. n : i = j \/ Before(e[i], e[j]) \/ Before(e[j], e[i])
      /\ \A i, j \in 1 .. n : Before(e[i], e[j]) => i # j /\ e[i] # e[j] /\ ~Before(e[j], e[i])
      /\ \A i, j, k \in 1 .. n : Before(e[i], e[j]) /\ Before(e[j], e[k]) => Before(e[i], e[k])
  BY RowsAreOrdered
<1>2. /\ \A i \in 1 .. n : e[i] \in set
      /\ \A x \in set : \E i \in 1 .. n : x = e[i]
  BY <1>1 DEF ToSet
<1>3. s = [k \in 1 .. n |-> e[order[k]]]
  BY <1>1 DEF SortedEntries
<1> HIDE DEF n, set, s
<1>4. IsFiniteSet(1 .. n) /\ Cardinality(1 .. n) = n
  <2>1. \A k \in Int : IsFiniteSet(1 .. k) /\ Cardinality(1 .. k) = IF 1 > k THEN 0 ELSE k - 1 + 1
    BY FS_Interval
  <2> QED BY <1>1, <2>1
<1>5. \A i \in 1 .. n : below[i] \subseteq 1 .. n /\ i \in below[i]
  OBVIOUS
<1>6. ASSUME NEW i \in 1 .. n, NEW j \in 1 .. n
      PROVE  \/ i = j
             \/ below[i] \subseteq below[j] /\ j \notin below[i]
             \/ below[j] \subseteq below[i] /\ i \notin below[j]
  <2>1. ASSUME NEW u \in 1 .. n, NEW v \in 1 .. n, Before(e[u], e[v])
        PROVE  below[u] \subseteq below[v] /\ v \notin below[u]
    <3>1. v \notin below[u]
      BY <1>1, <2>1
    <3>2. \A x \in 1 .. n : x = u \/ Before(e[x], e[u]) => Before(e[x], e[v])
      BY <1>1, <2>1
    <3> QED BY <3>1, <3>2
  <2>2. i = j \/ Before(e[i], e[j]) \/ Before(e[j], e[i])
    BY <1>1
  <2> HIDE DEF below
  <2> QED BY <2>1, <2>2
<1>7. /\ order \in [1 .. n -> 1 .. n]
      /\ \A i \in 1 .. n : \E k \in 1 .. n : order[k] = i
      /\ \A j, k \in 1 .. n : order[j] = order[k] => j = k
      /\ \A j, k \in 1 .. n : j < k => order[k] \notin below[order[j]]
  <2> DEFINE all == 1 .. n
  <2>1. order = Arranged(all, below)
    OBVIOUS
  <2>2. \A i \in all : below[i] \subseteq all /\ i \in below[i]
    BY <1>5
  <2> HIDE DEF below, order
  <2>3. IsFiniteSet(all) /\ Cardinality(all) = n
    BY <1>4
  <2>4. \A i, j \in all :
          \/ i = j
          \/ below[i] \subseteq below[j] /\ j \notin below[i]
          \/ below[j] \subseteq below[i] /\ i \notin below[j]
    BY <1>6
  <2> HIDE DEF all
  <2>5. /\ order \in [1 .. n -> all]
        /\ \A i \in all : \E k \in 1 .. n : order[k] = i
        /\ \A j, k \in 1 .. n : order[j] = order[k] => j = k
        /\ \A j, k \in 1 .. n : j < k => order[k] \notin below[order[j]]
    BY <2>1, <2>2, <2>3, <2>4, ArrangedIsAll
  <2> QED BY <2>5 DEF all
<1>8. \A k \in 1 .. n : order[k] \in 1 .. n
  <2> HIDE DEF order
  <2> QED BY <1>7
<1>9. \A j, k \in 1 .. n : j < k => Before(e[order[j]], e[order[k]])
  <2> HIDE DEF order
  <2>1. ASSUME NEW j \in 1 .. n, NEW k \in 1 .. n, j < k PROVE Before(e[order[j]], e[order[k]])
    <3>1. order[k] \notin below[order[j]] /\ order[j] \in 1 .. n /\ order[k] \in 1 .. n
      BY <1>7, <1>8, <2>1
    <3>2. order[k] # order[j] /\ ~Before(e[order[k]], e[order[j]])
      BY <3>1
    <3> QED BY <1>1, <3>1, <3>2
  <2> QED BY <2>1
<1> HIDE DEF order, below
<1>10. s \in [1 .. n -> set]
  BY <1>2, <1>3, <1>8
<1>11. \A x \in set : \E k \in 1 .. n : s[k] = x
  <2>1. ASSUME NEW x \in set PROVE \E k \in 1 .. n : s[k] = x
    <3>1. PICK i \in 1 .. n : x = e[i]
      BY <1>2
    <3>2. PICK k \in 1 .. n : order[k] = i
      BY <1>7
    <3> QED BY <1>3, <3>1, <3>2
  <2> QED BY <2>1
<1>12. /\ \A j, k \in 1 .. n : j < k => Before(s[j], s[k])
       /\ \A j, k \in 1 .. n : Before(s[j], s[k]) => s[j] # s[k] /\ ~Before(s[k], s[j])
  BY <1>1, <1>3, <1>8, <1>9
<1>13. \A j, k \in 1 .. n : s[j] = s[k] => j = k
  <2>1. \A j, k \in 1 .. n : j < k \/ j = k \/ k < j
    BY <1>1
  <2> QED BY <1>12, <2>1
<1>14. \A j, k \in 1 .. n : s[j] \in upto[s[k]] <=> j <= k
  <2>1. ASSUME NEW j \in 1 .. n, NEW k \in 1 .. n PROVE s[j] \in upto[s[k]] <=> j <= k
    <3>1. s[j] \in set /\ s[k] \in set
      BY <1>10
    <3>2. s[j] \in upto[s[k]] <=> s[j] = s[k] \/ Before(s[j], s[k])
      BY <3>1
    <3>3. j < k \/ j = k \/ k < j
      BY <1>1
    <3>4. CASE j < k
      BY <1>1, <1>12, <3>2, <3>4
    <3>5. CASE j = k
      BY <1>1, <3>2, <3>5
    <3>6. CASE k < j
      <4>1. s[j] # s[k] /\ ~Before(s[j], s[k])
        BY <1>12, <3>6
      <4> QED BY <1>1, <3>2, <3>6, <4>1
    <3> QED BY <3>3, <3>4, <3>5, <3>6
  <2> QED BY <2>1
<1>15. \A x \in set : upto[x] \subseteq set
  OBVIOUS
<1>16. Cardinality(set) = n /\ s = Arranged(set, upto)
  <2>1. n \in Nat
    BY <1>1
  <2> HIDE DEF upto
  <2>2. IsThatOrder(n, set, upto, s)
    BY <2>1, <1>10, <1>11, <1>13, <1>14, <1>15 DEF IsThatOrder
  <2> QED BY <2>2, OrderIsUnique
<1> QED BY <1>10, <1>11, <1>16 DEF n, set, s

\* Lists have one digest when they are of the same rows, and only then.
LEMMA RootsAreOfSets ==
  ASSUME NEW a, IsEntryList(a), NEW b, IsEntryList(b)
  PROVE  SnapshotMerkleRoot(a) = SnapshotMerkleRoot(b) <=> SameEntries(a, b)
<1>1. SnapshotMerkleRoot(a) = SnapshotMerkleRoot(b) <=> SortedEntries(a) = SortedEntries(b)
  BY DEF SnapshotMerkleRoot, Blake3
<1>2. ASSUME SameEntries(a, b) PROVE SortedEntries(a) = SortedEntries(b)
  <2>1. ToSet(a) = ToSet(b)
    BY <1>2 DEF SameEntries
  <2> QED BY <2>1, SortedIsOfTheSet
<1>3. ASSUME SortedEntries(a) = SortedEntries(b) PROVE SameEntries(a, b)
  <2>1. /\ SortedEntries(a) \in [1 .. Len(a) -> ToSet(a)] /\ SortedEntries(b) \in [1 .. Len(b) -> ToSet(b)]
        /\ \A x \in ToSet(a) : \E k \in 1 .. Len(a) : SortedEntries(a)[k] = x
        /\ \A x \in ToSet(b) : \E k \in 1 .. Len(b) : SortedEntries(b)[k] = x
        /\ Len(a) \in Nat /\ Len(b) \in Nat
    BY SortedIsOfTheSet, RowsAreOrdered
  <2>2. 1 .. Len(a) = 1 .. Len(b)
    BY <1>3, <2>1
  <2>3. Len(a) = Len(b)
    BY <2>1, <2>2
  <2>4. /\ \A k \in 1 .. Len(a) : SortedEntries(a)[k] \in ToSet(a)
        /\ \A k \in 1 .. Len(b) : SortedEntries(b)[k] \in ToSet(b)
    BY <2>1
  <2>5. (\A x \in ToSet(a) : x \in ToSet(b)) /\ \A x \in ToSet(b) : x \in ToSet(a)
    BY <1>3, <2>1, <2>3, <2>4
  <2>6. ToSet(a) = ToSet(b)
    BY <2>5
  <2> QED BY <2>3, <2>6 DEF SameEntries
<1> QED BY <1>1, <1>2, <1>3

LEMMA ReverseIsEntryList ==
  ASSUME NEW e, IsEntryList(e)
  PROVE  IsEntryList(Reverse(e))
<1> DEFINE n == Len(e)
           r == Reverse(e)
<1>1. n \in Nat /\ DOMAIN e = 1 .. n /\ \A i \in 1 .. n : e[i] \in Entry
  BY LenProperties, ElementOfSeq DEF IsEntryList
<1>2. r = [i \in 1 .. n |-> e[(n - i) + 1]]
  BY DEF Reverse
<1> HIDE DEF r, n
<1>3. \A i \in 1 .. n : (n - i) + 1 \in 1 .. n
  BY <1>1
<1>4. r \in [1 .. n -> Entry] /\ DOMAIN r = 1 .. n /\ \A i \in 1 .. n : r[i] = e[(n - i) + 1]
  BY <1>1, <1>2, <1>3
<1>5. r \in Seq(Entry)
  BY <1>1, <1>4, SeqDef
<1>6. ASSUME NEW i \in 1 .. n, NEW j \in 1 .. n, r[i].name = r[j].name, r[i].version = r[j].version
      PROVE  i = j
  <2>1. (n - i) + 1 = (n - j) + 1
    BY <1>1, <1>3, <1>4, <1>6 DEF IsEntryList
  <2> QED BY <1>1, <2>1
<1> QED BY <1>4, <1>5, <1>6 DEF IsEntryList, r

\* The digest of a published snapshot is the one of its entries in any order, and
\* of no other list (snapshot_merkle_root, verify_snapshot).
THEOREM RootsBindTheSetAlways == Spec => []RootsBindTheSet
<1>1. ASSUME IInv PROVE RootsBindTheSet
  <2>1. LogInv(log)
    BY <1>1 DEF IInv
  <2>2. ASSUME NEW i \in DOMAIN log, log[i].kind = "snapshot",
               NEW entries \in EntrySets \cup {Reverse(e) : e \in EntrySets}
        PROVE  VerifySnapshot(entries, SnapshotMerkleRoot(log[i].entries)) = "verified"
                 <=> SameEntries(entries, log[i].entries)
    <3>1. PICK n \in 1 .. CountOf(log, "snapshot") : OfIn(log, "snapshot")[n] = log[i]
      <4>1. i \in 1 .. Len(log) /\ \E S : log \in Seq(S)
        BY <2>1, EachIsPublished DEF LogInv
      <4> QED BY <2>2, <4>1, PlacesOfKind
    <3>2. IsEntryList(log[i].entries)
      BY <2>1, <3>1, EachIsPublished, VerifierAssumption
    <3>3. IsEntryList(entries)
      BY ReverseIsEntryList, VerifierAssumption
    <3> DEFINE same == SnapshotMerkleRoot(entries) = SnapshotMerkleRoot(log[i].entries)
               checks == << <<"root_mismatch", same>> >>
    <3>4. VerifySnapshot(entries, SnapshotMerkleRoot(log[i].entries)) = First(checks)
      BY DEF VerifySnapshot
    <3>5. DOMAIN checks = 1 .. 1
      OBVIOUS
    <3>6. checks[1][1] = "root_mismatch"
      OBVIOUS
    <3>7. checks[1][2] <=> same
      OBVIOUS
    <3> HIDE DEF checks, same
    <3>8. First(checks) = "verified" <=> same
      <4>1. \/ First(checks) = "verified" /\ \A j \in 1 .. 1 : checks[j][2]
            \/ \E j \in 1 .. 1 : First(checks) = checks[j][1] /\ ~checks[j][2]
        BY <3>5, FirstFailed
      <4>2. \A j \in 1 .. 1 : j = 1
        OBVIOUS
      <4> QED BY <3>6, <3>7, <4>1, <4>2
    <3> QED BY <3>2, <3>3, <3>4, <3>8, RootsAreOfSets DEF same
  <2> QED BY <2>2 DEF RootsBindTheSet
<1> QED BY <1>1, SpecIInv, PTL

--------------------------------------------------------------------------------
(* Chains.                                                                    *)

\* What the links of a chain are made of.
LEMMA SnapshotTells ==
  ASSUME NEW l, LogInv(l), NEW n \in 1 .. CountOf(l, "snapshot")
  PROVE  LET r == OfIn(l, "snapshot")[n]
         IN  /\ Lookup(r.wire, "event_id") = Id(PlacesIn(l, "snapshot")[n] - 1)
             /\ Facts(r.wire).root = Bytes(32, SnapshotMerkleRoot(r.entries))
             /\ Lookup(r.wire, "previous_snapshot_hash") = Optional(PriorRoot(l, n))
             /\ Lookup(r.wire, "supersedes_prior") = Missing
<1> DEFINE r == OfIn(l, "snapshot")[n]
           w == r.wire
           body == SnapshotAt(l, n)
           root == SnapshotMerkleRoot(r.entries)
<1>1. IsBody(body) /\ w = Published(body, r.signedBy)
  BY EachIsPublished
<1>2. /\ <<"event_id", Id(PlacesIn(l, "snapshot")[n] - 1)>> \in body
      /\ <<"snapshot_merkle_root", Bytes(32, root)>> \in body
      /\ <<"previous_snapshot_hash", Optional(PriorRoot(l, n))>> \in body
      /\ \A p \in body : p[1] # "supersedes_prior"
  BY SnapshotIsBody DEF SnapshotAt
<1> HIDE DEF body, root, r
<1>3. \A name, v : <<name, v>> \in body => Lookup(w, name) = v
  BY <1>1, PublishedReceipt
<1>4. Lookup(w, "snapshot_merkle_root") = Bytes(32, root)
  BY <1>2, <1>3
<1>5. Facts(w).root = Bytes(32, root)
  BY <1>4 DEF Facts, IsBytes, Bytes
<1>6. Lookup(w, "supersedes_prior") = Missing
  BY <1>1, <1>2, PublishedReceipt, ChainFieldsAreNames
<1>7. /\ Lookup(w, "event_id") = Id(PlacesIn(l, "snapshot")[n] - 1)
      /\ Lookup(w, "previous_snapshot_hash") = Optional(PriorRoot(l, n))
  BY <1>2, <1>3
<1> QED BY <1>5, <1>6, <1>7 DEF r, root

LEMMA EnrichmentTells ==
  ASSUME NEW l, LogInv(l), NEW n \in 1 .. CountOf(l, "entry_enriched")
  PROVE  LET r == OfIn(l, "entry_enriched")[n]
         IN  /\ Lookup(r.wire, "event_id") = Id(PlacesIn(l, "entry_enriched")[n] - 1)
             /\ Facts(r.wire).root = Missing
             /\ Facts(r.wire).hash = Bytes(32, ReceiptHash(EnrichmentAt(l, n)))
             /\ Lookup(r.wire, "receipt_hash")[3] = ReceiptHash(EnrichmentAt(l, n))
             /\ Lookup(r.wire, "previous_snapshot_hash") = Missing
             /\ Lookup(r.wire, "supersedes_prior") = Optional(PriorHash(l, n))
<1> DEFINE r == OfIn(l, "entry_enriched")[n]
           w == r.wire
           body == EnrichmentAt(l, n)
<1>1. IsBody(body) /\ w = Published(body, r.signedBy)
  BY EachIsPublished
<1>2. /\ <<"event_id", Id(PlacesIn(l, "entry_enriched")[n] - 1)>> \in body
      /\ <<"supersedes_prior", Optional(PriorHash(l, n))>> \in body
      /\ \A p \in body : p[1] # "snapshot_merkle_root" /\ p[1] # "previous_snapshot_hash"
  BY EnrichmentIsBody DEF EnrichmentAt
<1> HIDE DEF body, r
<1>3. \A name, v : <<name, v>> \in body => Lookup(w, name) = v
  BY <1>1, PublishedReceipt
<1>4. Lookup(w, "snapshot_merkle_root") = Missing /\ Lookup(w, "previous_snapshot_hash") = Missing
  BY <1>1, <1>2, PublishedReceipt, ChainFieldsAreNames
<1>5. Facts(w).root = Missing
  BY <1>4 DEF Facts, IsBytes, Missing
<1>6. Lookup(w, "receipt_hash") = Bytes(32, ReceiptHash(body))
  BY <1>1, PublishedReceipt
<1>7. Lookup(w, "receipt_hash")[3] = ReceiptHash(body) /\ Facts(w).hash = Bytes(32, ReceiptHash(body))
  BY <1>6 DEF Facts, Bytes
<1>8. /\ Lookup(w, "event_id") = Id(PlacesIn(l, "entry_enriched")[n] - 1)
      /\ Lookup(w, "supersedes_prior") = Optional(PriorHash(l, n))
  BY <1>2, <1>3
<1> QED BY <1>4, <1>5, <1>7, <1>8 DEF r, body

\* A chain has one receipt after the other, and all of them differ.
LEMMA ChainRests ==
  ASSUME NEW l, LogInv(l), NEW kind \in {"snapshot", "entry_enriched"}
  PROVE  LET chain == OfIn(l, kind)
         IN  /\ CountOf(l, kind) \in Nat /\ DOMAIN chain = 1 .. CountOf(l, kind)
             /\ \A n \in 1 .. CountOf(l, kind) :
                  /\ \E body : IsBody(body) /\ chain[n].wire = Published(body, chain[n].signedBy)
                  /\ n > 1 =>
                       /\ LinkOf(kind, chain[n - 1].wire)[2] # Missing
                       /\ Lookup(chain[n].wire, LinkOf(kind, chain[n - 1].wire)[1])
                            = LinkOf(kind, chain[n - 1].wire)[2]
             /\ \A m, n \in 1 .. CountOf(l, kind) : chain[m].wire = chain[n].wire => m = n
<1> DEFINE C == CountOf(l, kind)
           chain == OfIn(l, kind)
<1>1. PICK S : l \in Seq(S)
  BY DEF LogInv
<1>2. C \in Nat /\ DOMAIN chain = 1 .. C
  BY <1>1, ChainIsList
<1>3. ASSUME NEW n \in 1 .. C, n > 1 PROVE n - 1 \in 1 .. C /\ n # 1
  BY <1>2, <1>3
<1>4. ASSUME NEW n \in 1 .. C
      PROVE  \E body : IsBody(body) /\ chain[n].wire = Published(body, chain[n].signedBy)
  BY EachIsPublished
<1>5. ASSUME NEW n \in 1 .. C, n > 1
      PROVE  /\ LinkOf(kind, chain[n - 1].wire)[2] # Missing
             /\ Lookup(chain[n].wire, LinkOf(kind, chain[n - 1].wire)[1]) = LinkOf(kind, chain[n - 1].wire)[2]
  <2>1. n - 1 \in 1 .. C /\ n # 1
    BY <1>3, <1>5
  <2>2. CASE kind = "snapshot"
    <3> DEFINE root == SnapshotMerkleRoot(chain[n - 1].entries)
    <3>1. Facts(chain[n - 1].wire).root = Bytes(32, root)
      BY <2>1, <2>2, SnapshotTells
    <3>2. Lookup(chain[n].wire, "previous_snapshot_hash") = Optional(PriorRoot(l, n))
      BY <2>2, SnapshotTells
    <3>3. PriorRoot(l, n) = root /\ root # <<>>
      BY <2>1, <2>2 DEF PriorRoot, SnapshotMerkleRoot, Blake3
    <3> HIDE DEF root
    <3> QED BY <2>2, <3>1, <3>2, <3>3 DEF LinkOf, Optional, Missing, Bytes
  <2>3. CASE kind = "entry_enriched"
    <3> DEFINE hash == ReceiptHash(EnrichmentAt(l, n - 1))
    <3>1. Facts(chain[n - 1].wire).hash = Bytes(32, hash) /\ Lookup(chain[n - 1].wire, "receipt_hash")[3] = hash
      BY <2>1, <2>3, EnrichmentTells
    <3>2. Lookup(chain[n].wire, "supersedes_prior") = Optional(PriorHash(l, n))
      BY <2>3, EnrichmentTells
    <3>3. PriorHash(l, n) = hash
      BY <2>1, <2>3, <3>1 DEF PriorHash
    <3>4. hash # <<>>
      BY DEF ReceiptHash, Blake3
    <3> HIDE DEF hash
    <3> QED BY <2>3, <3>1, <3>2, <3>3, <3>4 DEF LinkOf, Optional, Missing, Bytes
  <2> QED BY <2>2, <2>3
<1>6. ASSUME NEW m \in 1 .. C, NEW n \in 1 .. C, chain[m].wire = chain[n].wire PROVE m = n
  <2> DEFINE places == PlacesIn(l, kind)
  <2>1. Id(places[m] - 1) = Id(places[n] - 1)
    BY <1>6, SnapshotTells, EnrichmentTells
  <2>2. /\ places \in [1 .. C -> 1 .. Len(l)]
        /\ \A i, j \in 1 .. C : i < j => places[i] < places[j]
    BY <1>1, PlacesOfKind
  <2> HIDE DEF places
  <2>3. places[m] = places[n] /\ places[m] \in Nat
    BY <2>1, <2>2, EachIsPublished DEF Id, Bytes
  <2>4. ~(m < n) /\ ~(n < m)
    BY <2>2, <2>3
  <2> QED BY <1>2, <2>4
<1> HIDE DEF C, chain
<1>7. \A n \in 1 .. C :
        /\ \E body : IsBody(body) /\ chain[n].wire = Published(body, chain[n].signedBy)
        /\ n > 1 =>
             /\ LinkOf(kind, chain[n - 1].wire)[2] # Missing
             /\ Lookup(chain[n].wire, LinkOf(kind, chain[n - 1].wire)[1]) = LinkOf(kind, chain[n - 1].wire)[2]
  BY <1>4, <1>5
<1> QED BY <1>2, <1>6, <1>7 DEF C, chain

\* Whatever has been signed verifies under the key it was signed with, by its
\* bytes and by its fields, and so does every gapless run of a chain, for any
\* number of receipts (verify_receipt, verify_history).
THEOREM HonestVerifiesAlways == Spec => []HonestVerifies
<1>1. ASSUME IInv PROVE HonestVerifies
  <2>1. LogInv(log)
    BY <1>1 DEF IInv
  <2>2. ASSUME NEW i \in DOMAIN log, log[i].signedBy \in Keys
        PROVE  /\ VerifyReceipt(log[i].wire, log[i].signedBy) = "verified"
               /\ TypedVerifies(log[i].wire, log[i].signedBy)
    <3>1. PICK body : IsBody(body) /\ log[i].wire = Published(body, log[i].signedBy)
      BY <2>1, EachIsPublished
    <3> QED BY <2>2, <3>1, SignedVerifies
  <2>3. ASSUME NEW kind \in {"snapshot", "entry_enriched"}, NEW k \in Keys,
               NEW i \in DOMAIN Of(kind), NEW j \in DOMAIN Of(kind), i <= j,
               \A n \in i .. j : Of(kind)[n].signedBy = k
        PROVE  VerifyHistory(Segment(Of(kind), i, j), k, kind) = "verified"
    <3> DEFINE chain == OfIn(log, kind)
               C == CountOf(log, kind)
               m == j - i + 1
               links == Segment(chain, i, j)
    <3>1. /\ C \in Nat /\ DOMAIN chain = 1 .. C
          /\ \A n \in 1 .. C :
               /\ \E body : IsBody(body) /\ chain[n].wire = Published(body, chain[n].signedBy)
               /\ n > 1 =>
                    /\ LinkOf(kind, chain[n - 1].wire)[2] # Missing
                    /\ Lookup(chain[n].wire, LinkOf(kind, chain[n - 1].wire)[1])
                         = LinkOf(kind, chain[n - 1].wire)[2]
      BY <2>1, ChainRests
    <3>2. Of(kind) = chain
      BY OfIsOfIn
    <3> HIDE DEF chain, C
    <3>3. /\ i \in 1 .. C /\ j \in 1 .. C /\ m \in Nat
          /\ \A n \in 1 .. m : i + n - 1 \in 1 .. C /\ i + n - 1 \in i .. j
      BY <2>3, <3>1, <3>2
    <3>4. DOMAIN links = 1 .. m /\ \A n \in 1 .. m : links[n] = chain[i + n - 1].wire
      BY DEF Segment
    <3> HIDE DEF links, m
    <3>5. ASSUME NEW n \in 1 .. m PROVE LinkVerdict(links, n, k, kind) = "verified"
      <4> DEFINE p == i + n - 1
      <4>1. p \in 1 .. C /\ p \in Nat /\ chain[p].signedBy = k /\ links[n] = chain[p].wire
        <5>1. p \in 1 .. C /\ p \in i .. j /\ links[n] = chain[p].wire
          BY <3>3, <3>4
        <5> HIDE DEF p
        <5> QED BY <2>3, <3>1, <3>2, <5>1
      <4>2. VerifyReceipt(links[n], k) = "verified"
        <5>1. PICK body : IsBody(body) /\ chain[p].wire = Published(body, chain[p].signedBy)
          BY <3>1, <4>1
        <5> QED BY <4>1, <5>1, SignedVerifies
      <4>3. n = 1 \/ RestsOn(links, n, kind)
        <5>1. ASSUME n # 1 PROVE RestsOn(links, n, kind)
          <6>1. n - 1 \in 1 .. m /\ i + (n - 1) - 1 = p - 1 /\ p > 1
            BY <3>1, <3>3, <5>1
          <6>2. links[n - 1] = chain[p - 1].wire
            BY <3>4, <6>1
          <6> HIDE DEF p
          <6> QED BY <3>1, <4>1, <6>1, <6>2 DEF RestsOn
        <5> QED BY <5>1
      <4> QED BY <4>2, <4>3, LinkTells
    <3> QED BY <3>2, <3>3, <3>4, <3>5, HistoryTells DEF links
  <2> QED BY <2>2, <2>3 DEF HonestVerifies
<1> QED BY <1>1, SpecIInv, PTL

--------------------------------------------------------------------------------
(* Histories.                                                                 *)

\* Bodies have one hash only when they are one.
LEMMA HashBindsBody ==
  ASSUME NEW a, IsBody(a), NEW b, IsBody(b), ReceiptHash(a) = ReceiptHash(b)
  PROVE  a = b
<1> DEFINE za == Whole(a, Zeros(32), Zeros(64), Null)
           zb == Whole(b, Zeros(32), Zeros(64), Null)
<1>1. Encode(za) = Encode(zb)
  BY DEF ReceiptHash, Blake3, Zeroed, Whole
<1>2. \A body : IsBody(body) => \A h, s, i : /\ AreNamed(Whole(body, h, s, i))
                                             /\ {p \in Whole(body, h, s, i) : p[1] \notin Shared} = body
  BY FieldsOfReceipt
<1>3. /\ AreNamed(za) /\ {p \in za : p[1] \notin Shared} = a
      /\ AreNamed(zb) /\ {p \in zb : p[1] \notin Shared} = b
  BY <1>2
<1> HIDE DEF za, zb
<1>4. Ordered(za) = Ordered(zb)
  BY <1>1 DEF Encode
<1>5. ToSet(Ordered(za)) = za /\ ToSet(Ordered(zb)) = zb
  BY <1>3, FieldsAreWritten, PlacesOfFields
<1> QED BY <1>3, <1>4, <1>5

\* The receipts of the two chains have their places for ids, and no other can be
\* linked.
LEMMA EachHasItsPlace ==
  ASSUME NEW l, LogInv(l), NEW j \in 1 .. Len(l)
  PROVE  /\ l[j].kind # "other" =>
              /\ Lookup(l[j].wire, "event_id") = Id(j - 1)
              /\ \E n \in 1 .. CountOf(l, l[j].kind) :
                   OfIn(l, l[j].kind)[n] = l[j] /\ PlacesIn(l, l[j].kind)[n] = j
         /\ l[j].kind = "other" =>
              /\ Len(l) = 1
              /\ Facts(l[j].wire).root = Missing /\ Lookup(l[j].wire, "supersedes_prior") = Missing
<1>1. PICK S : l \in Seq(S)
  BY DEF LogInv
<1>2. l[j].kind \in Kinds
  BY DEF LogInv
<1>3. ASSUME NEW kind, l[j].kind = kind
      PROVE  \E n \in 1 .. CountOf(l, kind) : OfIn(l, kind)[n] = l[j] /\ PlacesIn(l, kind)[n] = j
  BY <1>1, <1>3, PlacesOfKind
<1>4. CASE l[j].kind = "snapshot"
  <2>1. PICK n \in 1 .. CountOf(l, "snapshot") :
          OfIn(l, "snapshot")[n] = l[j] /\ PlacesIn(l, "snapshot")[n] = j
    BY <1>3, <1>4
  <2>2. Lookup(l[j].wire, "event_id") = Id(j - 1)
    BY <2>1, SnapshotTells
  <2> QED BY <1>4, <2>1, <2>2
<1>5. CASE l[j].kind = "entry_enriched"
  <2>1. PICK n \in 1 .. CountOf(l, "entry_enriched") :
          OfIn(l, "entry_enriched")[n] = l[j] /\ PlacesIn(l, "entry_enriched")[n] = j
    BY <1>3, <1>5
  <2>2. Lookup(l[j].wire, "event_id") = Id(j - 1)
    BY <2>1, EnrichmentTells
  <2> QED BY <1>5, <2>1, <2>2
<1>6. CASE l[j].kind = "other"
  <2>1. Len(l) = 1 /\ \E body \in Others : l[j].wire = Published(body, l[j].signedBy)
    BY <1>6 DEF LogInv, OthersHold
  <2>2. PICK body \in Others : l[j].wire = Published(body, l[j].signedBy)
    BY <2>1
  <2>3. IsBody(body) /\ \A p \in body : p[1] \notin {"snapshot_merkle_root", "supersedes_prior"}
    BY VerifierAssumption
  <2>4. Lookup(l[j].wire, "snapshot_merkle_root") = Missing /\ Lookup(l[j].wire, "supersedes_prior") = Missing
    BY <2>2, <2>3, PublishedReceipt, ChainFieldsAreNames
  <2> QED BY <1>6, <2>1, <2>4 DEF Facts, IsBytes, Missing
<1> QED BY <1>2, <1>4, <1>5, <1>6 DEF Kinds

IsChain(chain, C) ==
  DOMAIN chain = 1 .. C /\ \A i, j \in 1 .. C : chain[i].wire = chain[j].wire => i = j

Follows(links, n, chain, C) ==
  \A m \in 1 .. n - 1 : \E i \in 1 .. C :
    i + 1 \in 1 .. C /\ links[m] = chain[i].wire /\ links[m + 1] = chain[i + 1].wire

\* Links of which each is followed by the next one of the chain are a run of it.
LEMMA StepsMakeARun ==
  ASSUME NEW C \in Nat, NEW chain, IsChain(chain, C),
         NEW n \in Nat, n > 1, NEW links, links = [m \in 1 .. n |-> links[m]], Len(links) = n,
         Follows(links, n, chain, C)
  PROVE  IsRunOf(links, chain)
<1> USE DEF IsChain, Follows
<1>1. PICK i \in 1 .. C : links[1] = chain[i].wire
  <2>1. 1 \in 1 .. n - 1
    OBVIOUS
  <2> QED BY <2>1
<1> DEFINE good(m) == i + m - 1 \in 1 .. C /\ links[m] = chain[i + m - 1].wire
           bad == {m \in 1 .. n : ~good(m)}
<1>2. bad = {}
  <2>1. ASSUME bad # {} PROVE FALSE
    <3>1. PICK x \in bad : \A y \in bad : x <= y
      <4>1. bad \subseteq 1 .. n
        OBVIOUS
      <4> HIDE DEF bad
      <4> QED BY <2>1, <4>1, HasLeast
    <3>2. x \in 1 .. n /\ ~good(x)
      OBVIOUS
    <3>3. x # 1
      <4>1. i + 1 - 1 = i
        OBVIOUS
      <4> QED BY <1>1, <3>2, <4>1
    <3>4. x - 1 \in 1 .. n - 1 /\ x - 1 \in 1 .. n /\ ~(x <= x - 1) /\ x - 1 + 1 = x
      BY <3>2, <3>3
    <3>5. good(x - 1)
      BY <3>1, <3>4
    <3>6. PICK j \in 1 .. C : j + 1 \in 1 .. C /\ links[x - 1] = chain[j].wire /\ links[x - 1 + 1] = chain[j + 1].wire
      BY <3>4
    <3>7. j = i + (x - 1) - 1
      BY <3>5, <3>6
    <3>8. j + 1 = i + x - 1
      BY <3>2, <3>7
    <3> QED BY <3>2, <3>4, <3>6, <3>8
  <2> QED BY <2>1
<1>3. \A m \in 1 .. n : i + m - 1 \in 1 .. C /\ links[m] = chain[i + m - 1].wire
  BY <1>2
<1>4. i + n - 1 \in 1 .. C /\ (i + n - 1) - i + 1 = n
  <2>1. n \in 1 .. n /\ i \in Nat
    OBVIOUS
  <2>2. (i + n - 1) - i + 1 = n
    BY <2>1
  <2> QED BY <1>3, <2>1, <2>2
<1>5. Segment(chain, i, i + n - 1) = [m \in 1 .. n |-> chain[i + m - 1].wire]
  BY <1>4 DEF Segment
<1>6. Segment(chain, i, i + n - 1) = links
  BY <1>3, <1>5
<1> QED BY <1>4, <1>6 DEF IsRunOf

\* What a history of published receipts is made of that verifies.
LEMMA LinksOfHistory ==
  ASSUME NEW h, NEW n \in Nat, DOMAIN h = 1 .. n, NEW k, NEW kind,
         VerifyHistory(h, k, kind) = "verified", NEW m \in 1 .. n - 1
  PROVE  /\ m \in 1 .. n /\ m + 1 \in 1 .. n
         /\ LinkOf(kind, h[m])[2] # Missing
         /\ Lookup(h[m + 1], LinkOf(kind, h[m])[1]) = LinkOf(kind, h[m])[2]
<1>1. m \in 1 .. n /\ m + 1 \in 1 .. n /\ m + 1 # 1 /\ m + 1 - 1 = m
  OBVIOUS
<1>2. LinkVerdict(h, m + 1, k, kind) = "verified"
  BY <1>1, HistoryTells
<1>3. RestsOn(h, m + 1, kind)
  BY <1>1, <1>2, LinkTells
<1> QED BY <1>1, <1>3 DEF RestsOn

\* In a history of enrichments each receipt is the one of the chain that stands
\* before the next.
LEMMA EnrichmentStep ==
  ASSUME NEW l, LogInv(l), NEW a, NEW b,
         \E j \in 1 .. Len(l) : a = l[j].wire, \E j \in 1 .. Len(l) : b = l[j].wire,
         Lookup(b, "supersedes_prior") = Lookup(a, "receipt_hash"), Lookup(a, "receipt_hash") # Missing
  PROVE  \E i \in 1 .. CountOf(l, "entry_enriched") :
           /\ i + 1 \in 1 .. CountOf(l, "entry_enriched")
           /\ a = OfIn(l, "entry_enriched")[i].wire /\ b = OfIn(l, "entry_enriched")[i + 1].wire
<1> DEFINE C == CountOf(l, "entry_enriched")
           chain == OfIn(l, "entry_enriched")
           places == PlacesIn(l, "entry_enriched")
<1>1. PICK j \in 1 .. Len(l) : a = l[j].wire
  OBVIOUS
<1>2. PICK m \in 1 .. Len(l) : b = l[m].wire
  OBVIOUS
<1>3. /\ C \in Nat /\ places \in [1 .. C -> 1 .. Len(l)] /\ \A n \in 1 .. C : chain[n] = l[places[n]]
      /\ \A x, y \in 1 .. C : x < y => places[x] < places[y]
      /\ Len(l) \in Nat
  <2>1. PICK S : l \in Seq(S)
    BY DEF LogInv
  <2>2. C \in Nat
    BY <2>1, ChainIsList
  <2> QED BY <2>1, <2>2, PlacesOfKind, EachIsPublished
<1>4. PICK body : IsBody(body) /\ a = Published(body, l[j].signedBy)
  BY <1>1, EachIsPublished
<1>5. Lookup(b, "supersedes_prior") = Bytes(32, ReceiptHash(body)) /\ Lookup(b, "supersedes_prior") # Missing
  BY <1>4, PublishedReceipt
<1>6. PICK n \in 1 .. C : chain[n] = l[m]
  <2>1. l[m].kind # "other"
    BY <1>2, <1>5, EachHasItsPlace
  <2>2. l[m].kind # "snapshot"
    <3>1. ASSUME l[m].kind = "snapshot" PROVE FALSE
      <4>1. PICK x \in 1 .. CountOf(l, "snapshot") : OfIn(l, "snapshot")[x] = l[m]
        BY <3>1, EachHasItsPlace
      <4> QED BY <1>2, <1>5, <4>1, SnapshotTells
    <3> QED BY <3>1
  <2>3. l[m].kind = "entry_enriched"
    BY <2>1, <2>2 DEF LogInv, Kinds
  <2> QED BY <2>3, EachHasItsPlace
<1> DEFINE prior == EnrichmentAt(l, n - 1)
<1>7. n > 1 /\ n - 1 \in 1 .. C /\ ReceiptHash(prior) = ReceiptHash(body)
  <2>1. Optional(PriorHash(l, n)) = Bytes(32, ReceiptHash(body))
    BY <1>2, <1>5, <1>6, EnrichmentTells
  <2>2. PriorHash(l, n) # <<>>
    BY <2>1 DEF Optional, Null, Bytes
  <2>3. n # 1
    BY <2>2 DEF PriorHash
  <2>4. n > 1 /\ n - 1 \in 1 .. C
    BY <1>3, <2>3
  <2>5. PriorHash(l, n) = ReceiptHash(prior)
    BY <2>3, <2>4, EnrichmentTells DEF PriorHash
  <2> HIDE DEF prior
  <2> QED BY <2>1, <2>2, <2>4, <2>5 DEF Optional, Bytes
<1>8. body = prior
  BY <1>4, <1>7, HashBindsBody, EachIsPublished
<1>9. Lookup(a, "event_id") = Id(places[n - 1] - 1)
  <2>1. <<"event_id", Id(places[n - 1] - 1)>> \in body
    BY <1>8, EnrichmentIsBody DEF EnrichmentAt
  <2> QED BY <1>4, <2>1, PublishedReceipt
<1> HIDE DEF prior, places, C, chain
<1>10. places[n - 1] \in 1 .. Len(l) /\ places[n] \in 1 .. Len(l) /\ places[n - 1] < places[n]
  <2>1. n - 1 < n
    BY <1>3
  <2> QED BY <1>3, <1>7, <2>1
<1>11. l[j].kind # "other"
  <2>1. Len(l) # 1
    <3> DEFINE p == places[n - 1]
               q == places[n]
               len == Len(l)
    <3>1. p \in 1 .. len /\ q \in 1 .. len /\ p < q /\ len \in Nat
      BY <1>3, <1>10
    <3> HIDE DEF p, q, len
    <3>2. len # 1
      BY <3>1
    <3> QED BY <3>2 DEF len
  <2> QED BY <2>1, EachHasItsPlace
<1>12. Lookup(a, "event_id") = Id(j - 1)
  BY <1>1, <1>11, EachHasItsPlace
<1>13. j = places[n - 1]
  <2>1. j - 1 = places[n - 1] - 1
    BY <1>9, <1>12 DEF Id, Bytes
  <2> QED BY <1>3, <1>10, <2>1
<1>14. a = chain[n - 1].wire /\ b = chain[n].wire /\ (n - 1) + 1 = n
  <2>1. (n - 1) + 1 = n
    BY <1>3
  <2>2. chain[n - 1] = l[places[n - 1]]
    BY <1>3, <1>7
  <2>3. chain[n - 1] = l[j]
    BY <1>13, <2>2
  <2>4. b = chain[n].wire
    BY <1>2, <1>6
  <2> QED BY <1>1, <2>1, <2>3, <2>4
<1>15. \E i \in 1 .. C : i + 1 \in 1 .. C /\ a = chain[i].wire /\ b = chain[i + 1].wire
  BY <1>6, <1>7, <1>14
<1> QED BY <1>15 DEF C, chain

\* In a history of snapshots each receipt is of the set that stood before the
\* next.
LEMMA SnapshotStep ==
  ASSUME NEW l, LogInv(l), NEW a, NEW b,
         \E j \in 1 .. Len(l) : a = l[j].wire, \E j \in 1 .. Len(l) : b = l[j].wire,
         Lookup(b, "previous_snapshot_hash") = Facts(a).root, Facts(a).root # Missing
  PROVE  \E i, j \in 1 .. CountOf(l, "snapshot") :
           /\ OfIn(l, "snapshot")[i].wire = a /\ OfIn(l, "snapshot")[j].wire = b
           /\ j > 1 /\ j - 1 \in 1 .. CountOf(l, "snapshot")
           /\ SnapshotMerkleRoot(OfIn(l, "snapshot")[j - 1].entries) =
                SnapshotMerkleRoot(OfIn(l, "snapshot")[i].entries)
<1> DEFINE C == CountOf(l, "snapshot")
           chain == OfIn(l, "snapshot")
<1>1. PICK x \in 1 .. Len(l) : a = l[x].wire
  OBVIOUS
<1>2. PICK y \in 1 .. Len(l) : b = l[y].wire
  OBVIOUS
<1>3. C \in Nat /\ Len(l) \in Nat
  <2>1. PICK S : l \in Seq(S)
    BY DEF LogInv
  <2> QED BY <2>1, ChainIsList, EachIsPublished
<1>4. ASSUME NEW z \in 1 .. Len(l), l[z].kind = "entry_enriched"
      PROVE  Facts(l[z].wire).root = Missing /\ Lookup(l[z].wire, "previous_snapshot_hash") = Missing
  <2>1. PICK n \in 1 .. CountOf(l, "entry_enriched") : OfIn(l, "entry_enriched")[n] = l[z]
    BY <1>4, EachHasItsPlace
  <2> QED BY <2>1, EnrichmentTells
<1>5. l[x].kind = "snapshot"
  <2>1. l[x].kind # "other"
    BY <1>1, EachHasItsPlace
  <2>2. l[x].kind # "entry_enriched"
    BY <1>1, <1>4
  <2> QED BY <2>1, <2>2 DEF LogInv, Kinds
<1>6. l[y].kind = "snapshot"
  <2>1. l[y].kind # "other"
    <3>1. l[y].kind = "other" => x = y
      BY <1>3, EachHasItsPlace
    <3> QED BY <1>5, <3>1
  <2>2. l[y].kind # "entry_enriched"
    BY <1>2, <1>4
  <2> QED BY <2>1, <2>2 DEF LogInv, Kinds
<1>7. ASSUME NEW z \in 1 .. Len(l), l[z].kind = "snapshot"
      PROVE  \E n \in 1 .. C : chain[n] = l[z]
  BY <1>7, EachHasItsPlace
<1> HIDE DEF C, chain
<1>8. PICK i \in 1 .. C, j \in 1 .. C : chain[i] = l[x] /\ chain[j] = l[y]
  BY <1>5, <1>6, <1>7
<1>9. /\ Facts(a).root = Bytes(32, SnapshotMerkleRoot(chain[i].entries))
      /\ Lookup(b, "previous_snapshot_hash") = Optional(PriorRoot(l, j))
  BY <1>1, <1>2, <1>8, SnapshotTells DEF C, chain
<1> DEFINE root == SnapshotMerkleRoot(chain[i].entries)
<1>10. PriorRoot(l, j) # <<>> /\ PriorRoot(l, j) = root
  <2> HIDE DEF root
  <2>1. Optional(PriorRoot(l, j)) = Bytes(32, root)
    BY <1>9 DEF root
  <2> QED BY <2>1 DEF Optional, Null, Bytes
<1>11. j # 1
  BY <1>10 DEF PriorRoot
<1>12. j > 1 /\ j - 1 \in 1 .. C
  BY <1>3, <1>11
<1>13. SnapshotMerkleRoot(chain[j - 1].entries) = root
  BY <1>10, <1>11 DEF PriorRoot, chain
<1>14. chain[i].wire = a /\ chain[j].wire = b
  BY <1>1, <1>2, <1>8
<1> QED BY <1>12, <1>13, <1>14 DEF C, chain

\* A history that verifies is unbroken, for any number of receipts and whatever
\* key they were signed with (verify_history).
THEOREM HistoryIsUnbrokenAlways == Spec => []HistoryIsUnbroken
<1>1. ASSUME IInv PROVE HistoryIsUnbroken
  <2>1. LogInv(log) /\ HeldInv(held, log, edits)
    BY <1>1 DEF IInv
  <2> DEFINE n == Len(held)
  <2>2. SUFFICES ASSUME NEW k \in Keys, n > 1
                 PROVE  /\ VerifyHistory(held, k, "entry_enriched") = "verified" =>
                             IsRunOf(held, Of("entry_enriched"))
                        /\ VerifyHistory(held, k, "snapshot") = "verified" =>
                             /\ \A m \in 1 .. n - 1 : Joins(held[m], held[m + 1])
                             /\ NoSetCameBack => IsRunOf(held, Of("snapshot"))
    BY DEF HistoryIsUnbroken
  <2>3. n \in Nat /\ DOMAIN held = 1 .. n /\ held = [m \in 1 .. n |-> held[m]]
    <3>1. PICK S : held \in Seq(S)
      BY <2>1 DEF HeldInv
    <3> QED BY <3>1, LenProperties, SeqDef
  <2>4. \A m \in 1 .. n : \E j \in 1 .. Len(log) : held[m] = log[j].wire
    <3>1. edits = 0
      BY <2>1, <2>2, VerifierAssumption DEF HeldInv
    <3> QED BY <2>1, <3>1 DEF HeldInv
  <2> HIDE DEF n
  <2>5. ASSUME VerifyHistory(held, k, "entry_enriched") = "verified"
        PROVE  IsRunOf(held, Of("entry_enriched"))
    <3> DEFINE chain == OfIn(log, "entry_enriched")
               C == CountOf(log, "entry_enriched")
    <3>1. \A m \in 1 .. n - 1 : \E i \in 1 .. C :
            i + 1 \in 1 .. C /\ held[m] = chain[i].wire /\ held[m + 1] = chain[i + 1].wire
      <4>1. ASSUME NEW m \in 1 .. n - 1
            PROVE  \E i \in 1 .. C :
                     i + 1 \in 1 .. C /\ held[m] = chain[i].wire /\ held[m + 1] = chain[i + 1].wire
        <5>1. /\ m \in 1 .. n /\ m + 1 \in 1 .. n
              /\ LinkOf("entry_enriched", held[m])[2] # Missing
              /\ Lookup(held[m + 1], LinkOf("entry_enriched", held[m])[1])
                   = LinkOf("entry_enriched", held[m])[2]
          BY <2>3, <2>5, LinksOfHistory
        <5>2. /\ Lookup(held[m + 1], "supersedes_prior") = Lookup(held[m], "receipt_hash")
              /\ Lookup(held[m], "receipt_hash") # Missing
          BY <5>1 DEF LinkOf, Facts
        <5> QED BY <2>1, <2>4, <5>1, <5>2, EnrichmentStep
      <4> QED BY <4>1
    <3>2. /\ C \in Nat /\ DOMAIN chain = 1 .. C
          /\ \A i, j \in 1 .. C : chain[i].wire = chain[j].wire => i = j
      BY <2>1, ChainRests
    <3> HIDE DEF chain, C
    <3>3. IsRunOf(held, chain)
      <4>1. Follows(held, n, chain, C) /\ IsChain(chain, C)
        BY <3>1, <3>2 DEF Follows, IsChain
      <4>2. Len(held) = n
        BY DEF n
      <4> QED BY <2>2, <2>3, <3>2, <4>1, <4>2, StepsMakeARun
    <3> QED BY <3>3, OfIsOfIn DEF chain
  <2>6. ASSUME VerifyHistory(held, k, "snapshot") = "verified"
        PROVE  /\ \A m \in 1 .. n - 1 : Joins(held[m], held[m + 1])
               /\ NoSetCameBack => IsRunOf(held, Of("snapshot"))
    <3> DEFINE chain == OfIn(log, "snapshot")
               C == CountOf(log, "snapshot")
    <3>1. ASSUME NEW m \in 1 .. n - 1
          PROVE  \E i, j \in 1 .. C :
                   /\ chain[i].wire = held[m] /\ chain[j].wire = held[m + 1] /\ j > 1 /\ j - 1 \in 1 .. C
                   /\ SnapshotMerkleRoot(chain[j - 1].entries) = SnapshotMerkleRoot(chain[i].entries)
      <4>1. /\ m \in 1 .. n /\ m + 1 \in 1 .. n
            /\ LinkOf("snapshot", held[m])[2] # Missing
            /\ Lookup(held[m + 1], LinkOf("snapshot", held[m])[1]) = LinkOf("snapshot", held[m])[2]
        BY <2>3, <2>6, LinksOfHistory
      <4>2. /\ Lookup(held[m + 1], "previous_snapshot_hash") = Facts(held[m]).root
            /\ Facts(held[m]).root # Missing
        BY <4>1 DEF LinkOf
      <4> QED BY <2>1, <2>4, <4>1, <4>2, SnapshotStep
    <3>2. /\ C \in Nat /\ DOMAIN chain = 1 .. C
          /\ \A i, j \in 1 .. C : chain[i].wire = chain[j].wire => i = j
      BY <2>1, ChainRests
    <3>3. Of("snapshot") = chain
      BY OfIsOfIn
    <3> HIDE DEF chain, C
    <3>4. \A m \in 1 .. n - 1 : Joins(held[m], held[m + 1])
      <4>1. \A a, b : Joins(a, b) <=>
              \E i, j \in DOMAIN chain :
                /\ chain[i].wire = a /\ chain[j].wire = b /\ j > 1
                /\ SnapshotMerkleRoot(chain[j - 1].entries) = SnapshotMerkleRoot(chain[i].entries)
        BY <3>3 DEF Joins
      <4>2. ASSUME NEW m \in 1 .. n - 1 PROVE Joins(held[m], held[m + 1])
        <5>1. PICK i \in 1 .. C, j \in 1 .. C :
                /\ chain[i].wire = held[m] /\ chain[j].wire = held[m + 1] /\ j > 1 /\ j - 1 \in 1 .. C
                /\ SnapshotMerkleRoot(chain[j - 1].entries) = SnapshotMerkleRoot(chain[i].entries)
          BY <3>1
        <5> QED BY <3>2, <4>1, <5>1
      <4> QED BY <4>2
    <3>5. ASSUME NoSetCameBack PROVE IsRunOf(held, chain)
      <4>1. \A m \in 1 .. n - 1 : \E i \in 1 .. C :
              i + 1 \in 1 .. C /\ held[m] = chain[i].wire /\ held[m + 1] = chain[i + 1].wire
        <5>1. ASSUME NEW m \in 1 .. n - 1
              PROVE  \E i \in 1 .. C :
                       i + 1 \in 1 .. C /\ held[m] = chain[i].wire /\ held[m + 1] = chain[i + 1].wire
          <6>1. PICK i \in 1 .. C, j \in 1 .. C :
                  /\ chain[i].wire = held[m] /\ chain[j].wire = held[m + 1] /\ j > 1 /\ j - 1 \in 1 .. C
                  /\ SnapshotMerkleRoot(chain[j - 1].entries) = SnapshotMerkleRoot(chain[i].entries)
            BY <3>1
          <6>2. j - 1 = i
            BY <3>2, <3>3, <3>5, <6>1 DEF NoSetCameBack
          <6>3. j = i + 1
            BY <3>2, <6>2
          <6> QED BY <6>1, <6>3
        <5> QED BY <5>1
      <4>2. Follows(held, n, chain, C) /\ IsChain(chain, C)
        BY <3>2, <4>1 DEF Follows, IsChain
      <4>3. Len(held) = n
        BY DEF n
      <4> QED BY <2>2, <2>3, <3>2, <4>2, <4>3, StepsMakeARun
    <3> QED BY <3>3, <3>4, <3>5
  <2> QED BY <2>5, <2>6
<1> QED BY <1>1, SpecIInv, PTL

--------------------------------------------------------------------------------
(* The programs.                                                              *)

\* The verbs that read no receipt never panic.
LEMMA DigestsNeverPanic ==
  ASSUME NEW text, NEW entries, NEW digest, NEW name
  PROVE  /\ VerifySnapshot(entries, digest) # "panic"
         /\ VerifyPublisher(text, digest) # "panic"
         /\ VerifyNamespace(text, digest, name) # "panic"
<1> DEFINE matches == SnapshotMerkleRoot(entries) = digest
           equal == DeclarationHash(text) = digest
           declared == VerifyPublisher(text, digest)
           named == NameIn(text) # "absent"
           claimed == NameIn(text) = name
           roots == << <<"root_mismatch", matches>> >>
           same == << <<"decode_error", text.json>>, <<"declaration_hash_mismatch", equal>> >>
           checks == << <<declared, declared = "verified">>, <<"missing_field", named>>,
                        <<"namespace_mismatch", claimed>> >>
<1>1. /\ VerifySnapshot(entries, digest) = First(roots) /\ declared = First(same)
      /\ VerifyNamespace(text, digest, name) = First(checks)
  BY DEF VerifySnapshot, VerifyNamespace, VerifyPublisher
<1>2. DOMAIN roots = 1 .. 1 /\ DOMAIN same = 1 .. 2 /\ DOMAIN checks = 1 .. 3
  OBVIOUS
<1>3. /\ roots[1][1] = "root_mismatch"
      /\ same[1][1] = "decode_error" /\ same[2][1] = "declaration_hash_mismatch"
      /\ checks[1][1] = declared /\ checks[2][1] = "missing_field" /\ checks[3][1] = "namespace_mismatch"
  OBVIOUS
<1> HIDE DEF roots, same, checks, matches, equal, named, claimed
<1>4. First(roots) # "panic"
  <2>1. \/ First(roots) = "verified" /\ \A i \in 1 .. 1 : roots[i][2]
        \/ \E i \in 1 .. 1 : First(roots) = roots[i][1] /\ ~roots[i][2]
    BY <1>2, FirstFailed
  <2>2. \A i \in 1 .. 1 : i = 1
    OBVIOUS
  <2> QED BY <1>3, <2>1, <2>2
<1>5. First(same) # "panic"
  <2>1. \/ First(same) = "verified" /\ \A i \in 1 .. 2 : same[i][2]
        \/ \E i \in 1 .. 2 : First(same) = same[i][1] /\ ~same[i][2]
    BY <1>2, FirstFailed
  <2>2. \A i \in 1 .. 2 : i = 1 \/ i = 2
    OBVIOUS
  <2> QED BY <1>3, <2>1, <2>2
<1>6. First(checks) # "panic"
  <2>1. \/ First(checks) = "verified" /\ \A i \in 1 .. 3 : checks[i][2]
        \/ \E i \in 1 .. 3 : First(checks) = checks[i][1] /\ ~checks[i][2]
    BY <1>2, FirstFailed
  <2>2. \A i \in 1 .. 3 : i = 1 \/ i = 2 \/ i = 3
    OBVIOUS
  <2> HIDE DEF declared
  <2> QED BY <1>1, <1>3, <1>5, <2>1, <2>2
<1> QED BY <1>1, <1>4, <1>5, <1>6

\* Nothing verifies under a key that is none.
LEMMA OnlyKeysVerify ==
  ASSUME NEW w, NEW k, VerifyReceipt(w, k) = "verified"
  PROVE  k \in Keys
BY ReceiptTells DEF IsReadable

\* What cannot be decoded claims too much, and what was decoded and cannot be
\* encoded holds an infinity or a NaN.
LEMMA CrashesTell ==
  ASSUME NEW docs, NEW i \in DOMAIN docs, Crashes(docs[i])
  PROVE  HasHalfInfinity(docs) \/ ClaimsTooMuch(docs)
<1>1. CASE DecoderPanics(docs[i])
  <2>1. \/ docs[i].head.arg > Capacity
        \/ \E n \in DOMAIN docs[i].pairs : docs[i].pairs[n][2] = Overload
    BY <1>1 DEF DecoderPanics
  <2>2. \A n \in DOMAIN docs[i].pairs : docs[i].pairs[n] \in ToSet(docs[i].pairs)
    BY DEF ToSet
  <2> QED BY <2>1, <2>2 DEF ClaimsTooMuch
<1>2. CASE ~Reencodes(docs[i])
  <2>1. PICK n \in DOMAIN docs[i].pairs :
          docs[i].pairs[n][2][1] = "float" /\ ~docs[i].pairs[n][2][2].number.finite
    BY <1>2 DEF Reencodes, CanWriteFloat
  <2>2. docs[i].pairs[n] \in ToSet(docs[i].pairs)
    BY DEF ToSet
  <2> QED BY <2>1, <2>2 DEF HasHalfInfinity
<1> QED BY <1>1, <1>2 DEF Crashes

\* The exit codes of the CLI, and the answers of the adapter next to them, for
\* any command (rcx-verify main, run).
THEOREM ExitCodesTellAlways == Spec => []ExitCodesTell
<1>1. ASSUME IInv PROVE ExitCodesTell
  <2> DEFINE n == Len(held)
  <2>1. n \in Nat /\ DOMAIN held = 1 .. n /\ (held # <<>> => 1 \in 1 .. n)
    <3>1. PICK S : held \in Seq(S)
      BY <1>1 DEF IInv, HeldInv
    <3> QED BY <3>1, LenProperties, EmptySeq
  <2> HIDE DEF n
  <2>2. SUFFICES ASSUME NEW c \in Commands
                 PROVE  LET verdict == Verdict(c)
                            code == ExitCode(c, verdict)
                            answer == Answer(c, verdict)
                        IN
                        /\ (c.verb \in {"receipt", "chain"} /\ code = 0) =>
                             /\ c.file # <<>>
                             /\ \A i \in IF c.verb = "receipt" THEN {1} ELSE DOMAIN c.file :
                                  VerifyReceipt(c.file[i], c.key) = "verified"
                        /\ code = 101 => HasHalfInfinity(c.file) \/ ClaimsTooMuch(c.file)
                        /\ code \in {0, 1} => (code = 0 <=> answer = "verified")
                        /\ (code = 2 /\ answer = "verified") => c.verb = "chain" /\ c.file = <<>>
    BY DEF ExitCodesTell
  <2> DEFINE verdict == Verdict(c)
             code == ExitCode(c, verdict)
             answer == Answer(c, verdict)
  <2>3. /\ c.verb \in {"receipt", "chain", "snapshot", "declaration", "namespace"}
        /\ c.verb \in {"receipt", "chain"} => c.file = held
        /\ c.readable \in BOOLEAN
    BY DEF Commands
  <2>4. /\ Runs(c) => (code = 0 <=> verdict = "verified") /\ (code = 101 <=> verdict = "panic") /\ code # 2
        /\ ~Runs(c) => code = 2
    BY DEF ExitCode, CodeOf
  <2>5. /\ c.verb = "receipt" => verdict = VerifyReceipt(held[1], c.key)
        /\ c.verb = "chain" => verdict = VerifyHistory(held, c.key, c.kind)
        /\ c.verb \notin {"receipt", "chain"} => verdict # "panic"
    <3>1. /\ c.verb = "receipt" => verdict = VerifyReceipt(c.file[1], c.key)
          /\ c.verb = "chain" => verdict = VerifyHistory(c.file, c.key, c.kind)
          /\ c.verb = "snapshot" => verdict = VerifySnapshot(c.file, c.digest)
          /\ c.verb = "declaration" => verdict = VerifyPublisher(c.file, c.digest)
          /\ c.verb = "namespace" => verdict = VerifyNamespace(c.file, c.digest, c.name)
      BY <2>3 DEF Verdict
    <3> HIDE DEF verdict
    <3> QED BY <2>3, <3>1, DigestsNeverPanic
  <2>6. verdict = "verified" /\ c.verb = "chain" =>
          \A i \in 1 .. n : VerifyReceipt(held[i], c.key) = "verified"
    <3>1. verdict = "verified" /\ c.verb = "chain" =>
            \A i \in 1 .. n : LinkVerdict(held, i, c.key, c.kind) = "verified"
      <4> HIDE DEF verdict
      <4> QED BY <2>1, <2>5, HistoryTells
    <3> HIDE DEF verdict
    <3> QED BY <3>1, LinkTells
  <2> HIDE DEF verdict, code, answer
  <2>7. (c.verb \in {"receipt", "chain"} /\ code = 0) =>
          /\ c.file # <<>>
          /\ \A i \in IF c.verb = "receipt" THEN {1} ELSE DOMAIN c.file :
               VerifyReceipt(c.file[i], c.key) = "verified"
    <3>1. ASSUME c.verb \in {"receipt", "chain"}, code = 0 PROVE c.file # <<>> /\ verdict = "verified"
      BY <2>4, <3>1 DEF Runs
    <3> QED BY <2>1, <2>3, <2>5, <2>6, <3>1
  <2>8. code = 101 => HasHalfInfinity(c.file) \/ ClaimsTooMuch(c.file)
    <3>1. ASSUME code = 101 PROVE HasHalfInfinity(c.file) \/ ClaimsTooMuch(c.file)
      <4>1. Runs(c) /\ verdict = "panic"
        BY <2>4, <3>1
      <4>2. c.verb \in {"receipt", "chain"} /\ c.file = held /\ held # <<>>
        BY <2>3, <2>5, <4>1 DEF Runs
      <4>3. CASE c.verb = "receipt"
        <5>1. Crashes(held[1]) /\ 1 \in DOMAIN held
          BY <2>1, <2>5, <4>1, <4>2, <4>3, ReceiptTells
        <5> QED BY <4>2, <5>1, CrashesTell
      <4>4. CASE c.verb = "chain"
        <5>1. VerifyHistory(held, c.key, c.kind) = "panic"
          BY <2>5, <4>1, <4>4
        <5>2. \E i \in 1 .. n : Crashes(held[i])
          BY <2>1, <5>1, HistoryTells
        <5> QED BY <2>1, <4>2, <5>2, CrashesTell
      <4> QED BY <4>2, <4>3, <4>4
    <3> QED BY <3>1
  <2>9. code \in {0, 1} => (code = 0 <=> answer = "verified")
    <3>1. ASSUME Runs(c) PROVE AdapterReads(c)
      <4>1. Keys \cap {"none", "absent", "short"} = {}
        BY VerifierAssumption
      <4> QED BY <2>3, <3>1, <4>1 DEF Runs, AdapterReads, HasOptions
    <3>2. Runs(c) => answer = verdict
      BY <3>1 DEF Answer, answer
    <3> QED BY <2>4, <3>2
  <2>10. (code = 2 /\ answer = "verified") => c.verb = "chain" /\ c.file = <<>>
    <3>1. ASSUME code = 2, answer = "verified" PROVE c.verb = "chain" /\ c.file = <<>>
      <4>1. ~Runs(c) /\ AdapterReads(c) /\ verdict = "verified"
        BY <2>4, <3>1 DEF Answer, answer
      <4>2. c.verb \in {"receipt", "chain"} /\ (c.verb = "receipt" => c.file # <<>>)
        BY <2>3, <4>1 DEF Runs, AdapterReads
      <4>3. c.key \notin Keys \/ c.file = <<>>
        BY <4>1, <4>2 DEF Runs, AdapterReads, HasOptions
      <4>4. c.verb = "receipt" => c.key \in Keys
        BY <2>5, <4>1, OnlyKeysVerify
      <4>5. c.verb = "chain" /\ c.file # <<>> => c.key \in Keys
        BY <2>1, <2>3, <2>6, <4>1, OnlyKeysVerify
      <4> QED BY <4>2, <4>3, <4>4, <4>5
    <3> QED BY <3>1
  <2> QED BY <2>7, <2>8, <2>9, <2>10 DEF verdict, code, answer
<1> QED BY <1>1, SpecIInv, PTL
================================================================================
