------------------------------- MODULE MCSyncLoop ------------------------------
(* Small instances of SyncLoop with pages of two envelopes and a cap of two   *)
(* pages.  The places 1 and 2 are versions of n1, 3 to 7 versions of n2.      *)
EXTENDS SyncLoop

CONSTANTS n1, n2, d1, d2

Good(n, d, a) == [name |-> n, doc |-> d, valid |-> TRUE, at |-> a]
Broken(n, d, a) == [name |-> n, doc |-> d, valid |-> FALSE, at |-> a]

\* Two versions of n1 fill the first page, and n2 is on the second.
BothListed == << Good(n1, d1, 1), Good(n1, d2, 2), Good(n2, d1, 4) >>

\* n1 is gone, which moves the version of n2 to the first page; its neighbours do
\* not parse, and the newest of them is on a third page, beyond the cap.
OnlySecond == << Broken(n2, d1, 3), Good(n2, d2, 4), Broken(n2, d1, 5),
                 Broken(n2, d1, 6), Good(n2, d1, 7) >>

MovingListings == {BothListed, OnlySecond}

\* The only version of n2 stops to parse.
BrokenListings == {BothListed, << Good(n1, d1, 1), Broken(n2, d1, 4) >>}
================================================================================
