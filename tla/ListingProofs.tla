------------------------------ MODULE ListingProofs -----------------------------
(* Listing, for any number of names, any rows, filters and limits, and any    *)
(* number of writes during a walk along the cursors.                          *)
EXTENDS Listing, TLAPS, FunctionTheorems, FiniteSetTheorems, SequenceTheorems

--------------------------------------------------------------------------------
(* A set of numbers in its order.                                             *)

\* How many numbers of a set come up to a number.
Upto(S, n) == Cardinality({m \in S : m <= n})

InOrder(S) == [i \in 1 .. Cardinality(S) |-> CHOOSE n \in S : Upto(S, n) = i]

\* The count grows with the number.
LEMMA UptoGrows ==
  ASSUME NEW S, IsFiniteSet(S), S \subseteq Int
  PROVE  /\ \A n \in S : Upto(S, n) \in 1 .. Cardinality(S)
         /\ \A n, k \in S : n < k => Upto(S, n) < Upto(S, k)
<1>0. Cardinality(S) \in Nat
  BY FS_CardinalityType
<1>1. ASSUME NEW n \in S
      PROVE  IsFiniteSet({m \in S : m <= n}) /\ Upto(S, n) \in 1 .. Cardinality(S)
  <2> DEFINE T == {m \in S : m <= n}
  <2>1. T \subseteq S /\ n \in T
    OBVIOUS
  <2>2. IsFiniteSet(T) /\ Cardinality(T) <= Cardinality(S) /\ Cardinality(T) \in Nat
    BY <2>1, FS_Subset, FS_CardinalityType
  <2>3. Cardinality(T) # 0
    BY <2>1, <2>2, FS_EmptySet
  <2> QED BY <1>0, <2>2, <2>3 DEF Upto
<1>2. ASSUME NEW n \in S, NEW k \in S, n < k PROVE Upto(S, n) < Upto(S, k)
  <2> DEFINE T == {m \in S : m <= n}
             U == {m \in S : m <= k}
  <2>0. n \in Int /\ k \in Int /\ \A m \in S : m \in Int
    OBVIOUS
  <2>1. T \subseteq U /\ k \in U /\ k \notin T
    <3>1. ASSUME NEW m \in S, m <= n PROVE m <= k
      BY <1>2, <2>0, <3>1
    <3>2. k <= k /\ ~(k <= n)
      BY <1>2, <2>0
    <3> QED BY <3>1, <3>2
  <2>2. IsFiniteSet(U)
    BY <1>1
  <2> HIDE DEF T, U
  <2>3. Cardinality(T) <= Cardinality(U) /\ (Cardinality(U) = Cardinality(T) => U = T)
    BY <2>1, <2>2, FS_Subset
  <2>4. Cardinality(T) \in Nat /\ Cardinality(U) \in Nat
    BY <1>1, FS_CardinalityType DEF T, U
  <2>5. Cardinality(T) < Cardinality(U)
    BY <2>1, <2>3, <2>4
  <2> QED BY <2>5 DEF Upto, T, U
<1> QED BY <1>1, <1>2

\* The sequence has every number of the set, in order, once.
LEMMA OrderOfSet ==
  ASSUME NEW S, IsFiniteSet(S), S \subseteq Int
  PROVE  /\ InOrder(S) \in Seq(S) /\ Len(InOrder(S)) = Cardinality(S)
         /\ \A i, j \in 1 .. Len(InOrder(S)) : i < j => InOrder(S)[i] < InOrder(S)[j]
         /\ \A n \in S : \E i \in 1 .. Len(InOrder(S)) : InOrder(S)[i] = n
<1> DEFINE C == Cardinality(S)
           rank == [n \in S |-> Upto(S, n)]
<1>0. /\ C \in Nat /\ \A n \in S : n \in Int /\ Upto(S, n) \in 1 .. C
      /\ \A n, k \in S : n < k => Upto(S, n) < Upto(S, k)
  BY FS_CardinalityType, UptoGrows
<1> HIDE DEF C
<1>1. \A n, k \in S : Upto(S, n) = Upto(S, k) => n = k
  <2>1. \A n, k \in S : n = k \/ n < k \/ k < n
    BY <1>0
  <2>2. \A n \in S : Upto(S, n) \in Int
    BY <1>0
  <2> QED BY <1>0, <2>1, <2>2
<1>2. rank \in Surjection(S, 1 .. C)
  <2>1. rank \in [S -> 1 .. C]
    BY <1>0
  <2>2. rank \in Injection(S, 1 .. C)
    BY <1>1, <2>1, Fun_IsInj
  <2>3. IsFiniteSet(1 .. C) /\ Cardinality(1 .. C) = IF 1 > C THEN 0 ELSE C - 1 + 1
    BY <1>0, FS_Interval
  <2>4. Cardinality(1 .. C) = Cardinality(S)
    BY <1>0, <2>3 DEF C
  <2> HIDE DEF rank
  <2> QED BY <2>2, <2>3, <2>4, FS_Injection
<1>3. \A i \in 1 .. C : \E n \in S : Upto(S, n) = i
  <2> HIDE DEF rank
  <2>1. \A i \in 1 .. C : \E n \in S : rank[n] = i
    BY <1>2, Fun_SurjectionProperties
  <2> QED BY <2>1 DEF rank
<1>4. \A i \in 1 .. C : InOrder(S)[i] \in S /\ Upto(S, InOrder(S)[i]) = i
  <2>1. ASSUME NEW i \in 1 .. C PROVE InOrder(S)[i] \in S /\ Upto(S, InOrder(S)[i]) = i
    <3>1. InOrder(S)[i] = CHOOSE n \in S : Upto(S, n) = i
      BY DEF InOrder, C
    <3> QED BY <1>3, <3>1
  <2> QED BY <2>1
<1>5. InOrder(S) \in [1 .. C -> S]
  BY <1>4 DEF InOrder, C
<1>6. InOrder(S) \in Seq(S) /\ Len(InOrder(S)) = C
  <2>1. InOrder(S) \in Seq(S)
    BY <1>0, <1>5, SeqDef
  <2>2. DOMAIN InOrder(S) = 1 .. C /\ DOMAIN InOrder(S) = 1 .. Len(InOrder(S))
        /\ Len(InOrder(S)) \in Nat
    BY <1>5, <2>1, LenProperties
  <2> QED BY <1>0, <2>1, <2>2
<1>7. ASSUME NEW i \in 1 .. C, NEW j \in 1 .. C, i < j PROVE InOrder(S)[i] < InOrder(S)[j]
  <2>1. PICK n \in S, k \in S : n = InOrder(S)[i] /\ k = InOrder(S)[j]
    BY <1>4
  <2>2. Upto(S, n) = i /\ Upto(S, k) = j
    BY <1>4, <2>1
  <2>3. (n < k \/ n = k \/ k < n) /\ i \in Int /\ j \in Int
    BY <1>0
  <2> QED BY <1>0, <1>7, <2>1, <2>2, <2>3
<1>8. ASSUME NEW n \in S PROVE \E i \in 1 .. C : InOrder(S)[i] = n
  <2>1. Upto(S, n) \in 1 .. C
    BY <1>0
  <2> QED BY <1>1, <1>4, <2>1
<1> QED BY <1>6, <1>7, <1>8 DEF C

\* A part of a sequence, by how much it leaves out and how long it is.
LEMMA Slice ==
  ASSUME NEW S, NEW s \in Seq(S), NEW k \in Nat, NEW p \in Nat, k + p <= Len(s)
  PROVE  LET part == SubSeq(s, k + 1, k + p)
         IN  part \in Seq(S) /\ Len(part) = p /\ \A i \in 1 .. p : part[i] = s[k + i]
<1>1. Len(s) \in Nat
  BY LenProperties
<1>2. \A i \in k + 1 .. k + p : s[i] \in S
  BY <1>1, ElementOfSeq
<1>3. /\ SubSeq(s, k + 1, k + p) \in Seq(S)
      /\ Len(SubSeq(s, k + 1, k + p)) = IF k + 1 <= k + p THEN k + p - (k + 1) + 1 ELSE 0
      /\ \A i \in 1 .. k + p - (k + 1) + 1 : SubSeq(s, k + 1, k + p)[i] = s[k + 1 + i - 1]
  BY <1>2, SubSeqProperties
<1>4. k + p - (k + 1) + 1 = p /\ (k + 1 <= k + p <=> p >= 1) /\ \A i \in 1 .. p : k + 1 + i - 1 = k + i
  OBVIOUS
<1> QED BY <1>3, <1>4

--------------------------------------------------------------------------------
(* A page.                                                                    *)

Matching == {n \in Names : Matches(query, n)}

\* What the rest of the proof needs to know of a state of the walk.
WalkInv ==
  /\ table \in [Names -> Row \cup {None}]
  /\ at \in Status /\ seen \in Seq(Names \X Versions)
  /\ at = "start" => seen = <<>> /\ cursor = None
  /\ at = "paging" => seen # <<>> /\ cursor = seen[Len(seen)]
  /\ steady \subseteq Matching
  /\ \A i \in DOMAIN seen : seen[i][1] \in fresh =>
       seen[i][1] \in Matching /\ Token(seen[i][1]) = seen[i]

\* The rows of a request are the matching names in order.
LEMMA ListedInOrder ==
  LET rows == Listed(query)
  IN  /\ rows \in Seq(Matching) /\ Len(rows) \in Nat /\ DOMAIN rows = 1 .. Len(rows)
      /\ \A i \in 1 .. Len(rows) : rows[i] \in Matching
      /\ \A i, j \in 1 .. Len(rows) : i < j => rows[i] < rows[j]
      /\ \A n \in Matching : \E i \in 1 .. Len(rows) : rows[i] = n
<1>1. Listed(query) = InOrder(Matching)
  BY DEF Listed, InOrder, Upto, Matching
<1>2. IsFiniteSet(Names) /\ Names \subseteq Int
  BY ListingAssumption, FS_Interval DEF Names
<1>3. IsFiniteSet(Matching) /\ Matching \subseteq Int
  BY <1>2, FS_Subset DEF Matching
<1>4. /\ InOrder(Matching) \in Seq(Matching)
      /\ \A i, j \in 1 .. Len(InOrder(Matching)) : i < j => InOrder(Matching)[i] < InOrder(Matching)[j]
      /\ \A n \in Matching : \E i \in 1 .. Len(InOrder(Matching)) : InOrder(Matching)[i] = n
  BY <1>3, OrderOfSet
<1>5. /\ Len(InOrder(Matching)) \in Nat
      /\ DOMAIN InOrder(Matching) = 1 .. Len(InOrder(Matching))
      /\ \A i \in 1 .. Len(InOrder(Matching)) : InOrder(Matching)[i] \in Matching
  BY <1>4, LenProperties, ElementOfSeq
<1> QED BY <1>1, <1>4, <1>5

\* Every limit is at least one.
LEMMA PageLimitIsPositive ==
  ASSUME NEW l \in Limits
  PROVE  PageLimit(l) \in Nat \ {0}
BY ListingAssumption DEF PageLimit

\* Of a row that matches there is one token, which is not the missing cursor.
LEMMA Tokens ==
  ASSUME WalkInv, NEW n \in Matching
  PROVE  /\ n \in Names /\ Token(n) \in Names \X Versions
         /\ Token(n)[1] = n /\ Token(n)[2] = table[n].version /\ Token(n) # None
<1>1. n \in Names /\ table[n] \in Row
  BY DEF WalkInv, Matching, Matches, Present
<1>2. table[n].version \in Versions
  BY <1>1 DEF Row
<1> QED BY <1>1, <1>2, ListingAssumption DEF Token

\* What follows the cursor.
LEMMA RestOf ==
  ASSUME WalkInv, at \in {"start", "paging"}, cursor = None \/ Positions(Listed(query)) # {}
  PROVE  \E k, m \in Nat : LET rows == Listed(query) rest == After(rows) IN
           /\ k + m = Len(rows)
           /\ rest \in Seq(Matching) /\ Len(rest) = m
           /\ \A i \in 1 .. m : rest[i] = rows[k + i]
           /\ at = "start" => k = 0
           /\ at = "paging" => k \in 1 .. Len(rows) /\ rows[k] = seen[Len(seen)][1]
<1> DEFINE rows == Listed(query)
           rest == After(rows)
<1>0. /\ rows \in Seq(Matching) /\ Len(rows) \in Nat /\ DOMAIN rows = 1 .. Len(rows)
      /\ \A i \in 1 .. Len(rows) : rows[i] \in Matching
  BY ListedInOrder
<1>1. CASE at = "start"
  <2>1. rest = rows
    BY <1>1 DEF WalkInv, After
  <2> HIDE DEF rows, rest
  <2>2. /\ 0 + Len(rows) = Len(rows) /\ rest \in Seq(Matching) /\ Len(rest) = Len(rows)
        /\ \A i \in 1 .. Len(rows) : rest[i] = rows[0 + i]
    BY <1>0, <2>1
  <2> QED BY <1>0, <1>1, <2>2 DEF rows, rest
<1>2. CASE at = "paging"
  <2>1. seen # <<>> /\ Len(seen) \in Nat \ {0} /\ cursor = seen[Len(seen)]
    BY <1>2, EmptySeq DEF WalkInv
  <2>2. cursor \in Names \X Versions
    BY <2>1, ElementOfSeq DEF WalkInv
  <2>3. cursor # None
    BY <2>2, ListingAssumption
  <2> DEFINE k == CHOOSE i \in Positions(rows) : TRUE
  <2>4. k \in Positions(rows) /\ rest = SubSeq(rows, 1 + k, Len(rows))
    BY <2>3 DEF After
  <2> HIDE DEF k
  <2>5. k \in 1 .. Len(rows) /\ Token(rows[k]) = cursor
    BY <1>0, <2>4 DEF Positions
  <2>6. rows[k] \in Matching
    BY <1>0, <2>5
  <2>7. rows[k] = cursor[1]
    <3> HIDE DEF rows
    <3> QED BY <2>5, <2>6, Tokens
  <2> HIDE DEF rows, rest
  <2>8. PICK m \in Nat : k + m = Len(rows)
    <3>1. Len(rows) - k \in Nat /\ k + (Len(rows) - k) = Len(rows)
      BY <1>0, <2>5
    <3> QED BY <3>1
  <2>9. rest = SubSeq(rows, k + 1, k + m)
    BY <1>0, <2>4, <2>5, <2>8
  <2>10. rest \in Seq(Matching) /\ Len(rest) = m /\ \A i \in 1 .. m : rest[i] = rows[k + i]
    <3>1. k \in Nat /\ k + m <= Len(rows)
      BY <1>0, <2>5, <2>8
    <3> QED BY <1>0, <2>9, <3>1, Slice
  <2>11. k \in Nat
    BY <1>0, <2>5
  <2> QED BY <1>2, <2>1, <2>5, <2>7, <2>8, <2>10, <2>11 DEF rows, rest
<1> QED BY <1>1, <1>2

\* A page is a run of the matching rows that begins where the client is, and ends
\* at its next cursor or at the last of them.
LEMMA PageOf ==
  ASSUME WalkInv, NEW l \in Limits, ListServers(l)
  PROVE  \E k, p \in Nat : LET rows == Listed(query) IN
           /\ k + p <= Len(rows)
           /\ at = "start" => k = 0 /\ seen = <<>> /\ steady' = Matching
           /\ at = "paging" => /\ k \in 1 .. Len(rows) /\ rows[k] = seen[Len(seen)][1]
                               /\ steady' = steady
           /\ at \in {"start", "paging"}
           /\ seen' = seen \o [i \in 1 .. p |-> Token(rows[k + i])]
           /\ \/ at' = "done" /\ k + p = Len(rows)
              \/ at' = "paging" /\ p > 0 /\ cursor' = Token(rows[k + p])
           /\ fresh' = fresh \cup {rows[k + i] : i \in 1 .. p}
<1> DEFINE rows == Listed(query)
           rest == After(rows)
           limit == PageLimit(l)
           page == Page(rest, limit)
<1>0. /\ rows \in Seq(Matching) /\ Len(rows) \in Nat /\ DOMAIN rows = 1 .. Len(rows)
      /\ \A i \in 1 .. Len(rows) : rows[i] \in Matching
      /\ \A n \in Matching : \E i \in 1 .. Len(rows) : rows[i] = n
  BY ListedInOrder
<1>1. limit \in Nat \ {0}
  BY PageLimitIsPositive
<1>2. /\ at \in {"start", "paging"} /\ (cursor = None \/ Positions(rows) # {})
      /\ seen' = seen \o [i \in DOMAIN page |-> Token(page[i])]
      /\ cursor' = NextCursor(rest, limit)
      /\ at' = IF cursor' = None THEN "done" ELSE "paging"
      /\ steady' = IF at = "start" THEN ToSet(rows) ELSE steady
      /\ fresh' = fresh \cup ToSet(page)
  BY DEF ListServers
<1>3. PICK k, m \in Nat :
           /\ k + m = Len(rows)
           /\ rest \in Seq(Matching) /\ Len(rest) = m
           /\ \A i \in 1 .. m : rest[i] = rows[k + i]
           /\ at = "start" => k = 0
           /\ at = "paging" => k \in 1 .. Len(rows) /\ rows[k] = seen[Len(seen)][1]
  BY <1>2, RestOf
<1>4. NextCursor(rest, limit) = IF m > limit THEN Token(rest[limit]) ELSE None
  BY <1>3 DEF NextCursor
<1>5. ToSet(rows) = Matching
  <2> HIDE DEF rows
  <2> QED BY <1>0 DEF ToSet
<1> HIDE DEF rows, rest, limit
<1> DEFINE p == IF m > limit THEN limit ELSE m
<1>6. p \in Nat /\ p <= m
  BY <1>1
<1>7. page = SubSeq(rest, 0 + 1, 0 + p)
  BY <1>3, <1>6 DEF Page
<1> HIDE DEF page, p
<1>8. page \in Seq(Matching) /\ Len(page) = p /\ \A i \in 1 .. p : page[i] = rest[i]
  BY <1>3, <1>6, <1>7, Slice
<1>9. DOMAIN page = 1 .. p /\ \A i \in 1 .. p : page[i] = rows[k + i]
  BY <1>3, <1>6, <1>8, LenProperties
<1>10. /\ [i \in DOMAIN page |-> Token(page[i])] = [i \in 1 .. p |-> Token(rows[k + i])]
       /\ ToSet(page) = {rows[k + i] : i \in 1 .. p}
  BY <1>9 DEF ToSet
<1>11. ASSUME m > limit PROVE at' = "paging" /\ p > 0 /\ cursor' = Token(rows[k + p])
  <2>1. p = limit /\ limit \in 1 .. m /\ rest[limit] = rows[k + p]
    BY <1>1, <1>3, <1>11 DEF p
  <2>2. rows[k + p] \in Matching
    BY <1>0, <1>3, <2>1
  <2>3. Token(rows[k + p]) # None
    BY <2>2, Tokens
  <2>4. cursor' = Token(rows[k + p]) /\ at' = "paging" /\ p > 0
    BY <1>1, <1>2, <1>4, <1>11, <2>1, <2>3
  <2> QED BY <2>4
<1>12. ASSUME ~(m > limit) PROVE at' = "done" /\ k + p = Len(rows)
  <2>1. p = m /\ at' = "done"
    BY <1>2, <1>4, <1>12 DEF p
  <2> QED BY <1>3, <2>1
<1>13. /\ k + p <= Len(rows)
       /\ at = "start" => k = 0 /\ seen = <<>> /\ steady' = Matching
       /\ at = "paging" => /\ k \in 1 .. Len(rows) /\ rows[k] = seen[Len(seen)][1]
                           /\ steady' = steady
       /\ at \in {"start", "paging"}
       /\ seen' = seen \o [i \in 1 .. p |-> Token(rows[k + i])]
       /\ fresh' = fresh \cup {rows[k + i] : i \in 1 .. p}
  <2>1. k + p <= Len(rows) /\ at \in {"start", "paging"}
    BY <1>2, <1>3, <1>6
  <2>2. at = "start" => k = 0 /\ seen = <<>> /\ steady' = Matching
    BY <1>2, <1>3, <1>5 DEF WalkInv
  <2>3. at = "paging" => /\ k \in 1 .. Len(rows) /\ rows[k] = seen[Len(seen)][1]
                         /\ steady' = steady
    BY <1>2, <1>3
  <2>4. seen' = seen \o [i \in 1 .. p |-> Token(rows[k + i])]
    BY <1>2, <1>10
  <2>5. fresh' = fresh \cup {rows[k + i] : i \in 1 .. p}
    BY <1>2, <1>10
  <2> QED BY <2>1, <2>2, <2>3, <2>4, <2>5
<1>14. \/ at' = "done" /\ k + p = Len(rows)
       \/ at' = "paging" /\ p > 0 /\ cursor' = Token(rows[k + p])
  BY <1>11, <1>12
<1> QED BY <1>6, <1>13, <1>14 DEF rows

--------------------------------------------------------------------------------
(* The walk.                                                                  *)

Inv == WalkInv /\ UnchangedIsListedOnce /\ RefusedOnlyWhenChanged

\* What a page adds to what the client has seen.
LEMMA PageStep ==
  ASSUME Inv, NEW l \in Limits, ListServers(l)
  PROVE  Inv'
<1> DEFINE rows == Listed(query)
           N == Len(seen)
<1>0. /\ Len(rows) \in Nat
      /\ \A i \in 1 .. Len(rows) : rows[i] \in Matching
      /\ \A i, j \in 1 .. Len(rows) : i < j => rows[i] < rows[j]
      /\ \A n \in Matching : \E i \in 1 .. Len(rows) : rows[i] = n
  BY ListedInOrder
<1>1. PICK k \in Nat, p \in Nat :
           /\ k + p <= Len(rows)
           /\ at = "start" => k = 0 /\ seen = <<>> /\ steady' = Matching
           /\ at = "paging" => /\ k \in 1 .. Len(rows) /\ rows[k] = seen[Len(seen)][1]
                               /\ steady' = steady
           /\ at \in {"start", "paging"}
           /\ seen' = seen \o [i \in 1 .. p |-> Token(rows[k + i])]
           /\ \/ at' = "done" /\ k + p = Len(rows)
              \/ at' = "paging" /\ p > 0 /\ cursor' = Token(rows[k + p])
           /\ fresh' = fresh \cup {rows[k + i] : i \in 1 .. p}
  BY PageOf DEF Inv
<1> HIDE DEF rows
<1>2. UNCHANGED <<table, query>>
  BY DEF ListServers
<1>3. N \in Nat /\ DOMAIN seen = 1 .. N /\ (seen = <<>> => N = 0) /\ (seen # <<>> => N \in 1 .. N)
      /\ \A i \in 1 .. N : seen[i] \in Names \X Versions /\ seen[i][1] \in Int
      /\ \A n \in Matching : n \in Int
  <2>1. seen \in Seq(Names \X Versions)
    BY DEF Inv, WalkInv
  <2>2. \A i \in 1 .. N : seen[i] \in Names \X Versions
    BY <2>1, ElementOfSeq
  <2>3. \A x \in Names \X Versions : x[1] \in Int
    BY DEF Names
  <2>4. \A n \in Matching : n \in Int
    BY DEF Matching, Names
  <2> QED BY <2>1, <2>2, <2>3, <2>4, EmptySeq, LenProperties
<1>4. \A i \in 1 .. p : k + i \in 1 .. Len(rows) /\ rows[k + i] \in Matching
  BY <1>0, <1>1
<1>5. ASSUME NEW i \in 1 .. p
      PROVE  /\ Token(rows[k + i]) \in Names \X Versions
             /\ Token(rows[k + i])[1] = rows[k + i] /\ rows[k + i] \in Names
  BY <1>4, Tokens DEF Inv
<1> DEFINE new == [i \in 1 .. p |-> Token(rows[k + i])]
<1>6. new \in Seq(Names \X Versions) /\ Len(new) = p
  <2>1. new \in [1 .. p -> Names \X Versions]
    BY <1>5
  <2> HIDE DEF new
  <2>2. new \in Seq(Names \X Versions)
    BY <2>1, SeqDef
  <2>3. DOMAIN new = 1 .. p /\ DOMAIN new = 1 .. Len(new) /\ Len(new) \in Nat
    BY <2>1, <2>2, LenProperties
  <2> QED BY <2>2, <2>3
<1>7. /\ seen' \in Seq(Names \X Versions) /\ Len(seen') = N + p /\ DOMAIN seen' = 1 .. N + p
      /\ \A i \in 1 .. N : seen'[i] = seen[i]
      /\ \A i \in 1 .. p : seen'[N + i] = Token(rows[k + i])
  <2> HIDE DEF new
  <2>1. seen' = seen \o new /\ seen \in Seq(Names \X Versions)
    BY <1>1 DEF new, Inv, WalkInv
  <2>2. /\ seen' \in Seq(Names \X Versions) /\ Len(seen') = N + p
        /\ \A i \in 1 .. N + p : seen'[i] = IF i <= N THEN seen[i] ELSE new[i - N]
    BY <1>6, <2>1, ConcatProperties
  <2>3. \A i \in 1 .. N : i \in 1 .. N + p /\ i <= N
    BY <1>3
  <2>4. \A i \in 1 .. p : N + i \in 1 .. N + p /\ ~(N + i <= N) /\ N + i - N = i
    BY <1>3
  <2>5. \A i \in 1 .. p : new[i] = Token(rows[k + i])
    BY DEF new
  <2>6. DOMAIN seen' = 1 .. N + p
    BY <2>2, LenProperties
  <2>7. ASSUME NEW i \in 1 .. N PROVE seen'[i] = seen[i]
    BY <2>2, <2>3
  <2>8. ASSUME NEW i \in 1 .. p PROVE seen'[N + i] = Token(rows[k + i])
    <3>1. seen'[N + i] = new[N + i - N]
      BY <2>2, <2>4
    <3> QED BY <2>4, <2>5, <3>1
  <2> QED BY <2>2, <2>6, <2>7, <2>8
<1> HIDE DEF new, N
<1>8. \A j \in 1 .. N + p : j \in 1 .. N \/ \E i \in 1 .. p : j = N + i
  <2>1. ASSUME NEW j \in 1 .. N + p, j \notin 1 .. N PROVE \E i \in 1 .. p : j = N + i
    <3>1. j - N \in 1 .. p /\ j = N + (j - N)
      BY <1>3, <2>1
    <3> QED BY <3>1
  <2> QED BY <2>1
\* The page lies behind everything that has been seen.
<1>9. ASSUME NEW j \in 1 .. N, NEW i \in 1 .. p PROVE seen[j][1] < rows[k + i]
  <2>1. N > 0 /\ at = "paging" /\ k \in 1 .. Len(rows) /\ rows[k] = seen[N][1]
    BY <1>1, <1>3 DEF N
  <2>2. j < N => seen[j][1] < seen[N][1]
    BY <1>3, <2>1 DEF Inv, UnchangedIsListedOnce
  <2>3. rows[k] < rows[k + i]
    <3>1. k < k + i
      BY <2>1
    <3> QED BY <1>0, <1>4, <2>1, <3>1
  <2>4. seen[j][1] \in Int /\ seen[N][1] \in Int /\ rows[k + i] \in Int
    BY <1>3, <1>4, <2>1
  <2>5. j = N \/ j < N
    BY <1>3
  <2> QED BY <2>1, <2>2, <2>3, <2>4, <2>5
<1>10. \A i, j \in DOMAIN seen' : i < j => seen'[i][1] < seen'[j][1]
  <2>1. ASSUME NEW i \in 1 .. N + p, NEW j \in 1 .. N + p, i < j PROVE seen'[i][1] < seen'[j][1]
    <3>1. CASE i \in 1 .. N /\ j \in 1 .. N
      BY <1>3, <1>7, <2>1, <3>1 DEF Inv, UnchangedIsListedOnce
    <3>2. ASSUME i \in 1 .. N, NEW b \in 1 .. p, j = N + b PROVE seen'[i][1] < seen'[j][1]
      BY <1>5, <1>7, <1>9, <3>2
    <3>3. ASSUME NEW a \in 1 .. p, i = N + a, NEW b \in 1 .. p, j = N + b
          PROVE  seen'[i][1] < seen'[j][1]
      <4>1. k + a < k + b
        BY <1>3, <2>1, <3>3
      <4>2. rows[k + a] < rows[k + b]
        BY <1>0, <1>4, <4>1
      <4> QED BY <1>5, <1>7, <3>3, <4>2
    <3>4. ~(j \in 1 .. N /\ i \notin 1 .. N)
      BY <1>3, <2>1
    <3> QED BY <1>8, <3>1, <3>2, <3>3, <3>4
  <2> QED BY <1>7, <2>1
<1>11. Matching' = Matching /\ steady' \subseteq Matching
  BY <1>1, <1>2 DEF Matching, Matches, Present, Shows, Inv, WalkInv
\* A steady row up to the end of the page is on it, or was seen before.
<1>12. ASSUME NEW n \in steady', NEW e \in 1 .. Len(rows), rows[e] = n, e <= k + p
       PROVE  n \in SeenNames'
  <2>1. CASE e > k
    <3>1. e - k \in 1 .. p /\ k + (e - k) = e
      BY <1>12, <2>1
    <3>2. PICK i \in 1 .. p : e = k + i
      BY <3>1
    <3>3. seen'[N + i][1] = n /\ N + i \in DOMAIN seen'
      BY <1>3, <1>5, <1>7, <1>12, <3>2
    <3> QED BY <3>3 DEF SeenNames
  <2>2. CASE ~(e > k)
    <3>1. at = "paging" /\ rows[k] = seen[N][1] /\ k \in 1 .. Len(rows) /\ cursor = seen[N]
          /\ n \in steady
      BY <1>1, <1>12, <2>2 DEF N, Inv, WalkInv
    <3>2. e = k \/ rows[e] < rows[k]
      BY <1>0, <1>12, <2>2, <3>1
    <3>3. rows[e] \in Int /\ rows[k] \in Int
      BY <1>0, <1>12, <3>1 DEF Matching, Names
    <3>4. n <= cursor[1]
      BY <1>12, <3>1, <3>2, <3>3
    <3>5. PICK i \in 1 .. N : seen[i][1] = n
      BY <1>3, <3>1, <3>4 DEF Inv, UnchangedIsListedOnce, SeenNames
    <3>6. seen'[i][1] = n /\ i \in DOMAIN seen'
      BY <1>3, <1>7, <3>5
    <3> QED BY <3>6 DEF SeenNames
  <2> QED BY <2>1, <2>2
<1>13. at' = "paging" => \A n \in steady' : n <= cursor'[1] => n \in SeenNames'
  <2>1. SUFFICES ASSUME at' = "paging", NEW n \in steady', n <= cursor'[1] PROVE n \in SeenNames'
    OBVIOUS
  <2>2. p \in 1 .. p /\ cursor'[1] = rows[k + p] /\ k + p \in 1 .. Len(rows) /\ rows[k + p] \in Matching
    BY <1>1, <1>4, <1>5, <2>1
  <2>3. PICK e \in 1 .. Len(rows) : rows[e] = n
    BY <1>0, <1>11
  <2>4. ~(e > k + p)
    <3>1. rows[k + p] \in Int /\ rows[e] \in Int
      BY <1>0, <2>2, <2>3 DEF Matching, Names
    <3> QED BY <1>0, <2>1, <2>2, <2>3, <3>1
  <2> QED BY <1>12, <2>2, <2>3, <2>4
<1>14. at' = "done" => steady' \subseteq SeenNames'
  <2>1. SUFFICES ASSUME at' = "done", NEW n \in steady' PROVE n \in SeenNames'
    OBVIOUS
  <2>2. PICK e \in 1 .. Len(rows) : rows[e] = n
    BY <1>0, <1>11
  <2>3. e <= k + p
    BY <1>0, <1>1, <2>1
  <2> QED BY <1>12, <2>2, <2>3
<1>15. ASSUME NEW j \in 1 .. N + p, seen'[j][1] \in fresh'
       PROVE  seen'[j][1] \in Matching /\ Token(seen'[j][1]) = seen'[j]
  <2>1. CASE j \in 1 .. N
    <3>1. \A i \in 1 .. p : seen[j][1] # rows[k + i]
      <4>1. ASSUME NEW i \in 1 .. p PROVE seen[j][1] # rows[k + i]
        <5>1. seen[j][1] < rows[k + i] /\ seen[j][1] \in Int /\ rows[k + i] \in Int
          BY <1>3, <1>4, <1>9, <2>1
        <5> QED BY <5>1
      <4> QED BY <4>1
    <3>2. seen[j][1] \in fresh
      BY <1>1, <1>7, <1>15, <2>1, <3>1
    <3> QED BY <1>3, <1>7, <2>1, <3>2 DEF Inv, WalkInv, Matching
  <2>2. ASSUME NEW i \in 1 .. p, j = N + i PROVE seen'[j][1] \in Matching /\ Token(seen'[j][1]) = seen'[j]
    BY <1>4, <1>5, <1>7, <2>2
  <2> QED BY <1>8, <2>1, <2>2
<1>16. WalkInv'
  <2>1. at' \in Status /\ at' # "start" /\ table' \in [Names -> Row \cup {None}]
    BY <1>1, <1>2 DEF Status, Inv, WalkInv
  <2>2. at' = "paging" => seen' # <<>> /\ cursor' = seen'[Len(seen')]
    <3>1. SUFFICES ASSUME at' = "paging" PROVE seen' # <<>> /\ cursor' = seen'[Len(seen')]
      OBVIOUS
    <3>2. p \in 1 .. p /\ cursor' = Token(rows[k + p])
      BY <1>1, <3>1
    <3>3. N + p # 0 /\ seen'[N + p] = Token(rows[k + p])
      BY <1>3, <1>7, <3>2
    <3> QED BY <1>7, <3>2, <3>3, EmptySeq
  <2>3. \A i \in DOMAIN seen' : seen'[i][1] \in fresh' =>
          seen'[i][1] \in Matching' /\ <<seen'[i][1], table'[seen'[i][1]].version>> = seen'[i]
    BY <1>2, <1>7, <1>11, <1>15 DEF Token
  <2> QED BY <1>7, <1>11, <2>1, <2>2, <2>3 DEF WalkInv, Token
<1>17. UnchangedIsListedOnce'
  BY <1>10, <1>13, <1>14 DEF UnchangedIsListedOnce
<1>18. RefusedOnlyWhenChanged'
  BY <1>1 DEF RefusedOnlyWhenChanged
<1> QED BY <1>16, <1>17, <1>18 DEF Inv

\* A row that has not been written since it was listed is found by its cursor.
LEMMA CursorIsFound ==
  ASSUME Inv, InvalidCursor
  PROVE  Inv'
<1> DEFINE rows == Listed(query)
<1>1. /\ at = "paging" /\ Positions(rows) = {} /\ at' = "refused" /\ asked' = cursor[1]
      /\ UNCHANGED <<table, query, cursor, seen, steady, fresh>>
  BY DEF InvalidCursor
<1>2. asked' \notin fresh
  <2>1. SUFFICES ASSUME cursor[1] \in fresh PROVE FALSE
    BY <1>1
  <2>2. seen # <<>> /\ cursor = seen[Len(seen)] /\ seen \in Seq(Names \X Versions)
    BY <1>1 DEF Inv, WalkInv
  <2>3. Len(seen) \in DOMAIN seen
    BY <2>2, EmptySeq, LenProperties
  <2>4. cursor[1] \in Matching /\ Token(cursor[1]) = cursor
    BY <2>1, <2>2, <2>3 DEF Inv, WalkInv
  <2>5. PICK i \in DOMAIN rows : rows[i] = cursor[1]
    BY <2>4, ListedInOrder
  <2>6. i \in Positions(rows)
    BY <2>4, <2>5 DEF Positions
  <2> QED BY <1>1, <2>6
<1>3. WalkInv'
  BY <1>1 DEF Inv, WalkInv, Status, Matching, Matches, Present, Shows, Token
<1>4. UnchangedIsListedOnce'
  BY <1>1 DEF Inv, UnchangedIsListedOnce, SeenNames
<1>5. RefusedOnlyWhenChanged'
  BY <1>1, <1>2 DEF RefusedOnlyWhenChanged
<1> QED BY <1>3, <1>4, <1>5 DEF Inv

\* A row that has not been written since it was listed is found by its version,
\* and in the list of versions of its name.
LEMMA ListedIsFound ==
  ASSUME Inv, NEW i \in DOMAIN seen, NotFound(i)
  PROVE  Inv'
<1> DEFINE n == seen[i][1]
           v == seen[i][2]
           deleted == IncludesDeleted(query)
<1>1. /\ GetVersion(n, v, deleted) = {} \/ v \notin ListVersions(n, deleted)
      /\ at \in {"paging", "done"} /\ at' = "missing" /\ asked' = n
      /\ UNCHANGED <<table, query, cursor, seen, steady, fresh>>
  BY DEF NotFound
<1>2. asked' \notin fresh
  <2>1. SUFFICES ASSUME n \in fresh PROVE FALSE
    BY <1>1
  <2>2. n \in Matching /\ Token(n) = seen[i]
    BY <2>1 DEF Inv, WalkInv
  <2>3. n \in Names /\ n \in Present /\ table[n] \in Row /\ Shows(n, deleted)
    BY <2>2 DEF Matching, Matches, Present, Inv, WalkInv
  <2>4. v = table[n].version /\ v \in Versions /\ v # Latest
    BY <2>2, <2>3, ListingAssumption DEF Token, Row
  <2> HIDE DEF n, v, deleted
  <2>5. n \in GetVersion(n, v, deleted) /\ v \in ListVersions(n, deleted)
    BY <2>3, <2>4 DEF GetVersion, ListVersions
  <2> QED BY <1>1, <2>5
<1>3. WalkInv'
  BY <1>1 DEF Inv, WalkInv, Status, Matching, Matches, Present, Shows, Token
<1>4. UnchangedIsListedOnce'
  BY <1>1 DEF Inv, UnchangedIsListedOnce, SeenNames
<1>5. RefusedOnlyWhenChanged'
  BY <1>1, <1>2 DEF RefusedOnlyWhenChanged
<1> QED BY <1>3, <1>4, <1>5 DEF Inv

\* A write of the sync loop is to one row.
LEMMA WriteStep ==
  ASSUME Inv, NEW n \in Names, NEW row \in Row \cup {None}, Write(n, row)
  PROVE  Inv'
<1>1. /\ at \in {"paging", "done"} /\ table' = [table EXCEPT ![n] = row]
      /\ steady' = steady \ {n} /\ fresh' = fresh \ {n}
      /\ UNCHANGED <<query, at, cursor, seen, asked>>
  BY DEF Write, client
<1>2. table' \in [Names -> Row \cup {None}] /\ \A m \in Names : m # n => table'[m] = table[m]
  BY <1>1 DEF Inv, WalkInv
<1>3. ASSUME NEW m \in Matching, m # n PROVE m \in Matching' /\ table'[m] = table[m]
  BY <1>1, <1>2, <1>3 DEF Matching, Matches, Present, Shows
<1>4. WalkInv'
  <2>1. steady' \subseteq Matching'
    BY <1>1, <1>3 DEF Inv, WalkInv
  <2>2. ASSUME NEW i \in DOMAIN seen, seen[i][1] \in fresh'
        PROVE  seen[i][1] \in Matching' /\ <<seen[i][1], table'[seen[i][1]].version>> = seen[i]
    <3>1. seen[i][1] # n /\ seen[i][1] \in Matching /\ Token(seen[i][1]) = seen[i]
      BY <1>1, <2>2 DEF Inv, WalkInv
    <3> QED BY <1>3, <3>1 DEF Token
  <2> QED BY <1>1, <1>2, <2>1, <2>2 DEF Inv, WalkInv, Token
<1>5. UnchangedIsListedOnce'
  BY <1>1 DEF Inv, UnchangedIsListedOnce, SeenNames
<1>6. RefusedOnlyWhenChanged'
  BY <1>1 DEF RefusedOnlyWhenChanged
<1> QED BY <1>4, <1>5, <1>6 DEF Inv

LEMMA WalkStep ==
  Inv /\ [Next]_vars => Inv'
<1> SUFFICES ASSUME Inv, [Next]_vars PROVE Inv'
  OBVIOUS
<1>1. CASE UNCHANGED vars
  BY <1>1 DEF vars, client, Inv, WalkInv, UnchangedIsListedOnce, RefusedOnlyWhenChanged, SeenNames,
              Matching, Matches, Present, Shows, Token
<1>2. ASSUME NEW l \in Limits, ListServers(l) PROVE Inv'
  BY <1>2, PageStep
<1>3. CASE InvalidCursor
  BY <1>3, CursorIsFound
<1>4. ASSUME NEW i \in DOMAIN seen, NotFound(i) PROVE Inv'
  BY <1>4, ListedIsFound
<1>5. ASSUME NEW n \in Names, NEW row \in Rows, Upsert(n, row) PROVE Inv'
  BY <1>5, WriteStep, ListingAssumption DEF Upsert
<1>6. ASSUME NEW n \in Names, MarkDeleted(n) PROVE Inv'
  <2>1. table[n] \in Row
    BY <1>6 DEF MarkDeleted, Present, Inv, WalkInv
  <2>2. [table[n] EXCEPT !.deleted = TRUE] \in Row
    BY <2>1 DEF Row
  <2> QED BY <1>6, <2>2, WriteStep DEF MarkDeleted
<1>7. ASSUME NEW n \in Names, Evict(n) PROVE Inv'
  BY <1>7, WriteStep DEF Evict
<1> QED BY <1>1, <1>2, <1>3, <1>4, <1>5, <1>6, <1>7 DEF Next

LEMMA WalkInit ==
  Init => Inv
<1> SUFFICES ASSUME Init PROVE Inv
  OBVIOUS
<1>1. table \in [Names -> Row \cup {None}]
  BY ListingAssumption DEF Init
<1>2. seen = <<>> /\ seen \in Seq(Names \X Versions) /\ DOMAIN seen = {}
  <2>1. seen = <<>> /\ seen \in Seq(Names \X Versions) /\ Len(seen) = 0
    BY EmptySeq DEF Init
  <2> QED BY <2>1
<1> QED BY <1>1, <1>2 DEF Init, Inv, WalkInv, Status, UnchangedIsListedOnce, RefusedOnlyWhenChanged

\* A client that follows the cursors sees no name twice, and passes over no row
\* that nobody writes meanwhile, whatever the filters, the limits and the writes.
THEOREM WalkCorrect == Spec => []UnchangedIsListedOnce
<1>1. Inv => UnchangedIsListedOnce
  BY DEF Inv
<1> QED BY <1>1, WalkInit, WalkStep, PTL DEF Spec

\* A cursor is refused, and a listed version not found, only after that very row
\* has been written.
THEOREM RefusalsCorrect == Spec => []RefusedOnlyWhenChanged
<1>1. Inv => RefusedOnlyWhenChanged
  BY DEF Inv
<1> QED BY <1>1, WalkInit, WalkStep, PTL DEF Spec
================================================================================
