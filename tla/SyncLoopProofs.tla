----------------------------- MODULE SyncLoopProofs ----------------------------
(* Proofs about SyncLoop, for every set of names and documents, every set of  *)
(* listings, every retention window and every bound.                          *)
EXTENDS SyncLoop, TLAPS, FiniteSetTheorems, SequenceTheorems

--------------------------------------------------------------------------------
(* Lemmas about the data and the two stores.                                  *)

\* A snapshot root is a digest: the number of occurrences of each entry.
LEMMA RootIsDigest ==
  ASSUME NEW l \in Seq(Envelope)
  PROVE  MerkleRoot(l) \in Digests
<1> DEFINE Occ(e) == {i \in DOMAIN l : l[i].valid /\ <<l[i].name, l[i].doc>> = e}
<1>1. IsFiniteSet(DOMAIN l)
  BY LenProperties, FS_Interval
<1>2. ASSUME NEW e \in Names \X Docs
      PROVE  Cardinality(Occ(e)) \in Nat
  BY <1>1, FS_Subset, FS_CardinalityType
<1> QED
  BY <1>2 DEF MerkleRoot, Digests

\* A name and document are in the digest when some mirrorable envelope has them.
LEMMA RootCounts ==
  ASSUME NEW l \in Seq(Envelope), NEW n \in Names, NEW d \in Docs
  PROVE  MerkleRoot(l)[<<n, d>>] > 0 <=>
           \E i \in DOMAIN l : l[i].valid /\ l[i].name = n /\ l[i].doc = d
<1> DEFINE Occ == {i \in DOMAIN l : l[i].valid /\ <<l[i].name, l[i].doc>> = <<n, d>>}
<1>1. IsFiniteSet(Occ)
  BY LenProperties, FS_Interval, FS_Subset
<1>2. Cardinality(Occ) \in Nat
  BY <1>1, FS_CardinalityType
<1>3. MerkleRoot(l)[<<n, d>>] = Cardinality(Occ)
  BY DEF MerkleRoot
<1>4. Occ # {} <=> \E i \in DOMAIN l : l[i].valid /\ l[i].name = n /\ l[i].doc = d
  OBVIOUS
<1>5. Cardinality(Occ) > 0 <=> Occ # {}
  <2> HIDE DEF Occ
  <2> QED  BY <1>1, <1>2, FS_EmptySet
<1> QED
  BY <1>3, <1>4, <1>5

\* What a cursor skips is the beginning of the listing.
LEMMA SkippedIsPrefix ==
  ASSUME NEW u \in Seq(Envelope), Ordered(u), NEW c \in Nat
  PROVE  /\ Skipped(u, c) \in 0 .. Len(u)
         /\ \A i \in 1 .. Len(u) : u[i].at <= c <=> i <= Skipped(u, c)
<1> DEFINE S == {i \in 1 .. Len(u) : u[i].at <= c}
           n == Len(u)
<1>1. n \in Nat /\ DOMAIN u = 1 .. n /\ \A i \in 1 .. n : u[i].at \in Nat
  <2>1. n \in Nat /\ DOMAIN u = 1 .. n
    BY LenProperties
  <2>2. \A i \in 1 .. n : u[i] \in Envelope
    BY ElementOfSeq
  <2> QED
    BY <2>1, <2>2 DEF Envelope
<1>2. Skipped(u, c) = Cardinality(S)
  BY <1>1 DEF Skipped
<1> HIDE DEF n
<1>3. \A m \in Nat : IsFiniteSet(1 .. m) /\ Cardinality(1 .. m) = m
  <2> TAKE m \in Nat
  <2>1. IsFiniteSet(1 .. m) /\ Cardinality(1 .. m) = IF 1 > m THEN 0 ELSE m - 1 + 1
    BY FS_Interval
  <2> QED BY <2>1
<1>4. S \subseteq 1 .. n
  BY DEF n
<1>5. IsFiniteSet(S) /\ Cardinality(S) \in Nat /\ Cardinality(S) <= n
  BY <1>1, <1>3, <1>4, FS_Subset, FS_CardinalityType
<1>6. ASSUME NEW i \in S
      PROVE  i <= Cardinality(S)
  <2>1. i \in 1 .. n /\ u[i].at <= c
    BY DEF n
  <2>2. ASSUME NEW j \in 1 .. i
        PROVE  j \in S
    <3>1. j \in 1 .. n /\ (j = i \/ j < i)
      BY <1>1, <2>1
    <3>2. u[j].at <= u[i].at
      BY <1>1, <2>1, <3>1 DEF Ordered
    <3> QED
      BY <1>1, <2>1, <3>1, <3>2 DEF n
  <2>3. 1 .. i \subseteq S /\ i \in Nat
    BY <1>1, <2>1, <2>2
  <2> HIDE DEF S
  <2>4. Cardinality(1 .. i) <= Cardinality(S) /\ Cardinality(1 .. i) = i
    BY <1>3, <1>5, <2>3, FS_Subset
  <2> QED BY <2>4
<1>7. ASSUME NEW i \in 1 .. n, i \notin S
      PROVE  Cardinality(S) < i
  <2>1. ~(u[i].at <= c)
    BY <1>7 DEF n
  <2>2. ASSUME NEW j \in S
        PROVE  j \in 1 .. i - 1
    <3>1. j \in 1 .. n /\ u[j].at <= c
      BY DEF n
    <3>2. j # i /\ ~(i < j)
      BY <1>1, <2>1, <3>1 DEF Ordered
    <3> QED
      BY <1>1, <3>1, <3>2
  <2>3. S \subseteq 1 .. i - 1 /\ i - 1 \in Nat
    BY <1>1, <2>2
  <2> HIDE DEF S
  <2>4. Cardinality(S) <= Cardinality(1 .. i - 1) /\ Cardinality(1 .. i - 1) = i - 1
    BY <1>3, <2>3, FS_Subset
  <2> QED BY <1>1, <1>5, <2>4
<1>8. ASSUME NEW i \in 1 .. n
      PROVE  u[i].at <= c <=> i <= Cardinality(S)
  <2>1. i \in S <=> u[i].at <= c
    BY DEF n
  <2> HIDE DEF S
  <2> QED BY <1>1, <1>5, <1>6, <1>7, <2>1
<1> HIDE DEF S
<1> QED
  BY <1>1, <1>2, <1>5, <1>8 DEF n

\* A page: the envelopes that follow the skipped ones, as many as it holds.
LEMMA PageFacts ==
  ASSUME NEW u \in Seq(Envelope), Ordered(u), NEW c \in Nat
  PROVE  /\ PageAfter(u, c) \in Seq(Envelope)
         /\ HasNextCursor(u, c) =>
              /\ Len(PageAfter(u, c)) = PageSize
              /\ Skipped(u, c) + PageSize \in 1 .. Len(u)
              /\ NextCursor(u, c) \in Nat
         /\ ~HasNextCursor(u, c) => Skipped(u, c) + Len(PageAfter(u, c)) = Len(u)
         /\ \A i \in 1 .. Len(PageAfter(u, c)) :
              /\ Skipped(u, c) + i \in 1 .. Len(u)
              /\ PageAfter(u, c)[i] = u[Skipped(u, c) + i]
<1> DEFINE k == Skipped(u, c)
           last == IF HasNextCursor(u, c) THEN k + PageSize ELSE Len(u)
<1> USE SyncAssumption
<1>1. k \in Nat /\ Len(u) \in Nat /\ k <= Len(u)
  <2>1. Len(u) \in Nat /\ k \in 0 .. Len(u)
    BY SkippedIsPrefix, LenProperties
  <2> QED BY <2>1
<1>2. last \in k .. Len(u)
  BY <1>1 DEF HasNextCursor
<1> HIDE DEF last, k
<1>3. PageAfter(u, c) = SubSeq(u, k + 1, last)
  BY DEF PageAfter, last, k
<1>4. /\ SubSeq(u, k + 1, last) \in Seq(Envelope)
      /\ Len(SubSeq(u, k + 1, last)) = last - k
      /\ \A i \in 1 .. last - k : SubSeq(u, k + 1, last)[i] = u[k + i]
  <2>1. k + 1 \in Int /\ last \in Int /\ \A i \in k + 1 .. last : u[i] \in Envelope
    BY <1>1, <1>2, ElementOfSeq
  <2>2. /\ SubSeq(u, k + 1, last) \in Seq(Envelope)
        /\ Len(SubSeq(u, k + 1, last)) = IF k + 1 <= last THEN last - (k + 1) + 1 ELSE 0
        /\ \A i \in 1 .. last - (k + 1) + 1 : SubSeq(u, k + 1, last)[i] = u[k + 1 + i - 1]
    BY <2>1, SubSeqProperties
  <2>3. last - (k + 1) + 1 = last - k /\ (k + 1 <= last \/ last - k = 0)
    BY <1>1, <1>2
  <2>4. ASSUME NEW i \in 1 .. last - k
        PROVE  k + 1 + i - 1 = k + i
    BY <1>1, <1>2
  <2> QED
    BY <2>2, <2>3, <2>4
<1>5. CASE HasNextCursor(u, c)
  <2>1. last = k + PageSize /\ last - k = PageSize /\ k + PageSize \in 1 .. Len(u)
    BY <1>1, <1>2, <1>5 DEF last
  <2>2. u[k + PageSize] \in Envelope
    BY <2>1, ElementOfSeq
  <2>3. NextCursor(u, c) \in Nat
    BY <2>2 DEF NextCursor, Envelope, k
  <2>4. \A i \in 1 .. last - k : k + i \in 1 .. Len(u)
    BY <1>1, <1>2
  <2> QED
    BY <1>3, <1>4, <1>5, <2>1, <2>3, <2>4 DEF k
<1>6. CASE ~HasNextCursor(u, c)
  <2>1. last = Len(u) /\ k + (last - k) = Len(u)
    BY <1>1, <1>2, <1>6 DEF last
  <2>2. \A i \in 1 .. last - k : k + i \in 1 .. Len(u)
    BY <1>1, <1>2
  <2> QED
    BY <1>3, <1>4, <1>6, <2>1, <2>2 DEF k
<1> QED
  BY <1>5, <1>6

\* The prior hash the tick reads is a digest, or none.
LEMMA LatestHashType ==
  ASSUME SnapshotsTypeOK
  PROVE  LatestHash \in Digests \cup {NoHash}
<1>1. CASE snapshots = <<>>
  BY <1>1 DEF LatestHash
<1>2. CASE snapshots # <<>>
  <2>1. Len(snapshots) \in 1 .. Len(snapshots)
    BY <1>2, EmptySeq DEF SnapshotsTypeOK
  <2>2. snapshots[Len(snapshots)] \in SnapshotRow
    BY <2>1, ElementOfSeq DEF SnapshotsTypeOK
  <2> QED
    BY <1>2, <2>2 DEF LatestHash, SnapshotRow
<1> QED
  BY <1>1, <1>2

\* Recording a digest upon a digest or none keeps the rows well-typed.
LEMMA InsertType ==
  ASSUME SnapshotsTypeOK, NEW r \in Digests, NEW p \in Digests \cup {NoHash},
         InsertSnapshot(r, p)
  PROVE  /\ SnapshotsTypeOK'
         /\ Len(snapshots') = Len(snapshots) + 1
         /\ \A i \in 1 .. Len(snapshots) : snapshots'[i] = snapshots[i]
         /\ snapshots'[Len(snapshots) + 1] =
              [root |-> r, prev |-> p, receipt |-> TRUE, entries |-> TRUE]
<1> DEFINE row == [root |-> r, prev |-> p, receipt |-> TRUE, entries |-> TRUE]
<1>1. row \in SnapshotRow
  BY DEF SnapshotRow
<1> QED
  BY <1>1, AppendProperties DEF SnapshotsTypeOK, InsertSnapshot

\* The prune keeps the rows well-typed, and their number.
LEMMA PruneType ==
  ASSUME SnapshotsTypeOK, PruneEntrySets
  PROVE  /\ SnapshotsTypeOK'
         /\ Len(snapshots') = Len(snapshots)
         /\ DOMAIN snapshots' = DOMAIN snapshots
         /\ \A i \in DOMAIN snapshots :
              /\ snapshots'[i].root = snapshots[i].root
              /\ snapshots'[i].prev = snapshots[i].prev
              /\ snapshots'[i].receipt = snapshots[i].receipt
              /\ snapshots'[i].entries = (i \in Newest(WithEntries, EntryRetention))
<1> DEFINE row(i) == [snapshots[i] EXCEPT
                        !.entries = (i \in Newest(WithEntries, EntryRetention))]
<1>1. Len(snapshots) \in Nat /\ DOMAIN snapshots = 1 .. Len(snapshots)
  BY LenProperties DEF SnapshotsTypeOK
<1>2. ASSUME NEW i \in 1 .. Len(snapshots)
      PROVE  /\ row(i) \in SnapshotRow
             /\ row(i).root = snapshots[i].root
             /\ row(i).prev = snapshots[i].prev
             /\ row(i).receipt = snapshots[i].receipt
             /\ row(i).entries = (i \in Newest(WithEntries, EntryRetention))
  <2>1. snapshots[i] \in SnapshotRow
    BY ElementOfSeq DEF SnapshotsTypeOK
  <2>2. PICK b \in BOOLEAN : b = (i \in Newest(WithEntries, EntryRetention))
    <3> WITNESS (i \in Newest(WithEntries, EntryRetention)) \in BOOLEAN
    <3> QED  OBVIOUS
  <2>3. row(i) = [snapshots[i] EXCEPT !.entries = b]
    BY <2>2, Zenon
  <2>4. /\ row(i) \in SnapshotRow
        /\ row(i).root = snapshots[i].root
        /\ row(i).prev = snapshots[i].prev
        /\ row(i).receipt = snapshots[i].receipt
        /\ row(i).entries = b
    BY <2>1, <2>3 DEF SnapshotRow
  <2> HIDE DEF row
  <2> QED
    BY <2>2, <2>4, Zenon
<1>3. snapshots' = [i \in 1 .. Len(snapshots) |-> row(i)]
  BY DEF PruneEntrySets
<1>4. snapshots' \in [1 .. Len(snapshots) -> SnapshotRow]
  BY <1>2, <1>3
<1>5. snapshots' \in Seq(SnapshotRow)
  BY <1>1, <1>4, SeqDef
<1>6. Len(snapshots') = Len(snapshots)
  BY <1>1, <1>4, <1>5, LenProperties
<1>7. DOMAIN snapshots' = DOMAIN snapshots
  BY <1>1, <1>4
<1>8. \A i \in DOMAIN snapshots : snapshots'[i] = row(i)
  <2> HIDE DEF row
  <2> QED  BY <1>1, <1>3
<1> HIDE DEF row
<1>9. \A i \in DOMAIN snapshots :
        /\ snapshots'[i].root = snapshots[i].root
        /\ snapshots'[i].prev = snapshots[i].prev
        /\ snapshots'[i].receipt = snapshots[i].receipt
  BY <1>1, <1>2, <1>8
<1>10. \A i \in DOMAIN snapshots :
         snapshots'[i].entries = (i \in Newest(WithEntries, EntryRetention))
  BY <1>1, <1>2, <1>8, Zenon
<1> QED
  BY <1>5, <1>6, <1>7, <1>9, <1>10, Zenon DEF SnapshotsTypeOK

\* What each statement on mcp_servers does to the types.
LEMMA MirrorTypes ==
  ASSUME MirrorTypeOK, NEW n \in Names
  PROVE  /\ \A d \in Docs : UpsertServer(n, d) => MirrorTypeOK'
         /\ \A age \in Ages : MarkDeleted(n, age) => MirrorTypeOK'
         /\ Evict(n) => MirrorTypeOK'
         /\ UpsertEnrichment(n) => MirrorTypeOK'
<1> USE MirrorAssumption
<1>1. ASSUME NEW d \in Docs, UpsertServer(n, d)
      PROVE  MirrorTypeOK'
  BY <1>1 DEF MirrorTypeOK, UpsertServer, Row
<1>2. ASSUME NEW age \in Ages, MarkDeleted(n, age)
      PROVE  MirrorTypeOK'
  BY <1>2 DEF MirrorTypeOK, MarkDeleted, LiveRows, Rows, Row
<1>3. ASSUME Evict(n)
      PROVE  MirrorTypeOK'
  BY <1>3 DEF MirrorTypeOK, Evict
<1>4. ASSUME UpsertEnrichment(n)
      PROVE  MirrorTypeOK'
  BY <1>4 DEF MirrorTypeOK, UpsertEnrichment
<1> QED
  BY <1>1, <1>2, <1>3, <1>4

\* Ages stay within the window.
LEMMA OlderType ==
  ASSUME NEW age \in Ages
  PROVE  Older(age) \in Ages /\ age <= Older(age)
BY MirrorAssumption DEF Ages, Older

\* The passage of time keeps the mirror well-typed.
LEMMA AgeRowsType ==
  ASSUME MirrorTypeOK, AgeRows
  PROVE  MirrorTypeOK'
<1> USE MirrorAssumption
<1>1. ASSUME NEW n \in Rows \ LiveRows
      PROVE  [mirror[n] EXCEPT !.deletedFor = Older(@)] \in Row
  BY OlderType DEF MirrorTypeOK, Rows, LiveRows, Row
<1> QED
  BY <1>1 DEF MirrorTypeOK, AgeRows

--------------------------------------------------------------------------------
(* Type correctness.                                                          *)

\* The initial states are well-typed.
LEMMA InitType == Init => TypeOK
<1> SUFFICES ASSUME Init
             PROVE  TypeOK
  OBVIOUS
<1> USE MirrorAssumption, SnapshotAssumption, SyncAssumption DEF Init
<1>1. MirrorTypeOK
  BY DEF MirrorInit, MirrorTypeOK
<1>2. <<>> \in Seq(Envelope)
  BY EmptySeq
<1>3. LegacyRow(MerkleRoot(<<>>), NoHash) \in SnapshotRow
  BY <1>2, RootIsDigest DEF LegacyRow, SnapshotRow
<1>4. SnapshotsTypeOK
  <2> DEFINE legacy == LegacyRow(MerkleRoot(<<>>), NoHash)
  <2>1. snapshots \in {<<>>, <<legacy>>}
    OBVIOUS
  <2> HIDE DEF legacy
  <2>2. <<legacy>> \in Seq(SnapshotRow)
    BY <1>3 DEF legacy
  <2> QED
    BY <2>1, <2>2, EmptySeq DEF SnapshotsTypeOK
<1>5. Retention \in Ages /\ 0 \in Ages
  BY DEF Ages
<1> QED
  BY <1>1, <1>2, <1>4, <1>5 DEF TypeOK, Statements

\* The next-state relation, one action at a time.
LEMMA NextType == TypeOK /\ [Next]_vars => TypeOK'
<1> SUFFICES ASSUME TypeOK, [Next]_vars
             PROVE  TypeOK'
  OBVIOUS
<1> USE MirrorAssumption, SnapshotAssumption, SyncAssumption
<1>0. 0 \in Ages
  BY DEF Ages
<1>1. CASE BeginTick
  BY <1>1, EmptySeq DEF TypeOK, MirrorTypeOK, SnapshotsTypeOK, BeginTick, Statements
<1>2. CASE FetchPage
  <2>1. upstream \in Seq(Envelope) /\ Ordered(upstream) /\ cursor \in Nat
    BY DEF TypeOK
  <2>2. PageAfter(upstream, cursor) \in Seq(Envelope)
    BY <2>1, PageFacts
  <2>3. listing' \in Seq(Envelope)
    BY <1>2, <2>2, ConcatProperties DEF TypeOK, FetchPage
  <2>4. page' \in 0 .. MaxPagesPerRun /\ cursor' \in Nat
    BY <1>2, <2>1, PageFacts DEF TypeOK, FetchPage, AnotherPage
  <2> QED
    BY <1>2, <2>3, <2>4 DEF TypeOK, MirrorTypeOK, SnapshotsTypeOK, FetchPage, ghostVars, Statements
<1>3. CASE PlanSnapshot
  BY <1>3, LatestHashType DEF TypeOK, MirrorTypeOK, SnapshotsTypeOK, PlanSnapshot, ghostVars, Statements
<1>4. CASE PersistChange
  <2> DEFINE e == listing[next]
  <2>1. e \in Envelope
    BY <1>4, LenProperties, ElementOfSeq DEF TypeOK, PersistChange
  <2>2. e.name \in Names /\ e.doc \in Docs
    BY <2>1 DEF Envelope
  <2>3. MirrorTypeOK'
    <3>1. CASE e.valid
      BY <1>4, <2>2, <3>1, MirrorTypes DEF TypeOK, PersistChange
    <3>2. CASE ~e.valid
      BY <1>4, <3>2 DEF TypeOK, PersistChange, MirrorTypeOK
    <3> QED
      BY <3>1, <3>2
  <2>4. unlistedFor' \in [Names -> Ages]
    BY <1>0, <1>4, <2>2 DEF TypeOK, PersistChange
  <2> QED
    BY <1>4, <2>3, <2>4 DEF TypeOK, SnapshotsTypeOK, PersistChange, Statements
<1>5. CASE PersistDone
  BY <1>5 DEF TypeOK, MirrorTypeOK, SnapshotsTypeOK, PersistDone, tickVars, ghostVars, Statements
<1>6. CASE ReadCachedState
  <2>1. CachedState \subseteq Names \X (Ages \cup {None})
    BY DEF TypeOK, MirrorTypeOK, CachedState, Rows, Row
  <2> QED
    BY <1>0, <1>6, <2>1 DEF TypeOK, MirrorTypeOK, SnapshotsTypeOK, ReadCachedState, ghostVars, Statements
<1>7. CASE ReconcileRow
  <2>1. PICK c \in cached : /\ cached' = cached \ {c}
                            /\ MarkRow(c) \/ RetainRow(c) \/ EvictRow(c)
    BY <1>7 DEF ReconcileRow
  <2>2. c[1] \in Names
    BY DEF TypeOK
  <2>3. MirrorTypeOK'
    <3>1. CASE MarkRow(c)
      BY <2>2, <3>1, MirrorTypes DEF TypeOK, MarkRow
    <3>2. CASE RetainRow(c)
      BY <3>2 DEF TypeOK, MirrorTypeOK, RetainRow, mirrorVars
    <3>3. CASE EvictRow(c)
      BY <2>2, <3>3, MirrorTypes DEF TypeOK, EvictRow
    <3> QED
      BY <2>1, <3>1, <3>2, <3>3
  <2> QED
    BY <1>7, <2>1, <2>3 DEF TypeOK, SnapshotsTypeOK, ReconcileRow, ghostVars, Statements
<1>8. CASE SignSnapshot
  BY <1>0, <1>8 DEF TypeOK, MirrorTypeOK, SnapshotsTypeOK, SignSnapshot, ghostVars, Statements
<1>9. CASE RecordSnapshot
  <2>1. SnapshotsTypeOK'
    BY <1>9, RootIsDigest, InsertType DEF TypeOK, RecordSnapshot
  <2> QED
    BY <1>9, <2>1 DEF TypeOK, MirrorTypeOK, RecordSnapshot, tickVars, ghostVars, Statements
<1>10. CASE PruneAndFinish
  <2>1. SnapshotsTypeOK'
    BY <1>10, PruneType DEF TypeOK, PruneAndFinish
  <2> QED
    BY <1>0, <1>10, <2>1, EmptySeq DEF TypeOK, MirrorTypeOK, PruneAndFinish, ForgetTick
<1>11. ASSUME AbandonTick, failures' \in 0 .. MaxFailures
       PROVE  TypeOK'
  BY <1>0, <1>11, EmptySeq DEF TypeOK, MirrorTypeOK, SnapshotsTypeOK, AbandonTick, ForgetTick
<1>12. CASE SignFails \/ EvictRefused
  BY <1>11, <1>12 DEF TypeOK, SignFails, EvictRefused
<1>13. CASE TickFails
  BY <1>11, <1>13 DEF TypeOK, TickFails
<1>14. CASE UpstreamChanges
  BY <1>14 DEF TypeOK, MirrorTypeOK, SnapshotsTypeOK, UpstreamChanges, tickVars
<1>15. CASE Enrich
  <2>1. MirrorTypeOK'
    BY <1>15, MirrorTypes DEF TypeOK, Enrich
  <2> QED
    BY <1>15, <2>1 DEF TypeOK, SnapshotsTypeOK, Enrich, tickVars, ghostVars
<1>16. CASE TimePasses
  <2>1. MirrorTypeOK'
    BY <1>16, AgeRowsType DEF TypeOK, TimePasses
  <2>2. unlistedFor' \in [Names -> Ages] /\ nowAge' \in Ages
    BY <1>16, OlderType DEF TypeOK, TimePasses
  <2> QED
    BY <1>16, <2>1, <2>2 DEF TypeOK, SnapshotsTypeOK, TimePasses
<1>17. CASE UNCHANGED vars
  BY <1>17 DEF TypeOK, MirrorTypeOK, SnapshotsTypeOK, vars
<1> QED
  BY <1>1, <1>2, <1>3, <1>4, <1>5, <1>6, <1>7, <1>8, <1>9, <1>10, <1>12, <1>13,
     <1>14, <1>15, <1>16, <1>17 DEF Next, TickStep

\* Every variable keeps its type: in particular no root is recorded that is not
\* a digest, and no deletion stamp survives outside a row.
THEOREM TypeCorrect == Spec => []TypeOK
<1>1. Init => TypeOK
  BY InitType
<1>2. TypeOK /\ [Next]_vars => TypeOK'
  BY NextType
<1> QED
  BY <1>1, <1>2, PTL DEF Spec

--------------------------------------------------------------------------------
(* The inductive invariant.  It says how far the tick has got: what of the    *)
(* listing is in the mirror, which unlisted rows are still to be visited, how *)
(* old the stamps can be, and which row the receipt in hand is chained to.    *)

\* The listing has document d for name n.
Lists(n, d) ==
  \E i \in DOMAIN listing :
    listing[i].valid /\ listing[i].name = n /\ listing[i].doc = d

\* The mirrorable envelopes before position k are in the mirror: their rows are
\* live and hold a listed document (of several versions, the last one so far).
Written(k) ==
  \A i \in DOMAIN listing : i < k /\ listing[i].valid =>
    /\ listing[i].name \in LiveRows
    /\ Lists(listing[i].name, mirror[listing[i].name].doc)

AllWritten ==
  \A n \in NamesIn(listing) : n \in LiveRows /\ Lists(n, mirror[n].doc)

ListingInMirror ==
  /\ pc = "upsert" => next >= 1 /\ Written(next)
  /\ pc \in {"diff", "reconcile", "record", "prune"} => AllWritten

\* Reconciliation visits unlisted names only, and every unlisted row that is
\* still live is among those it has yet to visit.
UnlistedVisited ==
  /\ pc = "reconcile" =>
       /\ \A c \in cached : c[1] \notin NamesIn(listing)
       /\ \A n \in LiveRows \ NamesIn(listing) : <<n, None>> \in cached
  /\ pc \in {"record", "prune"} => LiveRows \subseteq NamesIn(listing)

\* No stamp, in the mirror or in what the tick has read of it, is older than the
\* last upsert of its name.
StampsAreYounger ==
  /\ \A n \in Rows \ LiveRows : mirror[n].deletedFor <= unlistedFor[n]
  /\ pc = "reconcile" =>
       \A c \in cached : /\ nowAge <= unlistedFor[c[1]]
                         /\ c[2] # None => c[2] <= unlistedFor[c[1]]

MirrorInv == ListingInMirror /\ UnlistedVisited /\ StampsAreYounger

\* The receipt in hand names the newest row, and the row just recorded digests
\* the listing.
ReceiptInHand ==
  /\ pc \in {"upsert", "diff", "reconcile", "record"} => prior = LatestHash
  /\ pc = "prune" => LatestHash = MerkleRoot(listing) /\ snapshots # <<>>

\* The rows with an entry set, and those with a receipt, are the newest ones,
\* and the newest row has an entry set if it has a receipt.
EntriesKept ==
  /\ \A i, j \in DOMAIN snapshots : i < j =>
       /\ snapshots[i].entries => snapshots[j].entries
       /\ snapshots[i].receipt => snapshots[j].receipt
  /\ \A i \in DOMAIN snapshots :
       i = Len(snapshots) /\ snapshots[i].receipt => snapshots[i].entries

SnapshotInv == ReceiptInHand /\ EntriesKept

IInv == TypeOK /\ MirrorInv /\ SnapshotInv

--------------------------------------------------------------------------------
(* The mirror and its stamps.                                                 *)

\* Before the first tick the mirror is empty and nothing is in hand.
LEMMA InitMirrorInv == Init => MirrorInv
BY DEF Init, MirrorInit, MirrorInv, ListingInMirror, UnlistedVisited,
       StampsAreYounger, Rows, LiveRows

\* A step that touches neither the mirror nor the listing preserves what is
\* known of both, as long as the tick does not advance.
LEMMA MirrorInvFrame ==
  ASSUME MirrorInv,
         UNCHANGED <<mirror, listing, next, cached, nowAge, unlistedFor, pc>>
  PROVE  MirrorInv'
BY DEF MirrorInv, ListingInMirror, UnlistedVisited, StampsAreYounger, Written,
       AllWritten, Lists, NamesIn, Rows, LiveRows

\* Outside a tick, and before its first upsert, only the stamps matter.
LEMMA MirrorInvOutside ==
  ASSUME MirrorInv, UNCHANGED <<mirror, unlistedFor>>,
         pc' \in {"idle", "fetch", "plan"}
  PROVE  MirrorInv'
BY DEF MirrorInv, ListingInMirror, UnlistedVisited, StampsAreYounger, Rows, LiveRows

\* The upsert of position next extends what is written by one position.
LEMMA PersistMirrorInv ==
  ASSUME TypeOK, MirrorInv, PersistChange
  PROVE  MirrorInv'
<1> USE MirrorAssumption
<1> DEFINE e == listing[next]
           n == e.name
<1>1. /\ pc = "upsert" /\ pc' = "upsert" /\ listing' = listing /\ next' = next + 1
      /\ next \in DOMAIN listing /\ DOMAIN listing \subseteq Nat /\ next >= 1 /\ Written(next)
  BY LenProperties DEF TypeOK, PersistChange, MirrorInv, ListingInMirror
<1>2. e \in Envelope /\ n \in Names /\ e.doc \in Docs
  <2>1. e \in Envelope
    BY <1>1, LenProperties, ElementOfSeq DEF TypeOK
  <2> QED
    BY <2>1 DEF Envelope
<1>3. CASE e.valid
  <2>1. /\ mirror' = [mirror EXCEPT ![n] = [doc |-> e.doc, deletedFor |-> None]]
        /\ unlistedFor' = [unlistedFor EXCEPT ![n] = 0]
    BY <1>3 DEF PersistChange, UpsertServer
  <2>2. /\ mirror'[n] = [doc |-> e.doc, deletedFor |-> None]
        /\ \A m \in Names \ {n} : mirror'[m] = mirror[m] /\ unlistedFor'[m] = unlistedFor[m]
    BY <1>2, <2>1 DEF TypeOK, MirrorTypeOK
  <2>3. n \in LiveRows' /\ LiveRows' = LiveRows \cup {n} /\ Rows' = Rows \cup {n}
    <3>1. [doc |-> e.doc, deletedFor |-> None] # None
      BY <1>2 DEF Row
    <3> QED
      BY <1>2, <2>2, <3>1 DEF Rows, LiveRows
  <2>4. Written(next)'
    <3> SUFFICES ASSUME NEW i \in DOMAIN listing, i < next + 1, listing[i].valid
                 PROVE  /\ listing[i].name \in LiveRows'
                        /\ Lists(listing[i].name, mirror'[listing[i].name].doc)
      BY <1>1 DEF Written, Lists
    <3>1. CASE listing[i].name = n
      BY <1>1, <1>3, <2>2, <2>3, <3>1 DEF Lists
    <3>2. CASE listing[i].name # n
      <4>1. i < next
        BY <1>1, <3>2
      <4>2. listing[i].name \in LiveRows /\ Lists(listing[i].name, mirror[listing[i].name].doc)
        BY <1>1, <4>1 DEF Written
      <4> QED
        BY <2>2, <2>3, <3>2, <4>2 DEF LiveRows, Rows
    <3> QED
      BY <3>1, <3>2
  <2>5. StampsAreYounger'
    BY <1>1, <2>2, <2>3 DEF MirrorInv, StampsAreYounger, Rows, LiveRows
  <2> QED
    BY <1>1, <2>4, <2>5 DEF MirrorInv, ListingInMirror, UnlistedVisited
<1>4. CASE ~e.valid
  <2>1. UNCHANGED <<mirror, unlistedFor>>
    BY <1>4 DEF PersistChange
  <2>2. Written(next)'
    BY <1>1, <1>4, <2>1 DEF Written, Lists, LiveRows, Rows
  <2>3. StampsAreYounger'
    BY <1>1, <2>1 DEF MirrorInv, StampsAreYounger, Rows, LiveRows
  <2> QED
    BY <1>1, <2>2, <2>3 DEF MirrorInv, ListingInMirror, UnlistedVisited
<1> QED
  BY <1>3, <1>4

\* Visiting one unlisted row leaves the listed ones alone and settles that row.
LEMMA ReconcileMirrorInv ==
  ASSUME TypeOK, MirrorInv, ReconcileRow
  PROVE  MirrorInv'
<1> USE MirrorAssumption
<1>1. PICK c \in cached : /\ cached' = cached \ {c}
                          /\ MarkRow(c) \/ RetainRow(c) \/ EvictRow(c)
  BY DEF ReconcileRow
<1> DEFINE n == c[1]
<1>2. /\ pc = "reconcile" /\ pc' = "reconcile"
      /\ UNCHANGED <<listing, nowAge, unlistedFor>>
  BY DEF ReconcileRow, ghostVars
<1>3. /\ n \in Names /\ n \notin NamesIn(listing) /\ nowAge <= unlistedFor[n]
      /\ c = <<n, c[2]>>
  BY <1>1, <1>2 DEF TypeOK, MirrorInv, UnlistedVisited, StampsAreYounger
<1>4. /\ \A m \in Names \ {n} : mirror'[m] = mirror[m]
      /\ \/ mirror'[n] = mirror[n]
         \/ mirror'[n] = None
         \/ n \in LiveRows /\ mirror'[n] = [mirror[n] EXCEPT !.deletedFor = nowAge]
      /\ c[2] = None => n \notin LiveRows'
  <2>1. CASE MarkRow(c)
    <3>1. CASE n \in LiveRows
      <4>1. mirror' = [mirror EXCEPT ![n] = [mirror[n] EXCEPT !.deletedFor = nowAge]]
        BY <2>1, <3>1 DEF MarkRow, MarkDeleted
      <4>2. mirror'[n] = [mirror[n] EXCEPT !.deletedFor = nowAge]
        BY <1>3, <4>1 DEF TypeOK, MirrorTypeOK
      <4>3. mirror'[n].deletedFor = nowAge /\ nowAge # None
        BY <3>1, <4>2 DEF TypeOK, MirrorTypeOK, LiveRows, Rows, Row, Ages
      <4> QED
        BY <3>1, <4>1, <4>2, <4>3 DEF TypeOK, MirrorTypeOK, LiveRows
    <3>2. CASE n \notin LiveRows
      BY <2>1, <3>2 DEF MarkRow, MarkDeleted, LiveRows, Rows
    <3> QED
      BY <3>1, <3>2
  <2>2. CASE RetainRow(c)
    BY <2>2 DEF RetainRow, mirrorVars
  <2>3. CASE EvictRow(c)
    BY <1>3, <2>3 DEF EvictRow, Evict, TypeOK, MirrorTypeOK
  <2> QED
    BY <1>1, <2>1, <2>2, <2>3
<1>5. LiveRows \ {n} = LiveRows' \ {n} /\ Rows \ {n} = Rows' \ {n}
  BY <1>4 DEF LiveRows, Rows
<1>6. ListingInMirror'
  <2>1. AllWritten
    BY <1>2 DEF MirrorInv, ListingInMirror
  <2>2. AllWritten'
    BY <1>2, <1>3, <1>4, <1>5, <2>1 DEF AllWritten, Lists, NamesIn, LiveRows, Rows
  <2> QED
    BY <1>2, <2>2 DEF ListingInMirror
<1>7. UnlistedVisited'
  <2>1. \A d \in cached' : d[1] \notin NamesIn(listing)
    BY <1>1, <1>2 DEF MirrorInv, UnlistedVisited
  <2>2. ASSUME NEW m \in LiveRows', m \notin NamesIn(listing)
        PROVE  <<m, None>> \in cached'
    <3>1. m \in LiveRows
      BY <1>3, <1>4, <1>5, <2>2 DEF LiveRows, Rows
    <3>2. <<m, None>> \in cached
      BY <1>2, <2>2, <3>1 DEF MirrorInv, UnlistedVisited
    <3>3. <<m, None>> # c
      BY <1>3, <1>4, <2>2
    <3> QED
      BY <1>1, <3>2, <3>3
  <2> QED
    BY <1>2, <2>1, <2>2 DEF UnlistedVisited, NamesIn
<1>8. StampsAreYounger'
  <2>1. ASSUME NEW m \in Rows' \ LiveRows'
        PROVE  mirror'[m].deletedFor <= unlistedFor[m]
    <3>1. CASE m # n \/ mirror'[n] = mirror[n]
      <4>1. mirror'[m] = mirror[m] /\ m \in Rows \ LiveRows
        BY <1>4, <2>1, <3>1 DEF Rows, LiveRows
      <4> QED
        BY <4>1 DEF MirrorInv, StampsAreYounger
    <3>2. CASE m = n /\ mirror'[n] # mirror[n]
      <4>1. n \in LiveRows /\ mirror'[n] = [mirror[n] EXCEPT !.deletedFor = nowAge]
        BY <1>4, <2>1, <3>2 DEF Rows
      <4>2. mirror'[n].deletedFor = nowAge
        BY <4>1 DEF TypeOK, MirrorTypeOK, LiveRows, Rows, Row
      <4> QED
        BY <1>3, <3>2, <4>2
    <3> QED
      BY <3>1, <3>2
  <2> QED
    BY <1>1, <1>2, <2>1 DEF MirrorInv, StampsAreYounger
<1> QED
  BY <1>6, <1>7, <1>8 DEF MirrorInv

\* Time makes every stamp and the clock reading of the tick one unit older, and
\* no younger than the last upsert.
LEMMA TimeMirrorInv ==
  ASSUME TypeOK, MirrorInv, TimePasses
  PROVE  MirrorInv'
<1> USE MirrorAssumption
<1>1. UNCHANGED <<pc, listing, next, cached>>
  BY DEF TimePasses
<1>2. ASSUME NEW x \in Ages, NEW y \in Ages, x <= y
      PROVE  Older(x) <= Older(y)
  BY <1>2 DEF Older, Ages
<1>3. ASSUME NEW n \in Names
      PROVE  IF n \in Rows \ LiveRows
             THEN /\ mirror'[n] \in Row
                  /\ mirror'[n].doc = mirror[n].doc
                  /\ mirror'[n].deletedFor = Older(mirror[n].deletedFor)
                  /\ mirror'[n].deletedFor \in Ages
             ELSE mirror'[n] = mirror[n]
  <2>1. CASE n \in Rows \ LiveRows
    <3>1. mirror'[n] = [mirror[n] EXCEPT !.deletedFor = Older(@)]
      BY <2>1 DEF TimePasses, AgeRows
    <3>2. mirror[n] \in Row /\ mirror[n].deletedFor \in Ages
      BY <2>1 DEF TypeOK, MirrorTypeOK, Rows, LiveRows, Row
    <3> QED
      BY <2>1, <3>1, <3>2, OlderType DEF Row
  <2>2. CASE n \notin Rows \ LiveRows
    BY <2>2 DEF TimePasses, AgeRows
  <2> QED
    BY <2>1, <2>2
<1>4. Rows' = Rows /\ LiveRows' = LiveRows
  <2>1. \A n \in Names : n \in Rows' <=> n \in Rows
    BY <1>3 DEF Rows
  <2>2. \A n \in Names : n \in LiveRows' <=> n \in LiveRows
    BY <1>3, <2>1 DEF LiveRows, Rows, Ages
  <2> QED
    BY <2>1, <2>2 DEF LiveRows, Rows
<1>5. \A n \in Names : mirror'[n].doc = mirror[n].doc
  BY <1>3
<1>6. ListingInMirror'
  <2>1. pc = "upsert" => next >= 1 /\ Written(next)'
    BY <1>1, <1>4, <1>5 DEF MirrorInv, ListingInMirror, Written, Lists, LiveRows, Rows
  <2>2. pc \in {"diff", "reconcile", "record", "prune"} => AllWritten'
    BY <1>1, <1>4, <1>5 DEF MirrorInv, ListingInMirror, AllWritten, Lists, NamesIn, LiveRows, Rows
  <2> QED
    BY <1>1, <2>1, <2>2 DEF ListingInMirror
<1>7. UnlistedVisited'
  BY <1>1, <1>4 DEF MirrorInv, UnlistedVisited, NamesIn
<1>8. \A n \in Names : /\ unlistedFor[n] \in Ages
                       /\ unlistedFor'[n] = Older(unlistedFor[n])
  BY DEF TypeOK, TimePasses
<1>9. \A n \in Rows' \ LiveRows' : mirror'[n].deletedFor <= unlistedFor'[n]
  <2> SUFFICES ASSUME NEW n \in Rows \ LiveRows
               PROVE  mirror'[n].deletedFor <= unlistedFor'[n]
    BY <1>4
  <2>1. n \in Names /\ mirror[n].deletedFor \in Ages
    BY DEF TypeOK, MirrorTypeOK, Rows, LiveRows, Row
  <2>2. mirror[n].deletedFor <= unlistedFor[n]
    BY DEF MirrorInv, StampsAreYounger
  <2> QED
    BY <1>2, <1>3, <1>8, <2>1, <2>2
<1>10. ASSUME pc = "reconcile", NEW c \in cached
       PROVE  /\ nowAge' <= unlistedFor'[c[1]]
              /\ c[2] # None => c[2] <= unlistedFor'[c[1]]
  <2>1. /\ c[1] \in Names /\ c[2] \in Ages \cup {None} /\ nowAge \in Ages
        /\ nowAge <= unlistedFor[c[1]]
        /\ c[2] # None => c[2] <= unlistedFor[c[1]]
    BY <1>10 DEF TypeOK, MirrorInv, StampsAreYounger
  <2>2. nowAge' = Older(nowAge)
    BY <1>10 DEF TimePasses
  <2>3. nowAge' <= unlistedFor'[c[1]]
    BY <1>2, <1>8, <2>1, <2>2
  <2>4. ASSUME c[2] # None
        PROVE  c[2] <= unlistedFor'[c[1]]
    <3>1. unlistedFor[c[1]] <= unlistedFor'[c[1]] /\ unlistedFor'[c[1]] \in Ages
      BY <1>8, <2>1, OlderType
    <3> QED
      BY <1>8, <2>1, <2>4, <3>1 DEF Ages
  <2> QED
    BY <2>3, <2>4
<1>11. StampsAreYounger'
  BY <1>1, <1>9, <1>10 DEF StampsAreYounger
<1> QED
  BY <1>6, <1>7, <1>11 DEF MirrorInv

\* No step disturbs what is known of the mirror: one case per action.
LEMMA NextMirrorInv == TypeOK /\ MirrorInv /\ [Next]_vars => MirrorInv'
<1> SUFFICES ASSUME TypeOK, MirrorInv, [Next]_vars
             PROVE  MirrorInv'
  OBVIOUS
<1> USE MirrorAssumption
<1>1. CASE BeginTick \/ FetchPage \/ PruneAndFinish \/ SignFails \/ EvictRefused \/ TickFails
  BY <1>1, MirrorInvOutside DEF BeginTick, FetchPage, PruneAndFinish, SignFails,
     EvictRefused, TickFails, AbandonTick, ForgetTick, ghostVars
<1>2. CASE PlanSnapshot
  <2>1. next' = 1 /\ pc' = "upsert" /\ UNCHANGED <<mirror, listing, unlistedFor>>
    BY <1>2 DEF PlanSnapshot, ghostVars
  <2>2. DOMAIN listing = 1 .. Len(listing) /\ Len(listing) \in Nat
    BY LenProperties DEF TypeOK
  <2>3. Written(next)'
    BY <2>1, <2>2 DEF Written
  <2> QED
    BY <2>1, <2>3 DEF MirrorInv, ListingInMirror, UnlistedVisited, StampsAreYounger, Rows, LiveRows
<1>3. CASE PersistChange
  BY <1>3, PersistMirrorInv
<1>4. CASE PersistDone
  <2>1. /\ pc = "upsert" /\ pc' = "diff"
        /\ UNCHANGED <<mirror, listing, unlistedFor>>
        /\ next \notin DOMAIN listing
    BY <1>4 DEF PersistDone, tickVars, ghostVars
  <2>2. AllWritten
    <3>1. PICK len \in Nat : DOMAIN listing = 1 .. len
      BY LenProperties DEF TypeOK
    <3>2. \A i \in DOMAIN listing : i < next
      BY <2>1, <3>1 DEF TypeOK, MirrorInv, ListingInMirror
    <3> QED
      BY <2>1, <3>2 DEF MirrorInv, ListingInMirror, Written, AllWritten, NamesIn
  <2> QED
    BY <2>1, <2>2 DEF MirrorInv, ListingInMirror, UnlistedVisited, StampsAreYounger,
       AllWritten, Lists, NamesIn, Rows, LiveRows
<1>5. CASE ReadCachedState
  <2>1. /\ pc = "diff" /\ pc' = "reconcile" /\ nowAge' = 0
        /\ cached' = {c \in CachedState : c[1] \notin NamesIn(listing)}
        /\ UNCHANGED <<mirror, listing, unlistedFor>>
    BY <1>5 DEF ReadCachedState, ghostVars
  <2>2. AllWritten'
    BY <2>1 DEF MirrorInv, ListingInMirror, AllWritten, Lists, NamesIn, Rows, LiveRows
  <2>3. \A n \in LiveRows' \ NamesIn(listing) : <<n, None>> \in cached'
    BY <2>1 DEF CachedState, LiveRows, Rows
  <2>4. \A c \in cached' : /\ c[1] \in Rows
                           /\ c[2] = mirror[c[1]].deletedFor
    BY <2>1 DEF CachedState
  <2>5. \A n \in Names : unlistedFor[n] \in Ages
    BY DEF TypeOK
  <2>6. \A c \in cached' : /\ 0 <= unlistedFor[c[1]]
                           /\ c[2] # None => c[2] <= unlistedFor[c[1]]
    BY <2>4, <2>5 DEF MirrorInv, StampsAreYounger, Rows, LiveRows, Ages
  <2>7. UnlistedVisited'
    BY <2>1, <2>3 DEF UnlistedVisited, NamesIn
  <2>8. StampsAreYounger'
    BY <2>1, <2>6 DEF MirrorInv, StampsAreYounger, Rows, LiveRows
  <2> QED
    BY <2>1, <2>2, <2>7, <2>8 DEF MirrorInv, ListingInMirror
<1>6. CASE ReconcileRow
  BY <1>6, ReconcileMirrorInv
<1>7. CASE SignSnapshot \/ RecordSnapshot
  <2>1. /\ \/ pc = "reconcile" /\ cached = {} /\ pc' = "record"
           \/ pc = "record" /\ pc' = "prune"
        /\ UNCHANGED <<mirror, listing, unlistedFor>>
    BY <1>7 DEF SignSnapshot, RecordSnapshot, tickVars, ghostVars
  <2>2. LiveRows \subseteq NamesIn(listing) /\ AllWritten
    BY <2>1 DEF MirrorInv, UnlistedVisited, ListingInMirror
  <2> QED
    BY <2>1, <2>2 DEF MirrorInv, ListingInMirror, UnlistedVisited, StampsAreYounger,
       AllWritten, Lists, NamesIn, Rows, LiveRows
<1>8. CASE TimePasses
  BY <1>8, TimeMirrorInv
<1>9. CASE UpstreamChanges \/ Enrich \/ UNCHANGED vars
  BY <1>9, MirrorInvFrame DEF UpstreamChanges, Enrich, UpsertEnrichment, vars, tickVars, ghostVars
<1> QED
  BY <1>1, <1>2, <1>3, <1>4, <1>5, <1>6, <1>7, <1>8, <1>9 DEF Next, TickStep

--------------------------------------------------------------------------------
(* The snapshot rows.                                                         *)

\* The rows are numbered from 1.
LEMMA SnapshotDomain ==
  ASSUME SnapshotsTypeOK
  PROVE  /\ Len(snapshots) \in Nat
         /\ DOMAIN snapshots = 1 .. Len(snapshots)
         /\ \A i \in DOMAIN snapshots : snapshots[i] \in SnapshotRow
         /\ snapshots # <<>> => Len(snapshots) \in DOMAIN snapshots
BY LenProperties, ElementOfSeq, EmptySeq DEF SnapshotsTypeOK

\* The newest row of a set of rows is among its newest k, and so is every row
\* newer than one that is.
LEMMA NewestUpward ==
  ASSUME NEW m \in Nat, NEW S \in SUBSET (1 .. m), NEW k \in Nat \ {0}
  PROVE  /\ m \in S => m \in Newest(S, k)
         /\ \A i, j \in S : i < j /\ i \in Newest(S, k) => j \in Newest(S, k)
<1>0. \A j \in S : j \in Int /\ j <= m
  OBVIOUS
<1>1. IsFiniteSet(S)
  <2>1. IsFiniteSet(1 .. m)
    BY FS_Interval
  <2> QED
    BY <2>1, FS_Subset
<1>2. ASSUME m \in S
      PROVE  m \in Newest(S, k)
  <2>1. ASSUME NEW j \in S
        PROVE  ~(j > m)
    BY <1>0
  <2>2. {j \in S : j > m} = {}
    BY <2>1, Zenon
  <2> QED
    BY <1>2, <2>2, FS_EmptySet DEF Newest
<1>3. ASSUME NEW i \in S, NEW j \in S, i < j, i \in Newest(S, k)
      PROVE  j \in Newest(S, k)
  <2> DEFINE Above(x) == {y \in S : y > x}
  <2>1. Above(j) \subseteq Above(i) /\ Above(i) \subseteq S
    <3>1. ASSUME NEW y \in S, y > j
          PROVE  y > i
      <4>1. i \in Int /\ j \in Int /\ y \in Int
        BY <1>0
      <4> QED
        BY <1>3, <3>1, <4>1
    <3> QED
      BY <3>1, Zenon
  <2>2. IsFiniteSet(Above(i)) /\ IsFiniteSet(Above(j))
    BY <1>1, <2>1, FS_Subset
  <2>3. Cardinality(Above(j)) <= Cardinality(Above(i))
    BY <2>1, <2>2, FS_Subset
  <2>4. Cardinality(Above(i)) \in Nat /\ Cardinality(Above(j)) \in Nat
    BY <2>2, FS_CardinalityType
  <2>5. Cardinality(Above(i)) < k
    BY <1>3 DEF Newest
  <2>6. Cardinality(Above(j)) < k
    BY <2>3, <2>4, <2>5
  <2> QED
    BY <2>6 DEF Newest
<1> QED
  BY <1>2, <1>3

\* The table starts empty or with a row that has no artifacts.
LEMMA InitSnapshotInv == Init => SnapshotInv
<1> SUFFICES ASSUME Init
             PROVE  SnapshotInv
  OBVIOUS
<1> DEFINE legacy == LegacyRow(MerkleRoot(<<>>), NoHash)
<1>1. snapshots \in {<<>>, <<legacy>>} /\ pc = "idle"
  BY DEF Init
<1>2. legacy.entries = FALSE /\ legacy.receipt = FALSE
  BY DEF LegacyRow
<1> HIDE DEF legacy
<1>3. \A i \in DOMAIN snapshots : i = 1 /\ snapshots[i] = legacy
  BY <1>1
<1> QED
  BY <1>1, <1>2, <1>3 DEF SnapshotInv, ReceiptInHand, EntriesKept

\* The prune keeps an entry set for the newest rows, and a receipt for all.
LEMMA PruneKeeps ==
  ASSUME SnapshotsTypeOK, EntriesKept, PruneEntrySets
  PROVE  EntriesKept'
<1> DEFINE W == WithEntries
           N == Newest(WithEntries, EntryRetention)
<1>1. /\ Len(snapshots') = Len(snapshots)
      /\ DOMAIN snapshots' = DOMAIN snapshots
      /\ \A i \in DOMAIN snapshots :
           /\ snapshots'[i].receipt = snapshots[i].receipt
           /\ snapshots'[i].entries = (i \in N)
  BY PruneType
<1>2. Len(snapshots) \in Nat /\ W \in SUBSET (1 .. Len(snapshots))
  BY SnapshotDomain DEF WithEntries
<1>3. /\ Len(snapshots) \in W => Len(snapshots) \in N
      /\ \A i, j \in W : i < j /\ i \in N => j \in N
  BY <1>2, NewestUpward, SnapshotAssumption
<1>4. N \subseteq W
  BY DEF Newest
<1>5. ASSUME NEW i \in DOMAIN snapshots, NEW j \in DOMAIN snapshots, i < j
      PROVE  /\ i \in N => j \in N
             /\ snapshots[i].receipt => snapshots[j].receipt
  BY <1>3, <1>4, <1>5 DEF EntriesKept, WithEntries
<1>6. ASSUME NEW i \in DOMAIN snapshots, i = Len(snapshots), snapshots[i].receipt
      PROVE  i \in N
  BY <1>3, <1>6 DEF EntriesKept, WithEntries
<1> HIDE DEF N
<1> QED
  BY <1>1, <1>5, <1>6, Zenon DEF EntriesKept

\* The insert puts a row with both artifacts at the end.
LEMMA InsertKeeps ==
  ASSUME SnapshotsTypeOK, EntriesKept,
         NEW r \in Digests, NEW p \in Digests \cup {NoHash}, InsertSnapshot(r, p)
  PROVE  EntriesKept'
<1>1. /\ SnapshotsTypeOK'
      /\ Len(snapshots') = Len(snapshots) + 1
      /\ \A i \in 1 .. Len(snapshots) : snapshots'[i] = snapshots[i]
      /\ snapshots'[Len(snapshots) + 1] =
           [root |-> r, prev |-> p, receipt |-> TRUE, entries |-> TRUE]
  BY InsertType
<1>2. /\ DOMAIN snapshots = 1 .. Len(snapshots) /\ Len(snapshots) \in Nat
      /\ DOMAIN snapshots' = 1 .. Len(snapshots) + 1
  BY <1>1, SnapshotDomain
<1>3. snapshots'[Len(snapshots) + 1].entries /\ snapshots'[Len(snapshots) + 1].receipt
  BY <1>1
<1> QED
  BY <1>1, <1>2, <1>3 DEF EntriesKept

\* No step disturbs what is known of the snapshots: only the record and the
\* prune write them.
LEMMA NextSnapshotInv == TypeOK /\ SnapshotInv /\ [Next]_vars => SnapshotInv'
<1> SUFFICES ASSUME TypeOK, SnapshotInv, [Next]_vars
             PROVE  SnapshotInv'
  OBVIOUS
<1>0. SnapshotsTypeOK /\ listing \in Seq(Envelope) /\ prior \in Digests \cup {NoHash}
  BY DEF TypeOK
<1>1. CASE BeginTick \/ FetchPage \/ SignFails \/ EvictRefused \/ TickFails
  <2>1. snapshots' = snapshots /\ pc' \in {"idle", "fetch", "plan"}
    BY <1>1 DEF BeginTick, FetchPage, SignFails, EvictRefused, TickFails, AbandonTick, ForgetTick
  <2> QED
    BY <2>1 DEF SnapshotInv, ReceiptInHand, EntriesKept
<1>2. CASE PlanSnapshot
  BY <1>2 DEF PlanSnapshot, SnapshotInv, ReceiptInHand, EntriesKept, LatestHash
<1>3. CASE PersistChange \/ PersistDone \/ ReadCachedState \/ ReconcileRow \/ SignSnapshot
  <2>1. /\ UNCHANGED <<snapshots, prior>>
        /\ pc \in {"upsert", "diff", "reconcile"}
        /\ pc' \in {"upsert", "diff", "reconcile", "record"}
    BY <1>3 DEF PersistChange, PersistDone, ReadCachedState, ReconcileRow, SignSnapshot, tickVars
  <2> QED
    BY <2>1 DEF SnapshotInv, ReceiptInHand, EntriesKept, LatestHash
<1>4. CASE RecordSnapshot
  <2>1. InsertSnapshot(MerkleRoot(listing), prior) /\ pc' = "prune" /\ listing' = listing
    BY <1>4 DEF RecordSnapshot, tickVars
  <2>2. MerkleRoot(listing) \in Digests
    BY <1>0, RootIsDigest
  <2>3. EntriesKept'
    BY <1>0, <2>1, <2>2, InsertKeeps DEF SnapshotInv
  <2> DEFINE row == [root |-> MerkleRoot(listing), prev |-> prior,
                     receipt |-> TRUE, entries |-> TRUE]
  <2>4. /\ SnapshotsTypeOK'
        /\ Len(snapshots') = Len(snapshots) + 1
        /\ snapshots'[Len(snapshots) + 1].root = MerkleRoot(listing)
    <3> HIDE DEF row
    <3>1. /\ SnapshotsTypeOK'
          /\ Len(snapshots') = Len(snapshots) + 1
          /\ snapshots'[Len(snapshots) + 1] = row
      BY <1>0, <2>1, <2>2, InsertType, Zenon DEF row
    <3>2. row.root = MerkleRoot(listing)
      BY DEF row
    <3> QED
      BY <3>1, <3>2
  <2>5. snapshots' # <<>>
    BY <1>0, <2>4, SnapshotDomain, EmptySeq
  <2>6. LatestHash' = MerkleRoot(listing)
    BY <2>4, <2>5 DEF LatestHash
  <2> QED
    BY <2>1, <2>3, <2>5, <2>6 DEF SnapshotInv, ReceiptInHand, MerkleRoot
<1>5. CASE PruneAndFinish
  <2>1. PruneEntrySets /\ pc' = "idle"
    BY <1>5 DEF PruneAndFinish, ForgetTick
  <2>2. EntriesKept'
    BY <1>0, <2>1, PruneKeeps DEF SnapshotInv
  <2> QED
    BY <2>1, <2>2 DEF SnapshotInv, ReceiptInHand
<1>6. CASE UpstreamChanges \/ Enrich \/ TimePasses \/ UNCHANGED vars
  <2>1. UNCHANGED <<snapshots, prior, pc, listing>>
    BY <1>6 DEF UpstreamChanges, Enrich, TimePasses, vars, tickVars
  <2> QED
    BY <2>1 DEF SnapshotInv, ReceiptInHand, EntriesKept, LatestHash, MerkleRoot
<1> QED
  BY <1>1, <1>2, <1>3, <1>4, <1>5, <1>6 DEF Next, TickStep

\* The strengthened invariant is inductive and holds from the start.
THEOREM InvariantHolds == Spec => []IInv
<1>1. Init => IInv
  BY InitType, InitMirrorInv, InitSnapshotInv DEF IInv
<1>2. IInv /\ [Next]_vars => IInv'
  BY NextType, NextMirrorInv, NextSnapshotInv DEF IInv
<1> QED
  BY <1>1, <1>2, PTL DEF Spec

--------------------------------------------------------------------------------
(* What follows for the properties of SyncLoop.                               *)

\* A snapshot that has just been recorded digests exactly the live rows of the
\* mirror, each with the document it holds.
THEOREM SnapshotCorrect == Spec => []SnapshotDescribesMirror
<1>1. IInv => SnapshotDescribesMirror
  <2> SUFFICES ASSUME IInv, pc = "prune"
               PROVE  CoveredBy(snapshots[Len(snapshots)].root)
    BY DEF SnapshotDescribesMirror
  <2>1. listing \in Seq(Envelope) /\ LiveRows \subseteq Names
    BY DEF IInv, TypeOK, LiveRows, Rows
  <2>2. snapshots[Len(snapshots)].root = MerkleRoot(listing)
    BY DEF IInv, SnapshotInv, ReceiptInHand, LatestHash
  <2>3. LiveRows \subseteq NamesIn(listing) /\ AllWritten
    BY DEF IInv, MirrorInv, UnlistedVisited, ListingInMirror
  <2>4. \A n \in LiveRows : mirror[n].doc \in Docs
    BY DEF IInv, TypeOK, MirrorTypeOK, LiveRows, Rows, Row
  <2>5. \A n \in LiveRows : MerkleRoot(listing)[<<n, mirror[n].doc>>] > 0
    BY <2>1, <2>3, <2>4, RootCounts DEF AllWritten, Lists
  <2>6. ASSUME NEW n \in Names, NEW d \in Docs, MerkleRoot(listing)[<<n, d>>] > 0
        PROVE  n \in LiveRows
    <3>1. n \in NamesIn(listing)
      BY <2>1, <2>6, RootCounts DEF NamesIn
    <3> QED
      BY <2>3, <3>1 DEF AllWritten
  <2>7. LiveRows = {n \in Names : \E d \in Docs : MerkleRoot(listing)[<<n, d>>] > 0}
    BY <2>1, <2>4, <2>5, <2>6
  <2> QED
    BY <2>2, <2>5, <2>7 DEF CoveredBy
<1> QED
  BY <1>1, InvariantHolds, PTL

\* The entry sets that are kept belong to the newest rows, the latest artifact
\* among them.
THEOREM EntrySetsCorrect == Spec => []EntrySetsAreNewest
<1>1. IInv => EntrySetsAreNewest
  <2> SUFFICES ASSUME IInv
               PROVE  EntrySetsAreNewest
    OBVIOUS
  <2> DEFINE last == Len(snapshots)
  <2>1. /\ last \in Nat
        /\ DOMAIN snapshots = 1 .. last
    BY SnapshotDomain DEF IInv, TypeOK
  <2>2. ASSUME Verifiable # {}
        PROVE  LatestArtifact \in WithEntries
    <3>1. PICK i \in DOMAIN snapshots : snapshots[i].receipt
      BY <2>2 DEF Verifiable
    <3>2. last \in DOMAIN snapshots /\ snapshots[last].receipt
      BY <2>1, <3>1 DEF IInv, SnapshotInv, EntriesKept
    <3>3. last \in Verifiable /\ \A j \in Verifiable : j <= last
      BY <2>1, <3>2 DEF Verifiable
    <3>4. LatestArtifact \in Verifiable /\ \A j \in Verifiable : j <= LatestArtifact
      BY <2>2, <3>3 DEF LatestArtifact
    <3>5. LatestArtifact = last
      <4>1. last <= LatestArtifact /\ LatestArtifact <= last
        BY <3>3, <3>4
      <4>2. LatestArtifact \in Nat
        BY <2>1, <3>4 DEF Verifiable
      <4> HIDE DEF last
      <4> QED
        BY <2>1, <4>1, <4>2
    <3> QED
      BY <3>2, <3>5 DEF IInv, SnapshotInv, EntriesKept, WithEntries
  <2> QED
    BY <2>2 DEF EntrySetsAreNewest, IInv, SnapshotInv, EntriesKept
<1> QED
  BY <1>1, InvariantHolds, PTL

\* A row goes only when no tick has listed its name for the whole window.
THEOREM EvictionCorrect == Spec => NoEarlyEviction
<1> DEFINE Gone(n) == mirror[n] # None /\ mirror'[n] = None
<1>1. ASSUME IInv, [Next]_vars, NEW n \in Names, Gone(n)
      PROVE  unlistedFor[n] >= Retention
  <2> USE <1>1, MirrorAssumption
  <2>1. CASE ReconcileRow
    <3>1. PICK c \in cached : MarkRow(c) \/ RetainRow(c) \/ EvictRow(c)
      BY <2>1 DEF ReconcileRow
    <3>2. c[1] \in Names /\ c[2] \in Ages \cup {None} /\ mirror[n] \in Row
      BY DEF IInv, TypeOK, MirrorTypeOK
    <3>3. CASE MarkRow(c)
      <4>1. CASE c[1] \in LiveRows
        <5>1. mirror' = [mirror EXCEPT ![c[1]] = [mirror[c[1]] EXCEPT !.deletedFor = nowAge]]
          BY <3>3, <4>1 DEF MarkRow, MarkDeleted
        <5>2. mirror[c[1]] \in Row /\ nowAge \in Ages
          BY <3>2, <4>1 DEF IInv, TypeOK, MirrorTypeOK, LiveRows, Rows
        <5>3. [mirror[c[1]] EXCEPT !.deletedFor = nowAge] \in Row
          BY <5>2 DEF Row
        <5> QED
          BY <5>1, <5>3 DEF IInv, TypeOK, MirrorTypeOK
      <4>2. CASE c[1] \notin LiveRows
        BY <3>3, <4>2 DEF MarkRow, MarkDeleted
      <4> QED
        BY <4>1, <4>2
    <3>4. CASE RetainRow(c)
      BY <3>4 DEF RetainRow, mirrorVars
    <3>5. CASE EvictRow(c)
      <4>1. c[1] = n
        BY <3>2, <3>5 DEF EvictRow, Evict, IInv, TypeOK, MirrorTypeOK
      <4>2. c[2] # None /\ c[2] >= Retention
        BY <3>5 DEF EvictRow
      <4>3. c[2] <= unlistedFor[n] /\ unlistedFor[n] \in Ages
        BY <2>1, <4>1, <4>2 DEF ReconcileRow, IInv, TypeOK, MirrorInv, StampsAreYounger
      <4> QED
        BY <3>2, <4>2, <4>3 DEF Ages
    <3> QED
      BY <3>1, <3>3, <3>4, <3>5
  <2>2. CASE PersistChange
    <3>1. listing[next] \in Envelope
      BY <2>2, LenProperties, ElementOfSeq DEF PersistChange, IInv, TypeOK
    <3>2. [doc |-> listing[next].doc, deletedFor |-> None] \in Row
      BY <3>1 DEF Row, Envelope
    <3> QED
      BY <2>2, <3>2 DEF PersistChange, UpsertServer, IInv, TypeOK, MirrorTypeOK
  <2>3. CASE TimePasses
    <3>1. MirrorTypeOK /\ AgeRows
      BY <2>3 DEF TimePasses, IInv, TypeOK
    <3>2. CASE n \in Rows \ LiveRows
      <4>1. mirror'[n] = [mirror[n] EXCEPT !.deletedFor = Older(@)]
        BY <3>1, <3>2 DEF AgeRows
      <4>2. mirror[n] \in Row /\ mirror[n].deletedFor \in Ages
        BY <3>1, <3>2 DEF MirrorTypeOK, Rows, LiveRows, Row
      <4>3. mirror'[n] \in Row
        BY <4>1, <4>2, OlderType DEF Row
      <4> QED
        BY <4>3
    <3>3. CASE n \notin Rows \ LiveRows
      BY <3>1, <3>3 DEF AgeRows
    <3> QED
      BY <3>2, <3>3
  <2>4. CASE mirror' = mirror
    BY <2>4
  <2> QED
    BY <2>1, <2>2, <2>3, <2>4 DEF Next, TickStep, BeginTick, FetchPage, PlanSnapshot,
       PersistDone, ReadCachedState, SignSnapshot, RecordSnapshot, PruneAndFinish,
       SignFails, EvictRefused, TickFails, AbandonTick, UpstreamChanges, Enrich,
       UpsertEnrichment, vars
<1>2. IInv /\ [Next]_vars =>
        [\A n \in Names : Gone(n) => unlistedFor[n] >= Retention]_vars
  BY <1>1
<1> QED
  BY <1>2, InvariantHolds, PTL DEF Spec, NoEarlyEviction

\* The places listed in the course of the fetch.
SeenPlaces == UNION {Places(u) : u \in served}

\* While pages are fetched, the listing is as long as that many full pages, in the
\* order of upstream, made of places that were listed, and holds every version up
\* to the cursor that was mirrorable all along.  Afterwards it names all of these
\* that the page cap could reach.
FetchInv ==
  /\ pc = "idle" => served = {}
  /\ IsFiniteSet(SeenPlaces)
  /\ pc = "fetch" =>
       /\ page \in 1 .. MaxPagesPerRun
       /\ upstream \in served
       /\ Len(listing) = PageSize * (page - 1)
       /\ Ordered(listing)
       /\ \A i \in DOMAIN listing : listing[i].at <= cursor /\ listing[i].at \in SeenPlaces
       /\ \A v \in Steady : v[2] <= cursor => v[1] \in NamesIn(listing)
  /\ pc \notin {"idle", "fetch"} =>
       \A v \in Steady : WithinCap(v[2]) => v[1] \in NamesIn(listing)

\* What follows a page is listed when either part lists it.
LEMMA NamesOfBoth ==
  ASSUME NEW a \in Seq(Envelope), NEW b \in Seq(Envelope)
  PROVE  NamesIn(a) \cup NamesIn(b) \subseteq NamesIn(a \o b)
<1>1. /\ DOMAIN a = 1 .. Len(a) /\ DOMAIN b = 1 .. Len(b) /\ DOMAIN (a \o b) = 1 .. Len(a) + Len(b)
      /\ Len(a) \in Nat /\ Len(b) \in Nat
      /\ \A i \in 1 .. Len(a) : (a \o b)[i] = a[i]
      /\ \A i \in 1 .. Len(b) : (a \o b)[Len(a) + i] = b[i]
  <2>1. Len(a) \in Nat /\ Len(b) \in Nat /\ a \o b \in Seq(Envelope) /\ Len(a \o b) = Len(a) + Len(b)
    BY LenProperties, ConcatProperties
  <2>2. \A i \in 1 .. Len(a) + Len(b) : (a \o b)[i] = IF i <= Len(a) THEN a[i] ELSE b[i - Len(a)]
    BY <2>1, ConcatProperties
  <2>3. ASSUME NEW i \in 1 .. Len(b)
        PROVE  (a \o b)[Len(a) + i] = b[i]
    <3>1. Len(a) + i \in 1 .. Len(a) + Len(b) /\ ~(Len(a) + i <= Len(a)) /\ Len(a) + i - Len(a) = i
      BY <2>1
    <3> QED BY <2>2, <3>1
  <2> QED BY <2>1, <2>2, <2>3, LenProperties
<1>2. ASSUME NEW i \in DOMAIN a, a[i].valid
      PROVE  a[i].name \in NamesIn(a \o b)
  <2>1. i \in DOMAIN (a \o b) /\ (a \o b)[i] = a[i]
    BY <1>1
  <2> QED BY <1>2, <2>1 DEF NamesIn
<1>3. ASSUME NEW i \in DOMAIN b, b[i].valid
      PROVE  b[i].name \in NamesIn(a \o b)
  <2>1. Len(a) + i \in DOMAIN (a \o b) /\ (a \o b)[Len(a) + i] = b[i]
    BY <1>1
  <2> QED BY <1>3, <2>1 DEF NamesIn
<1> QED
  BY <1>2, <1>3 DEF NamesIn

\* A listing in order whose places all come before one more place of a set has
\* fewer envelopes than the set has places.
LEMMA PlacesCount ==
  ASSUME NEW l \in Seq(Envelope), Ordered(l), NEW a \in Nat, NEW T, IsFiniteSet(T),
         a \in T, \A i \in 1 .. Len(l) : l[i].at \in T /\ l[i].at < a
  PROVE  Len(l) + 1 <= Cardinality(T)
<1> DEFINE n == Len(l)
           f == [i \in 1 .. n + 1 |-> IF i <= n THEN l[i].at ELSE a]
<1>1. n \in Nat /\ DOMAIN l = 1 .. n /\ \A i \in 1 .. n : l[i].at \in Nat
  <2>1. n \in Nat /\ DOMAIN l = 1 .. n
    BY LenProperties
  <2>2. \A i \in 1 .. n : l[i] \in Envelope
    BY ElementOfSeq
  <2> QED
    BY <2>1, <2>2 DEF Envelope
<1>2. \A i, j \in 1 .. n : i < j => l[i].at < l[j].at
  BY <1>1 DEF Ordered
<1>3. \A i \in 1 .. n : l[i].at \in T /\ l[i].at < a
  OBVIOUS
<1> HIDE DEF n
<1>4. f \in [1 .. n + 1 -> T]
  BY <1>1, <1>3
<1>5. ASSUME NEW i \in 1 .. n + 1, NEW j \in 1 .. n + 1, i < j
      PROVE  f[i] # f[j]
  <2>1. i \in 1 .. n /\ f[i] = l[i].at
    BY <1>1, <1>5
  <2>2. CASE j \in 1 .. n
    BY <1>1, <1>2, <1>5, <2>1, <2>2
  <2>3. CASE j = n + 1
    BY <1>1, <1>3, <2>1, <2>3
  <2> QED
    BY <1>1, <2>2, <2>3
<1>6. f \in Injection(1 .. n + 1, T)
  <2> HIDE DEF f
  <2>1. \A i, j \in 1 .. n + 1 : f[i] = f[j] => i = j
    BY <1>1, <1>5
  <2> QED
    BY <1>4, <2>1 DEF Injection, IsInjective
<1>7. IsFiniteSet(1 .. n + 1) /\ Cardinality(1 .. n + 1) = n + 1
  <2>1. /\ IsFiniteSet(1 .. n + 1)
        /\ Cardinality(1 .. n + 1) = IF 1 > n + 1 THEN 0 ELSE n + 1 - 1 + 1
    BY <1>1, FS_Interval
  <2> QED BY <1>1, <2>1
<1>8. Cardinality(1 .. n + 1) <= Cardinality(T)
  <2> HIDE DEF f
  <2> QED BY <1>6, <1>7, FS_Injection DEF ExistsInjection
<1> QED
  BY <1>7, <1>8 DEF n

\* What one more page brings: the listing stays in order, and it names every
\* version up to the end of the page that upstream lists at that moment.
LEMMA PageAppended ==
  ASSUME TypeOK, FetchInv, FetchPage
  PROVE  /\ listing' \in Seq(Envelope) /\ Ordered(listing')
         /\ \A i \in DOMAIN listing' : listing'[i].at \in SeenPlaces
         /\ HasNextCursor(upstream, cursor) =>
              /\ Len(listing') = PageSize * page
              /\ \A i \in DOMAIN listing' : listing'[i].at <= NextCursor(upstream, cursor)
              /\ \A v \in Steady : v[2] <= NextCursor(upstream, cursor)
                                   => v[1] \in NamesIn(listing')
         /\ ~HasNextCursor(upstream, cursor) => \A v \in Steady : v[1] \in NamesIn(listing')
<1> DEFINE u == upstream
           k == Skipped(upstream, cursor)
           s == PageAfter(upstream, cursor)
           n == Len(listing)
           m == Len(s)
           more == HasNextCursor(upstream, cursor)
           end == NextCursor(upstream, cursor)
<1> USE SyncAssumption
<1>1. /\ u \in Seq(Envelope) /\ Ordered(u) /\ cursor \in Nat /\ listing \in Seq(Envelope)
      /\ Len(u) \in Nat /\ DOMAIN u = 1 .. Len(u)
      /\ \A i \in 1 .. Len(u) : u[i] \in Envelope /\ u[i].at \in Nat
  <2>1. u \in Seq(Envelope) /\ Ordered(u) /\ cursor \in Nat /\ listing \in Seq(Envelope)
    BY DEF TypeOK
  <2>2. Len(u) \in Nat /\ DOMAIN u = 1 .. Len(u) /\ \A i \in 1 .. Len(u) : u[i] \in Envelope
    BY <2>1, LenProperties, ElementOfSeq
  <2> QED BY <2>1, <2>2 DEF Envelope
<1>2. /\ listing' = listing \o s /\ pc = "fetch" /\ page \in 1 .. MaxPagesPerRun
      /\ u \in served /\ n = PageSize * (page - 1) /\ Ordered(listing)
      /\ \A i \in DOMAIN listing : listing[i].at <= cursor /\ listing[i].at \in SeenPlaces
      /\ \A v \in Steady : v[2] <= cursor => v[1] \in NamesIn(listing)
  BY DEF FetchPage, FetchInv
<1>3. k \in 0 .. Len(u) /\ \A i \in 1 .. Len(u) : u[i].at <= cursor <=> i <= k
  <2> HIDE DEF u
  <2> QED BY <1>1, SkippedIsPrefix DEF u
<1>4. /\ s \in Seq(Envelope)
      /\ more => m = PageSize /\ k + PageSize \in 1 .. Len(u) /\ end \in Nat
      /\ ~more => k + m = Len(u)
      /\ \A i \in 1 .. m : k + i \in 1 .. Len(u) /\ s[i] = u[k + i]
  BY <1>1, PageFacts
<1>5. end = u[k + PageSize].at
  BY DEF NextCursor
<1> HIDE DEF u, k, s, n, m, more, end
<1>6. /\ n \in Nat /\ m \in Nat /\ DOMAIN listing = 1 .. n /\ DOMAIN s = 1 .. m
      /\ listing' \in Seq(Envelope) /\ Len(listing') = n + m /\ DOMAIN listing' = 1 .. n + m
      /\ \A i \in 1 .. n : listing'[i] = listing[i]
      /\ \A i \in 1 .. n + m : i > n => listing'[i] = s[i - n]
  <2>1. n \in Nat /\ m \in Nat /\ DOMAIN listing = 1 .. n /\ DOMAIN s = 1 .. m
    BY <1>1, <1>4, LenProperties DEF n, m
  <2>2. /\ listing \o s \in Seq(Envelope) /\ Len(listing \o s) = n + m
        /\ \A i \in 1 .. n + m : (listing \o s)[i] = IF i <= n THEN listing[i] ELSE s[i - n]
    BY <1>1, <1>4, ConcatProperties DEF n, m
  <2>3. DOMAIN (listing \o s) = 1 .. n + m
    BY <2>2, LenProperties
  <2> QED
    BY <1>2, <2>1, <2>2, <2>3
<1>7. \A i \in 1 .. n : listing[i].at \in Nat
  <2>1. \A i \in 1 .. n : listing[i] \in Envelope
    BY <1>1, ElementOfSeq DEF n
  <2> QED BY <2>1 DEF Envelope
<1>8. ASSUME NEW i \in 1 .. n + m, i > n
      PROVE  /\ i - n \in 1 .. m
             /\ k + (i - n) \in 1 .. Len(u)
             /\ listing'[i] = u[k + (i - n)]
             /\ ~(listing'[i].at <= cursor)
             /\ listing'[i].at \in SeenPlaces
             /\ more => listing'[i].at <= end
  <2>1. i - n \in 1 .. m
    BY <1>6, <1>8
  <2>2. k + (i - n) \in 1 .. Len(u) /\ listing'[i] = u[k + (i - n)]
    BY <1>4, <1>6, <1>8, <2>1
  <2>3. ~(k + (i - n) <= k)
    BY <1>3, <1>6, <2>1
  <2>4. ~(listing'[i].at <= cursor)
    BY <1>3, <2>2, <2>3
  <2>5. listing'[i].at \in SeenPlaces
    BY <1>1, <1>2, <2>2 DEF SeenPlaces, Places
  <2>6. more => listing'[i].at <= end
    <3> SUFFICES ASSUME more
                 PROVE  listing'[i].at <= end
      OBVIOUS
    <3>1. m = PageSize /\ k + PageSize \in 1 .. Len(u) /\ k \in Nat
      BY <1>3, <1>4
    <3>2. k + (i - n) = k + PageSize \/ k + (i - n) < k + PageSize
      BY <1>6, <2>1, <3>1
    <3>3. u[k + (i - n)].at <= u[k + PageSize].at
      BY <1>1, <2>2, <3>1, <3>2 DEF Ordered
    <3> QED BY <1>5, <2>2, <3>3
  <2> QED
    BY <2>1, <2>2, <2>4, <2>5, <2>6
<1>9. Ordered(listing')
  <2> SUFFICES ASSUME NEW i \in 1 .. n + m, NEW j \in 1 .. n + m, i < j
               PROVE  listing'[i].at < listing'[j].at
    BY <1>6 DEF Ordered
  <2>1. CASE j <= n
    <3>1. i \in 1 .. n /\ j \in 1 .. n
      BY <1>6, <2>1
    <3>2. listing[i].at < listing[j].at
      BY <1>2, <1>6, <3>1 DEF Ordered
    <3> QED BY <1>6, <3>1, <3>2
  <2>2. CASE i <= n /\ j > n
    <3>0. i \in 1 .. n
      BY <1>6, <2>2
    <3>1. listing'[i] = listing[i] /\ listing[i].at <= cursor /\ listing[i].at \in Nat
      BY <1>2, <1>6, <1>7, <3>0
    <3>2. ~(listing'[j].at <= cursor) /\ listing'[j].at \in Nat
      BY <1>1, <1>8, <2>2
    <3> QED BY <1>1, <3>1, <3>2
  <2>3. CASE i > n
    <3>0. j > n
      BY <1>6, <2>3
    <3>1. /\ listing'[i] = u[k + (i - n)] /\ listing'[j] = u[k + (j - n)]
          /\ k + (i - n) \in DOMAIN u /\ k + (j - n) \in DOMAIN u
      BY <1>1, <1>8, <2>3, <3>0
    <3>2. k + (i - n) < k + (j - n)
      BY <1>3, <1>6
    <3> QED BY <1>1, <3>1, <3>2 DEF Ordered
  <2> QED BY <1>6, <2>1, <2>2, <2>3
<1>10. \A i \in DOMAIN listing' : listing'[i].at \in SeenPlaces
  BY <1>2, <1>6, <1>8
<1>11. ASSUME more, NEW i \in DOMAIN listing'
       PROVE  listing'[i].at <= end
  <2>1. CASE i > n
    BY <1>6, <1>8, <1>11, <2>1
  <2>2. CASE ~(i > n)
    <3>0. i \in 1 .. n
      BY <1>6, <1>11, <2>2
    <3>1. listing'[i] = listing[i] /\ listing[i].at <= cursor /\ listing[i].at \in Nat
      BY <1>2, <1>6, <1>7, <3>0
    <3>2. k + PageSize \in 1 .. Len(u) /\ ~(k + PageSize <= k)
      BY <1>3, <1>4, <1>11
    <3>3. ~(end <= cursor) /\ end \in Nat
      BY <1>3, <1>4, <1>5, <1>11, <3>2
    <3> QED BY <1>1, <3>1, <3>3
  <2> QED BY <2>1, <2>2
<1>12. NamesIn(listing) \cup NamesIn(s) \subseteq NamesIn(listing')
  BY <1>1, <1>2, <1>4, NamesOfBoth
<1>13. ASSUME NEW v \in Steady, ~more \/ v[2] <= end
       PROVE  v[1] \in NamesIn(listing')
  <2>1. CASE v[2] <= cursor
    BY <1>2, <1>12, <2>1
  <2>2. CASE ~(v[2] <= cursor)
    <3>1. v \in Versions(u)
      BY <1>2 DEF Steady
    <3>2. PICK j \in 1 .. Len(u) : u[j].valid /\ v = <<u[j].name, u[j].at>>
      BY <1>1, <3>1 DEF Versions
    <3>3. ~(j <= k)
      BY <1>3, <2>2, <3>2
    <3>4. j - k \in 1 .. m
      <4>1. CASE more
        <5>1. k + PageSize \in 1 .. Len(u) /\ m = PageSize /\ end \in Nat
          BY <1>4, <4>1
        <5>2. u[j].at <= u[k + PageSize].at
          BY <1>5, <1>13, <3>2, <4>1
        <5>3. ~(k + PageSize < j)
          BY <1>1, <5>1, <5>2 DEF Ordered
        <5> QED BY <1>3, <3>3, <5>1, <5>3
      <4>2. CASE ~more
        BY <1>1, <1>3, <1>4, <1>6, <3>3, <4>2
      <4> QED BY <4>1, <4>2
    <3>5. s[j - k] = u[j] /\ j - k \in DOMAIN s
      <4>1. k + (j - k) = j
        BY <1>3
      <4> QED BY <1>4, <1>6, <3>4, <4>1
    <3>6. v[1] \in NamesIn(s)
      BY <3>2, <3>5 DEF NamesIn
    <3> QED BY <1>12, <3>6
  <2> QED BY <2>1, <2>2
<1>14. more => Len(listing') = PageSize * page
  <2> SUFFICES ASSUME more
               PROVE  Len(listing') = PageSize * page
    OBVIOUS
  <2>1. page \in Nat /\ PageSize \in Nat
    BY <1>2
  <2>2. PageSize * (page - 1) + PageSize = PageSize * page
    BY <2>1
  <2> QED BY <1>2, <1>4, <1>6, <2>2
<1> QED
  BY <1>6, <1>9, <1>10, <1>11, <1>13, <1>14 DEF more, end

\* A fetch that goes on keeps what is said of it, and one that ends has named every
\* version that was mirrorable all along, unless the pages were used up before it.
LEMMA FetchStep ==
  ASSUME TypeOK, FetchInv, FetchPage
  PROVE  FetchInv'
<1> USE SyncAssumption
<1>1. /\ pc = "fetch" /\ page \in 1 .. MaxPagesPerRun /\ upstream \in served
      /\ IsFiniteSet(SeenPlaces)
      /\ UNCHANGED <<upstream, served>>
  BY DEF FetchPage, FetchInv, ghostVars
<1>2. SeenPlaces' = SeenPlaces /\ Steady' = Steady /\ \A a : WithinCap(a)' = WithinCap(a)
  BY <1>1 DEF SeenPlaces, Steady, WithinCap, SeenUpTo
<1>3. CASE AnotherPage
  <2>1. /\ pc' = "fetch" /\ page' = page + 1 /\ page' \in 1 .. MaxPagesPerRun
        /\ cursor' = NextCursor(upstream, cursor) /\ HasNextCursor(upstream, cursor)
    BY <1>1, <1>3 DEF FetchPage, AnotherPage
  <2>2. page' - 1 = page
    BY <1>1, <2>1
  <2> QED
    BY <1>1, <1>2, <2>1, <2>2, PageAppended DEF FetchInv
<1>4. CASE ~AnotherPage
  <2>1. pc' = "plan"
    BY <1>4 DEF FetchPage
  <2>2. ASSUME NEW v \in Steady, WithinCap(v[2])
        PROVE  v[1] \in NamesIn(listing')
    <3>1. CASE ~HasNextCursor(upstream, cursor)
      BY <3>1, PageAppended
    <3>2. CASE HasNextCursor(upstream, cursor) /\ v[2] <= NextCursor(upstream, cursor)
      BY <3>2, PageAppended
    <3>3. CASE HasNextCursor(upstream, cursor) /\ ~(v[2] <= NextCursor(upstream, cursor))
      <4>1. page = MaxPagesPerRun
        BY <1>1, <1>4, <3>3 DEF AnotherPage
      <4>2. PICK j \in DOMAIN upstream : v = <<upstream[j].name, upstream[j].at>>
        BY <1>1 DEF Steady, Versions
      <4>3. /\ v[2] \in Nat /\ v[2] \in SeenPlaces /\ upstream \in Seq(Envelope)
            /\ NextCursor(upstream, cursor) \in Nat
        <5>1. upstream \in Seq(Envelope) /\ Ordered(upstream) /\ cursor \in Nat
          BY DEF TypeOK
        <5>2. upstream[j] \in Envelope
          BY <4>2, <5>1, LenProperties, ElementOfSeq
        <5>3. NextCursor(upstream, cursor) \in Nat
          BY <3>3, <5>1, PageFacts
        <5> QED BY <1>1, <4>2, <5>1, <5>2, <5>3 DEF Envelope, SeenPlaces, Places
      <4>4. /\ listing' \in Seq(Envelope) /\ Ordered(listing')
            /\ Len(listing') = PageSize * MaxPagesPerRun
            /\ DOMAIN listing' = 1 .. Len(listing')
            /\ \A i \in DOMAIN listing' : /\ listing'[i].at \in SeenPlaces
                                          /\ listing'[i].at <= NextCursor(upstream, cursor)
        BY <3>3, <4>1, PageAppended, LenProperties
      <4>5. \A i \in 1 .. Len(listing') : listing'[i].at \in Nat
        <5> DEFINE l == listing'
        <5>1. l \in Seq(Envelope)
          BY <4>4
        <5> HIDE DEF l
        <5>2. \A i \in 1 .. Len(l) : l[i] \in Envelope
          BY <5>1, ElementOfSeq
        <5> QED BY <5>2 DEF Envelope, l
      <4>6. ASSUME NEW i \in 1 .. Len(listing')
            PROVE  listing'[i].at < v[2]
        <5> DEFINE x == listing'[i].at
                   a == v[2]
                   end == NextCursor(upstream, cursor)
        <5>1. x \in Nat /\ a \in Nat /\ end \in Nat /\ x <= end /\ ~(a <= end)
          BY <3>3, <4>3, <4>4, <4>5
        <5> HIDE DEF x, a, end
        <5>2. x < a
          BY <5>1
        <5> QED BY <5>2 DEF x, a
      <4>7. v[2] \in SeenUpTo(v[2]) /\ \A i \in 1 .. Len(listing') : listing'[i].at \in SeenUpTo(v[2])
        <5> DEFINE a == v[2]
        <5>1. a \in Nat /\ a \in SeenPlaces
          BY <4>3
        <5>2. \A i \in 1 .. Len(listing') :
                /\ listing'[i].at \in Nat /\ listing'[i].at < a
                /\ listing'[i].at \in SeenPlaces
          BY <4>4, <4>5, <4>6
        <5>3. SeenUpTo(a) = {b \in SeenPlaces : b <= a}
          BY DEF SeenUpTo, SeenPlaces
        <5> HIDE DEF a
        <5>4. a \in SeenUpTo(a) /\ \A i \in 1 .. Len(listing') : listing'[i].at \in SeenUpTo(a)
          BY <5>1, <5>2, <5>3
        <5> QED BY <5>4 DEF a
      <4>8. IsFiniteSet(SeenUpTo(v[2]))
        BY <1>1, FS_Subset DEF SeenUpTo, SeenPlaces
      <4>9. Len(listing') + 1 <= Cardinality(SeenUpTo(v[2]))
        <5> DEFINE l == listing'
                   T == SeenUpTo(v[2])
                   a == v[2]
        <5>1. /\ l \in Seq(Envelope) /\ Ordered(l) /\ a \in Nat /\ IsFiniteSet(T) /\ a \in T
              /\ \A i \in 1 .. Len(l) : l[i].at \in T /\ l[i].at < a
          BY <4>3, <4>4, <4>6, <4>7, <4>8
        <5> HIDE DEF l, T, a
        <5>2. Len(l) + 1 <= Cardinality(T)
          BY <5>1, PlacesCount
        <5> QED BY <5>2 DEF l, T
      <4>10. Cardinality(SeenUpTo(v[2])) \in Nat /\ PageSize * MaxPagesPerRun \in Nat
        BY <4>8, FS_CardinalityType
      <4> QED
        BY <2>2, <4>4, <4>9, <4>10 DEF WithinCap
    <3> QED
      BY <3>1, <3>2, <3>3
  <2> QED
    BY <1>1, <1>2, <2>1, <2>2 DEF FetchInv
<1> QED
  BY <1>3, <1>4

\* A listing has finitely many places.
LEMMA PlacesFinite ==
  ASSUME NEW u \in Seq(Envelope)
  PROVE  IsFiniteSet(Places(u))
<1> DEFINE D == DOMAIN u
           at == [i \in D |-> u[i].at]
           P == Places(u)
<1>1. IsFiniteSet(D)
  BY LenProperties, FS_Interval
<1>2. at \in [D -> P] /\ \A a \in P : \E i \in D : at[i] = a
  BY DEF Places
<1> HIDE DEF D, at, P
<1>3. at \in Surjection(D, P)
  BY <1>2 DEF Surjection
<1>4. IsFiniteSet(P)
  BY <1>1, <1>3, FS_Surjection
<1> QED
  BY <1>4 DEF P

\* Whatever upstream does between two pages, and whatever comes after the fetch.
LEMMA NextFetchInv == TypeOK /\ FetchInv /\ [Next]_vars => FetchInv'
<1> SUFFICES ASSUME TypeOK, FetchInv, [Next]_vars
             PROVE  FetchInv'
  OBVIOUS
<1>1. CASE BeginTick
  <2>1. /\ pc' = "fetch" /\ page' = 1 /\ cursor' = 0 /\ listing' = <<>>
        /\ served' = {upstream} /\ upstream' = upstream
    BY <1>1 DEF BeginTick
  <2>2. upstream \in Seq(Envelope) /\ SeenPlaces' = Places(upstream)
    BY <2>1, SyncAssumption DEF TypeOK, SeenPlaces
  <2>3. IsFiniteSet(SeenPlaces')
    BY <2>2, PlacesFinite
  <2>4. \A v \in Steady' : v[2] \in Nat \ {0}
    <3>1. \A i \in DOMAIN upstream : upstream[i] \in Envelope
      BY <2>2, LenProperties, ElementOfSeq
    <3> QED BY <2>1, <3>1 DEF Steady, Versions, Envelope
  <2>5. Len(listing') = PageSize * (page' - 1) /\ DOMAIN listing' = {} /\ page' \in 1 .. MaxPagesPerRun
    BY <2>1, SyncAssumption
  <2> QED
    BY <2>1, <2>3, <2>4, <2>5 DEF FetchInv, Ordered
<1>2. CASE FetchPage
  BY <1>2, FetchStep
<1>3. CASE PlanSnapshot \/ PersistChange \/ PersistDone \/ ReadCachedState \/ ReconcileRow
           \/ SignSnapshot \/ RecordSnapshot
  <2>1. pc \notin {"idle", "fetch"} /\ pc' \notin {"idle", "fetch"} /\ UNCHANGED <<listing, served>>
    BY <1>3 DEF PlanSnapshot, PersistChange, PersistDone, ReadCachedState, ReconcileRow,
                SignSnapshot, RecordSnapshot, tickVars, ghostVars
  <2> QED
    BY <2>1 DEF FetchInv, NamesIn, SeenPlaces, Steady, WithinCap, SeenUpTo
<1>4. CASE PruneAndFinish \/ SignFails \/ EvictRefused \/ TickFails
  <2>1. pc' = "idle" /\ served' = {}
    BY <1>4 DEF PruneAndFinish, SignFails, EvictRefused, TickFails, AbandonTick, ForgetTick
  <2>2. SeenPlaces' = {}
    BY <2>1 DEF SeenPlaces
  <2> QED
    BY <2>1, <2>2, FS_EmptySet DEF FetchInv
<1>5. CASE UpstreamChanges
  <2>1. UNCHANGED <<pc, page, cursor, listing>> /\ upstream' \in Seq(Envelope)
    BY <1>5, SyncAssumption DEF UpstreamChanges, tickVars
  <2>2. CASE pc = "fetch"
    <3>1. served' = served \cup {upstream'} /\ upstream \in served
      BY <1>5, <2>2 DEF UpstreamChanges, FetchInv
    <3>2. SeenPlaces' = SeenPlaces \cup Places(upstream')
      BY <3>1 DEF SeenPlaces
    <3>3. IsFiniteSet(SeenPlaces')
      BY <2>1, <3>2, PlacesFinite, FS_Union DEF FetchInv
    <3>4. Steady' \subseteq Steady
      BY <3>1 DEF Steady
    <3> QED
      BY <2>1, <2>2, <3>1, <3>2, <3>3, <3>4 DEF FetchInv, NamesIn, Ordered
  <2>3. CASE pc # "fetch"
    <3>1. served' = served
      BY <1>5, <2>3 DEF UpstreamChanges
    <3> QED
      BY <2>1, <2>3, <3>1 DEF FetchInv, NamesIn, SeenPlaces, Steady, WithinCap, SeenUpTo
  <2> QED
    BY <2>2, <2>3
<1>6. CASE Enrich \/ TimePasses \/ UNCHANGED vars
  <2>1. UNCHANGED <<pc, page, cursor, listing, upstream, served>>
    BY <1>6 DEF Enrich, TimePasses, vars, tickVars, ghostVars
  <2> QED
    BY <2>1 DEF FetchInv, NamesIn, Ordered, SeenPlaces, Steady, WithinCap, SeenUpTo
<1> QED
  BY <1>1, <1>2, <1>3, <1>4, <1>5, <1>6 DEF Next, TickStep

\* A name with one version that upstream lists, mirrorable, at every moment of a
\* fetch and within the reach of the page cap is not soft-deleted by that tick,
\* for pages of every size and however the listing changes between two pages.
THEOREM ListedCorrect == Spec => ListedIsNotDeleted
<1> DEFINE Marked(n) == mirror'[n] # None /\ mirror'[n].deletedFor # None
           Missed(n) == \A v \in Steady : v[1] = n => ~WithinCap(v[2])
<1>1. Init => FetchInv
  BY FS_EmptySet DEF Init, FetchInv, SeenPlaces
<1>2. ASSUME IInv, FetchInv, [Next]_vars, NEW n \in LiveRows, Marked(n)
      PROVE  Missed(n)
  <2> USE <1>2, MirrorAssumption
  <2>0. n \in Names /\ mirror \in [Names -> Row \cup {None}] /\ mirror[n] # None
        /\ mirror[n].deletedFor = None
    BY DEF LiveRows, Rows, IInv, TypeOK, MirrorTypeOK
  <2>1. CASE ReconcileRow
    <3>1. PICK c \in cached : MarkRow(c) \/ RetainRow(c) \/ EvictRow(c)
      BY <2>1 DEF ReconcileRow
    <3>2. mirror' # mirror /\ c[1] = n
      BY <2>0, <3>1 DEF MarkRow, MarkDeleted, RetainRow, EvictRow, Evict, mirrorVars
    <3>3. n \notin NamesIn(listing)
      BY <2>1, <3>2 DEF ReconcileRow, IInv, MirrorInv, UnlistedVisited
    <3> QED
      BY <2>1, <3>3 DEF ReconcileRow, FetchInv
  <2>2. CASE PersistChange
    BY <2>0, <2>2 DEF PersistChange, UpsertServer
  <2>3. CASE TimePasses
    BY <2>0, <2>3 DEF TimePasses, AgeRows
  <2>4. CASE mirror' = mirror
    BY <2>0, <2>4
  <2> QED
    BY <2>1, <2>2, <2>3, <2>4 DEF Next, TickStep, BeginTick, FetchPage, PlanSnapshot,
       PersistDone, ReadCachedState, SignSnapshot, RecordSnapshot, PruneAndFinish,
       SignFails, EvictRefused, TickFails, AbandonTick, UpstreamChanges, Enrich,
       UpsertEnrichment, vars
<1>3. TypeOK /\ FetchInv /\ [Next]_vars => FetchInv'
  BY NextFetchInv
<1>4. IInv /\ FetchInv /\ [Next]_vars => [\A n \in LiveRows : Marked(n) => Missed(n)]_vars
  BY <1>2
<1> QED
  BY <1>1, <1>3, <1>4, TypeCorrect, InvariantHolds, PTL DEF Spec, ListedIsNotDeleted

\* The snapshots table implements the append-only chain of SnapshotHistory: the
\* insert publishes the next link, and every other step leaves the chain alone.
THEOREM HistoryRefined == Spec => ImplementsHistory
<1> DEFINE Chain(s) == [i \in 1 .. Len(s) |-> [root |-> s[i].root, prev |-> s[i].prev]]
           H == Chain(snapshots)
<1>1. ASSUME NEW s \in Seq(SnapshotRow)
      PROVE  /\ Chain(s) \in Seq(History!Link)
             /\ Len(Chain(s)) = Len(s)
  <2>1. /\ Len(s) \in Nat
        /\ \A i \in 1 .. Len(s) : s[i] \in SnapshotRow
    BY LenProperties, ElementOfSeq
  <2>2. Chain(s) \in [1 .. Len(s) -> History!Link]
    BY <2>1 DEF History!Link, SnapshotRow
  <2>3. Chain(s) \in Seq(History!Link)
    BY <2>1, <2>2, SeqDef
  <2>4. Len(Chain(s)) = Len(s)
    <3> HIDE DEF Chain
    <3> QED  BY <2>1, <2>2, <2>3, LenProperties
  <2> QED
    BY <2>3, <2>4
<1>2. Init => History!Init
  BY <1>1, InitType DEF TypeOK, SnapshotsTypeOK, History!Init
<1>3. IInv /\ IInv' /\ [Next]_vars => [History!Publish]_H
  <2> SUFFICES ASSUME IInv, IInv', [Next]_vars
               PROVE  History!Publish \/ UNCHANGED H
    BY DEF History!Publish
  <2>1. SnapshotsTypeOK /\ SnapshotsTypeOK'
    BY DEF IInv, TypeOK
  <2>2. CASE RecordSnapshot
    <3>1. /\ InsertSnapshot(MerkleRoot(listing), prior) /\ prior = LatestHash
          /\ MerkleRoot(listing) \in Digests /\ prior \in Digests \cup {NoHash}
      BY <2>2, RootIsDigest DEF RecordSnapshot, IInv, TypeOK, SnapshotInv, ReceiptInHand
    <3> DEFINE row == [root |-> MerkleRoot(listing), prev |-> prior,
                       receipt |-> TRUE, entries |-> TRUE]
    <3>2. /\ Len(snapshots') = Len(snapshots) + 1
          /\ \A i \in 1 .. Len(snapshots) : snapshots'[i] = snapshots[i]
          /\ snapshots'[Len(snapshots) + 1] = row
      BY <2>1, <3>1, InsertType, Zenon
    <3>3. Len(snapshots) \in Nat
      BY <2>1, SnapshotDomain
    <3>4. /\ H' \in Seq(History!Link) /\ Len(H') = Len(H) + 1
          /\ Len(H) = Len(snapshots)
      <4>1. Len(H) = Len(snapshots)
        BY <1>1, <2>1 DEF SnapshotsTypeOK
      <4>2. H' \in Seq(History!Link) /\ Len(H') = Len(snapshots')
        BY <1>1, <2>1 DEF SnapshotsTypeOK
      <4> HIDE DEF H
      <4> QED  BY <3>2, <4>1, <4>2
    <3>5. \A i \in 1 .. Len(H) : H'[i] = H[i]
      <4>1. ASSUME NEW i \in 1 .. Len(snapshots)
            PROVE  H'[i] = H[i]
        <5>1. i \in 1 .. Len(snapshots') /\ snapshots'[i] = snapshots[i]
          BY <3>2, <3>3
        <5>2. H[i] = [root |-> snapshots[i].root, prev |-> snapshots[i].prev]
          OBVIOUS
        <5>3. H'[i] = [root |-> snapshots'[i].root, prev |-> snapshots'[i].prev]
          BY <5>1
        <5> HIDE DEF H
        <5> QED
          BY <5>1, <5>2, <5>3
      <4> HIDE DEF H
      <4> QED
        BY <3>4, <4>1
    <3>6. H'[Len(H) + 1].prev = LatestHash
      BY <3>1, <3>2, <3>3, <3>4
    <3>7. LatestHash = History!Tip(H)
      BY <2>1, <3>3, <3>4, EmptySeq DEF LatestHash, History!Tip, SnapshotsTypeOK
    <3> HIDE DEF H
    <3> QED
      BY <3>4, <3>5, <3>6, <3>7 DEF History!Publish, H
  <2>3. CASE PruneAndFinish
    <3>1. PruneEntrySets
      BY <2>3 DEF PruneAndFinish
    <3>2. /\ Len(snapshots') = Len(snapshots)
          /\ DOMAIN snapshots = 1 .. Len(snapshots)
          /\ \A i \in DOMAIN snapshots : /\ snapshots'[i].root = snapshots[i].root
                                         /\ snapshots'[i].prev = snapshots[i].prev
      BY <2>1, <3>1, PruneType, SnapshotDomain
    <3> QED
      BY <3>2
  <2>4. CASE snapshots' = snapshots
    BY <2>4
  <2> QED
    BY <2>2, <2>3, <2>4 DEF Next, TickStep, BeginTick, FetchPage, PlanSnapshot,
       PersistChange, PersistDone, ReadCachedState, ReconcileRow, SignSnapshot,
       SignFails, EvictRefused, TickFails, AbandonTick, UpstreamChanges, Enrich,
       TimePasses, vars
<1> QED
  BY <1>2, <1>3, InvariantHolds, PTL DEF Spec, ImplementsHistory, History!Spec
================================================================================
