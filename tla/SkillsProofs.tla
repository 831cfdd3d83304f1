------------------------------ MODULE SkillsProofs -----------------------------
(* The skills lockfile, for any skills, sources and lockfiles, any number of  *)
(* pushes, walks and receipts: what can be signed, what a receipt says, and   *)
(* what an address leads to.                                                  *)
EXTENDS Skills, TLAPS, FunctionTheorems, FiniteSetTheorems, SequenceTheorems, WellFoundedInduction

--------------------------------------------------------------------------------
(* Sets put in order.                                                         *)

\* Every element of the set has one place.
LEMMA ArrangedIsAll ==
  ASSUME NEW set, IsFiniteSet(set), NEW upto,
         \A x \in set : upto[x] \subseteq set /\ x \in upto[x],
         \A x, y \in set : \/ x = y
                           \/ upto[x] \subseteq upto[y] /\ y \notin upto[x]
                           \/ upto[y] \subseteq upto[x] /\ x \notin upto[y]
  PROVE  LET C == Cardinality(set)
             seq == Arranged(set, upto)
         IN  /\ C \in Nat /\ seq \in [1 .. C -> set]
             /\ \A x \in set : \E k \in 1 .. C : seq[k] = x
             /\ \A i, j \in 1 .. C : seq[i] = seq[j] => i = j
<1> DEFINE C == Cardinality(set)
           place == [x \in set |-> Cardinality(upto[x])]
           seq == Arranged(set, upto)
<1>0. C \in Nat
  BY FS_CardinalityType
<1>1. ASSUME NEW x \in set
      PROVE  IsFiniteSet(upto[x]) /\ Cardinality(upto[x]) \in 1 .. C
  <2>1. IsFiniteSet(upto[x]) /\ Cardinality(upto[x]) <= C /\ Cardinality(upto[x]) \in Nat
    BY FS_Subset, FS_CardinalityType
  <2>2. Cardinality(upto[x]) # 0
    BY <2>1, FS_EmptySet
  <2> QED BY <1>0, <2>1, <2>2
<1> HIDE DEF C
<1>2. ASSUME NEW x \in set, NEW y \in set, Cardinality(upto[x]) = Cardinality(upto[y])
      PROVE  x = y
  <2>1. ASSUME NEW u \in set, NEW w \in set, upto[u] \subseteq upto[w], w \notin upto[u],
               Cardinality(upto[u]) = Cardinality(upto[w])
        PROVE  FALSE
    <3>1. upto[u] = upto[w]
      BY <1>1, <2>1, FS_Subset
    <3> QED BY <2>1, <3>1
  <2> QED BY <1>2, <2>1
<1>3. place \in Surjection(set, 1 .. C)
  <2>1. place \in [set -> 1 .. C]
    BY <1>1
  <2>2. place \in Injection(set, 1 .. C)
    BY <1>2, <2>1, Fun_IsInj
  <2>3. IsFiniteSet(1 .. C) /\ Cardinality(1 .. C) = IF 1 > C THEN 0 ELSE C - 1 + 1
    BY <1>0, FS_Interval
  <2>4. Cardinality(1 .. C) = Cardinality(set)
    BY <1>0, <2>3 DEF C
  <2> HIDE DEF place
  <2> QED BY <2>2, <2>3, <2>4, FS_Injection
<1>4. \A k \in 1 .. C : \E x \in set : Cardinality(upto[x]) = k
  <2> HIDE DEF place, seq
  <2>1. \A k \in 1 .. C : \E x \in set : place[x] = k
    BY <1>3, Zenon DEF Surjection
  <2> QED BY <2>1 DEF place
<1>5. \A k \in 1 .. C : seq[k] \in set /\ Cardinality(upto[seq[k]]) = k
  <2>1. ASSUME NEW k \in 1 .. C PROVE seq[k] \in set /\ Cardinality(upto[seq[k]]) = k
    <3>1. seq[k] = CHOOSE x \in set : Cardinality(upto[x]) = k
      BY DEF Arranged, C
    <3> QED BY <1>4, <3>1
  <2> QED BY <2>1
<1>6. seq \in [1 .. C -> set]
  BY <1>5 DEF Arranged, C
<1> HIDE DEF seq
<1>7. \A x \in set : \E k \in 1 .. C : seq[k] = x
  BY <1>1, <1>2, <1>5
<1>8. \A i, j \in 1 .. C : seq[i] = seq[j] => i = j
  BY <1>5
<1>9. C \in Nat /\ seq \in [1 .. C -> set] /\ (\A x \in set : \E k \in 1 .. C : seq[k] = x)
      /\ \A i, j \in 1 .. C : seq[i] = seq[j] => i = j
  BY <1>0, <1>6, <1>7, <1>8
<1> QED BY <1>9 DEF C, seq

--------------------------------------------------------------------------------
(* The fields of a receipt.                                                   *)

\* Fields with names of the format, each of them once.
AreNamed(fields) ==
  /\ \A p \in fields : p[1] \in ToSet(FieldOrder)
  /\ \A p, q \in fields : p[1] = q[1] => p = q

LEMMA RankOfNames ==
  /\ IsFiniteSet(DOMAIN FieldOrder)
  /\ \A a \in ToSet(FieldOrder) : Rank[a] \in DOMAIN FieldOrder /\ Rank[a] \in Nat
  /\ \A a, b \in ToSet(FieldOrder) : Rank[a] = Rank[b] => a = b
<1>1. DOMAIN FieldOrder = 1 .. 35
  BY DEF FieldOrder
<1>2. IsFiniteSet(1 .. 35)
  <2>1. \A n \in Nat : IsFiniteSet(1 .. n)
    BY FS_Interval
  <2> QED BY <2>1
<1>3. ASSUME NEW a \in ToSet(FieldOrder) PROVE Rank[a] \in DOMAIN FieldOrder /\ FieldOrder[Rank[a]] = a
  <2>1. \E i \in DOMAIN FieldOrder : FieldOrder[i] = a
    BY DEF ToSet
  <2>2. Rank[a] = CHOOSE i \in DOMAIN FieldOrder : FieldOrder[i] = a
    BY DEF Rank
  <2> QED BY <2>1, <2>2
<1> QED BY <1>1, <1>2, <1>3

\* Nothing is lost and nothing added when a document is written.
LEMMA FieldsAreWritten ==
  ASSUME NEW fields, AreNamed(fields)
  PROVE  ToSet(Encode(fields).pairs) = fields
<1> DEFINE f == [p \in fields |-> Rank[p[1]]]
           upto == [p \in fields |-> {q \in fields : Rank[q[1]] <= Rank[p[1]]}]
<1>1. \A p \in fields : Rank[p[1]] \in DOMAIN FieldOrder /\ Rank[p[1]] \in Nat
  BY RankOfNames DEF AreNamed
<1>2. \A p, q \in fields : Rank[p[1]] = Rank[q[1]] => p = q
  BY RankOfNames DEF AreNamed
<1>3. IsFiniteSet(fields)
  <2>1. f \in [fields -> DOMAIN FieldOrder]
    BY <1>1
  <2>2. f \in Injection(fields, DOMAIN FieldOrder)
    BY <1>2, <2>1, Fun_IsInj
  <2> HIDE DEF f
  <2> QED BY <2>2, RankOfNames, FS_Injection
<1>4. \A p \in fields : upto[p] \subseteq fields /\ p \in upto[p]
  BY <1>1
<1>5. ASSUME NEW p \in fields, NEW q \in fields
      PROVE  \/ p = q
             \/ upto[p] \subseteq upto[q] /\ q \notin upto[p]
             \/ upto[q] \subseteq upto[p] /\ p \notin upto[q]
  <2>1. p = q \/ Rank[p[1]] < Rank[q[1]] \/ Rank[q[1]] < Rank[p[1]]
    BY <1>1, <1>2
  <2>2. ASSUME NEW u \in fields, NEW w \in fields, Rank[u[1]] < Rank[w[1]]
        PROVE  upto[u] \subseteq upto[w] /\ w \notin upto[u]
    <3>1. \A r \in fields : Rank[r[1]] <= Rank[u[1]] => Rank[r[1]] <= Rank[w[1]]
      BY <1>1, <2>2
    <3>2. ~(Rank[w[1]] <= Rank[u[1]])
      BY <1>1, <2>2
    <3> QED BY <3>1, <3>2
  <2> QED BY <2>1, <2>2
<1>6. Encode(fields).pairs = Arranged(fields, upto)
  BY DEF Encode, Ordered
<1> HIDE DEF upto
<1>7. LET C == Cardinality(fields)
          seq == Arranged(fields, upto)
      IN  seq \in [1 .. C -> fields] /\ \A p \in fields : \E k \in 1 .. C : seq[k] = p
  BY <1>3, <1>4, <1>5, ArrangedIsAll
<1> QED BY <1>6, <1>7 DEF ToSet

\* A field is read back as it was written.
LEMMA FieldIsRead ==
  ASSUME NEW fields, AreNamed(fields), NEW p \in fields
  PROVE  FieldOf(Encode(fields), p[1]) = p[2]
<1>1. (CHOOSE q \in fields : q[1] = p[1]) = p
  BY DEF AreNamed
<1> QED BY <1>1, FieldsAreWritten DEF FieldOf

\* The body of a receipt over a lockfile, with any three values beside it.
LEMMA SnapshotIsNamed ==
  ASSUME NEW id, NEW root, NEW prior, NEW count, NEW version, NEW h, NEW s, NEW k
  PROVE  AreNamed(SkillSnapshot(id, root, prior, count, version) \cup Trio(h, s, k))
<1>1. /\ FieldOrder[4] = "event_id" /\ FieldOrder[11] = "snapshot_id" /\ FieldOrder[17] = "signed_at_ms"
      /\ FieldOrder[10] = "skill_count" /\ FieldOrder[14] = "lock_version"
      /\ FieldOrder[23] = "lock_merkle_root" /\ FieldOrder[34] = "previous_snapshot_hash"
      /\ FieldOrder[15] = "receipt_hash" /\ FieldOrder[27] = "receipt_signature"
      /\ FieldOrder[8] = "signer_kid"
  BY DEF FieldOrder
<1>2. DOMAIN FieldOrder = 1 .. 35
  BY DEF FieldOrder
<1>3. {"event_id", "snapshot_id", "signed_at_ms", "skill_count", "lock_version", "lock_merkle_root",
       "previous_snapshot_hash", "receipt_hash", "receipt_signature", "signer_kid"}
        \subseteq ToSet(FieldOrder)
  BY <1>1, <1>2 DEF ToSet
<1> QED BY <1>3 DEF AreNamed, SkillSnapshot, Trio

LEMMA BodyIsRead ==
  ASSUME NEW id, NEW root, NEW prior, NEW count, NEW version, NEW h, NEW s, NEW k
  PROVE  LET body == SkillSnapshot(id, root, prior, count, version)
         IN  BodyOf(Encode(body \cup Trio(h, s, k))) = body
<1> DEFINE body == SkillSnapshot(id, root, prior, count, version)
<1>1. ToSet(Encode(body \cup Trio(h, s, k)).pairs) = body \cup Trio(h, s, k)
  BY SnapshotIsNamed, FieldsAreWritten
<1>2. \A p \in body : p[1] \notin Shared
  BY DEF SkillSnapshot, Shared
<1>3. \A p \in Trio(h, s, k) : p[1] \in Shared
  BY DEF Trio, Shared
<1> HIDE DEF body
<1>4. BodyOf(Encode(body \cup Trio(h, s, k))) = body
  BY <1>1, <1>2, <1>3 DEF BodyOf, Shared
<1> QED BY <1>4 DEF body

\* What a signed receipt says, and that it verifies under the key that signed it.
LEMMA SignedReceiptVerifies ==
  ASSUME NEW id, NEW root, NEW prior, NEW count, NEW version, NEW key
  PROVE  LET wire == SignedReceipt(SkillSnapshot(id, root, prior, count, version), key)
         IN  /\ TypedVerifies(wire, key)
             /\ FieldOf(wire, "lock_merkle_root") = Bytes(32, root)
             /\ FieldOf(wire, "lock_version") = Uint(version)
             /\ FieldOf(wire, "skill_count") = Uint(count)
<1> DEFINE body == SkillSnapshot(id, root, prior, count, version)
           hash == Bytes(32, ReceiptHash(body))
           signature == Bytes(64, Ed25519(key, SigningBytes(body, ReceiptHash(body), Kid)))
           fields == body \cup Trio(hash, signature, Kid)
           wire == SignedReceipt(body, key)
<1>1. wire = Encode(fields)
  BY DEF SignedReceipt
<1>2. AreNamed(fields)
  <2> HIDE DEF hash, signature
  <2> QED BY SnapshotIsNamed
<1>3. /\ <<"lock_merkle_root", Bytes(32, root)>> \in fields /\ <<"lock_version", Uint(version)>> \in fields
      /\ <<"skill_count", Uint(count)>> \in fields
  BY DEF SkillSnapshot
<1>4. /\ <<"receipt_hash", hash>> \in fields /\ <<"receipt_signature", signature>> \in fields
      /\ <<"signer_kid", Kid>> \in fields
  BY DEF Trio
<1>5. BodyOf(wire) = body
  <2> HIDE DEF hash, signature
  <2> QED BY <1>1, BodyIsRead
<1>6. hash[3] = ReceiptHash(body)
  BY DEF Bytes
<1> HIDE DEF body, hash, signature, fields, wire
<1>7. /\ FieldOf(wire, "lock_merkle_root") = Bytes(32, root)
      /\ FieldOf(wire, "lock_version") = Uint(version)
      /\ FieldOf(wire, "skill_count") = Uint(count)
      /\ FieldOf(wire, "receipt_hash") = hash /\ FieldOf(wire, "receipt_signature") = signature
      /\ FieldOf(wire, "signer_kid") = Kid
  BY <1>1, <1>2, <1>3, <1>4, FieldIsRead
<1>8. TypedVerifies(wire, key)
  BY <1>5, <1>6, <1>7 DEF TypedVerifies, hash, signature
<1> QED BY <1>7, <1>8 DEF wire, body

--------------------------------------------------------------------------------
(* The digest of a lockfile.                                                  *)

EntryOf(l, n) == [name |-> n, version |-> l.skills[n].ref, json |-> Provenance(l.skills[n])]
EntriesOf(l) == {EntryOf(l, n) : n \in DOMAIN l.skills}

\* The digest is taken of all entries, in whatever order.
LEMMA EntriesAreDigested ==
  ASSUME NEW l, IsSkillLock(l)
  PROVE  ToSet(SortedEntries(DigestEntries(l))) = EntriesOf(l)
<1> DEFINE D == DOMAIN l.skills
           C == Cardinality(D)
           upto == [n \in D |-> {m \in D : m <= n}]
           names == Arranged(D, upto)
           entries == DigestEntries(l)
           before == [i \in 1 .. C |-> {j \in 1 .. C : j = i \/ Before(entries[j], entries[i])}]
           order == Arranged(1 .. C, before)
<1>1. IsFiniteSet(D) /\ \A n \in D : n \in Nat /\ l.skills[n].ref \in Int
  BY SkillsAssumption, FS_Subset DEF IsSkillLock, LockEntry
<1>2. /\ C \in Nat /\ names \in [1 .. C -> D]
      /\ \A n \in D : \E k \in 1 .. C : names[k] = n
      /\ \A i, j \in 1 .. C : names[i] = names[j] => i = j
  <2>1. \A n \in D : upto[n] \subseteq D /\ n \in upto[n]
    BY <1>1
  <2>2. \A n, m \in D : \/ n = m
                        \/ upto[n] \subseteq upto[m] /\ m \notin upto[n]
                        \/ upto[m] \subseteq upto[n] /\ n \notin upto[m]
    BY <1>1
  <2> HIDE DEF upto, D
  <2> QED BY <1>1, <2>1, <2>2, ArrangedIsAll
<1>3. entries = [i \in 1 .. C |-> EntryOf(l, names[i])]
  <2>1. entries = [i \in DOMAIN names |-> EntryOf(l, names[i])]
    BY DEF DigestEntries, EntryOf
  <2>2. DOMAIN names = 1 .. C
    BY <1>2
  <2> HIDE DEF names, entries
  <2> QED BY <2>1, <2>2
<1> HIDE DEF names, entries
<1>4. \A i, j \in 1 .. C : Before(entries[i], entries[j]) <=> names[i] < names[j]
  <2>1. ASSUME NEW i \in 1 .. C, NEW j \in 1 .. C
        PROVE  Before(entries[i], entries[j]) <=> names[i] < names[j]
    <3>1. entries[i].name = names[i] /\ entries[j].name = names[j]
      BY <1>3 DEF EntryOf
    <3>2. names[i] \in Nat /\ names[j] \in Nat
      BY <1>1, <1>2
    <3>3. CASE i = j
      <4>1. entries[i].version \in Int
        BY <1>1, <1>2, <1>3 DEF EntryOf
      <4> QED BY <3>1, <3>2, <3>3, <4>1 DEF Before
    <3>4. CASE i # j
      BY <1>2, <3>1, <3>2, <3>4 DEF Before
    <3> QED BY <3>3, <3>4
  <2> QED BY <2>1
<1>5. /\ order \in [1 .. C -> 1 .. C]
      /\ \A i \in 1 .. C : \E k \in 1 .. C : order[k] = i
  <2>1. \A i \in 1 .. C : before[i] \subseteq 1 .. C /\ i \in before[i]
    OBVIOUS
  <2>2. \A i, j \in 1 .. C : j \in before[i] <=> j = i \/ names[j] < names[i]
    BY <1>4
  <2>3. \A i \in 1 .. C : names[i] \in Nat
    BY <1>1, <1>2
  <2> HIDE DEF before
  <2>4. ASSUME NEW i \in 1 .. C, NEW j \in 1 .. C, names[i] < names[j]
        PROVE  before[i] \subseteq before[j] /\ j \notin before[i]
    <3>1. ASSUME NEW k \in before[i] PROVE k \in before[j]
      BY <2>1, <2>2, <2>3, <2>4
    <3>2. j \notin before[i]
      BY <2>2, <2>3, <2>4
    <3> QED BY <3>1, <3>2
  <2>5. \A i, j \in 1 .. C : i = j \/ names[i] < names[j] \/ names[j] < names[i]
    BY <1>2, <2>3
  <2>6. \A i, j \in 1 .. C : \/ i = j
                             \/ before[i] \subseteq before[j] /\ j \notin before[i]
                             \/ before[j] \subseteq before[i] /\ i \notin before[j]
    BY <2>4, <2>5
  <2>7. IsFiniteSet(1 .. C) /\ Cardinality(1 .. C) = C
    <3>1. IsFiniteSet(1 .. C) /\ Cardinality(1 .. C) = IF 1 > C THEN 0 ELSE C - 1 + 1
      BY <1>2, FS_Interval
    <3> HIDE DEF C
    <3> QED BY <1>2, <3>1
  <2> DEFINE P == 1 .. C
  <2>8. IsFiniteSet(P) /\ Cardinality(P) = C /\ order = Arranged(P, before)
    BY <2>7
  <2> HIDE DEF P, order
  <2>9. order \in [1 .. Cardinality(P) -> P] /\ \A x \in P : \E k \in 1 .. Cardinality(P) : order[k] = x
    <3>1. \A x \in P : before[x] \subseteq P /\ x \in before[x]
      BY <2>1 DEF P
    <3>2. \A x, y \in P : \/ x = y
                          \/ before[x] \subseteq before[y] /\ y \notin before[x]
                          \/ before[y] \subseteq before[x] /\ x \notin before[y]
      BY <2>6 DEF P
    <3>3. LET seq == Arranged(P, before)
          IN  /\ seq \in [1 .. Cardinality(P) -> P]
              /\ \A x \in P : \E k \in 1 .. Cardinality(P) : seq[k] = x
      BY <2>8, <3>1, <3>2, ArrangedIsAll
    <3> QED BY <2>8, <3>3
  <2> QED BY <2>8, <2>9 DEF P
<1>6. SortedEntries(entries) = [k \in 1 .. C |-> entries[order[k]]]
  <2>1. DOMAIN entries = 1 .. C
    BY <1>3
  <2> QED BY <2>1 DEF SortedEntries
<1> HIDE DEF order, C
<1>7. ToSet(SortedEntries(entries)) = {EntryOf(l, names[order[k]]) : k \in 1 .. C}
  <2>1. \A k \in 1 .. C : SortedEntries(entries)[k] = EntryOf(l, names[order[k]])
    <3>1. ASSUME NEW k \in 1 .. C PROVE SortedEntries(entries)[k] = EntryOf(l, names[order[k]])
      <4>1. order[k] \in 1 .. C /\ SortedEntries(entries)[k] = entries[order[k]]
        BY <1>5, <1>6
      <4> QED BY <1>3, <4>1
    <3> QED BY <3>1
  <2>2. DOMAIN SortedEntries(entries) = 1 .. C
    BY <1>6
  <2>3. ToSet(SortedEntries(entries)) = {SortedEntries(entries)[k] : k \in 1 .. C}
    BY <2>2 DEF ToSet
  <2> QED BY <2>1, <2>3
<1>8. {names[order[k]] : k \in 1 .. C} = D
  <2>1. \A k \in 1 .. C : names[order[k]] \in D
    BY <1>2, <1>5
  <2>2. \A n \in D : \E k \in 1 .. C : names[order[k]] = n
    BY <1>2, <1>5
  <2> QED BY <2>1, <2>2
<1>9. ToSet(SortedEntries(entries)) = {EntryOf(l, n) : n \in D}
  BY <1>7, <1>8
<1> QED BY <1>9 DEF EntriesOf, entries

\* Two lockfiles with one digest have the same entries under the same names.
LEMMA DigestBinds ==
  ASSUME NEW l, IsSkillLock(l), NEW m, IsSkillLock(m), LockMerkleRoot(l) = LockMerkleRoot(m)
  PROVE  /\ DOMAIN l.skills = DOMAIN m.skills
         /\ \A n \in DOMAIN l.skills : Provenance(l.skills[n]) = Provenance(m.skills[n])
<1>1. SortedEntries(DigestEntries(l)) = SortedEntries(DigestEntries(m))
  BY DEF LockMerkleRoot, SnapshotMerkleRoot, Blake3
<1>2. EntriesOf(l) = EntriesOf(m)
  BY <1>1, EntriesAreDigested
<1>3. ASSUME NEW u, NEW w, EntriesOf(u) = EntriesOf(w), NEW n \in DOMAIN u.skills
      PROVE  n \in DOMAIN w.skills /\ Provenance(u.skills[n]) = Provenance(w.skills[n])
  <2>1. EntryOf(u, n) \in EntriesOf(w)
    BY <1>3 DEF EntriesOf
  <2>2. PICK k \in DOMAIN w.skills : EntryOf(u, n) = EntryOf(w, k)
    BY <2>1 DEF EntriesOf
  <2>3. n = k /\ Provenance(u.skills[n]) = Provenance(w.skills[k])
    <3>1. EntryOf(u, n).name = EntryOf(w, k).name /\ EntryOf(u, n).json = EntryOf(w, k).json
      BY <2>2
    <3> QED BY <3>1 DEF EntryOf
  <2> QED BY <2>3
<1> QED BY <1>2, <1>3

--------------------------------------------------------------------------------
(* The inductive invariant.  What it says of a lockfile or of an outcome is   *)
(* said at a history, since sources only grow.                                *)

Files(s) == {n \in Skills : SourceOf[n] = s}

\* The commits after the first ones.
PushesOf(h) == UNION {{s} \X (2 .. Len(h[s])) : s \in Sources}

HistoryInv(h) ==
  /\ DOMAIN h = Sources
  /\ \A s \in Sources : h[s] \in Seq([Files(s) -> Nat]) /\ Len(h[s]) >= 1
  /\ IsFiniteSet(PushesOf(h)) /\ Cardinality(PushesOf(h)) <= MaxPushes

\* h has become g: commits were added, and none was changed.
HasGrown(h, g) ==
  \A s \in Sources : Len(h[s]) <= Len(g[s]) /\ \A i \in 1 .. Len(h[s]) : g[s][i] = h[s][i]

\* A lockfile that has been read: each entry is a file of its source, at a commit
\* that the source has, and all have one if one has.
LockInv(l, h) ==
  /\ IsSkillLock(l) /\ Validates(l) /\ IsWhole(l) /\ l.version \in 0 .. 2
  /\ \A n \in DOMAIN l.skills :
       /\ l.skills[n].source = SourceOf[n] /\ l.skills[n].skillPath = n
       /\ l.skills[n].ref \in Branch .. Len(h[SourceOf[n]])

\* Its digests are those of the files at the commits.
IsAttested(l, h) ==
  \A n \in DOMAIN l.skills :
    IsCommit(l.skills[n].ref) => h[SourceOf[n]][l.skills[n].ref][n] = l.skills[n].computedHash

\* What was fetched was fetched at the refs of the lockfile that was walked, and
\* has the digest of what is there.
OutcomeInv(o, h) ==
  /\ o \in [walk : Nat, of : {o.of}, fetched : {o.fetched}, mismatches : {o.mismatches}]
  /\ LockInv(o.of, h)
  /\ DOMAIN o.fetched \cup o.mismatches \subseteq DOMAIN o.of.skills
  /\ \A n \in DOMAIN o.fetched :
       /\ o.fetched[n].ref = o.of.skills[n].ref /\ o.fetched[n].digest \in Nat
       /\ IsCommit(o.fetched[n].ref) => h[SourceOf[n]][o.fetched[n].ref][n] = o.fetched[n].digest
       /\ n \notin o.mismatches => o.fetched[n].digest = o.of.skills[n].computedHash

\* A walk has left to do what is neither fetched nor reported.
WalkInv(j, o) ==
  DOMAIN o.of.skills \subseteq
    (IF j.kind = "fetch" THEN j.todo ELSE {}) \cup DOMAIN o.fetched \cup o.mismatches

\* Every source of the lockfile that is pinned is resolved or yet to be.
JobInv(j, l, o, h) ==
  \/ j = Idle
  \/ /\ j.kind = "pin"
     /\ j \in [kind : {"pin"}, todo : SUBSET Sources, resolved : {j.resolved}]
     /\ j.todo \cup DOMAIN j.resolved = Lookups(l)
     /\ \A s \in DOMAIN j.resolved : j.resolved[s] \in 1 .. Len(h[s])
  \/ j.kind = "fetch" /\ j \in [kind : {"fetch"}, todo : SUBSET DOMAIN o.of.skills]

\* A receipt says what the lockfile was that it was signed for.
ReceiptInv(r, h) ==
  /\ LockInv(r.lock, h) /\ Signable(r.lock)
  /\ r.checked => IsAttested(r.lock, h)
  /\ \E id, prior :
       r.wire = SignedReceipt(SkillSnapshot(id, LockMerkleRoot(r.lock), prior,
                                            Cardinality(DOMAIN r.lock.skills), r.lock.version), Signer)

ReceiptsInv(rs, h) ==
  /\ \E S : rs \in Seq(S)
  /\ Len(rs) <= MaxReceipts
  /\ \A i \in 1 .. Len(rs) : ReceiptInv(rs[i], h)

SkillsInv ==
  /\ HistoryInv(history)
  /\ LockInv(lock, history) /\ LockInv(relocked, history) /\ IsAttested(relocked, history)
  /\ OutcomeInv(outcome, history)
  /\ JobInv(job, lock, outcome, history) /\ WalkInv(job, outcome)
  /\ ReceiptsInv(receipts, history)

\* What is known of a lockfile stays true as the sources grow.
LEMMA LockStays ==
  ASSUME NEW h, HistoryInv(h), NEW g, HistoryInv(g), HasGrown(h, g), NEW l, LockInv(l, h)
  PROVE  LockInv(l, g) /\ (IsAttested(l, h) => IsAttested(l, g))
<1>1. ASSUME NEW n \in DOMAIN l.skills
      PROVE  /\ SourceOf[n] \in Sources /\ l.skills[n].ref \in Int
             /\ l.skills[n].ref \in Branch .. Len(g[SourceOf[n]])
             /\ IsCommit(l.skills[n].ref) =>
                  g[SourceOf[n]][l.skills[n].ref] = h[SourceOf[n]][l.skills[n].ref]
  <2>1. SourceOf[n] \in Sources
    BY DEF LockInv, IsSkillLock, Sources
  <2>2. l.skills[n].ref \in Branch .. Len(h[SourceOf[n]])
    BY DEF LockInv
  <2>3. Len(h[SourceOf[n]]) \in Nat /\ Len(g[SourceOf[n]]) \in Nat
    BY <2>1, LenProperties DEF HistoryInv
  <2>4. Len(h[SourceOf[n]]) <= Len(g[SourceOf[n]])
    BY <2>1 DEF HasGrown
  <2>5. l.skills[n].ref \in Int /\ l.skills[n].ref \in Branch .. Len(g[SourceOf[n]])
    BY <2>2, <2>3, <2>4 DEF Branch
  <2>6. IsCommit(l.skills[n].ref) => l.skills[n].ref \in 1 .. Len(h[SourceOf[n]])
    BY <2>2, <2>3 DEF Branch, IsCommit
  <2> QED BY <2>1, <2>5, <2>6 DEF HasGrown
<1>2. LockInv(l, g)
  BY <1>1 DEF LockInv
<1>3. IsAttested(l, h) => IsAttested(l, g)
  BY <1>1 DEF IsAttested
<1> QED BY <1>2, <1>3

LEMMA OutcomeStays ==
  ASSUME NEW h, HistoryInv(h), NEW g, HistoryInv(g), HasGrown(h, g), NEW o, OutcomeInv(o, h)
  PROVE  OutcomeInv(o, g)
<1>1. LockInv(o.of, h) /\ LockInv(o.of, g)
  BY LockStays DEF OutcomeInv
<1>2. ASSUME NEW n \in DOMAIN o.fetched, IsCommit(o.fetched[n].ref)
      PROVE  g[SourceOf[n]][o.fetched[n].ref][n] = o.fetched[n].digest
  <2>1. n \in DOMAIN o.of.skills /\ o.fetched[n].ref = o.of.skills[n].ref
    BY DEF OutcomeInv
  <2>2. SourceOf[n] \in Sources
    BY <1>1, <2>1 DEF LockInv, IsSkillLock, Sources
  <2>3. Len(h[SourceOf[n]]) \in Nat
    BY <2>2, LenProperties DEF HistoryInv
  <2>4. o.fetched[n].ref \in 1 .. Len(h[SourceOf[n]])
    BY <1>1, <1>2, <2>1, <2>3 DEF LockInv, Branch, IsCommit
  <2> QED BY <1>2, <2>2, <2>4 DEF OutcomeInv, HasGrown
<1> QED BY <1>1, <1>2 DEF OutcomeInv

LEMMA ReceiptsStay ==
  ASSUME NEW h, HistoryInv(h), NEW g, HistoryInv(g), HasGrown(h, g), NEW rs, ReceiptsInv(rs, h)
  PROVE  ReceiptsInv(rs, g)
<1>1. ASSUME NEW i \in 1 .. Len(rs) PROVE ReceiptInv(rs[i], g)
  <2>1. ReceiptInv(rs[i], h)
    BY DEF ReceiptsInv
  <2> QED BY <2>1, LockStays DEF ReceiptInv
<1> QED BY <1>1 DEF ReceiptsInv

LEMMA JobStays ==
  ASSUME NEW h, HistoryInv(h), NEW g, HistoryInv(g), HasGrown(h, g),
         NEW l, LockInv(l, h), NEW o, NEW j, JobInv(j, l, o, h)
  PROVE  JobInv(j, l, o, g)
<1>1. ASSUME j.todo \cup DOMAIN j.resolved = Lookups(l),
             \A s \in DOMAIN j.resolved : j.resolved[s] \in 1 .. Len(h[s]),
             NEW s \in DOMAIN j.resolved
      PROVE  j.resolved[s] \in 1 .. Len(g[s])
  <2>1. s \in Lookups(l)
    BY <1>1
  <2>2. s \in Sources
    BY <2>1 DEF Lookups, LockInv, IsSkillLock, Sources
  <2>3. Len(h[s]) \in Nat /\ Len(g[s]) \in Nat /\ Len(h[s]) <= Len(g[s])
    BY <2>2, LenProperties DEF HistoryInv, HasGrown
  <2> QED BY <1>1, <2>3
<1> QED BY <1>1 DEF JobInv

--------------------------------------------------------------------------------
(* What the calls make of a lockfile and of an outcome.                       *)

\* Before any lockfile is read.
LEMMA UnreadIsLock ==
  ASSUME NEW h
  PROVE  LockInv(Unread, h) /\ IsAttested(Unread, h)
<1>1. DOMAIN Unread.skills = {} /\ Unread.version = 0
  BY DEF Unread, Empty
<1>2. IsSkillLock(Unread)
  <2>1. Empty \in [{} -> LockEntry] /\ DOMAIN Empty = {}
    BY DEF Empty
  <2> QED BY <2>1 DEF Unread, IsSkillLock
<1> QED BY <1>1, <1>2 DEF LockInv, Validates, IsWhole, IsAttested

\* An entry of a lockfile is a commit its source has, or none.
LEMMA EntriesAreThere ==
  ASSUME NEW h, HistoryInv(h), NEW l, LockInv(l, h), NEW n \in DOMAIN l.skills
  PROVE  /\ n \in Skills /\ SourceOf[n] \in Sources /\ n \in Files(SourceOf[n])
         /\ Len(h[SourceOf[n]]) \in Nat \ {0}
         /\ \A i \in 1 .. Len(h[SourceOf[n]]) : h[SourceOf[n]][i][n] \in Nat
         /\ l.skills[n].ref \in Int /\ l.skills[n] \in LockEntry
         /\ IsCommit(l.skills[n].ref) => l.skills[n].ref \in 1 .. Len(h[SourceOf[n]])
<1>1. n \in Skills /\ SourceOf[n] \in Sources /\ n \in Files(SourceOf[n])
  BY DEF LockInv, IsSkillLock, Sources, Files
<1> DEFINE s == SourceOf[n]
<1>2. h[s] \in Seq([Files(s) -> Nat]) /\ Len(h[s]) >= 1 /\ Len(h[s]) \in Nat
  BY <1>1, LenProperties DEF HistoryInv
<1>3. \A i \in 1 .. Len(h[s]) : h[s][i][n] \in Nat
  <2>1. ASSUME NEW i \in 1 .. Len(h[s]) PROVE h[s][i] \in [Files(s) -> Nat]
    BY <1>2, ElementOfSeq
  <2> QED BY <1>1, <2>1
<1>4. l.skills[n] \in LockEntry /\ l.skills[n].ref \in Branch .. Len(h[s])
  BY DEF LockInv, IsSkillLock
<1>5. l.skills[n].ref \in Int
  BY <1>4 DEF LockEntry
<1> QED BY <1>1, <1>2, <1>3, <1>4, <1>5 DEF IsCommit

\* Pinning stamps all entries or none.
LEMMA StampedIsLock ==
  ASSUME NEW h, HistoryInv(h), NEW l, LockInv(l, h), NEW resolved,
         DOMAIN resolved = Lookups(l), \A s \in DOMAIN resolved : resolved[s] \in 1 .. Len(h[s])
  PROVE  LockInv(Stamped(l, resolved), h)
<1> DEFINE new == Stamped(l, resolved)
<1>1. DOMAIN new.skills = DOMAIN l.skills /\ new.version = 2
  BY DEF Stamped
<1>2. ASSUME NEW n \in DOMAIN l.skills
      PROVE  /\ SourceOf[n] \in DOMAIN resolved
             /\ new.skills[n] = [l.skills[n] EXCEPT !.ref = resolved[SourceOf[n]]]
  <2>1. l.skills[n].source = SourceOf[n]
    BY DEF LockInv
  <2>2. SourceOf[n] \in DOMAIN resolved
    BY <2>1 DEF Lookups
  <2> QED BY <2>1, <2>2 DEF Stamped
<1>3. ASSUME NEW n \in DOMAIN l.skills
      PROVE  /\ new.skills[n] \in LockEntry /\ new.skills[n].ref = resolved[SourceOf[n]]
             /\ new.skills[n].ref \in 1 .. Len(h[SourceOf[n]]) /\ new.skills[n].ref \in Int
             /\ new.skills[n].source = SourceOf[n] /\ new.skills[n].skillPath = n
             /\ new.skills[n].wellFormedHash /\ new.skills[n].sourceType = "github"
  <2>1. /\ l.skills[n] \in LockEntry /\ l.skills[n].source = SourceOf[n] /\ l.skills[n].skillPath = n
        /\ l.skills[n].wellFormedHash /\ l.skills[n].sourceType = "github"
    BY EntriesAreThere DEF LockInv, Validates
  <2>2. resolved[SourceOf[n]] \in 1 .. Len(h[SourceOf[n]]) /\ resolved[SourceOf[n]] \in Int
    <3>1. resolved[SourceOf[n]] \in 1 .. Len(h[SourceOf[n]])
      BY <1>2
    <3>2. Len(h[SourceOf[n]]) \in Nat
      BY EntriesAreThere
    <3> QED BY <3>1, <3>2
  <2>3. new.skills[n] = [l.skills[n] EXCEPT !.ref = resolved[SourceOf[n]]]
    BY <1>2
  <2> HIDE DEF new
  <2> QED BY <2>1, <2>2, <2>3 DEF LockEntry
<1>4. new = [version |-> 2, skills |-> new.skills] /\ new.skills = [n \in DOMAIN l.skills |-> new.skills[n]]
  BY DEF Stamped
<1> HIDE DEF new
<1>5. IsSkillLock(new)
  <2>1. DOMAIN new.skills \subseteq Skills
    BY <1>1 DEF LockInv, IsSkillLock
  <2>2. new.skills \in [DOMAIN l.skills -> LockEntry]
    BY <1>3, <1>4
  <2> QED BY <1>1, <1>4, <2>1, <2>2 DEF IsSkillLock
<1>6. \A n \in DOMAIN new.skills : new.skills[n].ref \in Branch .. Len(h[SourceOf[n]])
  BY <1>1, <1>3 DEF Branch
<1>7. IsWhole(new)
  BY <1>1, <1>3 DEF IsWhole, IsCommit
<1>8. LockInv(new, h)
  BY <1>1, <1>3, <1>5, <1>6, <1>7 DEF LockInv, Validates
<1> QED BY <1>8 DEF new

\* A lockfile of what was fetched has digests and refs of one walk.
LEMMA RelockedIsLock ==
  ASSUME NEW h, HistoryInv(h), NEW o, OutcomeInv(o, h), NEW l, LockInv(l, h)
  PROVE  LockInv(RelockOf(o, l), h) /\ IsAttested(RelockOf(o, l), h)
<1> DEFINE new == RelockOf(o, l)
           names == DOMAIN o.fetched \cap DOMAIN l.skills
<1>1. DOMAIN new.skills = names /\ new.version = 2
  BY DEF RelockOf
<1>2. ASSUME NEW n \in names
      PROVE  new.skills[n] = [l.skills[n] EXCEPT !.computedHash = o.fetched[n].digest,
                                                 !.ref = o.fetched[n].ref]
  BY DEF RelockOf
<1>3. ASSUME NEW n \in names
      PROVE  /\ n \in DOMAIN o.of.skills /\ n \in DOMAIN l.skills
             /\ new.skills[n] \in LockEntry /\ new.skills[n].ref = o.of.skills[n].ref
             /\ new.skills[n].ref \in Branch .. Len(h[SourceOf[n]])
             /\ new.skills[n].source = SourceOf[n] /\ new.skills[n].skillPath = n
             /\ new.skills[n].wellFormedHash /\ new.skills[n].sourceType = "github"
             /\ IsCommit(new.skills[n].ref) =>
                  h[SourceOf[n]][new.skills[n].ref][n] = new.skills[n].computedHash
  <2>1. /\ l.skills[n] \in LockEntry /\ l.skills[n].source = SourceOf[n] /\ l.skills[n].skillPath = n
        /\ l.skills[n].wellFormedHash /\ l.skills[n].sourceType = "github"
    BY EntriesAreThere DEF LockInv, Validates
  <2>2. /\ n \in DOMAIN o.of.skills /\ o.fetched[n].ref = o.of.skills[n].ref /\ o.fetched[n].digest \in Nat
        /\ IsCommit(o.fetched[n].ref) => h[SourceOf[n]][o.fetched[n].ref][n] = o.fetched[n].digest
    BY DEF OutcomeInv
  <2>3. LockInv(o.of, h)
    BY DEF OutcomeInv
  <2>4. o.of.skills[n].ref \in Branch .. Len(h[SourceOf[n]]) /\ o.of.skills[n].ref \in Int
    BY <2>2, <2>3, EntriesAreThere DEF LockInv
  <2>5. new.skills[n] = [l.skills[n] EXCEPT !.computedHash = o.fetched[n].digest, !.ref = o.of.skills[n].ref]
    BY <1>2, <2>2
  <2>6. n \in DOMAIN l.skills
    OBVIOUS
  <2> HIDE DEF new, names
  <2>7. new.skills[n] \in LockEntry
    BY <2>1, <2>2, <2>4, <2>5 DEF LockEntry
  <2>8. /\ new.skills[n].ref = o.of.skills[n].ref /\ new.skills[n].computedHash = o.fetched[n].digest
        /\ new.skills[n].source = l.skills[n].source /\ new.skills[n].skillPath = l.skills[n].skillPath
        /\ new.skills[n].wellFormedHash = l.skills[n].wellFormedHash
        /\ new.skills[n].sourceType = l.skills[n].sourceType
    BY <2>1, <2>5 DEF LockEntry
  <2>9. IsCommit(new.skills[n].ref) =>
          h[SourceOf[n]][new.skills[n].ref][n] = new.skills[n].computedHash
    BY <2>2, <2>8
  <2> QED BY <2>1, <2>2, <2>4, <2>7, <2>8, <2>9, <2>6
<1>4. new = [version |-> 2, skills |-> new.skills] /\ new.skills = [n \in names |-> new.skills[n]]
  BY DEF RelockOf
<1> HIDE DEF new, names
<1>5. IsSkillLock(new)
  <2>1. DOMAIN new.skills \subseteq Skills
    BY <1>1 DEF LockInv, IsSkillLock, names
  <2>2. new.skills \in [names -> LockEntry]
    BY <1>3, <1>4
  <2> QED BY <1>1, <1>4, <2>1, <2>2 DEF IsSkillLock
<1>6. IsWhole(new)
  <2>1. IsWhole(o.of)
    BY DEF OutcomeInv, LockInv
  <2> QED BY <1>1, <1>3, <2>1 DEF IsWhole
<1>7. LockInv(new, h)
  BY <1>1, <1>3, <1>5, <1>6 DEF LockInv, Validates
<1>8. IsAttested(new, h)
  BY <1>1, <1>3 DEF IsAttested
<1> QED BY <1>7, <1>8 DEF new

--------------------------------------------------------------------------------
(* The steps.                                                                 *)

LEMMA SkillsInit == Init => SkillsInv
<1> SUFFICES ASSUME Init PROVE SkillsInv
  OBVIOUS
<1>1. MaxPushes \in Nat /\ MaxReceipts \in Nat
  BY SkillsAssumption
<1>2. HistoryInv(history)
  <2>1. DOMAIN history = Sources
    BY DEF Init
  <2>2. ASSUME NEW s \in Sources
        PROVE  history[s] \in Seq([Files(s) -> Nat]) /\ Len(history[s]) = 1
    <3> DEFINE first == [n \in Files(s) |-> 0]
    <3>1. history[s] = <<first>>
      BY DEF Init, Files
    <3>2. first \in [Files(s) -> Nat]
      OBVIOUS
    <3> QED BY <3>1, <3>2
  <2>3. PushesOf(history) = {}
    <3>1. 2 .. 1 = {}
      OBVIOUS
    <3>2. ASSUME NEW p \in PushesOf(history) PROVE FALSE
      <4>1. PICK s \in Sources : p \in {s} \X (2 .. Len(history[s]))
        BY DEF PushesOf
      <4>2. Len(history[s]) = 1
        BY <2>2
      <4> QED BY <3>1, <4>1, <4>2
    <3> QED BY <3>2
  <2> QED BY <1>1, <2>1, <2>2, <2>3, FS_EmptySet DEF HistoryInv
<1>3. OutcomeInv(outcome, history)
  <2>1. /\ outcome = Nothing /\ Nothing.of = Unread /\ DOMAIN Nothing.fetched = {}
        /\ Nothing.mismatches = {}
        /\ Nothing \in [walk : Nat, of : {Nothing.of}, fetched : {Nothing.fetched},
                        mismatches : {Nothing.mismatches}]
    BY DEF Init, Nothing, Empty
  <2> QED BY <2>1, UnreadIsLock DEF OutcomeInv
<1>4. JobInv(job, lock, outcome, history)
  BY DEF Init, JobInv
<1>6. WalkInv(job, outcome)
  BY DEF Init, Nothing, Unread, Empty, WalkInv
<1>5. ReceiptsInv(receipts, history)
  <2>1. receipts = <<>>
    BY DEF Init
  <2>2. receipts \in Seq({}) /\ Len(receipts) = 0
    BY <2>1
  <2> QED BY <1>1, <2>2 DEF ReceiptsInv
<1> QED BY <1>2, <1>3, <1>4, <1>5, <1>6, UnreadIsLock DEF SkillsInv, Init

\* A push adds a commit and leaves the others as they are.
LEMMA PushStep ==
  ASSUME SkillsInv, NEW s \in Sources, Push(s)
  PROVE  SkillsInv'
<1>1. Pushes < MaxPushes /\ UNCHANGED <<lock, job, outcome, relocked, receipts>>
  BY DEF Push
<1> DEFINE old == history[s]
           len == Len(history[s])
           new == history'[s][len + 1]
<1>2. /\ old \in Seq([Files(s) -> Nat]) /\ len >= 1 /\ len \in Nat
      /\ \A i \in 1 .. len : old[i] \in [Files(s) -> Nat]
  BY LenProperties, ElementOfSeq DEF SkillsInv, HistoryInv
<1>3. PICK changed \in SUBSET DOMAIN old[1] :
        history' = [history EXCEPT ![s] =
          Append(old, [n \in DOMAIN old[1] |-> IF n \in changed THEN len ELSE Last(old)[n]])]
  BY DEF Push
<1>4. DOMAIN history = Sources /\ DOMAIN history' = Sources
  BY <1>3 DEF SkillsInv, HistoryInv
<1>5. ASSUME NEW t \in Sources, t # s PROVE history'[t] = history[t]
  BY <1>3, <1>4, <1>5
<1> DEFINE commit == [n \in DOMAIN old[1] |-> IF n \in changed THEN len ELSE Last(old)[n]]
<1>6. commit \in [Files(s) -> Nat]
  <2>1. DOMAIN old[1] = Files(s) /\ Last(old) \in [Files(s) -> Nat]
    BY <1>2 DEF Last
  <2> HIDE DEF old, len
  <2> QED BY <1>2, <2>1
<1>7. history'[s] = Append(old, commit)
  BY <1>3, <1>4
<1> HIDE DEF old, len, commit
<1>8. /\ history'[s] \in Seq([Files(s) -> Nat]) /\ Len(history'[s]) = len + 1
      /\ \A i \in 1 .. len : history'[s][i] = old[i]
  <2> DEFINE S == [Files(s) -> Nat]
  <2>1. old \in Seq(S) /\ commit \in S /\ Len(old) = len
    BY <1>2, <1>6 DEF old, len
  <2> HIDE DEF S
  <2>2. /\ Append(old, commit) \in Seq(S) /\ Len(Append(old, commit)) = len + 1
        /\ \A i \in 1 .. len : Append(old, commit)[i] = old[i]
    BY <2>1, AppendProperties
  <2> QED BY <1>7, <2>2 DEF S
<1>9. HasGrown(history, history')
  <2>1. ASSUME NEW t \in Sources
        PROVE  Len(history[t]) <= Len(history'[t])
               /\ \A i \in 1 .. Len(history[t]) : history'[t][i] = history[t][i]
    <3>1. Len(history[t]) \in Nat
      BY LenProperties DEF SkillsInv, HistoryInv
    <3>2. CASE t = s
      BY <1>2, <1>8, <3>2 DEF old, len
    <3>3. CASE t # s
      BY <1>5, <3>1, <3>3
    <3> QED BY <3>2, <3>3
  <2> QED BY <2>1 DEF HasGrown
<1>10. HistoryInv(history')
  <2>1. \A t \in Sources : history'[t] \in Seq([Files(t) -> Nat]) /\ Len(history'[t]) >= 1
    <3>1. ASSUME NEW t \in Sources
          PROVE  history'[t] \in Seq([Files(t) -> Nat]) /\ Len(history'[t]) >= 1
      <4>1. CASE t = s
        BY <1>2, <1>8, <4>1
      <4>2. CASE t # s
        BY <1>5, <4>2 DEF SkillsInv, HistoryInv
      <4> QED BY <4>1, <4>2
    <3> QED BY <3>1
  <2>2. PushesOf(history') = PushesOf(history) \cup {<<s, len + 1>>}
    <3>1. ASSUME NEW t \in Sources, NEW k
          PROVE  k \in 2 .. Len(history'[t]) <=> (k \in 2 .. Len(history[t]) \/ (t = s /\ k = len + 1))
      <4>1. CASE t = s
        BY <1>2, <1>8, <4>1 DEF len
      <4>2. CASE t # s
        BY <1>5, <4>2
      <4> QED BY <4>1, <4>2
    <3>2. \A p : p \in PushesOf(history') <=> \E t \in Sources : \E k \in 2 .. Len(history'[t]) : p = <<t, k>>
      BY DEF PushesOf
    <3>3. \A p : p \in PushesOf(history) <=> \E t \in Sources : \E k \in 2 .. Len(history[t]) : p = <<t, k>>
      BY DEF PushesOf
    <3> QED BY <3>1, <3>2, <3>3
  <2>3. <<s, len + 1>> \notin PushesOf(history)
    <3>1. ~(len + 1 \in 2 .. Len(history[s]))
      BY <1>2 DEF len
    <3> QED BY <3>1 DEF PushesOf
  <2>4. IsFiniteSet(PushesOf(history)) /\ Pushes = Cardinality(PushesOf(history))
    BY DEF SkillsInv, HistoryInv, Pushes, PushesOf
  <2>5. /\ IsFiniteSet(PushesOf(history'))
        /\ Cardinality(PushesOf(history')) = Cardinality(PushesOf(history)) + 1
        /\ Cardinality(PushesOf(history)) \in Nat
    BY <2>2, <2>3, <2>4, FS_AddElement, FS_CardinalityType
  <2>6. Cardinality(PushesOf(history')) <= MaxPushes
    BY <1>1, <2>4, <2>5, SkillsAssumption
  <2> QED BY <1>4, <2>1, <2>5, <2>6 DEF HistoryInv
<1>11. /\ LockInv(lock, history') /\ LockInv(relocked, history') /\ IsAttested(relocked, history')
       /\ OutcomeInv(outcome, history') /\ JobInv(job, lock, outcome, history')
       /\ ReceiptsInv(receipts, history')
  <2>1. HistoryInv(history) /\ LockInv(lock, history) /\ LockInv(relocked, history)
        /\ IsAttested(relocked, history) /\ OutcomeInv(outcome, history)
        /\ JobInv(job, lock, outcome, history) /\ ReceiptsInv(receipts, history)
    BY DEF SkillsInv
  <2> QED BY <1>9, <1>10, <2>1, LockStays, OutcomeStays, JobStays, ReceiptsStay
<1> QED BY <1>1, <1>10, <1>11 DEF SkillsInv

\* Loading, and the steps of pinning.
LEMMA LoadStep ==
  ASSUME SkillsInv, NEW l \in IF lock = Unread THEN RawLocks ELSE {relocked} \ {Unread}, Load(l)
  PROVE  SkillsInv'
<1>1. /\ lock' = l /\ Validates(l) /\ job = Idle
      /\ UNCHANGED <<history, job, outcome, relocked, receipts>>
  BY DEF Load
<1>2. LockInv(l, history)
  <2>1. CASE l = relocked
    BY <2>1 DEF SkillsInv
  <2>2. CASE l \in RawLocks
    <3>1. /\ IsSkillLock(l) /\ IsWhole(l) /\ l.version \in 0 .. 2
          /\ \A n \in DOMAIN l.skills :
               /\ l.skills[n].source = SourceOf[n] /\ l.skills[n].skillPath = n
               /\ l.skills[n].ref \in Branch .. 1
      BY <2>2, SkillsAssumption
    <3>2. ASSUME NEW n \in DOMAIN l.skills PROVE l.skills[n].ref \in Branch .. Len(history[SourceOf[n]])
      <4>1. SourceOf[n] \in Sources
        BY <3>1 DEF IsSkillLock, Sources
      <4>2. Len(history[SourceOf[n]]) \in Nat /\ Len(history[SourceOf[n]]) >= 1
        BY <4>1, LenProperties DEF SkillsInv, HistoryInv
      <4>3. l.skills[n].ref \in -1 .. 1
        BY <3>1 DEF Branch
      <4> QED BY <4>2, <4>3 DEF Branch
    <3> QED BY <1>1, <3>1, <3>2 DEF LockInv
  <2> QED BY <2>1, <2>2
<1>3. JobInv(job, l, outcome, history)
  BY <1>1 DEF JobInv
<1> QED BY <1>1, <1>2, <1>3 DEF SkillsInv

LEMMA PinSteps ==
  ASSUME SkillsInv, BeginPin \/ (\E s \in Sources : ResolveHead(s)) \/ PinFails \/ Stamp
  PROVE  SkillsInv'
<1>1. HistoryInv(history) /\ LockInv(lock, history) /\ JobInv(job, lock, outcome, history)
  BY DEF SkillsInv
<1>6. WalkInv(job, outcome)
  BY DEF SkillsInv
<1>2. CASE BeginPin
  <2>1. job' = [kind |-> "pin", todo |-> Lookups(lock), resolved |-> Empty]
        /\ UNCHANGED <<history, lock, outcome, relocked, receipts>>
    BY <1>2 DEF BeginPin
  <2>2. Lookups(lock) \subseteq Sources
    BY <1>1 DEF Lookups, LockInv, IsSkillLock, Sources
  <2>3. DOMAIN Empty = {}
    BY DEF Empty
  <2>4. JobInv(job', lock, outcome, history)
    BY <2>1, <2>2, <2>3 DEF JobInv
  <2>5. WalkInv(job', outcome)
    BY <1>2, <1>6, <2>1 DEF BeginPin, WalkInv, Idle
  <2> QED BY <2>1, <2>4, <2>5 DEF SkillsInv
<1>3. ASSUME NEW s \in Sources, ResolveHead(s) PROVE SkillsInv'
  <2>1. /\ job.kind = "pin" /\ s \in job.todo
        /\ job' = [job EXCEPT !.todo = job.todo \ {s},
                              !.resolved = With(job.resolved, s, Len(history[s]))]
        /\ UNCHANGED <<history, lock, outcome, relocked, receipts>>
    BY <1>3 DEF ResolveHead
  <2>2. /\ job \in [kind : {"pin"}, todo : SUBSET Sources, resolved : {job.resolved}]
        /\ job.todo \cup DOMAIN job.resolved = Lookups(lock)
        /\ \A t \in DOMAIN job.resolved : job.resolved[t] \in 1 .. Len(history[t])
    BY <1>1, <2>1 DEF JobInv, Idle
  <2>3. Len(history[s]) \in 1 .. Len(history[s])
    <3>1. Len(history[s]) \in Nat /\ Len(history[s]) >= 1
      BY <1>1, LenProperties DEF HistoryInv
    <3> QED BY <3>1
  <2> DEFINE resolved == With(job.resolved, s, Len(history[s]))
  <2>4. /\ DOMAIN resolved = DOMAIN job.resolved \cup {s}
        /\ \A t \in DOMAIN resolved : resolved[t] \in 1 .. Len(history[t])
    BY <2>2, <2>3 DEF With
  <2> HIDE DEF resolved
  <2>5. /\ job'.kind = "pin" /\ job'.todo = job.todo \ {s} /\ job'.resolved = resolved
        /\ job' \in [kind : {"pin"}, todo : SUBSET Sources, resolved : {resolved}]
    BY <2>1, <2>2 DEF resolved
  <2>6. job'.todo \cup DOMAIN job'.resolved = Lookups(lock)
    BY <2>1, <2>2, <2>4, <2>5
  <2>7. JobInv(job', lock, outcome, history)
    BY <2>4, <2>5, <2>6 DEF JobInv
  <2>8. WalkInv(job', outcome)
    BY <1>6, <2>1, <2>5 DEF WalkInv
  <2> QED BY <2>1, <2>7, <2>8 DEF SkillsInv
<1>4. CASE PinFails
  <2>1. job' = Idle /\ UNCHANGED <<history, lock, outcome, relocked, receipts>>
    BY <1>4 DEF PinFails
  <2>2. JobInv(job', lock, outcome, history)
    BY <2>1 DEF JobInv
  <2>3. WalkInv(job', outcome)
    BY <1>4, <1>6, <2>1 DEF PinFails, WalkInv, Idle
  <2> QED BY <2>1, <2>2, <2>3 DEF SkillsInv
<1>5. CASE Stamp
  <2>1. /\ job.kind = "pin" /\ job.todo = {} /\ lock' = Stamped(lock, job.resolved) /\ job' = Idle
        /\ UNCHANGED <<history, outcome, relocked, receipts>>
    BY <1>5 DEF Stamp
  <2>2. /\ DOMAIN job.resolved = Lookups(lock)
        /\ \A t \in DOMAIN job.resolved : job.resolved[t] \in 1 .. Len(history[t])
    BY <1>1, <2>1 DEF JobInv, Idle
  <2>3. LockInv(lock', history)
    BY <1>1, <2>1, <2>2, StampedIsLock
  <2>4. JobInv(job', lock', outcome, history)
    BY <2>1 DEF JobInv
  <2>5. WalkInv(job', outcome)
    BY <1>6, <2>1 DEF WalkInv, Idle
  <2> QED BY <2>1, <2>3, <2>4, <2>5 DEF SkillsInv
<1> QED BY <1>2, <1>3, <1>4, <1>5

\* What a walk finds at an address is what its source has there, now.
LEMMA ContentIsThere ==
  ASSUME HistoryInv(history), NEW l, LockInv(l, history), NEW n \in DOMAIN l.skills
  PROVE  /\ Content(RawUrl(l.skills[n])) \in Nat
         /\ IsCommit(l.skills[n].ref) =>
              Content(RawUrl(l.skills[n])) = history[SourceOf[n]][l.skills[n].ref][n]
<1>1. l.skills[n].source = SourceOf[n] /\ l.skills[n].skillPath = n
  BY DEF LockInv
<1>2. /\ Len(history[SourceOf[n]]) \in Nat \ {0}
      /\ \A i \in 1 .. Len(history[SourceOf[n]]) : history[SourceOf[n]][i][n] \in Nat
      /\ IsCommit(l.skills[n].ref) => l.skills[n].ref \in 1 .. Len(history[SourceOf[n]])
      /\ l.skills[n].ref \in Int
  BY EntriesAreThere
<1>3. CASE IsCommit(l.skills[n].ref)
  <2>1. l.skills[n].ref # Unpinned
    BY <1>2, <1>3 DEF Unpinned, IsCommit
  <2>2. Content(RawUrl(l.skills[n])) = history[SourceOf[n]][l.skills[n].ref][n]
    BY <1>1, <1>3, <2>1 DEF RawUrl, Content
  <2> QED BY <1>2, <1>3, <2>2
<1>4. CASE ~IsCommit(l.skills[n].ref)
  <2>1. Content(RawUrl(l.skills[n])) = history[SourceOf[n]][Len(history[SourceOf[n]])][n]
    BY <1>1, <1>4 DEF RawUrl, Content
  <2>2. Len(history[SourceOf[n]]) \in 1 .. Len(history[SourceOf[n]])
    BY <1>2
  <2> QED BY <1>2, <1>4, <2>1, <2>2
<1> QED BY <1>3, <1>4

LEMMA BeginFetchStep ==
  ASSUME SkillsInv, NEW l \in {lock, relocked}, BeginFetch(l)
  PROVE  SkillsInv'
<1>1. /\ job' = IF DOMAIN l.skills = {} THEN Idle ELSE [kind |-> "fetch", todo |-> DOMAIN l.skills]
      /\ outcome' = [Nothing EXCEPT !.walk = outcome.walk + 1, !.of = l]
      /\ UNCHANGED <<history, lock, relocked, receipts>>
  BY DEF BeginFetch, WalkOver
<1>2. outcome.walk \in Nat /\ LockInv(l, history)
  BY DEF SkillsInv, OutcomeInv
<1>3. /\ outcome'.of = l /\ DOMAIN outcome'.fetched = {} /\ outcome'.mismatches = {}
      /\ outcome' = [walk |-> outcome.walk + 1, of |-> l, fetched |-> Empty, mismatches |-> {}]
      /\ outcome'.fetched = Empty
  BY <1>1 DEF Nothing, Empty
<1>4. OutcomeInv(outcome', history)
  BY <1>2, <1>3 DEF OutcomeInv
<1>5. JobInv(job', lock, outcome', history)
  BY <1>1, <1>3 DEF JobInv
<1>6. WalkInv(job', outcome')
  BY <1>1, <1>3 DEF WalkInv
<1> QED BY <1>1, <1>4, <1>5, <1>6 DEF SkillsInv

\* An entry arrives, with the digest of what is there, or does not.
LEMMA FetchStep ==
  ASSUME SkillsInv, NEW n \in Skills, FetchOne(n)
  PROVE  SkillsInv'
<1>1. /\ job.kind = "fetch" /\ n \in job.todo /\ (Arrives(n) \/ Unreachable(n))
      /\ job' = IF job.todo = {n} THEN Idle ELSE [job EXCEPT !.todo = job.todo \ {n}]
      /\ UNCHANGED <<history, lock, relocked, receipts>>
  BY DEF FetchOne
<1>2. HistoryInv(history) /\ OutcomeInv(outcome, history)
  BY DEF SkillsInv
<1>3. job \in [kind : {"fetch"}, todo : SUBSET DOMAIN outcome.of.skills]
  <2>1. JobInv(job, lock, outcome, history)
    BY DEF SkillsInv
  <2> QED BY <1>1, <2>1 DEF JobInv, Idle
<1>4. n \in DOMAIN outcome.of.skills /\ LockInv(outcome.of, history)
  <2>1. job.todo \in SUBSET DOMAIN outcome.of.skills
    BY <1>3
  <2> QED BY <1>1, <1>2, <2>1 DEF OutcomeInv
<1>5. /\ outcome \in [walk : Nat, of : {outcome.of}, fetched : {outcome.fetched},
                      mismatches : {outcome.mismatches}]
      /\ DOMAIN outcome.fetched \cup outcome.mismatches \subseteq DOMAIN outcome.of.skills
  BY <1>2 DEF OutcomeInv
<1>6. /\ OutcomeInv(outcome', history) /\ outcome'.of = outcome.of
      /\ DOMAIN outcome.fetched \cup outcome.mismatches \cup {n}
           \subseteq DOMAIN outcome'.fetched \cup outcome'.mismatches
  <2>1. CASE Unreachable(n)
    <3>1. outcome' = [outcome EXCEPT !.mismatches = outcome.mismatches \cup {n}]
      BY <2>1 DEF Unreachable
    <3>2. /\ outcome'.of = outcome.of /\ outcome'.fetched = outcome.fetched
          /\ outcome'.mismatches = outcome.mismatches \cup {n}
          /\ outcome' \in [walk : Nat, of : {outcome'.of}, fetched : {outcome'.fetched},
                           mismatches : {outcome'.mismatches}]
      BY <1>5, <3>1
    <3>3. OutcomeInv(outcome', history)
      BY <1>2, <1>4, <1>5, <3>2 DEF OutcomeInv
    <3> QED BY <3>2, <3>3
  <2>2. CASE Arrives(n)
    <3> DEFINE entry == outcome.of.skills[n]
               digest == Content(RawUrl(entry))
               got == [ref |-> entry.ref, digest |-> digest, matched |-> digest = entry.computedHash]
               fetched == With(outcome.fetched, n, got)
    <3>1. digest \in Nat /\ (IsCommit(entry.ref) => digest = history[SourceOf[n]][entry.ref][n])
      BY <1>2, <1>4, ContentIsThere
    <3>2. got.ref = entry.ref /\ got.digest = digest
      OBVIOUS
    <3>3. PICK missed \in {outcome.mismatches, outcome.mismatches \cup {n}} :
            /\ outcome' = [outcome EXCEPT !.fetched = fetched, !.mismatches = missed]
            /\ n \notin missed => digest = entry.computedHash
      BY <2>2 DEF Arrives
    <3> HIDE DEF digest, got
    <3>4. /\ DOMAIN fetched = DOMAIN outcome.fetched \cup {n} /\ fetched[n] = got
          /\ \A m \in DOMAIN outcome.fetched : m # n => fetched[m] = outcome.fetched[m]
      BY DEF With
    <3> HIDE DEF fetched
    <3>5. /\ outcome'.of = outcome.of /\ outcome'.fetched = fetched /\ outcome'.mismatches = missed
          /\ outcome' \in [walk : Nat, of : {outcome'.of}, fetched : {outcome'.fetched},
                           mismatches : {outcome'.mismatches}]
      BY <1>5, <3>3
    <3>6. DOMAIN fetched \cup missed \subseteq DOMAIN outcome.of.skills
      BY <1>4, <1>5, <3>4
    <3>7. ASSUME NEW m \in DOMAIN fetched
          PROVE  /\ fetched[m].ref = outcome.of.skills[m].ref /\ fetched[m].digest \in Nat
                 /\ IsCommit(fetched[m].ref) =>
                      history[SourceOf[m]][fetched[m].ref][m] = fetched[m].digest
                 /\ m \notin missed => fetched[m].digest = outcome.of.skills[m].computedHash
      <4>1. CASE m = n
        BY <3>1, <3>2, <3>3, <3>4, <4>1
      <4>2. CASE m # n
        <5>1. m \in DOMAIN outcome.fetched /\ fetched[m] = outcome.fetched[m]
          BY <3>4, <4>2
        <5> QED BY <1>2, <3>3, <5>1 DEF OutcomeInv
      <4> QED BY <4>1, <4>2
    <3>8. OutcomeInv(outcome', history)
      BY <1>4, <3>5, <3>6, <3>7 DEF OutcomeInv
    <3>9. outcome.mismatches \subseteq missed
      BY <3>3
    <3> QED BY <3>4, <3>5, <3>8, <3>9
  <2> QED BY <1>1, <2>1, <2>2
<1>7. JobInv(job', lock, outcome', history)
  <2>1. CASE job.todo = {n}
    BY <1>1, <2>1 DEF JobInv
  <2>2. CASE job.todo # {n}
    <3>1. job' = [job EXCEPT !.todo = job.todo \ {n}]
      BY <1>1, <2>2
    <3>2. job' \in [kind : {"fetch"}, todo : SUBSET DOMAIN outcome'.of.skills] /\ job'.kind = "fetch"
      BY <1>3, <1>6, <3>1
    <3> QED BY <3>2 DEF JobInv
  <2> QED BY <2>1, <2>2
<1>8. WalkInv(job', outcome')
  <2>1. DOMAIN outcome.of.skills \subseteq job.todo \cup DOMAIN outcome.fetched \cup outcome.mismatches
    BY <1>1 DEF SkillsInv, WalkInv
  <2>2. CASE job.todo = {n}
    BY <1>1, <1>6, <2>1, <2>2 DEF WalkInv, Idle
  <2>3. CASE job.todo # {n}
    <3>1. job'.kind = "fetch" /\ job'.todo = job.todo \ {n}
      BY <1>1, <1>3, <2>3
    <3> QED BY <1>6, <2>1, <3>1 DEF WalkInv
  <2> QED BY <2>2, <2>3
<1> QED BY <1>1, <1>6, <1>7, <1>8 DEF SkillsInv

LEMMA RelockStep ==
  ASSUME SkillsInv, Relock
  PROVE  SkillsInv'
<1>1. relocked' = RelockOf(outcome, lock) /\ UNCHANGED <<history, lock, job, outcome, receipts>>
  BY DEF Relock
<1>2. LockInv(relocked', history) /\ IsAttested(relocked', history)
  BY <1>1, RelockedIsLock DEF SkillsInv
<1> QED BY <1>1, <1>2 DEF SkillsInv

\* A walk that ends clean has found every entry as the lockfile has it.
LEMMA CleanIsAttested ==
  ASSUME SkillsInv, NEW l, IsClean(l), job = Idle
  PROVE  IsAttested(l, history)
<1>1. OutcomeInv(outcome, history) /\ outcome.of = l /\ outcome.mismatches = {}
  BY DEF SkillsInv, IsClean
<1>2. DOMAIN l.skills \subseteq DOMAIN outcome.fetched
  BY <1>1 DEF SkillsInv, WalkInv, Idle
<1>3. ASSUME NEW n \in DOMAIN l.skills, IsCommit(l.skills[n].ref)
      PROVE  history[SourceOf[n]][l.skills[n].ref][n] = l.skills[n].computedHash
  BY <1>1, <1>2, <1>3 DEF OutcomeInv
<1> QED BY <1>3 DEF IsAttested

LEMMA SignStep ==
  ASSUME SkillsInv, NEW l \in {lock, relocked}, Sign(l)
  PROVE  SkillsInv'
<1> DEFINE new == [lock |-> l, wire |-> Receipt(l), checked |-> l = relocked \/ IsClean(l)]
<1>1. /\ job = Idle /\ Signable(l) /\ Len(receipts) < MaxReceipts
      /\ receipts' = Append(receipts, new)
      /\ UNCHANGED <<history, lock, job, outcome, relocked>>
  BY DEF Sign
<1>2. ReceiptInv(new, history)
  <2>1. \E id, prior :
          Receipt(l) = SignedReceipt(SkillSnapshot(id, LockMerkleRoot(l), prior,
                                                   Cardinality(DOMAIN l.skills), l.version), Signer)
    BY DEF Receipt
  <2>2. new.lock = l /\ new.wire = Receipt(l) /\ (new.checked <=> l = relocked \/ IsClean(l))
    BY Zenon
  <2>3. LockInv(l, history)
    BY DEF SkillsInv
  <2>4. l = relocked \/ IsClean(l) => IsAttested(l, history)
    BY <1>1, CleanIsAttested DEF SkillsInv
  <2> HIDE DEF new
  <2> QED BY <1>1, <2>1, <2>2, <2>3, <2>4 DEF ReceiptInv
<1> HIDE DEF new
<1>3. PICK S : receipts \in Seq(S)
  BY DEF SkillsInv, ReceiptsInv
<1> DEFINE T == S \cup {new}
<1>4. receipts \in Seq(T) /\ new \in T /\ Len(receipts) \in Nat
  BY <1>3, LenProperties, SeqMonotonic
<1>5. /\ receipts' \in Seq(T) /\ Len(receipts') = Len(receipts) + 1
      /\ \A i \in 1 .. Len(receipts) : receipts'[i] = receipts[i]
      /\ receipts'[Len(receipts) + 1] = new
  <2>1. receipts' = Append(receipts, new)
    BY <1>1 DEF new
  <2> HIDE DEF T
  <2> QED BY <1>4, <2>1, AppendProperties
<1>6. ASSUME NEW i \in 1 .. Len(receipts') PROVE ReceiptInv(receipts'[i], history)
  <2>1. CASE i \in 1 .. Len(receipts)
    BY <1>5, <2>1 DEF SkillsInv, ReceiptsInv
  <2>2. CASE i = Len(receipts) + 1
    BY <1>2, <1>5, <2>2
  <2> QED BY <1>4, <1>5, <2>1, <2>2
<1>7. Len(receipts') <= MaxReceipts
  BY <1>1, <1>4, <1>5, SkillsAssumption
<1>8. ReceiptsInv(receipts', history)
  BY <1>5, <1>6, <1>7 DEF ReceiptsInv
<1> QED BY <1>1, <1>8 DEF SkillsInv

LEMMA SkillsStep == SkillsInv /\ [Next]_vars => SkillsInv'
<1> SUFFICES ASSUME SkillsInv, [Next]_vars PROVE SkillsInv'
  OBVIOUS
<1>1. ASSUME NEW l \in IF lock = Unread THEN RawLocks ELSE {relocked} \ {Unread}, Load(l)
      PROVE  SkillsInv'
  BY <1>1, LoadStep
<1>2. CASE BeginPin \/ (\E s \in Sources : ResolveHead(s)) \/ PinFails \/ Stamp
  BY <1>2, PinSteps
<1>3. ASSUME NEW l \in {lock, relocked}, BeginFetch(l) PROVE SkillsInv'
  BY <1>3, BeginFetchStep
<1>4. ASSUME NEW n \in Skills, FetchOne(n) PROVE SkillsInv'
  BY <1>4, FetchStep
<1>5. CASE Relock
  BY <1>5, RelockStep
<1>6. ASSUME NEW l \in {lock, relocked}, Sign(l) PROVE SkillsInv'
  BY <1>6, SignStep
<1>7. ASSUME NEW s \in Sources, Push(s) PROVE SkillsInv'
  BY <1>7, PushStep
<1>8. CASE UNCHANGED vars
  BY <1>8 DEF vars, SkillsInv
<1> QED BY <1>1, <1>2, <1>3, <1>4, <1>5, <1>6, <1>7, <1>8 DEF Next

--------------------------------------------------------------------------------
(* What the invariant says.                                                   *)

\* A source has no more commits than were pushed, and its first one.
LEMMA CommitsAreBounded ==
  ASSUME NEW h, HistoryInv(h), NEW s \in Sources
  PROVE  Len(h[s]) \in 1 .. MaxPushes + 1
<1> DEFINE len == Len(h[s])
           f == [k \in 2 .. len |-> <<s, k>>]
<1>1. len \in Nat /\ len >= 1
  BY LenProperties DEF HistoryInv
<1>2. IsFiniteSet(PushesOf(h)) /\ Cardinality(PushesOf(h)) <= MaxPushes /\ MaxPushes \in Nat
      /\ Cardinality(PushesOf(h)) \in Nat
  BY SkillsAssumption, FS_CardinalityType DEF HistoryInv
<1>3. f \in [2 .. len -> PushesOf(h)]
  BY DEF PushesOf
<1>4. \A i, j \in 2 .. len : f[i] = f[j] => i = j
  OBVIOUS
<1> HIDE DEF f, len
<1>5. f \in Injection(2 .. len, PushesOf(h))
  BY <1>3, <1>4, Fun_IsInj
<1>6. Cardinality(2 .. len) <= Cardinality(PushesOf(h))
  BY <1>2, <1>5, FS_Injection
<1>7. Cardinality(2 .. len) = IF 2 > len THEN 0 ELSE len - 2 + 1
  BY <1>1, FS_Interval
<1>8. len \in 1 .. MaxPushes + 1
  BY <1>1, <1>2, <1>6, <1>7
<1> QED BY <1>8 DEF len

\* Lockfiles that agree in what the digest is taken of, and in their version, are
\* one lockfile.
LEMMA SameLock ==
  ASSUME NEW h, NEW l, LockInv(l, h), NEW m, LockInv(m, h), l.version = m.version,
         DOMAIN l.skills = DOMAIN m.skills,
         \A n \in DOMAIN l.skills : Provenance(l.skills[n]) = Provenance(m.skills[n])
  PROVE  l = m
<1>1. /\ l \in [version : Nat, skills : [DOMAIN l.skills -> LockEntry]]
      /\ m \in [version : Nat, skills : [DOMAIN m.skills -> LockEntry]]
  BY DEF LockInv, IsSkillLock
<1>2. ASSUME NEW n \in DOMAIN l.skills PROVE l.skills[n] = m.skills[n]
  <2>1. l.skills[n] \in LockEntry /\ m.skills[n] \in LockEntry
    BY <1>1
  <2>2. l.skills[n].wellFormedHash = TRUE /\ m.skills[n].wellFormedHash = TRUE
    BY <2>1 DEF LockInv, Validates, LockEntry
  <2>3. Provenance(l.skills[n]) = Provenance(m.skills[n])
    OBVIOUS
  <2>4. /\ l.skills[n].source = m.skills[n].source /\ l.skills[n].sourceType = m.skills[n].sourceType
        /\ l.skills[n].skillPath = m.skills[n].skillPath /\ l.skills[n].ref = m.skills[n].ref
        /\ l.skills[n].computedHash = m.skills[n].computedHash
    BY <2>3 DEF Provenance
  <2> QED BY <2>1, <2>2, <2>4 DEF LockEntry
<1>3. l.skills = m.skills
  BY <1>1, <1>2
<1> QED BY <1>1, <1>3

LEMMA ReceiptsAreKept ==
  ASSUME SkillsInv, NEW i \in DOMAIN receipts
  PROVE  ReceiptInv(receipts[i], history)
<1>1. PICK S : receipts \in Seq(S)
  BY DEF SkillsInv, ReceiptsInv
<1>2. DOMAIN receipts = 1 .. Len(receipts)
  BY <1>1, LenProperties
<1> QED BY <1>2 DEF SkillsInv, ReceiptsInv

\* Every registry of a federation is one that was configured, and serves a lockfile:
\* this node the one it works on.
LEMMA ServedIsLock ==
  ASSUME SkillsInv, NEW registries \in Federations
  PROVE  /\ DOMAIN registries = DOMAIN Configured
         /\ \A i \in DOMAIN Configured :
              /\ registries[i].host = Configured[i].host /\ registries[i].kind = Configured[i].kind
              /\ LockInv(registries[i].lock, history)
              /\ Configured[i].kind = Local => registries[i].lock = lock
<1> DEFINE offered == {Unread} \cup {receipts[k].lock : k \in DOMAIN receipts}
           remote == {i \in DOMAIN Configured : Configured[i].kind # Local}
<1>1. PICK served \in [remote -> offered] :
        registries = [i \in DOMAIN Configured |->
          Registry(i, IF Configured[i].kind = Local THEN lock ELSE served[i])]
  BY DEF Federations
<1>2. ASSUME NEW l \in offered PROVE LockInv(l, history)
  BY ReceiptsAreKept, UnreadIsLock DEF ReceiptInv
<1>3. LockInv(lock, history)
  BY DEF SkillsInv
<1>4. ASSUME NEW i \in DOMAIN Configured
      PROVE  /\ registries[i].host = Configured[i].host /\ registries[i].kind = Configured[i].kind
             /\ LockInv(registries[i].lock, history)
             /\ Configured[i].kind = Local => registries[i].lock = lock
  <2>1. registries[i] = Registry(i, IF Configured[i].kind = Local THEN lock ELSE served[i])
    BY <1>1
  <2>2. Configured[i].kind # Local => served[i] \in offered
    BY <1>1
  <2> HIDE DEF offered
  <2> QED BY <1>2, <1>3, <2>1, <2>2 DEF Registry
<1> QED BY <1>1, <1>4

\* A set of numbers up to n has a least element.
LEMMA HasLeast ==
  ASSUME NEW n \in Nat, NEW T, T \subseteq 1 .. n, T # {}
  PROVE  \E x \in T : \A y \in T : x <= y
<1> DEFINE upto == [k \in T |-> 1 .. k]
           F == {upto[k] : k \in T}
<1>1. \A k \in T : k \in 1 .. n /\ upto[k] = 1 .. k /\ upto[k] \in SUBSET (1 .. n)
  OBVIOUS
<1>2. IsWellFoundedOn(StrictSubsetOrdering(1 .. n), FiniteSubsetsOf(1 .. n))
  BY FS_Interval, FS_StrictSubsetOrderingWellFounded
<1>3. F \subseteq FiniteSubsetsOf(1 .. n) /\ F # {}
  <2>1. IsFiniteSet(1 .. n)
    BY FS_Interval
  <2>2. SUBSET (1 .. n) = FiniteSubsetsOf(1 .. n)
    BY <2>1, FS_FiniteSubsetsOfFinite
  <2> HIDE DEF upto
  <2>3. F \subseteq SUBSET (1 .. n) /\ F # {}
    BY <1>1
  <2> QED BY <2>2, <2>3
<1> HIDE DEF upto
<1>4. PICK s \in F : \A t \in F : ~ (<<t, s>> \in StrictSubsetOrdering(1 .. n))
  <2> HIDE DEF F
  <2> QED BY <1>2, <1>3, WFMin
<1>5. PICK x \in T : s = upto[x]
  OBVIOUS
<1>6. ASSUME NEW y \in T, y < x PROVE FALSE
  <2>1. upto[y] \subseteq upto[x] /\ upto[y] # upto[x]
    <3>1. y \in 1 .. n /\ x \in 1 .. n /\ upto[y] = 1 .. y /\ upto[x] = 1 .. x
      BY <1>1
    <3>2. x \in upto[x] /\ x \notin upto[y]
      BY <1>6, <3>1
    <3> QED BY <1>6, <3>1, <3>2
  <2>2. ~ (<<upto[y], upto[x]>> \in StrictSubsetOrdering(1 .. n))
    BY <1>4, <1>5
  <2> QED BY <1>1, <2>1, <2>2 DEF StrictSubsetOrdering
<1> QED BY <1>1, <1>6

\* The registries are listed, each with its kind.
LEMMA ConfiguredIsList ==
  /\ Len(Configured) \in Nat /\ DOMAIN Configured = 1 .. Len(Configured)
  /\ \A i \in DOMAIN Configured : Configured[i].kind \in 1 .. 3
<1> DEFINE S == [host : {Configured[i].host : i \in DOMAIN Configured}, kind : 1 .. 3]
<1>1. Configured \in Seq(S)
  BY SkillsAssumption
<1>2. \A r \in S : r.kind \in 1 .. 3
  OBVIOUS
<1> HIDE DEF S
<1>3. Len(Configured) \in Nat /\ DOMAIN Configured = 1 .. Len(Configured)
  BY <1>1, LenProperties
<1>4. \A i \in 1 .. Len(Configured) : Configured[i] \in S
  BY <1>1, ElementOfSeq
<1> QED BY <1>2, <1>3, <1>4

\* Of any registries one comes first, and it is of the least kind there is.
LEMMA OneComesFirst ==
  ASSUME SkillsInv, NEW registries \in Federations,
         NEW having, having \subseteq DOMAIN registries, having # {}
  PROVE  /\ \E i \in having : \A j \in having \ {i} : ComesFirst(registries, i, j)
         /\ \A i \in having : (\A j \in having \ {i} : ComesFirst(registries, i, j)) =>
              \A j \in having : registries[i].kind <= registries[j].kind
<1> DEFINE n == Len(Configured)
<1>1. /\ n \in Nat /\ DOMAIN registries = 1 .. n
      /\ \A i \in 1 .. n : registries[i].kind \in 1 .. 3
  <2>1. n \in Nat /\ DOMAIN Configured = 1 .. n /\ \A i \in 1 .. n : Configured[i].kind \in 1 .. 3
    BY ConfiguredIsList
  <2> QED BY <2>1, ServedIsLock
<1> HIDE DEF n
<1>2. \A i \in having : i \in 1 .. n /\ i \in Nat /\ registries[i].kind \in 1 .. 3
  BY <1>1
<1>3. PICK i \in having : \A j \in having : registries[i].kind <= registries[j].kind
  <2>1. CASE \E i \in having : registries[i].kind = 1
    BY <1>2, <2>1
  <2>2. CASE (\A i \in having : registries[i].kind # 1) /\ \E i \in having : registries[i].kind = 2
    BY <1>2, <2>2
  <2>3. CASE \A i \in having : registries[i].kind = 3
    BY <2>3
  <2> QED BY <1>2, <2>1, <2>2, <2>3
<1> DEFINE T == {j \in having : registries[j].kind = registries[i].kind}
<1>4. T \subseteq 1 .. n /\ T # {}
  BY <1>1
<1>5. PICK x \in T : \A y \in T : x <= y
  <2> HIDE DEF T
  <2> QED BY <1>1, <1>4, HasLeast
<1>6. ASSUME NEW j \in having \ {x} PROVE ComesFirst(registries, x, j)
  <2>1. x \in having /\ registries[x].kind = registries[i].kind
    BY <1>5
  <2>2. registries[x].kind <= registries[j].kind
    BY <1>3, <2>1
  <2>3. CASE registries[j].kind = registries[x].kind
    <3>1. x <= j /\ x # j
      BY <1>5, <2>1, <2>3
    <3>2. x < j
      BY <1>2, <2>1, <3>1
    <3> QED BY <2>3, <3>2 DEF ComesFirst
  <2>4. CASE registries[j].kind # registries[x].kind
    <3>1. registries[x].kind < registries[j].kind
      BY <1>2, <2>1, <2>2, <2>4
    <3> QED BY <3>1 DEF ComesFirst
  <2> QED BY <2>3, <2>4
<1>7. ASSUME NEW k \in having, \A j \in having \ {k} : ComesFirst(registries, k, j), NEW j \in having
      PROVE  registries[k].kind <= registries[j].kind
  <2>1. CASE j = k
    BY <1>2, <2>1
  <2>2. CASE j # k
    <3>1. ComesFirst(registries, k, j)
      BY <1>7, <2>2
    <3> QED BY <1>2, <3>1 DEF ComesFirst
  <2> QED BY <2>1, <2>2
<1> QED BY <1>5, <1>6, <1>7

LEMMA TypeHolds == SkillsInv => TypeOK
<1> SUFFICES ASSUME SkillsInv PROVE TypeOK
  OBVIOUS
<1>1. Pushes \in 0 .. MaxPushes
  <2>1. Pushes = Cardinality(PushesOf(history)) /\ IsFiniteSet(PushesOf(history))
        /\ Cardinality(PushesOf(history)) <= MaxPushes
    BY DEF SkillsInv, HistoryInv, Pushes, PushesOf
  <2> QED BY <2>1, FS_CardinalityType, SkillsAssumption
<1>2. ASSUME NEW l, LockInv(l, history) PROVE IsLock(l)
  <2>1. ASSUME NEW n \in DOMAIN l.skills PROVE l.skills[n].ref \in Branch .. MaxPushes + 1
    <3>1. /\ SourceOf[n] \in Sources /\ l.skills[n].ref \in Int
          /\ l.skills[n].ref \in Branch .. Len(history[SourceOf[n]])
      BY <1>2, EntriesAreThere DEF SkillsInv, LockInv
    <3>2. Len(history[SourceOf[n]]) \in 1 .. MaxPushes + 1
      BY <3>1, CommitsAreBounded DEF SkillsInv
    <3> QED BY <3>1, <3>2, SkillsAssumption DEF Branch
  <2> QED BY <1>2, <2>1 DEF LockInv, IsLock, IsSkillLock
<1>3. /\ LockInv(lock, history) /\ LockInv(relocked, history) /\ LockInv(outcome.of, history)
      /\ DOMAIN outcome.fetched \cup outcome.mismatches \subseteq DOMAIN outcome.of.skills
  BY DEF SkillsInv, OutcomeInv
<1>4. job.kind \in {"idle", "pin", "fetch"}
  BY DEF SkillsInv, JobInv, Idle
<1>5. Len(receipts) <= MaxReceipts
  BY DEF SkillsInv, ReceiptsInv
<1> QED BY <1>1, <1>2, <1>3, <1>4, <1>5 DEF TypeOK

--------------------------------------------------------------------------------
(* The theorems.                                                              *)

\* Lockfiles, jobs and outcomes keep their shape, and no ref runs ahead of what
\* was pushed.
THEOREM TypeCorrect == Spec => []TypeOK
<1> QED BY TypeHolds, SkillsInit, SkillsStep, PTL DEF Spec

\* pin_refs stamps every entry of a lockfile or none, and relock keeps it so.
THEOREM PinningIsWhole == Spec => []PinnedAsOne
<1>1. SkillsInv => PinnedAsOne
  BY DEF SkillsInv, LockInv, PinnedAsOne
<1> QED BY <1>1, SkillsInit, SkillsStep, PTL DEF Spec

\* A signed lockfile that relock returned, or that the last walk found as it was,
\* can be fetched again with the digests that were signed.
THEOREM SignedCorrect == Spec => []CheckedIsReproducible
<1>1. ASSUME SkillsInv, NEW i \in DOMAIN receipts, receipts[i].checked,
             NEW n \in DOMAIN receipts[i].lock.skills
      PROVE  /\ IsCommit(receipts[i].lock.skills[n].ref)
             /\ Content(RawUrl(receipts[i].lock.skills[n])) = receipts[i].lock.skills[n].computedHash
  <2>1. /\ LockInv(receipts[i].lock, history) /\ IsAttested(receipts[i].lock, history)
        /\ Signable(receipts[i].lock)
    BY <1>1, ReceiptsAreKept DEF ReceiptInv
  <2>2. IsCommit(receipts[i].lock.skills[n].ref)
    BY <2>1 DEF Signable
  <2>3. Content(RawUrl(receipts[i].lock.skills[n])) =
          history[SourceOf[n]][receipts[i].lock.skills[n].ref][n]
    BY <1>1, <2>1, <2>2, ContentIsThere DEF SkillsInv
  <2> QED BY <2>1, <2>2, <2>3 DEF IsAttested
<1>2. SkillsInv => CheckedIsReproducible
  BY <1>1 DEF CheckedIsReproducible
<1> QED BY <1>2, SkillsInit, SkillsStep, PTL DEF Spec

\* verify_lock_receipt accepts a receipt with the lockfile it was signed for, and
\* with no other that a client may hold.
THEOREM ReceiptCorrect == Spec => []ReceiptFitsOneLock
<1>1. ASSUME SkillsInv, NEW i \in DOMAIN receipts, NEW l, LockInv(l, history)
      PROVE  VerifiesLock(l, receipts[i].wire, Signer) <=> l = receipts[i].lock
  <2> DEFINE m == receipts[i].lock
             wire == receipts[i].wire
             count == Cardinality(DOMAIN m.skills)
  <2>1. LockInv(m, history) /\ Signable(m)
    BY <1>1, ReceiptsAreKept DEF ReceiptInv
  <2>2. PICK id, prior :
          wire = SignedReceipt(SkillSnapshot(id, LockMerkleRoot(m), prior, count, m.version), Signer)
    BY <1>1, ReceiptsAreKept DEF ReceiptInv
  <2> HIDE DEF m, wire, count
  <2>3. /\ TypedVerifies(wire, Signer)
        /\ FieldOf(wire, "lock_merkle_root") = Bytes(32, LockMerkleRoot(m))
        /\ FieldOf(wire, "lock_version") = Uint(m.version)
        /\ FieldOf(wire, "skill_count") = Uint(count)
    BY <2>2, SignedReceiptVerifies
  <2>4. l = m => VerifiesLock(l, wire, Signer)
    BY <2>1, <2>3 DEF VerifiesLock, count
  <2>5. ASSUME VerifiesLock(l, wire, Signer) PROVE l = m
    <3>1. Bytes(32, LockMerkleRoot(l)) = Bytes(32, LockMerkleRoot(m)) /\ Uint(l.version) = Uint(m.version)
      BY <2>3, <2>5 DEF VerifiesLock
    <3>2. LockMerkleRoot(l) = LockMerkleRoot(m) /\ l.version = m.version
      BY <3>1 DEF Bytes, Uint
    <3>3. IsSkillLock(l) /\ IsSkillLock(m)
      BY <1>1, <2>1 DEF LockInv
    <3>4. /\ DOMAIN l.skills = DOMAIN m.skills
          /\ \A n \in DOMAIN l.skills : Provenance(l.skills[n]) = Provenance(m.skills[n])
      BY <3>2, <3>3, DigestBinds
    <3> QED BY <1>1, <2>1, <3>2, <3>4, SameLock
  <2> QED BY <2>4, <2>5 DEF m, wire
<1>2. ASSUME SkillsInv,
             NEW l \in {lock, relocked, outcome.of} \cup {receipts[j].lock : j \in DOMAIN receipts}
      PROVE  LockInv(l, history)
  <2>1. \A j \in DOMAIN receipts : LockInv(receipts[j].lock, history)
    BY <1>2, ReceiptsAreKept DEF ReceiptInv
  <2> QED BY <1>2, <2>1 DEF SkillsInv, OutcomeInv
<1>3. SkillsInv => ReceiptFitsOneLock
  BY <1>1, <1>2 DEF ReceiptFitsOneLock
<1> QED BY <1>3, SkillsInit, SkillsStep, PTL DEF Spec

\* A host names one registry.
LEMMA NamedIsOne ==
  ASSUME SkillsInv, NEW registries \in Federations, NEW i \in DOMAIN registries
  PROVE  /\ Named(registries[i].host, registries) = {i}
         /\ (CHOOSE k \in {i} : \A j \in {i} : k <= j) = i
<1>1. Named(registries[i].host, registries) = {i}
  <2>1. DOMAIN registries = DOMAIN Configured
        /\ \A k \in DOMAIN Configured : registries[k].host = Configured[k].host
    BY ServedIsLock
  <2> QED BY <2>1, SkillsAssumption DEF Named
<1>2. i <= i
  <2>1. i \in DOMAIN Configured
    BY ServedIsLock
  <2>2. i \in Nat
    BY <2>1, ConfiguredIsList
  <2> QED BY <2>2
<1> QED BY <1>1, <1>2

\* resolve_by_id answers from this node's own lockfile when it can, whichever
\* registries are configured and whatever they serve, and resolve takes the address
\* it gives back to the same entry.
THEOREM LocalCorrect == Spec => []LocalAnswersFirst
<1>1. ASSUME SkillsInv, NEW n \in Skills, NEW registries \in Federations
      PROVE  LET hit == ResolveById(n, registries)
             IN  /\ \A i \in DOMAIN Configured :
                      Configured[i].kind = Local /\ n \in DOMAIN lock.skills => hit.kind = Local
                 /\ hit # NoHit => Resolve(hit.uri, registries) = hit
  <2> DEFINE having == {i \in DOMAIN registries : n \in DOMAIN registries[i].lock.skills}
             first == CHOOSE i \in having : \A j \in having \ {i} : ComesFirst(registries, i, j)
             registry == registries[first]
             uri == Uri(registry.host, n, registry.lock.skills[n])
  <2>1. /\ DOMAIN registries = DOMAIN Configured
        /\ \A i \in DOMAIN Configured :
             /\ registries[i].kind = Configured[i].kind
             /\ Configured[i].kind = Local => registries[i].lock = lock
    BY <1>1, ServedIsLock
  <2>2. ASSUME NEW i \in DOMAIN Configured, Configured[i].kind = Local, n \in DOMAIN lock.skills
        PROVE  i \in having /\ registries[i].kind = Local
    BY <2>1, <2>2
  <2>3. CASE having = {}
    <3>1. ResolveById(n, registries) = NoHit
      BY <2>3 DEF ResolveById
    <3> QED BY <2>2, <2>3, <3>1
  <2>4. CASE having # {}
    <3>1. ResolveById(n, registries) = Hit(registry, uri)
      BY <2>4 DEF ResolveById
    <3>2. first \in having /\ \A j \in having : registries[first].kind <= registries[j].kind
      <4>1. having \subseteq DOMAIN registries
        OBVIOUS
      <4> HIDE DEF having
      <4>2. \E i \in having : \A j \in having \ {i} : ComesFirst(registries, i, j)
        BY <1>1, <2>4, <4>1, OneComesFirst
      <4>3. first \in having /\ \A j \in having \ {first} : ComesFirst(registries, first, j)
        BY <4>2
      <4> HIDE DEF first
      <4> QED BY <1>1, <2>4, <4>1, <4>3, OneComesFirst
    <3> HIDE DEF first
    <3>3. first \in DOMAIN registries /\ n \in DOMAIN registry.lock.skills
      BY <3>2
    <3>4. registry.kind \in 1 .. 3
      <4>1. registries[first].kind \in 1 .. 3
        BY <2>1, <3>3, ConfiguredIsList
      <4> QED BY <4>1
    <3>5. ASSUME NEW i \in DOMAIN Configured, Configured[i].kind = Local, n \in DOMAIN lock.skills
          PROVE  Hit(registry, uri).kind = Local
      <4>1. registry.kind <= Local
        BY <2>2, <3>2, <3>5
      <4> QED BY <3>4, <4>1 DEF Hit, Local
    <3>6. uri.registry = registry.host /\ uri.skill = n /\ uri.version = registry.lock.skills[n].ref
      BY DEF Uri
    <3> HIDE DEF uri, having
    <3>7. Hit(registry, uri).uri = uri
      BY DEF Hit
    <3>8. Resolve(uri, registries) = Hit(registry, uri)
      <4>1. Named(uri.registry, registries) = {first} /\ (CHOOSE k \in {first} : \A j \in {first} : k <= j) = first
        BY <1>1, <3>3, <3>6, NamedIsOne
      <4>2. Answers(registry, uri)
        BY <3>3, <3>6 DEF Answers
      <4> QED BY <4>1, <4>2 DEF Resolve
    <3> QED BY <3>1, <3>5, <3>7, <3>8
  <2> QED BY <2>3, <2>4
<1>2. SkillsInv => LocalAnswersFirst
  BY <1>1 DEF LocalAnswersFirst
<1> QED BY <1>2, SkillsInit, SkillsStep, PTL DEF Spec

\* An address of a signed lockfile leads to one file at one commit, or nowhere,
\* whatever resolve finds in the registry it names.
THEOREM AddressesCorrect == Spec => []PinnedIsImmutable
<1>1. ASSUME SkillsInv, NEW i \in DOMAIN receipts, NEW k \in DOMAIN Configured,
             NEW registries \in Federations, NEW uri \in UrisFor(receipts[i].lock, Configured[k].host)
      PROVE  LET now == Resolve(uri, registries)
             IN  /\ IsCommit(uri.version)
                 /\ now = NoHit \/ RawUrl(now.entry) = RawUrl(receipts[i].lock.skills[uri.skill])
  <2> DEFINE l == receipts[i].lock
             host == Configured[k].host
             m == registries[k].lock
  <2>1. LockInv(l, history) /\ Signable(l)
    BY <1>1, ReceiptsAreKept DEF ReceiptInv
  <2>2. k \in DOMAIN registries /\ registries[k].host = host /\ LockInv(m, history)
    BY <1>1, ServedIsLock
  <2>3. PICK n \in DOMAIN l.skills : uri = [registry |-> host, skill |-> n, version |-> l.skills[n].ref]
    BY DEF UrisFor, Uri
  <2>4. uri.registry = host /\ uri.skill = n /\ uri.version = l.skills[n].ref
    BY <2>3
  <2>5. IsCommit(l.skills[n].ref) /\ l.skills[n].ref \in Int
    BY <1>1, <2>1, EntriesAreThere DEF Signable, SkillsInv
  <2>6. l.skills[n].ref # Unpinned
    BY <2>5 DEF IsCommit, Unpinned
  <2>7. Named(uri.registry, registries) = {k} /\ (CHOOSE x \in {k} : \A j \in {k} : x <= j) = k
    BY <1>1, <2>2, <2>4, NamedIsOne
  <2> HIDE DEF l, m
  <2>8. ASSUME Resolve(uri, registries) # NoHit
        PROVE  RawUrl(Resolve(uri, registries).entry) = RawUrl(l.skills[n])
    <3>1. Answers(registries[k], uri) /\ Resolve(uri, registries) = Hit(registries[k], uri)
      BY <2>7, <2>8 DEF Resolve
    <3>2. n \in DOMAIN m.skills /\ m.skills[n].ref = l.skills[n].ref
      BY <2>4, <2>6, <3>1 DEF Answers, m
    <3>3. Resolve(uri, registries).entry = m.skills[n]
      BY <2>4, <3>1 DEF Hit, m
    <3>4. m.skills[n].source = l.skills[n].source /\ m.skills[n].skillPath = l.skills[n].skillPath
      BY <2>1, <2>2, <3>2 DEF LockInv, m
    <3> QED BY <3>2, <3>3, <3>4 DEF RawUrl
  <2> QED BY <2>4, <2>5, <2>8 DEF l
<1>2. SkillsInv => PinnedIsImmutable
  BY <1>1 DEF PinnedIsImmutable
<1> QED BY <1>2, SkillsInit, SkillsStep, PTL DEF Spec
================================================================================
