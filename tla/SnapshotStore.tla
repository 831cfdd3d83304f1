----------------------------- MODULE SnapshotStore -----------------------------
(* The snapshots table behind PgSnapshotStore, as the sequence of its rows in *)
(* the order of scraped_at, which is the order every query of it asks for.    *)
(* The sync loop reads the clock once per snapshot and ticks are minutes      *)
(* apart, so an insert goes to the end: a wall clock that is set back between *)
(* two ticks is outside this model.                                           *)
EXTENDS RegistryData

CONSTANTS
  EntryRetention,  \* RCX_REGISTRY_ENTRY_SET_RETENTION, 24 unless configured
  NoHash           \* the Option::None of previous_snapshot_hash

ASSUME SnapshotAssumption ==
  /\ EntryRetention \in Nat \ {0}
  /\ NoHash \notin Digests

VARIABLE snapshots

\* prev is signed inside the receipt and has no column of its own; receipt and
\* entries say whether receipt_cbor and entries_json are NOT NULL.
SnapshotRow == [root : Digests, prev : Digests \cup {NoHash},
                receipt : BOOLEAN, entries : BOOLEAN]

SnapshotsTypeOK == snapshots \in Seq(SnapshotRow)

\* A row written before the artifact columns existed: both stay NULL for ever.
LegacyRow(h, p) == [root |-> h, prev |-> p, receipt |-> FALSE, entries |-> FALSE]

--------------------------------------------------------------------------------
\* Mutant of LatestHash: rows without a receipt are passed over.
LatestSignedHash ==
  IF snapshots = <<>> \/ ~snapshots[Len(snapshots)].receipt THEN NoHash
  ELSE snapshots[Len(snapshots)].root

\* latest_hash: the newest row, verifiable or not.
LatestHash ==
  IF snapshots = <<>> THEN NoHash ELSE snapshots[Len(snapshots)].root

\* Mutant of InsertSnapshot: the conflict is one of roots, so that a mirror that
\* stays as it is records nothing.
InsertOnNewRoot(root, prev) ==
  snapshots' = IF \E i \in DOMAIN snapshots : snapshots[i].root = root
               THEN snapshots
               ELSE Append(snapshots, [root |-> root, prev |-> prev,
                                       receipt |-> TRUE, entries |-> TRUE])

\* record, first statement: INSERT ... ON CONFLICT (snapshot_id) DO NOTHING.
\* Ids are nanosecond timestamps, so the conflict does not arise.
InsertSnapshot(root, prev) ==
  snapshots' = Append(snapshots, [root |-> root, prev |-> prev,
                                  receipt |-> TRUE, entries |-> TRUE])

WithEntries == {i \in DOMAIN snapshots : snapshots[i].entries}

\* Mutant of Newest: ORDER BY scraped_at, the DESC forgotten.
Oldest(S, k) == {i \in S : Cardinality({j \in S : j < i}) < k}

\* The rows that ORDER BY scraped_at DESC LIMIT k picks out of S.
Newest(S, k) == {i \in S : Cardinality({j \in S : j > i}) < k}

\* record, second statement: prune_entry_sets drops the entry sets that are not
\* among the newest EntryRetention, and never a row.
PruneEntrySets ==
  snapshots' = [i \in 1 .. Len(snapshots) |->
                  [snapshots[i] EXCEPT
                     !.entries = (i \in Newest(WithEntries, EntryRetention))]]

\* latest_artifact: the newest verifiable row, 0 when there is none.
Verifiable == {i \in DOMAIN snapshots : snapshots[i].receipt}
LatestArtifact ==
  IF Verifiable = {} THEN 0
  ELSE CHOOSE i \in Verifiable : \A j \in Verifiable : j <= i
================================================================================
