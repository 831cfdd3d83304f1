-------------------------------- MODULE SyncLoop -------------------------------
(* One scrape tick of loops/sync.rs, statement by statement, over the mirror  *)
(* and snapshot tables.  run_tick_blocking fetches every page, plans the      *)
(* snapshot, upserts each mirrorable envelope, soft-deletes or evicts the     *)
(* names that were not listed, signs, records, prunes.  Nothing joins these   *)
(* statements in a transaction: the tick may stop between any two of them, by *)
(* an error or by a crash of the process, and the next tick starts over from  *)
(* whatever the tables then hold.                                             *)
(*                                                                            *)
(* Upstream lists versions in the order (name, version) and cuts its list as  *)
(* it is when a page is asked for: PageSize envelopes after the place of the  *)
(* cursor.  A version that comes or goes between two requests therefore moves *)
(* every later page boundary.                                                 *)
EXTENDS MirrorStore, SnapshotStore

CONSTANTS
  Listings,         \* what upstream may list: sequences of envelopes
  Enrichable,       \* names whose publishers declare enrichment
  PageSize,         \* MAX_PAGE_LIMIT
  MaxPagesPerRun,   \* MAX_PAGES_PER_RUN
  MaxSnapshots,     \* bound on the rows of snapshots
  MaxFailures       \* bound on the failed statements and crashes

Ordered(u) == \A i, j \in DOMAIN u : i < j => u[i].at < u[j].at

ASSUME SyncAssumption ==
  /\ Listings \subseteq Seq(Envelope)
  /\ \A u \in Listings : Ordered(u)
  /\ Enrichable \subseteq Names
  /\ PageSize \in Nat \ {0}
  /\ MaxPagesPerRun \in Nat \ {0}
  /\ MaxSnapshots \in Nat
  /\ MaxFailures \in Nat

VARIABLES
  upstream,     \* the listing the upstream registry serves now
  pc,           \* the statement of run_tick_blocking that runs next
  page,         \* the number of the page to fetch
  cursor,       \* the place of the last envelope fetched, 0 before the first page
  listing,      \* envelopes: what this tick has fetched
  prior,        \* prior_hash, read before anything is written
  next,         \* the envelope persist_changes upserts next
  cached,       \* reconcile_soft_deletes_blocking: the rows it still has to visit
  nowAge,       \* age of the clock reading it compares with and stamps rows with
  failures,     \* failed statements and crashes so far
  unlistedFor,  \* history: age of the last upsert of each name
  served        \* history: what upstream listed during the fetch of this tick

tickVars == <<page, cursor, listing, prior, next, cached, nowAge>>
ghostVars == <<unlistedFor, served>>
vars == <<mirror, enriched, snapshots, upstream, pc, page, cursor, listing, prior,
          next, cached, nowAge, failures, unlistedFor, served>>

Statements == {"fetch", "plan", "upsert", "diff", "reconcile", "record", "prune"}

TypeOK ==
  /\ MirrorTypeOK
  /\ SnapshotsTypeOK
  /\ upstream \in Listings
  /\ pc \in Statements \cup {"idle"}
  /\ page \in 0 .. MaxPagesPerRun
  /\ cursor \in Nat
  /\ listing \in Seq(Envelope)
  /\ prior \in Digests \cup {NoHash}
  /\ next \in Nat
  /\ cached \subseteq Names \X (Ages \cup {None})
  /\ nowAge \in Ages
  /\ failures \in 0 .. MaxFailures
  /\ unlistedFor \in [Names -> Ages]
  /\ served \subseteq Listings

\* Rows older than the artifact columns may be there when the loop first runs.
Init ==
  /\ MirrorInit
  /\ snapshots \in {<<>>, <<LegacyRow(MerkleRoot(<<>>), NoHash)>>}
  /\ upstream \in Listings
  /\ pc = "idle"
  /\ page = 0 /\ cursor = 0 /\ listing = <<>> /\ prior = NoHash
  /\ next = 0 /\ cached = {} /\ nowAge = 0
  /\ failures = 0
  /\ unlistedFor = [n \in Names |-> Retention]
  /\ served = {}

--------------------------------------------------------------------------------
(* The tick.                                                                  *)

\* run: the cadence sleep is over (or this is the first tick of the process).
BeginTick ==
  /\ pc = "idle"
  /\ pc' = "fetch"
  /\ page' = 1 /\ cursor' = 0 /\ listing' = <<>>
  /\ served' = {upstream}
  /\ UNCHANGED <<mirror, enriched, snapshots, upstream, prior, next, cached,
                 nowAge, failures, unlistedFor>>

\* The part of a listing that a cursor skips: "items strictly after" it remain.
Skipped(u, c) == Cardinality({i \in DOMAIN u : u[i].at <= c})

HasNextCursor(u, c) == Skipped(u, c) + PageSize < Len(u)

PageAfter(u, c) ==
  SubSeq(u, Skipped(u, c) + 1,
         IF HasNextCursor(u, c) THEN Skipped(u, c) + PageSize ELSE Len(u))

\* Mutant of NextCursor: the next request goes out with the cursor of this one.
CursorKept(u, c) == c

\* next_cursor: the token of the last envelope of the page.
NextCursor(u, c) == u[Skipped(u, c) + PageSize].at

\* Mutant of AnotherPage: the range of the page loop is inclusive.
CapInclusive == HasNextCursor(upstream, cursor) /\ page <= MaxPagesPerRun

\* Whether the loop over pages goes round again: reaching the page cap ends the
\* fetch exactly as an absent next_cursor does.
AnotherPage == HasNextCursor(upstream, cursor) /\ page < MaxPagesPerRun

\* fetch_all_pages, one iteration.
FetchPage ==
  /\ pc = "fetch"
  /\ listing' = listing \o PageAfter(upstream, cursor)
  /\ IF AnotherPage
     THEN page' = page + 1 /\ cursor' = NextCursor(upstream, cursor) /\ pc' = "fetch"
     ELSE UNCHANGED <<page, cursor>> /\ pc' = "plan"
  /\ UNCHANGED <<mirror, enriched, snapshots, upstream, prior, next, cached,
                 nowAge, failures, ghostVars>>

\* latest_hash and build_snapshot_plan.
PlanSnapshot ==
  /\ pc = "plan"
  /\ prior' = LatestHash
  /\ next' = 1
  /\ pc' = "upsert"
  /\ UNCHANGED <<mirror, enriched, snapshots, upstream, page, cursor, listing, cached,
                 nowAge, failures, ghostVars>>

\* persist_changes, one envelope: those from_envelope rejected are skipped.
PersistChange ==
  /\ pc = "upsert"
  /\ next \in DOMAIN listing
  /\ next' = next + 1
  /\ LET e == listing[next]
     IN  IF e.valid
         THEN /\ UpsertServer(e.name, e.doc)
              /\ unlistedFor' = [unlistedFor EXCEPT ![e.name] = 0]
         ELSE UNCHANGED <<mirror, enriched, unlistedFor>>
  /\ UNCHANGED <<snapshots, upstream, pc, page, cursor, listing, prior, cached, nowAge,
                 failures, served>>

PersistDone ==
  /\ pc = "upsert"
  /\ next \notin DOMAIN listing
  /\ pc' = "diff"
  /\ UNCHANGED <<mirror, enriched, snapshots, upstream, tickVars, failures, ghostVars>>

\* compute_full_diff reads only; reconcile_soft_deletes_blocking then reads the
\* names, the stamps and the clock once, and skips every name the tick has listed.
ReadCachedState ==
  /\ pc = "diff"
  /\ cached' = {c \in CachedState : c[1] \notin NamesIn(listing)}
  /\ nowAge' = 0
  /\ pc' = "reconcile"
  /\ UNCHANGED <<mirror, enriched, snapshots, upstream, page, cursor, listing, prior, next,
                 failures, ghostVars>>

\* The three arms of the match on deleted_at.
MarkRow(c) ==
  /\ c[2] = None
  /\ MarkDeleted(c[1], nowAge)

RetainRow(c) ==
  /\ c[2] # None /\ c[2] < Retention
  /\ UNCHANGED mirrorVars

\* Mutant of EvictRow: a stamp suffices, whatever its age.
EvictStamped(c) ==
  /\ c[2] # None
  /\ Evict(c[1])

EvictRow(c) ==
  /\ c[2] # None /\ c[2] >= Retention
  /\ Evict(c[1])

ReconcileRow ==
  /\ pc = "reconcile"
  /\ \E c \in cached :
       /\ cached' = cached \ {c}
       /\ MarkRow(c) \/ RetainRow(c) \/ EvictRow(c)
  /\ UNCHANGED <<snapshots, upstream, pc, page, cursor, listing, prior, next, nowAge,
                 failures, ghostVars>>

\* persist_snapshot: sign over the receipt with the signature zeroed.
SignSnapshot ==
  /\ pc = "reconcile"
  /\ cached = {}
  /\ Len(snapshots) < MaxSnapshots
  /\ pc' = "record"
  /\ nowAge' = 0
  /\ UNCHANGED <<mirror, enriched, snapshots, upstream, page, cursor, listing, prior, next,
                 cached, failures, ghostVars>>

\* snapshots.record: the insert, then the prune, each autocommitted.
RecordSnapshot ==
  /\ pc = "record"
  /\ InsertSnapshot(MerkleRoot(listing), prior)
  /\ pc' = "prune"
  /\ UNCHANGED <<mirror, enriched, upstream, tickVars, failures, ghostVars>>

\* The locals of run_tick_blocking go when it returns, by Ok or by Err.
ForgetTick ==
  /\ pc' = "idle"
  /\ page' = 0 /\ cursor' = 0 /\ listing' = <<>> /\ prior' = NoHash
  /\ next' = 0 /\ cached' = {} /\ nowAge' = 0 /\ served' = {}

PruneAndFinish ==
  /\ pc = "prune"
  /\ PruneEntrySets
  /\ ForgetTick
  /\ UNCHANGED <<mirror, enriched, upstream, failures, unlistedFor>>

--------------------------------------------------------------------------------
(* How a tick stops early: every local of run_tick_blocking is dropped and    *)
(* nothing that was written is undone.                                        *)

AbandonTick ==
  /\ ForgetTick
  /\ UNCHANGED <<mirror, enriched, snapshots, upstream, unlistedFor>>

\* A page fetch or a database statement fails, or the process crashes.  An upstream
\* that answers 400 to a cursor whose version has gone is one such failure.
TickFails ==
  /\ pc # "idle"
  /\ failures < MaxFailures
  /\ failures' = failures + 1
  /\ AbandonTick

\* Vault refuses or cannot be reached: it may stay so for as long as it likes.
SignFails ==
  /\ pc = "reconcile"
  /\ cached = {}
  /\ AbandonTick
  /\ UNCHANGED failures

\* The foreign key refuses the eviction, and the error ends the tick.
EvictRefused ==
  /\ pc = "reconcile"
  /\ \E c \in cached :
       c[2] # None /\ c[2] >= Retention /\ ~EvictAllowed(c[1])
  /\ AbandonTick
  /\ UNCHANGED failures

--------------------------------------------------------------------------------
(* The surroundings.                                                          *)

\* Upstream publishes, edits or removes servers at any time, also between two
\* page fetches of one tick.
UpstreamChanges ==
  /\ upstream' \in Listings \ {upstream}
  /\ served' = IF pc = "fetch" THEN served \cup {upstream'} ELSE served
  /\ UNCHANGED <<mirror, enriched, snapshots, pc, tickVars, failures, unlistedFor>>

\* The enrichment loop or a publisher's declaration writes an enrichment row.
Enrich ==
  /\ \E n \in Enrichable \ enriched : UpsertEnrichment(n)
  /\ UNCHANGED <<snapshots, upstream, pc, tickVars, failures, ghostVars>>

TimePasses ==
  /\ AgeRows
  /\ unlistedFor' = [n \in Names |-> Older(unlistedFor[n])]
  /\ nowAge' = IF pc = "reconcile" THEN Older(nowAge) ELSE nowAge
  /\ UNCHANGED <<snapshots, upstream, pc, page, cursor, listing, prior, next, cached,
                 failures, served>>

TickStep ==
  \/ BeginTick \/ FetchPage \/ PlanSnapshot \/ PersistChange \/ PersistDone
  \/ ReadCachedState \/ ReconcileRow \/ SignSnapshot \/ RecordSnapshot
  \/ PruneAndFinish \/ SignFails \/ EvictRefused

Next == TickStep \/ TickFails \/ UpstreamChanges \/ Enrich \/ TimePasses

Spec == Init /\ [][Next]_vars

\* The loop never stops retrying, the clock runs, and Vault does not refuse for
\* ever: a tick that reaches it again and again is signed in the end.
Fairness ==
  /\ WF_vars(TickStep)
  /\ WF_vars(TimePasses)
  /\ SF_vars(SignSnapshot)

FairSpec == Spec /\ Fairness

--------------------------------------------------------------------------------
(* Properties.                                                                *)

CoveredBy(root) ==
  /\ LiveRows = {n \in Names : \E d \in Docs : root[<<n, d>>] > 0}
  /\ \A n \in LiveRows : root[<<n, mirror[n].doc>>] > 0

\* When a snapshot has just been recorded, its root digests exactly what the
\* mirror serves: every live row is in the digest with the document it holds,
\* and no digested name is missing or soft-deleted.  The mirror is written
\* statement by statement before the snapshot is, over whatever an abandoned
\* tick has left there.
SnapshotDescribesMirror ==
  pc = "prune" => CoveredBy(snapshots[Len(snapshots)].root)

\* The entry sets that are kept belong to the newest rows without a gap, so the
\* snapshot served as the latest can always be recomputed from its entries,
\* also when prunes fail or the process dies before them.
EntrySetsAreNewest ==
  /\ \A i, j \in DOMAIN snapshots :
       snapshots[i].entries /\ i < j => snapshots[j].entries
  /\ Verifiable # {} => LatestArtifact \in WithEntries

\* A row disappears only when no tick has listed its name for the whole
\* soft-delete window, however often the name came and went before.
NoEarlyEviction ==
  [][\A n \in Names :
       mirror[n] # None /\ mirror'[n] = None => unlistedFor[n] >= Retention]_vars

\* The mirrorable versions of a listing, as <<name, place>>, and all its places.
Versions(u) == {<<u[i].name, u[i].at>> : i \in {j \in DOMAIN u : u[j].valid}}
Places(u) == {u[i].at : i \in DOMAIN u}

\* A version is out of the reach of the page cap when so many places up to its own
\* were listed in the course of the fetch that the pages could hold no more.
SeenUpTo(a) == {b \in UNION {Places(u) : u \in served} : b <= a}
WithinCap(a) == Cardinality(SeenUpTo(a)) <= PageSize * MaxPagesPerRun

\* The versions that were mirrorable at every moment of the fetch.
Steady == {v \in UNION {Versions(u) : u \in served} : \A u \in served : v \in Versions(u)}

\* A name that has one version which upstream lists, mirrorable and within the
\* reach of the page cap, at every moment of a tick's fetch is not soft-deleted by
\* that tick, however many other versions come and go between two pages and
\* move the page boundaries.  It must be one version: a name whose only mirrorable
\* version is behind the cursor when it appears and ahead of it when it goes is
\* missed.
ListedIsNotDeleted ==
  [][\A n \in LiveRows :
       mirror'[n] # None /\ mirror'[n].deletedFor # None
         => \A v \in Steady : v[1] = n => ~WithinCap(v[2])]_vars

\* The snapshots are an append-only chain of roots: no failure, crash or prune
\* between the read of the prior root and the insert breaks or rewrites a link.
History == INSTANCE SnapshotHistory
             WITH Roots <- Digests, NoRoot <- NoHash,
                  history <- [i \in 1 .. Len(snapshots) |->
                                [root |-> snapshots[i].root, prev |-> snapshots[i].prev]]
ImplementsHistory == History!Spec

\* What a fetch brings in from a listing that stays as it is.
Fetched(u) ==
  LET reach == PageSize * MaxPagesPerRun
  IN  SubSeq(u, 1, IF Len(u) > reach THEN reach ELSE Len(u))

MirrorReflects(u) ==
  \A n \in Names :
    IF n \in NamesIn(Fetched(u))
    THEN /\ n \in LiveRows
         /\ \E i \in DOMAIN Fetched(u) :
              /\ Fetched(u)[i].valid
              /\ Fetched(u)[i].name = n /\ Fetched(u)[i].doc = mirror[n].doc
    ELSE mirror[n] = None

Expired(n) == n \in Rows /\ mirror[n].deletedFor = Retention

\* A row that reconciliation cannot get past: its window has expired and its
\* enrichment row keeps it from being evicted.
Blocked == \E n \in enriched : Expired(n)

\* Once upstream settles on a listing and no row is blocked, the mirror comes to
\* hold exactly the listed servers, and the unlisted ones are gone for good:
\* soft-deleted, retained for the window, evicted.
MirrorConverges ==
  \A u \in Listings : <>[](upstream = u /\ ~Blocked) => <>[]MirrorReflects(u)

\* Snapshots go on being recorded, up to the bound on them, by a loop whose rows
\* are not blocked for ever: failures, refused signatures and changes of upstream
\* only delay them.
KeepsPublishing == <>[]~Blocked => <>(Len(snapshots) = MaxSnapshots)

\* Only a server that upstream has removed is marked for soft-delete ("marks
\* removed ones for soft-delete", the module's own account): never one whose
\* envelope the tick has fetched.
OnlyRemovedIsMarked ==
  [][\A n \in LiveRows :
       mirror'[n] # None /\ mirror'[n].deletedFor # None
         => \A i \in DOMAIN listing : listing[i].name # n]_vars

\* A row whose soft-delete window has expired is evicted, unless upstream lists
\* the name again (PgMirrorStore::evict: "Permanently evict a row whose
\* soft-delete window has expired.").
ExpiredIsEvicted ==
  \A n \in Names : Expired(n) ~> (mirror[n] = None \/ n \in LiveRows \/ n \in NamesIn(Fetched(upstream)))
================================================================================
