# RCX-Registry in TLA+

RCX-Registry mirrors the upstream MCP server registry, signs what it mirrors, and
lets publishers prove control of a namespace and attach enrichment to their
servers. This directory holds TLA+ modules of its core, the TLC configurations
that model-check them, and TLAPS proofs.

Paths below are relative to the repository root; `server/` abbreviates
`crates/rcx-registry-server/src/` and `api/` abbreviates `crates/rcx-registry-api/src/`.

## 1. The system

| Component | State | Operations | What makes it hard | What makes it correct |
|---|---|---|---|---|
| Mirror tables (`server/db/mirror.rs`) | `mcp_servers`, one row per name, with `deleted_upstream_at` | upsert, mark deleted, evict, cached state; list, list versions, get | autocommitted statements, a foreign key from enrichment, cursors that outlive their row | a row is served iff upstream lists it; it survives its window; paging misses nothing that stays |
| Snapshot tables (`server/db/snapshots.rs`) | `snapshots`, receipts for ever, entry sets for the newest 24 | record and prune, latest hash, latest artifact, list by cursor | prune after commit, legacy rows with no receipt | append-only chain; the latest artifact always has its entries |
| Sync loop (`server/loops/sync.rs`, `crates/rcx-registry-ingest`) | last run, last diff; the locals of a tick | fetch pages, plan, upsert, diff, soft-delete and evict, sign, record | stops between any two statements; upstream changes between pages; page cap; malformed envelopes; Vault down | a signed root digests the mirror; listed is not deleted; unlisted is evicted, not early; publication resumes |
| Publisher rights (`crates/rcx-registry-admin`, `api/lib.rs`, `server/db/publisher_rights.rs`) | nonces and OAuth states (in memory), rate windows (in memory), `publisher_rights` | DNS challenge and verify, GitHub start and callback, manual verify, declare | concurrent requests with one nonce, expiry races, DNS and GitHub calls in the middle of a handler, restart | a proof is used once, in time, for what it was issued for; a row rests on a proof |
| Enrichment (`server/loops/enrich.rs`, `server/db/publisher_enrichment.rs`, `crates/rcx-registry-enrich`) | `rcx_enrichment` and its publisher metadata | daily refresh sweep, declaration, read for the API | sweep and declaration race; two statements per upsert; one bad envelope ends the sweep | each receipt supersedes the one before it; row and metadata agree |
| Signing (`server/vault.rs`, `server/main.rs`, `api/snapshot_artifacts.rs`) | token source, published key | sign, read the public key with back-off, publish or mark unsigned | Vault not ready at boot, key rotation | the published key verifies what is signed; every process settles what it publishes |
| Public API (`api/lib.rs`) | none of its own beyond the above | routes, decoration of envelopes | blocking work on worker threads | belongs to the components above |
| Receipts (`crates/rcx-registry-crown`) | none | canonical CBOR, hashes, signatures | argument widths, map order, zeroed fields in two preimages | one encoding per value; what verifies was signed |
| Verifier and CLI (`crates/rcx-verify`, `crates/rcx-cli`), SDKs | none | verify receipt, snapshot, publisher, namespace, history | which step decides which verdict | a history that passes is a chain |
| Skills lockfiles (`crates/rcx-registry-skills`) | `skills-lock.json` | pin, fetch, relock, sign, verify, resolve `skill://` addresses | sources move between two requests, half-pinned files, a signature over what nobody fetched | what was relocked or checked, and then signed, can be fetched again; an address keeps its meaning |
| Migrations (`server/db/migrations.rs`) | applied files | run all pending | two starters race, stops between check and commit | each file takes effect once, in order, before anyone serves |
| Config, health, metrics, HTTP clients, front door, ops, attest stub | – | – | – | not modelled: no state that a property could relate |

How they meet: the sync loop and the enrichment sweep are two tasks of one process
(`server/main.rs:142-191`) beside the HTTP handlers; they share nothing but
PostgreSQL, through autocommitted statements. The sync loop calls upstream by HTTP
and Vault for signatures. The nonce, OAuth and rate-limit maps live in the process
and go with it.

## 2. The plan

Most important behaviour first; a module is done when its runs pass, its
properties have mutants and its theorems are proved.

1. `RegistryData`, `MirrorStore`, `SnapshotStore`, `SyncLoop` with the abstract
   `SnapshotHistory` – **done**, with proofs of all its safety properties.
2. `TokenStore`, `RateWindows`, `RateLimiter`, `PublisherRights` with the abstract
   `OneTimeProofs` – **done**: nonces and OAuth states, DNS and GitHub proofs, the
   rate limiter, restarts, with proofs of all their safety properties for every number
   of requests and tokens and every budget.
3. `Enrichment` – **done**: sweep against declarations, the two-statement upsert,
   supersession, restarts, with proofs of its safety properties.
4. `Startup` – **done**, with proofs of its two safety properties: migrations by
   processes that race, then signing and the publication of the key. The plan had
   these as two modules; they are two stretches of one process's life, and a restart
   is what joins them.
5. `Listing` – **done**: cursor paging over the mirror while the sync loop writes it, with proofs
   of both properties.
6. `CborHeads`, `Receipts`, `Verifier`, `Skills` – **done**: encoding, signatures,
   verdicts and chains, and the lockfiles that are signed with them, with proofs of all
   their properties.

Every safety property of a passing run is proved; what is left to TLC alone is liveness.

A module of the cadence policy was planned and dropped: `SyncLoop` allows any gap
between two ticks, so no property of the system rests on the next delay.
Of the twelve runs three are of the sync loop, two each of item 2, of `Enrichment` and
of `Verifier`, and one each of `Startup`, `Listing` and `Skills`.

## 3. Modules

**`RegistryData`** – envelopes and the snapshot digest. `snapshot_merkle_root` sorts
its entries before hashing, so a root is the multiset of `(name, doc)` it was built
from. `doc` stands for the version and the canonical JSON of a server. `valid` is the
verdict of `MirroredServer::from_envelope`. `at` is the place of an envelope in upstream's
order, by name and version: every version of a name has one, and a cursor is a place.

**`MirrorStore`** – `mcp_servers` as a function from names to rows, and the set of
names that have an enrichment row. One operator per SQL statement. A timestamp is
its age; ages stop at `Retention`, since the code only compares an age with the window.

**`SnapshotStore`** – `snapshots` as a sequence in the order of `scraped_at`.

**`SyncLoop`** – `run` and `run_tick_blocking`, one action per statement or per
iteration of a loop:

| Action | Code (`server/loops/sync.rs`) |
|---|---|
| `BeginTick` | the cadence sleep ends, `tick` |
| `FetchPage` | one iteration of `fetch_all_pages`: `PageSize` envelopes after `cursor` of what upstream lists at that moment, the next cursor, page cap included |
| `PlanSnapshot` | `latest_hash`, `build_snapshot_plan` |
| `PersistChange`, `PersistDone` | one iteration of `persist_changes`; malformed envelopes skipped |
| `ReadCachedState` | `compute_full_diff` and the reads of `reconcile_soft_deletes_blocking` |
| `ReconcileRow` | one iteration of it: mark, retain or evict |
| `SignSnapshot`, `RecordSnapshot`, `PruneAndFinish` | `persist_snapshot`, `PgSnapshotStore::record` |
| `TickFails`, `SignFails`, `EvictRefused` | the tick returns `Err`, or the process stops |
| `UpstreamChanges`, `Enrich`, `TimePasses` | upstream, the enrichment writers, the clock |

A tick that stops loses its locals and nothing else. A crash of the process and an
error of the tick have the same effect here, so they are one action.
`unlistedFor` and `served` are history variables: the age of the last upsert of a
name, and the listings upstream has had in the course of this fetch. Upstream is modelled
from the query that is sent (`limit=100`, `cursor`): it cuts a page by count, after the
cursor it gave with the page before. A listing that changes between two pages moves every
later page boundary, and envelopes hop over it in both directions.

**`SnapshotHistory`** – the abstract specification: a history of links in which each
names the root of the one before it, extended at the end only. It is the rule that
`verify_history` of `rcx-verify` checks. `SyncLoop` implements it with `history` the
roots and prior roots of the rows.

**`MCSyncLoop`** – the listings used by TLC. **`SyncLoopProofs`** – the theorems.

**`TokenStore`** – `NonceStore` and `OAuthStateStore` of `pop.rs`, which are the same
map twice: an operator per method, each atomic because the method holds the mutex
throughout. An expiry instant is kept as the age of the token.

**`RateWindows`** – the map of the `RateLimiter` of `api/lib.rs`, and
**`RateLimiter`** – that map on its own, with a record of what it has admitted.

**`PublisherRights`** – the mutating handlers, one request per member of `Requests`,
over two instances of `TokenStore`, one of `RateWindows`, the table
`publisher_rights`, the TXT records and the resolver's cache. A handler is at a
`stage`, named for what it is about to call:

| Action | Code (`api/lib.rs` unless named) |
|---|---|
| `Receive`, `TurnAway` | the rate limiter and the checks up to the first store |
| `IssueNonce`, `IssueState` | `dns_challenge`, `github_oauth_start` |
| `SpendNonce` | `consume` and `verify_pop` in `dns_verify` and `declare_publisher_enrichment` |
| `SpendState` | `consume` in `github_oauth_callback` |
| `LookupTxt` | `lookup_txt` (`server/dns.rs`) and `verify_dns_txt`, the label check of a declaration |
| `LookupRights` | the rights lookup of a declaration |
| `ExchangeCode` | `exchange_code` and the owner check |
| `Record` | the upsert of the three verifications, or of a declaration |
| `RequestFails` | any early return with an error, and a panic |
| `Restart`, `EditTxt`, `TimePasses` | the process, the owners of domains, the clock |

`dns_verify`, `github_oauth_callback`, `manual_verify` and declarations run on
blocking threads (`spawn_store`), so any two steps of two requests interleave; there
is no lock over more than one map operation. A client that goes away does not stop
its thread. `issued`, `named`, `burnt` and `written` are history variables. A token
that was never issued stands for itself: it costs a slot of the rate limiter
(`TurnAway`) and does nothing else.

**`OneTimeProofs`** – the abstract specification: a proof is offered to one subject,
claimed at most once and within its lifetime, and authorises at most one write.
`PublisherRights` implements it with `offered` the two maps together and `claimed`
the requests that have spent a token and not yet written.

**`MCPublisherRights`**, **`MCRateLimiter`** – the instances for TLC.
**`PublisherRightsProofs`**, **`RateLimiterProofs`** – the theorems.

**`Enrichment`** – the two writers of `rcx_enrichment` and its metadata: the refresh
sweep and the declare handler from where `PublisherRights` leaves it, one action per
statement:

| Action | Code (`server/loops/enrich.rs`, `api/lib.rs`, `server/db/publisher_enrichment.rs`) |
|---|---|
| `BeginSweep`, `NextRow`, `Fetch` | `run_sweep`: the rows of the mirror, discovery metadata, the fetch from the publisher |
| `Receive` | a declaration that has been authorised, with its checks |
| `LookupRights`, `ReadPrior` | the rights of the passport, the prior record |
| `WriteRow`, `WriteMeta` | the two statements of `upsert` |
| `Fails`, `Restart` | an error or a stop of one writer, of the process |
| `Upsert`, `Evict`, `Host`, `Verify` | the sync loop, publishers, `publisher_rights` |

A receipt is the hash of a content that includes the prior hash, so it is modelled as
the chain of contents it ends; two receipts are one iff all that came before them is.
`published`, `raced` and `torn` are history variables: the receipts that were minted,
the servers whose prior two writers held at once, and those whose two rows may differ
because a writer stopped or was crossed between them. **`EnrichmentProofs`** – the
theorems.

**`CborHeads`** – the heads of canonical CBOR: the width an argument or a float is
written with and the forms that are read back. `Limit` holds the first argument that
is too wide for each width.

**`Receipts`** – the document types of `rcx-registry-crown` as maps of fields in the
order of their encoded keys, the preimage of the hash (three fields neutralised), the
preimage of the signature (one), the digests of snapshots and lockfiles. BLAKE3 and
Ed25519 are free constructors: equal results come from equal inputs.

**`Verifier`** – a registry that publishes receipts and rotates its key, and somebody
who holds documents from it, in any order, with gaps and repetitions, or edited in one
field, in the order of two, or in the form of an argument. The five verbs of
`rcx-verify` are operators that return the code of the first check that fails;
`ExitCode` is the CLI around them, `Answer` the conformance adapter. `DecoderPanics` is what
the decoder does not return from: a map or an array that claims more entries than there is
memory for (`Capacity`), or a length that overflows its position (`Overload`).
**`VerifierProofs`** – the theorems about it, `Receipts` and `CborHeads`.

**`Skills`** – the calls of the lockfile library: `BeginPin`, `ResolveHead`, `Stamp`
pin every source to its head; `BeginFetch`, `FetchOne` walk the entries; `Relock`
makes a lockfile of what was fetched; `Sign` signs whatever `signable` accepts, be it
loaded, just pinned or relocked; `Push` is a source that moves between two requests.
`Resolve` and `ResolveById` look an address up in a federation: the registries in
`Configured`, of which this node serves its lockfile and each of the others any lockfile
that was signed, or none (`Federations`). `checked`, in a receipt, is a history variable:
relock had returned the lockfile, or the last walk over it was clean (`is_clean`).
**`SkillsProofs`** – the theorems.

**`Listing`** – `GET /v0/servers` and the version routes (`api/lib.rs`,
`server/db/mirror.rs`) for a client that follows `nextCursor`. A request is one
SELECT, so it is one action (`ListServers`, `InvalidCursor`, `NotFound`) between
writes of the sync loop (`Upsert`, `MarkDeleted`, `Evict`). `steady` and `fresh` are
history variables: the rows nobody has written since the walk began, and those nobody
has written since they were listed. **`ListingProofs`** – the theorems.

**`Startup`** – a process from exec to a settled key, several of them over one
database and one Vault:

| Action | Code (`server/db/migrations.rs`, `server/vault.rs`, `server/main.rs`) |
|---|---|
| `Start`, `Stop` | the supervisor (`restart: unless-stopped`); any failed statement or crash |
| `CreateTracker`, `Check` | `CREATE TABLE IF NOT EXISTS`, `SELECT EXISTS` |
| `RunSql`, `SqlFails` | `tx.batch_execute`, which waits for a transaction on the same objects |
| `Mark`, `MarkFails`, `Commit` | the insert into the tracker, `tx.commit` |
| `Sign`, `SignFails` | `sign` and its check of the prefix of a signature |
| `ResolveKey` | one probe of `resolve_signing_key` that Vault answers, with a version of the key or with none (`Keyless`) |
| `Outage`, `Recover`, `Rotate` | Vault, its token and its operator |

`runs` counts the commits of a file's SQL and `since` is the key version at the start
of a process; both are history variables.

**`MCEnrichment`**, **`MCVerifier`**, **`MCSkills`**, **`MCListing`**, **`MCStartup`** –
the instances for TLC. **`StartupProofs`** – the theorems about `Startup`.

## 4. Runs

| Run | Question | Result |
|---|---|---|
| `sync` | Does a snapshot describe the mirror, are the entry sets the newest, does a row outlive its window, does a listed version keep its row, is the history a chain? Does the mirror converge to a listing that settles, and do snapshots go on being recorded, as long as no row is blocked for ever? Failures, crashes, a refusing Vault, listings that move under the cursor, an enriched name, a legacy row or none. | holds |
| `sync_wedge` | Is a row whose window has expired evicted (`mirror.rs:88`)? | **no**: the foreign key of `rcx_enrichment` refuses it for ever, and every tick ends there, before the snapshot |
| `sync_broken` | Is only a removed server marked (`sync.rs:5`)? | **no**: a listed server whose envelope does not parse is marked too |
| `rights_safety` | Is a nonce or a state claimed once, in time, for its server, and good for one write (`ImplementsOneTimeProofs`)? Is it burnt by a failure (`NoWriteAfterFailure`)? Does a write by nonce rest on a TXT record that has named the key (`WritesRestOnControl`), and a row on a proof for its namespace (`RowsRestOnProofs`)? | holds |
| `rate_limit` | Does the limiter keep to twice the budget over any window's length, refuse only who has spent a budget, and admit again who keeps asking? | holds |
| `enrichment` | Do the two rows of a record describe one receipt (`HalvesAgree`), do receipts supersede one another in a line (`ForksOnlyWhenRaced`), does each rest on a rights row (`ReceiptsRestOnRights`), and does the declaration a publisher hosts get on record (`HostedIsRecorded`)? Except where two writers hold one prior, or stop or cross between two statements. | holds |
| `enrich_fork` | Do the receipts of a server form a chain (spec 06, section 6.7)? | **no**: two declarations that read the same prior both supersede it |
| `verifier` | Does what was signed verify and what verifies come from a signature, is a history that verifies gapless, does a root bind its set and a declaration its name, and do exit codes and answers say just that? | holds |
| `verifier_panics` | Does the adapter answer every request (`CONTRACT.md:181`, "never a crash")? | **no**: one damaged head of a published receipt ends it |
| `skills` | Can a signed lockfile be fetched again if it was relocked or checked before it was signed, is pinning whole, does a receipt fit one lockfile, does this node answer for what it has locked, does a pinned address keep its meaning? | holds |
| `listing` | Is a row that nobody writes listed exactly once, and is a client refused only after a write to the row it asked for? | holds |
| `startup` | Does every file take effect once, in order and before anyone serves, does the published key fit the signatures, and does every process settle? | holds |

Bounds, sync loop. Two names and two documents: a property speaks of one name at a time, the
second one is the bystander, and two documents tell an old row from a new one. A page
holds two envelopes and the cap is two pages. Of the two listings of `sync` the one has
two versions of `n1`, which fill the first page, and one of `n2`, on the second; the
other has no `n1`, so the version of `n2` moves to the first page, among versions that do
not parse, with one that does beyond the cap. A change between two pages thus takes the
version of `n2` from ahead of the cursor to behind it, and back. `Retention = 2` tells a
stamp that is fresh, one that is older and one that has expired. `MaxSnapshots = 2` counts every
row of `snapshots`, a legacy row too: where there is none, the second snapshot is published
over what the first one left, and the prune (`EntryRetention = 1`) drops the entries of the
first; after a legacy row there is one, whose receipt names a row without a receipt. One
failure or crash: the tables after two abandoned ticks are also reachable after one, from another
listing. No symmetry is used: the two names play different parts in the listings.

Bounds, publisher rights. Two requests are what a race for a token takes, and two
tokens let one be spent while another lives. The thirteen request bodies are the good
ones and, for each thing a handler looks at, one that differs in it: another server of
the namespace, another key, label, fingerprint, redirect or GitHub account. `Ttl = 1`
makes a token live, live at its last instant, and expired. The budget is 1 per window
of 1, so that requests are refused. The TXT record flips between the two fingerprints.
Tokens and requests are symmetric: no definition tells them apart, and the run has
no liveness property. `rate_limit` uses a budget of 2 in a window of 3 units and two
clients whose windows start apart. Requests per client are not bounded; the counter
stops one over the budget (`Ordinal`), which is all that `check` asks of it; that cap is the
model's, the code counts on to the end of a `u32`.

Bounds, enrichment. Two servers of two namespaces, of which the second is the
bystander whose envelope may be broken; the sweep and two requests, as two requests
race each other and the sweep. The documents are two good ones of the first server,
one of each kind a check refuses, and one whose passport has rights elsewhere. Two
events (a request, a fault, a change of what surrounds the loop) are what a fork, a
tear or a stop needs; writers take as many steps as they have.

Bounds, verifier. Three receipts, so that a chain has a middle and a gap; two held
documents, as `verify_history` compares neighbours; one rotation; one edit, to a
document held alone. Receipts that form no chain are published alone. The two keys
are symmetric. In `MCLimit` the first three limits are those of
the code (24, 2^8, 2^16); the widths of four and eight bytes end at 2^24 and 2^25,
as TLC's integers have 32 bits. `Capacity`, the entries there is memory for, is 2^24: more
than a head of four bytes can claim, and less than one of eight. One edit widens a head by
one, adds one to its argument, or sets it to the largest there is.

Bounds, skills. Three skills, two of which share a source, so that pinning is whole
per source and across sources; one push; two walks, for an outcome that is older than
the lockfile; two receipts, so that a registry may serve an older lockfile than another.
The lockfiles that may be read have two skills each: one without refs, of one source; one
that names branches and has the right digests, of two; one pinned to the first commits
with wrong digests, which is signable as it is; and one with digests that are not well
formed. Three registries, one of each kind, configured in the order that is not the order
of precedence. Nobody edits a
`skillPath` by hand at a commit that is pinned already: an address names the commit and
not the path, so `PinnedIsImmutable` would not survive it.

Bounds, listing. Four names and pages of 2 (default) and 3 (largest), so that a walk
has a first, a middle and a short last page; limits none, 0 and 9, which is below and
above both bounds; one query per filter; rows that differ in each thing a filter looks
at; two writes. The walk ends, which is why the run does not check deadlock; so do the
bounded histories of `verifier` and `skills`.

Bounds, startup. Two processes make a race and three files, of which the last may run
twice, a first, a next and an idempotent one. Two faults stop both racers or one of
them twice; two key versions make one rotation, and the key may have none at first. Two creators of the tracker table that
both find it missing are a failure of `Stop`.

Fairness of the sync loop (`FairSpec`). Weak on `TickStep`: `run` always goes round again, after `Ok`
and after `Err` (`sync.rs:71-111`), and a statement that can run returns. Weak on
`TimePasses`: the clock goes on. Strong on `SignSnapshot`: Vault may refuse any
number of times (`SignFails` is a step of the loop like any other) but not for ever.
Failures and crashes are finitely many, as a loop that is killed
in every tick publishes nothing. Upstream has no fairness. Both liveness properties have the
condition that no row stays `Blocked`: expired, and kept by its enrichment row. Without it
`KeepsPublishing` is violated, by the very behaviour of `sync_wedge`; with it, the run says
that nothing else stops the loop.

Fairness of `rate_limit`. Weak on `TimePasses`, the clock, and on each client's
request: `AdmittedAgain` is about clients that go on asking, and only the clock and
the code decide whether they are answered.

Fairness of `enrichment`. Weak on the sweep's own steps: it is a task of the runtime,
its waits all end and `run` goes round again after an error. Requests, upstream and
publishers have none; faults are bounded.

Fairness of `startup`. Weak on the steps of the migrations (the supervisor restarts a
process that exits, the database answers), weak on the probe (its back-off is capped
at 300 seconds, so another one follows), weak on `Recover` (an outage ends). Nobody
has to sign and no key has to be rotated.

## 5. Proofs

### The sync loop

`SyncLoopProofs` proves, for every set of names and documents, listings, window,
retention, page cap and bounds:

- `TypeCorrect` – `Spec => []TypeOK`.
- `InvariantHolds` – `Spec => []IInv`.
- `SnapshotCorrect` – `Spec => []SnapshotDescribesMirror`.
- `EntrySetsCorrect` – `Spec => []EntrySetsAreNewest`.
- `EvictionCorrect` – `Spec => NoEarlyEviction`.
- `ListedCorrect` – `Spec => ListedIsNotDeleted`.
- `HistoryRefined` – `Spec => ImplementsHistory`.

They rest on the assumptions named in the modules: `Retention`, `EntryRetention`,
`PageSize` and `MaxPagesPerRun` are positive, the sentinels are not rows or digests, and
upstream lists envelopes in the order of their places. Listings may differ in any way.

None of the properties is inductive. `SnapshotDescribesMirror` speaks of one moment,
after the insert; to get there the invariant says what the mirror holds at each
statement: `ListingInMirror` (what has been upserted is there with a document the
listing has), `UnlistedVisited` (a live row that is not listed is still to be
visited), and `ReceiptInHand` (the receipt about to be inserted names the newest row;
the row just inserted digests the listing). `NoEarlyEviction` needs
`StampsAreYounger`: no stamp, in a row or in what the tick has read of it, is older
than the last upsert of its name – the clock that `reconcile` has read may lag behind
(`nowAge`), which makes a stamp older than the statement that writes it, and the
invariant must know that it is not older than the upsert. `EntriesKept` strengthens
`EntrySetsAreNewest` with the same for receipts. `HistoryRefined` uses
`ReceiptInHand` in the step that records, and that the prune changes neither root nor
prior root. `ListedIsNotDeleted` speaks of the mark, at the end of a tick; `FetchInv`
says what leads there from the pages. So far every page was full, and what has been
fetched is in order, of places that upstream has listed in this fetch, and has every
version up to the cursor that was mirrorable at every moment. A page adds what follows
the cursor, up to the next one (`SkippedIsPrefix`, `PageFacts`), so this holds of the next
cursor too, wherever the boundary has moved in between (`PageAppended`). If the page cap
ends the fetch, the pages hold `PageSize * MaxPagesPerRun` places that were listed, all up
to the cursor; a version within the cap has fewer before it (`PlacesCount`), so it is not
behind the last one.

Only model-checked: `MirrorConverges` and `KeepsPublishing`, which are liveness.

### Publisher rights

`PublisherRightsProofs` proves, for every set of servers, keys, request bodies,
concurrent requests and tokens, any TXT records, lifetime and rate budget:

- `TypeCorrect` – `Spec => []TypeOK`.
- `InvariantHolds` – `Spec => []IInv`.
- `ControlCorrect` – `Spec => []WritesRestOnControl`.
- `RowsCorrect` – `Spec => []RowsRestOnProofs`.
- `FailureIsFinal` – `Spec => NoWriteAfterFailure`.
- `OneTimeProofsRefined` – `Spec => ImplementsOneTimeProofs`.

They rest on `RightsAssumption`: every server has a namespace and every namespace a
kind and a label; two keys never share a fingerprint (it is a hash); a request has
the fields its handler requires; the sentinel is not a value; the lifetime is a
number, the window and the budget are positive. A token is fresh when it is issued
(`IssueNonce` draws from the tokens never issued): 32 random bytes.

The properties speak of what has been written; what makes them true is what a request
carries between its steps, when it holds nothing but its own copy of the token and the
body. The invariant says that. `StoresRemember`: a token in a map is there with the
binding it was issued for, and in one map only. `RequestsMatch`: once past the store,
a request's body is the binding of its token, so what it looks up, checks and writes
is what the token was issued for. `ClaimsExclude`: a spent token is in no map and in
no other request; this is where `consume` must remove before it compares.
`SettledIsGone`: a token that has failed or written is out of reach of every
request, which is `NoWriteAfterFailure` one step early. `LookupsNamed`: a request past
its DNS lookup carries a fingerprint that its domain has named, though the record may
have changed since; the same holds of the record and of the resolver's cache.
`WritesMatch` carries the first two over to the writes, for `RowsRestOnProofs`.

The refinement maps the two stores to `offered` and the requests in `Claiming` to
`claimed`. The latter is a function from tokens only because claims exclude each
other, so the mapping needs the invariant (`Mapped`). Then `SpendNonce` and
`SpendState` are `Claim` or, refused, `Withdraw`; `Record` is `Write`, or a stutter
when the operator asks; a failure and a restart are `Withdraw`; what a request does in
between is a stutter.

### The rate limiter

`RateLimiterProofs` proves, for any clients, any window and any budget that are positive
(`RateAssumption`):

- `TypeCorrect` – `Spec => []TypeOK`.
- `BudgetCorrect` – `Spec => []AtMostTwiceTheBudget`.
- `RefusalsCorrect` – `Spec => RefusedOnlyOverBudget`.

Two budgets within a window's length is what a fixed window allows: one at the end of a
window and one at the beginning of the next. The invariant `WindowInv` divides the
admissions of a window's length at the age of the window that runs: those since it began
are its count, cut at the budget, since `check` counts refusals too; those before it are
at most one budget, as they all belong to one window before. When time passes, the newer
part ages into the older one only with the window's end, and then the older part is out
of reach. With no window running at most one budget is left and nothing was admitted at
this moment, so a new window starts from zero. The admissions are counted as a set of
pairs of age and number, which makes the two parts a partition of a finite set.

Only model-checked: `AdmittedAgain`, which is liveness.

### Enrichment

`EnrichmentProofs` proves, for every set of servers, namespaces, passports, declarations
and requests, and any number of events:

- `TypeCorrect` – `Spec => []TypeOK`.
- `RightsCorrect` – `Spec => []ReceiptsRestOnRights`.
- `ForksCorrect` – `Spec => []ForksOnlyWhenRaced`.
- `HalvesCorrect` – `Spec => []HalvesAgree`.

They rest on `EnrichmentAssumption`: every server has a namespace and every namespace a
label; a declaration has the fields its checks read; the sweep is not a request and the
sentinel not a value. Each property is about the tables; each invariant adds what the
writers hold on the way there, one clause per writer. `Rests`: what a writer has looked
up is true of its declaration from the lookup to the receipt, since nothing takes a right
away (`RightsStay`). `Continues`: the chain a writer is about to store is the stored one
and a content, unless the server is in `raced` – and it is there as soon as another
writer has read the same prior, which is what the step that reads it must show.
`Describes`: between its two statements a writer holds the chain that the first table
has, unless the server is in `torn`.

Only model-checked: `HostedIsRecorded`, which is liveness.

### Listing

`ListingProofs` proves, for any number of names, any rows, filters and limits, and any
number of writes during a walk:

- `WalkCorrect` – `Spec => []UnchangedIsListedOnce`.
- `RefusalsCorrect` – `Spec => []RefusedOnlyWhenChanged`.

They rest on `ListingAssumption`: the default limit is between 1 and the largest, and no
row has the version `latest`. Nothing in this code refuses such a row; with one, the
version route would answer for another row than the listed one. `WalkInv` ties the
cursor to the last pair of the pages so far, and each pair to its row while that row is
fresh. The argument of a page (`PageStep`) is about order: the rows of a request are the
matching names in increasing order (`ListedInOrder`, from `UptoGrows`: the k-th of a
finite set of numbers is the one with k members up to it), a page is a segment of them
that begins after the cursor, and so everything steady up to its last name has been seen.

### Skills

`SkillsProofs` proves, for any skills, sources and readable lockfiles, any number of
pushes, walks and receipts:

- `TypeCorrect` – `Spec => []TypeOK`.
- `PinningIsWhole` – `Spec => []PinnedAsOne`.
- `SignedCorrect` – `Spec => []CheckedIsReproducible`.
- `ReceiptCorrect` – `Spec => []ReceiptFitsOneLock`.
- `LocalCorrect` – `Spec => []LocalAnswersFirst`.
- `AddressesCorrect` – `Spec => []PinnedIsImmutable`.

They rest on `SkillsAssumption`: there are finitely many skills; a host is configured once,
as a registry of one of the three kinds; the lockfiles that may
be read give each skill the source and path it has, and left the refs out, named
branches or pinned all of them to the first commits. `SkillsInv` says of every lockfile in
play, and there are four kinds of them, that it names commits its sources have and that
it is pinned as a whole (`LockInv`). What a walk has fetched has the digests of the refs
of the lockfile that was walked (`OutcomeInv`), whatever has become of the lockfile since, and
a lockfile relocked from it has the digests of its commits (`IsAttested`); commits are
only added (`HasGrown`), so both stay true as sources move. A receipt keeps the lockfile
it was signed for, which need not be attested: `signable` asks for commits, not for
digests. `SignedCorrect` is about those that are, either since relock made them or since a
walk over them came out clean: it has visited every entry (`WalkInv`) and found the digest
that is there (`CleanIsAttested`).

`LocalCorrect` is about any sequence of registries. Among those that have the skill there
is one of the least kind, and of that kind a first one (`HasLeast`), which comes before
all others (`OneComesFirst`); if this node has the skill, that kind is `Local`. The way
back from an address needs that a host names one registry (`NamedIsOne`): `resolve` takes
the first of the name, which may be another than the one `resolve_by_id` has answered from.

`ReceiptCorrect` needs that a receipt determines its lockfile, through four layers, a
lemma each: the entries of a set put in order are all of it, once (`ArrangedIsAll`); the
fields of a receipt can be read back from its map (`FieldsAreWritten`); an entry, and
then the whole lockfile, is determined by its digest (`EntriesAreDigested`,
`DigestBinds`). `SignedReceiptVerifies` is the other direction.


### Startup

`StartupProofs` proves, for any processes, number of files, set of files that may run
twice, faults and key versions:

- `TypeCorrect` – `Spec => []TypeOK`.
- `SchemaIsWhole` – `Spec => []ServesWholeSchema`.
- `KeyFits` – `Spec => []PublishedVerifies`.

They rest on `StartupAssumption`: the numbers are natural and there is a first key
version. `ServesWholeSchema` speaks of what is committed; `SchemaInv` adds what open
transactions promise. A process has the files before its own behind it, one process at
a time is between the SQL of a file and its commit (the locks of the SQL), and a file
about to be committed is not applied (the primary key of the tracker): so a race costs
the second process an error and a restart, never a second run. `PublishedVerifies`
needs `KeyInv`: `sign` accepts version 1 only, so a process that holds a Vault
signature started before the second version; if it started before the first one, it may
have settled as unsigned.

### Receipts and their verification

`VerifierProofs` proves, for any increasing limits of the heads, any keys, entry lists,
declarations and receipts, and histories and numbers of edits of any length:

- `HeadsRoundTrip`, `HeadsAreUnique`, `FloatsAreUnique` – an argument is written with a
  head that is read back as it, and a head or a finite float that is read is the one its
  value is written with. This is what lets `Verifier` compare documents instead of bytes.
- `TypeCorrect` – `Spec => []TypeOK`.
- `VerifiedWasSignedAlways` – `Spec => []VerifiedWasSigned`.
- `HonestVerifiesAlways` – `Spec => []HonestVerifies`.
- `HistoryIsUnbrokenAlways` – `Spec => []HistoryIsUnbroken`.
- `RootsBindTheSetAlways` – `Spec => []RootsBindTheSet`.
- `DeclarationsBindTheNameAlways` – `Spec => []DeclarationsBindTheName`.
- `ExitCodesTellAlways` – `Spec => []ExitCodesTell`.

They rest on `LimitAssumption` (the limits of the code are 24 and the powers of two) and
`VerifierAssumption`: upstream lists a version of a server once; the fields of a receipt
are those of its type, none twice and none a float, and the receipts in no chain lack the
two fields a chain is made of; who edits a document has no signature to put in, nor a
hash, but may repeat, move and drop the ones that are there and compute the hash again; a
document is far from the largest map. Without the first, the order of two entries for one
name and version would be the order they came in, since the sort is stable, and the
digest would depend on it.

The invariant (`IInv`) says what the log and the documents are made of. In the log
(`LogInv`), each snapshot and enrichment is the receipt of the set, or declaration, it
records, with its place in the log for an id and the one before it in its own chain for
a prior link. A document that is held (`HeldInv`) is a list of named fields, at most one
longer for every edit, each signature in it zero or that of a published receipt; if it
was never edited, it is a published receipt. From this:

- A document that verifies is canonical, so its fields stand in strictly increasing order
  and are the set they were made from (`FieldsAreWritten`, `WrittenOneWay`); its
  signature is the one of a published receipt, which is over everything but itself, so
  all fields are those of that receipt (`VerifiedIsPublished`).
- A receipt of a chain verifies because encoding it again changes nothing
  (`EncodeIsCanonical`) and neutralising fields of a map gives the map of the neutralised
  fields (`ZeroFieldsIsEncode`): the verifier, which works on bytes, hashes what the
  registry hashed, which works on the fields.
- A link of an enrichment names the hash of one body (`HashBindsBody`), and ids tell
  equal bodies apart (`EachHasItsPlace`), so each link of a history is the receipt before
  the next one (`EnrichmentStep`). A link of a snapshot names a root, which equal sets
  share, and that is why `HistoryIsUnbroken` says less of snapshots (`SnapshotStep`).
- Sets in their order determine a digest and are determined by it (`SortedIsOfTheSet`,
  `OrderIsUnique`).

### Only model-checked

All liveness: `MirrorConverges`, `KeepsPublishing`, `AdmittedAgain`, `HostedIsRecorded`
and `KeyIsSettled`, since the prover has no rule for `ENABLED`.

Two choices in the models keep them within the prover's reach. Sets are put in order by
rank, with a function from places to elements (`Arranged`, `InOrder`), and not with the
sorting operators of the community modules, which take the order as an operator parameter.
Nothing is defined by recursion, so nothing has to be proved by induction over data; where
a least element is needed, it comes from the finiteness of a set.

## 6. What the models showed

Four disagreements with the repository's own words have a run of their own
(`sync_wedge`, `sync_broken`, `enrich_fork`, `verifier_panics`). Others were met while modelling; the
models do what the code does, and where a property would fail on it, its definition
says so:

- After a rotation of the Vault key `sign` refuses every signature, since it strips
  the prefix `vault:v1:` (`server/vault.rs:187`), while `public_key` publishes the
  newest version (`:202`): signing stops, and a process that is started then publishes
  a key that has signed nothing. `PublishedVerifies` is about processes that read the
  version they started under.
- `mark_deleted` changes the status column only. The envelope that is served keeps its
  status and `updatedAt`, so a reader of `updated_since` is not told of the deletion.
- A root names a set, not a snapshot: if a set comes back, a history may skip what was
  between its two snapshots and still verify (`NoSetCameBack` in `HistoryIsUnbroken`).
- The decoder of `rcx-registry-crown` panics or aborts on heads that claim too much
  (`canonical.rs:139`, `:183`, `:190`), and a half-precision infinity is decoded but panics
  when it is encoded again (`:258`, `:100`). `CONTRACT.md` section 7 ("never a crash") and
  `rcx-verify/src/lib.rs:407` exclude both. `verifier_panics` shows the adapter ending;
  for the CLI, `ExitCodesTell` allows code 101 on these inputs and nowhere else.
- `sign.rs:10-12` says of a signature that "anyone can refetch the same refs and recompute
  the same root". `prepare_receipt` signs any lockfile that is `signable`: a version 2 file
  as it was read, or one that `pin_refs` has just stamped with commits its digests were
  never compared with (`fetch.rs:12`). Such a receipt verifies, and nobody can refetch what
  it names. `CheckedIsReproducible` is about lockfiles that were relocked or checked; for
  every signed lockfile TLC finds it violated in two steps, read and sign.
- A name may be missed, and marked deleted, though upstream lists it at every moment: a
  version of it appears behind the cursor, and then the one that was ahead of it goes. `ListedIsNotDeleted` is about one version that stays; said of
  names, it is violated.
- `resolve_signing_key` takes a Vault key without a version for a signer without a key, for
  ever (`server/vault.rs:230`, `server/main.rs:275`): the process calls itself unsigned
  and still signs once the key has its first version. `PublishedVerifies` exempts it.
- `rcx-cli/src/main.rs:14` says that malformed input exits with 2; malformed CBOR and
  a declaration that is not JSON exit with 1. An empty chain is `valid` for the
  adapter and exits with 2 from the CLI.
- Search is an unescaped `LIKE` in PostgreSQL and a substring in the in-memory store.
- A stop between the two statements of an enrichment upsert leaves the metadata of
  the receipt before (`torn`) until the next write for that server.

## 7. Not modelled

- Strings: names, JSON text, CBOR text and the `skill://` grammar appear as what the
  code tells apart. The heads, the order and the preimages of CBOR are modelled.
- The cadence policy, and the diff that `run` computes the next delay from: when a
  tick begins is left open.
- A second writer of the tables, and a wall clock that is set back between two
  snapshots: the code assumes one process and takes no lock.
- When a proof was recorded (`verified_at`) and the receipt hash derived from it. The
  later of two upserts wins, whichever instant it carries.
- The instant between reading the clock and taking a mutex: `check`, `issue` and
  `consume` get `now_ms()` as an argument and the model reads it inside.
- Namespaces that `classify_namespace` refuses: every handler returns before it does
  anything else than count the request.
- The TTL of the resolver's cache: any lookup may be answered from it.
- The connection pool (8 connections, at most two held by one thread).
- Auto-enrichment (`build_entry_auto_enriched_receipt`, `attach_auto_enrichment`),
  and the delta planner and schema catalogs of `rcx-registry-ingest`: only tests call
  them. `to_canonical_json` of the receipts, which nothing hashes.
- The read routes of snapshots: single SELECTs by key or time without a state of
  their own. The enrichment blocks that decorate a listing are read after its rows and
  change neither which rows are listed nor the cursor.
- HTML pages, JSON shapes, HTTP status codes, the fixture of `published_records`.
- The OAuth state map may grow without a rate limit (`github_oauth_start`): a matter
  of memory, and no bound is promised.
- The durations of back-off and timeouts.
- Everything under "not modelled" in section 1.
