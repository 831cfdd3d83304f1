---------------------------------- MODULE Skills ---------------------------------
(* The skills lockfile (rcx-registry-skills): pinning every source to a       *)
(* commit, fetching the entries one by one while the sources move, locking    *)
(* again what was fetched, signing, and the skill:// addresses under which a  *)
(* federation of registries hands the entries out.  A sha256 stands for the   *)
(* bytes it is taken of; a commit is its place in the history of its source.  *)
EXTENDS Receipts

CONSTANTS
  Skills,     \* the names of the skills, numbers
  SourceOf,   \* the repository of each skill
  RawLocks,   \* the lockfiles that may be read
  Signer,     \* the signing key
  Configured, \* the registries of a federation, in the order configured
  MaxPushes, MaxWalks, MaxReceipts   \* bounds

LockEntry ==
  [source : {SourceOf[n] : n \in Skills}, sourceType : {"github", "other"}, skillPath : Skills,
   ref : Int, computedHash : Nat, wellFormedHash : BOOLEAN]
IsSkillLock(l) ==
  DOMAIN l.skills \subseteq Skills /\ l \in [version : Nat, skills : [DOMAIN l.skills -> LockEntry]]

\* A ref: a commit, or no ref at all, or the name of a branch.
Unpinned == 0
Branch == -1
IsCommit(ref) == ref > 0

Sources == {SourceOf[n] : n \in Skills}

\* Every entry of a lockfile has a commit, that of its source, or none has.
IsWhole(l) ==
  \A n, m \in DOMAIN l.skills :
    IsCommit(l.skills[n].ref) =>
      /\ IsCommit(l.skills[m].ref)
      /\ SourceOf[n] = SourceOf[m] => l.skills[n].ref = l.skills[m].ref

\* A skill is one file of one source.  Whoever wrote the lockfiles that are read
\* left the refs out, named branches, or pinned all to the first commits.  A host
\* is configured once, as one of the three RegistryKinds.
ASSUME SkillsAssumption ==
  /\ IsFiniteSet(Skills) /\ Skills \subseteq Nat
  /\ \A l \in RawLocks :
       /\ IsSkillLock(l) /\ l.version \in 1 .. 2 /\ IsWhole(l)
       /\ \A n \in DOMAIN l.skills :
            /\ l.skills[n].source = SourceOf[n] /\ l.skills[n].skillPath = n
            /\ l.skills[n].ref \in Branch .. 1
  /\ Configured \in Seq([host : {Configured[i].host : i \in DOMAIN Configured}, kind : 1 .. 3])
  /\ \A i, j \in DOMAIN Configured : Configured[i].host = Configured[j].host => i = j
  /\ MaxPushes \in Nat /\ MaxWalks \in Nat /\ MaxReceipts \in Nat

VARIABLES
  history,    \* per source: its commits, each with the contents of its files
  lock,       \* the lockfile being worked on
  job,        \* the call under way: pinning or fetching
  outcome,    \* FetchOutcome of the last walk, its number and its lockfile
  relocked,   \* what relock returned last
  receipts    \* history: the signed receipts, each with its lockfile and
              \* whether that had been checked before

vars == <<history, lock, job, outcome, relocked, receipts>>

Empty == [x \in {} |-> 0]
Unread == [version |-> 0, skills |-> Empty]  \* no lockfile
Nothing == [walk |-> 0, of |-> Unread, fetched |-> Empty, mismatches |-> {}]
Idle == [kind |-> "idle"]

\* BTreeMap::insert.
With(map, key, value) == [k \in DOMAIN map \cup {key} |-> IF k = key THEN value ELSE map[k]]

\* Every source starts with one commit.
Pushes == Cardinality(UNION {{s} \X (2 .. Len(history[s])) : s \in Sources})

Init ==
  /\ history = [s \in Sources |-> << [n \in {m \in Skills : SourceOf[m] = s} |-> 0] >>]
  /\ lock = Unread /\ relocked = Unread
  /\ job = Idle /\ outcome = Nothing
  /\ receipts = <<>>

--------------------------------------------------------------------------------
(* The lockfile.                                                              *)

\* SkillLock::validate, which does not look at the refs.
Validates(l) ==
  \A n \in DOMAIN l.skills : l.skills[n].wellFormedHash /\ l.skills[n].sourceType = "github"

\* Mutant of Signable: the version is taken for the guarantee.
SignableByVersion(l) == l.version >= 2 /\ DOMAIN l.skills # {}

Signable(l) ==
  /\ l.version >= 2
  /\ DOMAIN l.skills # {}
  /\ \A n \in DOMAIN l.skills : IsCommit(l.skills[n].ref)

\* from_json, of the inherited file first and later of what relock has returned.
Load(l) ==
  /\ job = Idle /\ l # lock /\ Validates(l)
  /\ lock' = l
  /\ UNCHANGED <<history, job, outcome, relocked, receipts>>

--------------------------------------------------------------------------------
(* pin_refs: one request for each source, and then one stamp on every entry.  *)

Lookups(l) == {l.skills[n].source : n \in DOMAIN l.skills}
Stamped(l, resolved) ==
  [version |-> 2,
   skills |-> [n \in DOMAIN l.skills |->
     IF l.skills[n].source \in DOMAIN resolved
     THEN [l.skills[n] EXCEPT !.ref = resolved[l.skills[n].source]] ELSE l.skills[n]]]

BeginPin ==
  /\ job = Idle /\ lock # Unread
  /\ job' = [kind |-> "pin", todo |-> Lookups(lock), resolved |-> Empty]
  /\ UNCHANGED <<history, lock, outcome, relocked, receipts>>

ResolveHead(s) ==
  /\ job.kind = "pin" /\ s \in job.todo
  /\ job' = [job EXCEPT !.todo = @ \ {s}, !.resolved = With(@, s, Len(history[s]))]
  /\ UNCHANGED <<history, lock, outcome, relocked, receipts>>

\* Mutant of PinFails: what has been resolved is stamped before giving up.
PinFailsHalfway ==
  /\ job.kind = "pin" /\ job.todo # {}
  /\ lock' = Stamped(lock, job.resolved) /\ job' = Idle
  /\ UNCHANGED <<history, outcome, relocked, receipts>>

\* A source does not answer, or not with a commit.
PinFails ==
  /\ job.kind = "pin" /\ job.todo # {}
  /\ job' = Idle
  /\ UNCHANGED <<history, lock, outcome, relocked, receipts>>

Stamp ==
  /\ job.kind = "pin" /\ job.todo = {}
  /\ lock' = Stamped(lock, job.resolved) /\ job' = Idle
  /\ UNCHANGED <<history, outcome, relocked, receipts>>

--------------------------------------------------------------------------------
(* fetch_locked: a walk over the entries that no failure ends.                *)

\* raw_url; a branch moves as the default branch does.
RawUrl(entry) ==
  <<entry.source, IF IsCommit(entry.ref) THEN entry.ref ELSE Unpinned, entry.skillPath>>
Content(url) ==
  LET s == url[1] IN history[s][IF url[2] = Unpinned THEN Len(history[s]) ELSE url[2]][url[3]]

WalkOver(l) ==
  IF DOMAIN l.skills = {} THEN Idle ELSE [kind |-> "fetch", todo |-> DOMAIN l.skills]

\* Mutant of BeginFetch: the outcome of the walk before is added to.
BeginFetchOnTop(l) ==
  /\ job = Idle /\ l # Unread /\ outcome.walk < MaxWalks
  /\ job' = WalkOver(l)
  /\ outcome' = [outcome EXCEPT !.walk = @ + 1, !.of = l]
  /\ UNCHANGED <<history, lock, relocked, receipts>>

BeginFetch(l) ==
  /\ job = Idle /\ l # Unread /\ outcome.walk < MaxWalks
  /\ job' = WalkOver(l)
  /\ outcome' = [Nothing EXCEPT !.walk = outcome.walk + 1, !.of = l]
  /\ UNCHANGED <<history, lock, relocked, receipts>>

Arrives(n) ==
  LET entry == outcome.of.skills[n]
      digest == Content(RawUrl(entry))
      matched == digest = entry.computedHash
  IN  outcome' = [outcome EXCEPT
        !.fetched = With(@, n, [ref |-> entry.ref, digest |-> digest, matched |-> matched]),
        !.mismatches = IF matched THEN @ ELSE @ \cup {n}]

Unreachable(n) == outcome' = [outcome EXCEPT !.mismatches = @ \cup {n}]

FetchOne(n) ==
  /\ job.kind = "fetch" /\ n \in job.todo /\ \A m \in job.todo : n <= m
  /\ Arrives(n) \/ Unreachable(n)
  /\ job' = IF job.todo = {n} THEN Idle ELSE [job EXCEPT !.todo = @ \ {n}]
  /\ UNCHANGED <<history, lock, relocked, receipts>>

\* Mutant of RelockOf: the refs of the lockfile are kept, not those fetched at.
RelockWithItsRefs(o, previous) ==
  [version |-> 2,
   skills |-> [n \in DOMAIN o.fetched \cap DOMAIN previous.skills |->
     [previous.skills[n] EXCEPT !.computedHash = o.fetched[n].digest]]]

\* relock: what was not fetched is dropped.
RelockOf(o, previous) ==
  [version |-> 2,
   skills |-> [n \in DOMAIN o.fetched \cap DOMAIN previous.skills |->
     [previous.skills[n] EXCEPT !.computedHash = o.fetched[n].digest,
                                !.ref = o.fetched[n].ref]]]

\* FetchOutcome::is_clean, of a walk over l.
IsClean(l) == outcome.of = l /\ outcome.mismatches = {}

Relock ==
  /\ job = Idle /\ outcome # Nothing
  /\ relocked' = RelockOf(outcome, lock)
  /\ UNCHANGED <<history, lock, job, outcome, receipts>>

--------------------------------------------------------------------------------
(* Signing.                                                                   *)

\* Mutant of Provenance: the content is named by its place alone.
ProvenanceByPlace(entry) == <<entry.source, entry.sourceType, entry.skillPath, entry.ref>>

\* What the digest says of an entry.
Provenance(entry) ==
  <<entry.source, entry.sourceType, entry.skillPath, entry.ref, entry.computedHash>>

DigestEntries(l) ==
  LET names == Arranged(DOMAIN l.skills, [n \in DOMAIN l.skills |-> {m \in DOMAIN l.skills : m <= n}])
  IN  [i \in DOMAIN names |->
         [name |-> names[i], version |-> l.skills[names[i]].ref,
          json |-> Provenance(l.skills[names[i]])]]
LockMerkleRoot(l) == SnapshotMerkleRoot(DigestEntries(l))

\* prepare_receipt and sign_receipt, the prior receipt given by the caller.
Receipt(l) ==
  LET prior == IF receipts = <<>> THEN <<>> ELSE FieldOf(Last(receipts).wire, "receipt_hash")[3]
  IN  SignedReceipt(SkillSnapshot(Len(receipts), LockMerkleRoot(l), prior,
                                  Cardinality(DOMAIN l.skills), l.version), Signer)

\* Whatever is signable is signed, whether or not anyone has fetched it.
Sign(l) ==
  /\ job = Idle /\ Signable(l) /\ Len(receipts) < MaxReceipts
  /\ receipts' = Append(receipts,
       [lock |-> l, wire |-> Receipt(l), checked |-> l = relocked \/ IsClean(l)])
  /\ UNCHANGED <<history, lock, job, outcome, relocked>>

\* verify_lock_receipt, which has an error of its own for each of these.
VerifiesLock(l, wire, key) ==
  /\ Signable(l)
  /\ FieldOf(wire, "lock_version") = Uint(l.version)
  /\ FieldOf(wire, "skill_count") = Uint(Cardinality(DOMAIN l.skills))
  /\ FieldOf(wire, "lock_merkle_root") = Bytes(32, LockMerkleRoot(l))
  /\ TypedVerifies(wire, key)

--------------------------------------------------------------------------------
(* Addresses.  resolution_order, resolve and resolve_by_id are given the       *)
(* registries, each with the lockfile it serves.                              *)

Local == 1   \* RegistryKind, in the order of precedence: 2 a trusted remote, 3 public

Registry(i, l) == [host |-> Configured[i].host, kind |-> Configured[i].kind, lock |-> l]

\* This node serves the lockfile it works on, every other registry nothing yet or
\* a lockfile that was signed.
Federations ==
  LET offered == {Unread} \cup {receipts[k].lock : k \in DOMAIN receipts}
  IN  {[i \in DOMAIN Configured |->
          Registry(i, IF Configured[i].kind = Local THEN lock ELSE served[i])] :
         served \in [{i \in DOMAIN Configured : Configured[i].kind # Local} -> offered]}

\* Mutant of ComesFirst: the order of the configuration.
ConfiguredFirst(registries, i, j) == i < j

\* resolution_order: a stable sort by kind.
ComesFirst(registries, i, j) ==
  \/ registries[i].kind < registries[j].kind
  \/ registries[i].kind = registries[j].kind /\ i < j

Uri(host, n, entry) == [registry |-> host, skill |-> n, version |-> entry.ref]

NoHit == [kind |-> 0]
Hit(registry, uri) ==
  [kind |-> registry.kind, registry |-> registry.host, uri |-> uri,
   entry |-> registry.lock.skills[uri.skill]]

Named(host, registries) == {i \in DOMAIN registries : registries[i].host = host}

\* Mutant of Answers: the ref of a pinned address is not compared.
AnswersLatest(registry, uri) == uri.skill \in DOMAIN registry.lock.skills

\* A pinned address is answered only at its commit.
Answers(registry, uri) ==
  /\ uri.skill \in DOMAIN registry.lock.skills
  /\ uri.version # Unpinned => registry.lock.skills[uri.skill].ref = uri.version

\* resolve: only the first registry of the name may answer.
Resolve(uri, registries) ==
  LET named == Named(uri.registry, registries)
      first == CHOOSE i \in named : \A j \in named : i <= j
  IN  IF named # {} /\ Answers(registries[first], uri) THEN Hit(registries[first], uri) ELSE NoHit

\* resolve_by_id: the first registry in order that has the skill.
ResolveById(n, registries) ==
  LET having == {i \in DOMAIN registries : n \in DOMAIN registries[i].lock.skills}
      first == registries[CHOOSE i \in having : \A j \in having \ {i} : ComesFirst(registries, i, j)]
  IN  IF having = {} THEN NoHit ELSE Hit(first, Uri(first.host, n, first.lock.skills[n]))

\* uris_for: the addresses of all skills of a lockfile.
UrisFor(l, host) == {Uri(host, n, l.skills[n]) : n \in DOMAIN l.skills}

--------------------------------------------------------------------------------
\* A publisher pushes a commit that changes some files of a source.
Push(s) ==
  /\ Pushes < MaxPushes
  /\ \E changed \in SUBSET DOMAIN history[s][1] \ {{}} :
       history' = [history EXCEPT ![s] =
         Append(@, [n \in DOMAIN @[1] |-> IF n \in changed THEN Len(@) ELSE Last(@)[n]])]
  /\ UNCHANGED <<lock, job, outcome, relocked, receipts>>

Next ==
  \/ \E l \in IF lock = Unread THEN RawLocks ELSE {relocked} \ {Unread} : Load(l)
  \/ BeginPin \/ (\E s \in Sources : ResolveHead(s)) \/ PinFails \/ Stamp
  \/ \E l \in {lock, relocked} : BeginFetch(l)
  \/ \E n \in Skills : FetchOne(n)
  \/ Relock \/ (\E l \in {lock, relocked} : Sign(l))
  \/ \E s \in Sources : Push(s)

Spec == Init /\ [][Next]_vars

--------------------------------------------------------------------------------
(* Properties.                                                                *)

IsLock(l) ==
  /\ l.version \in 0 .. 2 /\ DOMAIN l.skills \subseteq Skills
  /\ \A n \in DOMAIN l.skills :
       l.skills[n].source = SourceOf[n] /\ l.skills[n].ref \in Branch .. MaxPushes + 1

TypeOK ==
  /\ Pushes \in 0 .. MaxPushes
  /\ IsLock(lock) /\ IsLock(relocked) /\ IsLock(outcome.of)
  /\ job.kind \in {"idle", "pin", "fetch"}
  /\ DOMAIN outcome.fetched \cup outcome.mismatches \subseteq DOMAIN outcome.of.skills
  /\ Len(receipts) <= MaxReceipts

\* Pinning is whole: a lockfile that was read whole stays so, whatever fails or is
\* pushed in between.  Its skills have a commit each or none has, and those of one
\* source share theirs.
PinnedAsOne == \A l \in {lock, relocked} : IsWhole(l)

\* prepare_receipt signs whatever is signable, right or wrong.  If the lockfile it
\* is given is what relock returned, or the last walk over it came out clean, then
\* every entry has the digest of what its source holds at its commit, however the
\* sources have moved: whoever fetches it again gets the bytes that were signed.
CheckedIsReproducible ==
  \A i \in DOMAIN receipts :
    LET skills == receipts[i].lock.skills
    IN  receipts[i].checked =>
          \A n \in DOMAIN skills :
            IsCommit(skills[n].ref) /\ Content(RawUrl(skills[n])) = skills[n].computedHash

\* A receipt verifies for the lockfile it was signed for and for no other that
\* is around: not for one with an older digest, ref, or fewer entries.
ReceiptFitsOneLock ==
  \A i \in DOMAIN receipts :
    \A l \in {lock, relocked, outcome.of} \cup {receipts[j].lock : j \in DOMAIN receipts} :
      VerifiesLock(l, receipts[i].wire, Signer) <=> l = receipts[i].lock

\* A search by name never lets another registry answer for a skill that this node
\* has locked, and the address it returns leads back to the entry it found.
LocalAnswersFirst ==
  \A n \in Skills : \A registries \in Federations :
    LET hit == ResolveById(n, registries)
    IN  /\ \A i \in DOMAIN Configured :
             Configured[i].kind = Local /\ n \in DOMAIN lock.skills => hit.kind = Local
        /\ hit # NoHit => Resolve(hit.uri, registries) = hit

\* The addresses of a signed lockfile are pinned, and each of them names the same
\* file at the same commit for ever, or nothing, whatever its registry has locked
\* since.
PinnedIsImmutable ==
  \A i \in DOMAIN receipts : \A k \in DOMAIN Configured : \A registries \in Federations :
    \A uri \in UrisFor(receipts[i].lock, Configured[k].host) :
      LET now == Resolve(uri, registries)
      IN  /\ IsCommit(uri.version)
          /\ now = NoHit \/ RawUrl(now.entry) = RawUrl(receipts[i].lock.skills[uri.skill])
================================================================================
