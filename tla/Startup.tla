-------------------------------- MODULE Startup --------------------------------
(* What a registry process does from exec to a settled signing key: the       *)
(* embedded migrations, then serving, with the key resolved in the background *)
(* while the loops already sign.  Processes share one database and one Vault  *)
(* and are restarted by their supervisor (restart: unless-stopped).           *)
(*                                                                            *)
(* Time is left out: the back-off between two probes is capped at five        *)
(* minutes, which is why another probe always follows (weak fairness).        *)
EXTENDS Naturals, FiniteSets

CONSTANTS
  Procs,         \* processes that start against the same database
  NumFiles,      \* MIGRATIONS, in their order
  Reruns,        \* the files whose SQL tolerates a second run (IF NOT EXISTS)
  MaxFaults,     \* bound: statements that fail, stops of a process, outages
  MaxVersion     \* bound: versions of the Vault key

ASSUME StartupAssumption ==
  /\ NumFiles \in Nat /\ MaxFaults \in Nat
  /\ MaxVersion \in Nat \ {0}

Files == 1 .. NumFiles
\* Keyless is a transit key that has no version (yet).
Keyless == 0
Versions == 1 .. MaxVersion

VARIABLES
  at,        \* where each process is
  file,      \* its position in MIGRATIONS
  tracker,   \* the table _rcx_registry_migrations exists
  applied,   \* the files it names
  runs,      \* how often the SQL of each file has been committed
  signer,    \* "vault" or, without VAULT_ADDR, "unsigned"; the same for all
  version,   \* the newest version of the Vault key, or Keyless
  readable,  \* Vault answers and the token file can be read
  status,    \* SigningKeyPublication: "unavailable", "unsigned", "published"
  key,       \* the version published, 0 while there is none
  signed,    \* versions this run of the process has signed under, 0 for zeros
  since,     \* the newest version when it started
  faults

migration == <<at, file, tracker, applied, runs>>
publication == <<status, key, signed, since>>
vault == <<signer, version, readable>>
vars == <<migration, publication, vault, faults>>

Places == {"down", "tracker", "check", "sql", "mark", "commit", "serving"}

TypeOK ==
  /\ at \in [Procs -> Places]
  /\ file \in [Procs -> 1 .. NumFiles + 1]
  /\ tracker \in BOOLEAN
  /\ applied \subseteq Files
  /\ runs \in [Files -> Nat]
  /\ signer \in {"vault", "unsigned"}
  /\ version \in {Keyless} \cup Versions
  /\ readable \in BOOLEAN
  /\ status \in [Procs -> {"unavailable", "unsigned", "published"}]
  /\ key \in [Procs -> {0} \cup Versions]
  /\ signed \in [Procs -> SUBSET ({0} \cup Versions)]
  /\ since \in [Procs -> {Keyless} \cup Versions]
  /\ faults \in 0 .. MaxFaults

Init ==
  /\ at = [p \in Procs |-> "down"]
  /\ file = [p \in Procs |-> 1]
  /\ tracker = FALSE /\ applied = {}
  /\ runs = [f \in Files |-> 0]
  /\ signer \in {"vault", "unsigned"}
  /\ version \in {Keyless, 1} /\ readable \in BOOLEAN
  /\ status = [p \in Procs |-> "unavailable"]
  /\ key = [p \in Procs |-> 0]
  /\ signed = [p \in Procs |-> {}]
  /\ since = [p \in Procs |-> version]
  /\ faults = 0

--------------------------------------------------------------------------------
Go(p, place) == at' = [at EXCEPT ![p] = place]

\* The supervisor starts the process; the key slot is empty again.
Start(p) ==
  /\ at[p] = "down"
  /\ Go(p, "tracker")
  /\ file' = [file EXCEPT ![p] = 1]
  /\ status' = [status EXCEPT ![p] = "unavailable"]
  /\ key' = [key EXCEPT ![p] = 0]
  /\ signed' = [signed EXCEPT ![p] = {}]
  /\ since' = [since EXCEPT ![p] = version]
  /\ UNCHANGED <<tracker, applied, runs, vault, faults>>

\* run returns an error, or the process stops: an open transaction is rolled
\* back and the process is gone until the supervisor starts it again.
Exit(p) == Go(p, "down") /\ UNCHANGED <<file, tracker, applied, runs, publication, vault>>

\* CREATE TABLE IF NOT EXISTS.  Two that create it at once may both find it
\* missing, and then the second fails: one of the failures of Stop.
CreateTracker(p) ==
  /\ at[p] = "tracker"
  /\ Go(p, "check")
  /\ tracker' = TRUE
  /\ UNCHANGED <<file, applied, runs, publication, vault, faults>>

\* SELECT EXISTS: the next file, or past the last one the server.
Check(p) ==
  /\ at[p] = "check"
  /\ \/ /\ file[p] > NumFiles
        /\ Go(p, "serving")
        /\ UNCHANGED file
     \/ /\ file[p] \in applied
        /\ file' = [file EXCEPT ![p] = @ + 1]
        /\ UNCHANGED at
     \/ /\ file[p] \in Files \ applied
        /\ Go(p, "sql")
        /\ UNCHANGED file
  /\ UNCHANGED <<tracker, applied, runs, publication, vault, faults>>

\* The processes that hold the locks of the file's SQL in an open transaction.
Holders(f) == {q \in Procs : at[q] \in {"mark", "commit"} /\ file[q] = f}

\* tx.batch_execute: it waits for a transaction that runs the same file.
RunSql(p) ==
  /\ at[p] = "sql"
  /\ Holders(file[p]) = {}
  /\ runs[file[p]] = 0 \/ file[p] \in Reruns
  /\ Go(p, "mark")
  /\ UNCHANGED <<file, tracker, applied, runs, publication, vault, faults>>

\* The objects are there already: another process was faster.
SqlFails(p) ==
  /\ at[p] = "sql"
  /\ Holders(file[p]) = {}
  /\ runs[file[p]] > 0 /\ file[p] \notin Reruns
  /\ Exit(p) /\ UNCHANGED faults

\* Mutant of Mark: INSERT ... ON CONFLICT DO NOTHING.
MarkAgain(p) ==
  /\ at[p] = "mark"
  /\ Go(p, "commit")
  /\ UNCHANGED <<file, tracker, applied, runs, publication, vault, faults>>

\* INSERT INTO _rcx_registry_migrations, whose primary key is the file name.
Mark(p) ==
  /\ at[p] = "mark"
  /\ file[p] \notin applied
  /\ Go(p, "commit")
  /\ UNCHANGED <<file, tracker, applied, runs, publication, vault, faults>>

MarkFails(p) ==
  /\ at[p] = "mark"
  /\ file[p] \in applied
  /\ Exit(p) /\ UNCHANGED faults

Commit(p) ==
  /\ at[p] = "commit"
  /\ runs' = [runs EXCEPT ![file[p]] = @ + 1]
  /\ applied' = applied \cup {file[p]}
  /\ file' = [file EXCEPT ![p] = @ + 1]
  /\ Go(p, "check")
  /\ UNCHANGED <<tracker, publication, vault, faults>>

\* Any statement may fail and any process may stop, at any place.
Stop(p) ==
  /\ at[p] # "down" /\ faults < MaxFaults
  /\ faults' = faults + 1
  /\ Exit(p)

--------------------------------------------------------------------------------
\* Mutant of AcceptsVersion: the prefix of any version is stripped.
AcceptsAnyVersion(v) == v \in Versions

\* strip_prefix("vault:v1:"): Vault puts the version it signed with there, so
\* once the key has been rotated every signature is refused.
AcceptsVersion(v) == v = 1

\* sign, for the receipt of a tick or of an enrichment, if it succeeds.
Sign(p) ==
  /\ at[p] = "serving"
  /\ \/ /\ signer = "unsigned"
        /\ signed' = [signed EXCEPT ![p] = @ \cup {0}]
     \/ /\ signer = "vault" /\ readable
        /\ AcceptsVersion(version)
        /\ signed' = [signed EXCEPT ![p] = @ \cup {version}]
  /\ UNCHANGED <<migration, status, key, since, vault, faults>>

\* The call fails and its caller mints nothing.
SignFails(p) ==
  /\ at[p] = "serving" /\ signer = "vault"
  /\ ~readable \/ ~AcceptsVersion(version)
  /\ UNCHANGED vars

\* Mutant of StillProbes: a probe that failed is not repeated.
GivesUp(p) == at[p] = "serving" /\ status[p] = "unavailable" /\ faults = 0

\* resolve_signing_key loops until the slot is filled or the process stops.
StillProbes(p) == at[p] = "serving" /\ status[p] = "unavailable"

\* public_key: the newest version; a signer without a key, or a Vault key without a
\* version, settles the answer too, and an error leaves the slot as it is for the
\* next probe.
ResolveKey(p) ==
  /\ StillProbes(p)
  /\ \/ /\ signer = "unsigned" \/ (readable /\ version = Keyless)
        /\ status' = [status EXCEPT ![p] = "unsigned"]
        /\ UNCHANGED key
     \/ /\ signer = "vault" /\ readable /\ version # Keyless
        /\ status' = [status EXCEPT ![p] = "published"]
        /\ key' = [key EXCEPT ![p] = version]
  /\ UNCHANGED <<migration, signed, since, vault, faults>>

\* Vault or the token file cannot be read for a while.
Outage ==
  /\ readable /\ faults < MaxFaults
  /\ readable' = FALSE /\ faults' = faults + 1
  /\ UNCHANGED <<migration, publication, signer, version>>

Recover ==
  /\ ~readable
  /\ readable' = TRUE
  /\ UNCHANGED <<migration, publication, signer, version, faults>>

\* An operator adds a version to the transit key, its first one included.
Rotate ==
  /\ version < MaxVersion
  /\ version' = version + 1
  /\ UNCHANGED <<migration, publication, signer, readable, faults>>

Run(p) == \/ Start(p) \/ CreateTracker(p) \/ Check(p)
          \/ RunSql(p) \/ SqlFails(p) \/ Mark(p) \/ MarkFails(p) \/ Commit(p)

Next == \/ \E p \in Procs : Run(p) \/ Stop(p) \/ Sign(p) \/ SignFails(p) \/ ResolveKey(p)
        \/ Outage \/ Recover \/ Rotate

\* The supervisor restarts, the database answers, the probe is repeated and an
\* outage ends; nobody has to sign and no key has to be rotated.
Fairness ==
  /\ \A p \in Procs : WF_vars(Run(p)) /\ WF_vars(ResolveKey(p))
  /\ WF_vars(Recover)

Spec == Init /\ [][Next]_vars
FairSpec == Spec /\ Fairness

--------------------------------------------------------------------------------
\* Whoever races, fails or is stopped during the migrations: the SQL of a file
\* has taken effect exactly once if the tracker names it and not at all
\* otherwise, the tracker names the first files without a gap, and a process
\* that serves finds all of them.
ServesWholeSchema ==
  /\ \A f \in Files : runs[f] = IF f \in applied THEN 1 ELSE 0
  /\ \A f \in applied : \A g \in Files : g < f => g \in applied
  /\ \A p \in Procs : at[p] = "serving" => applied = Files

\* Who fetches the key of a process can check what that process signs, also
\* what it signed before the key was published and after the Vault key was
\* rotated; only a rotation between its start and its first successful probe
\* parts the two.  A process that calls itself unsigned signs with zeros only,
\* unless it was started over a Vault key that had no version yet: that answer is
\* final, and the first version is signed with all the same.
PublishedVerifies ==
  \A p \in Procs :
    /\ status[p] = "unsigned" =>
         signed[p] \subseteq {0} \/ (signer = "vault" /\ since[p] = Keyless)
    /\ status[p] = "published" /\ key[p] = since[p] => signed[p] \subseteq {key[p]}

\* Every process ends up serving with a settled answer about its key, without
\* an operator, after races, failed statements, stops and outages.
KeyIsSettled ==
  \A p \in Procs : <>[](at[p] = "serving" /\ status[p] # "unavailable")
================================================================================
