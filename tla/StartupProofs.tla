----------------------------- MODULE StartupProofs -----------------------------
(* Startup, for any number of processes, files, faults and key versions: type *)
(* correctness, the migrations and the published key.                         *)
EXTENDS Startup, TLAPS

\* The steps whose effect on the types is only that of Go.
Small(p) == CreateTracker(p) \/ RunSql(p) \/ SqlFails(p) \/ Mark(p) \/ MarkFails(p)

\* A process is past the last file only when it looks for one or serves.
InRange == \A p \in Procs : at[p] \in {"sql", "mark", "commit"} => file[p] \in Files
TypeInv == TypeOK /\ InRange

\* No step breaks the types of the state.
LEMMA TypeStep ==
  TypeInv /\ [Next]_vars => TypeInv'
<1> SUFFICES ASSUME TypeInv, [Next]_vars PROVE TypeInv'
  OBVIOUS
<1> USE StartupAssumption DEF TypeInv, InRange, TypeOK, Places, Versions, Keyless, Files
<1>1. CASE UNCHANGED vars
  BY <1>1 DEF vars, migration, publication, vault
<1>2. ASSUME NEW p \in Procs, Run(p) PROVE TypeInv'
  <2>1. CASE Start(p)
    BY <2>1 DEF Start, Go, vault
  <2>2. CASE Small(p)
    BY <2>2 DEF Small, CreateTracker, RunSql, SqlFails, Mark, MarkFails, Exit, Go,
                publication, vault
  <2>3. CASE Check(p)
    <3>1. file' \in [Procs -> 1 .. NumFiles + 1]
      BY <2>3 DEF Check
    <3> QED BY <2>3, <3>1 DEF Check, Go, publication, vault
  <2>4. CASE Commit(p)
    <3>1. file[p] \in Files
      BY <2>4 DEF Commit
    <3>2. file' \in [Procs -> 1 .. NumFiles + 1]
      BY <2>4, <3>1 DEF Commit
    <3>3. runs' \in [Files -> Nat]
      <4>1. runs[file[p]] + 1 \in Nat
        BY <3>1
      <4> QED BY <2>4, <3>1, <4>1 DEF Commit
    <3>7. applied' \subseteq Files
      BY <2>4, <3>1 DEF Commit
    <3>4. at' = [at EXCEPT ![p] = "check"] /\ UNCHANGED <<tracker, publication, vault, faults>>
      BY <2>4 DEF Commit, Go
    <3>5. TypeOK'
      BY <3>2, <3>3, <3>4, <3>7 DEF publication, vault
    <3>6. InRange'
      <4>1. ASSUME NEW q \in Procs, at'[q] \in {"sql", "mark", "commit"}
            PROVE  q # p /\ at[q] = at'[q] /\ file'[q] = file[q]
        BY <2>4, <3>4, <4>1 DEF Commit
      <4> QED BY <4>1
    <3> QED BY <3>5, <3>6
  <2> QED BY <1>2, <2>1, <2>2, <2>3, <2>4 DEF Run, Small
<1>3. ASSUME NEW p \in Procs, Stop(p) PROVE TypeInv'
  BY <1>3 DEF Stop, Exit, Go, publication, vault
<1>4. ASSUME NEW p \in Procs, Sign(p) PROVE TypeInv'
  <2>1. signed' \in [Procs -> SUBSET ({0} \cup Versions)]
    <3>1. PICK v \in {0} \cup Versions : signed' = [signed EXCEPT ![p] = @ \cup {v}]
      BY <1>4 DEF Sign
    <3> QED BY <3>1
  <2> QED BY <1>4, <2>1 DEF Sign, migration, vault
<1>5. ASSUME NEW p \in Procs, ResolveKey(p) PROVE TypeInv'
  BY <1>5 DEF ResolveKey, StillProbes, migration, vault
<1>6. CASE Outage \/ Recover
  <2>1. readable' \in BOOLEAN
    BY <1>6 DEF Outage, Recover
  <2>3. faults' \in 0 .. MaxFaults
    <3>1. CASE Outage
      <4>1. faults < MaxFaults /\ faults' = faults + 1
        BY <3>1, Zenon DEF Outage
      <4> QED BY <4>1
    <3>2. CASE Recover
      <4>1. faults' = faults
        BY <3>2 DEF Recover
      <4> QED BY <4>1
    <3> QED BY <1>6, <3>1, <3>2
  <2>2. UNCHANGED <<migration, publication, signer, version>>
    BY <1>6 DEF Outage, Recover
  <2> QED BY <2>1, <2>2, <2>3 DEF migration, publication
<1>8. CASE Rotate
  <2>1. version' \in {Keyless} \cup Versions
    BY <1>8 DEF Rotate
  <2> QED BY <1>8, <2>1 DEF Rotate, migration, publication
<1>7. ASSUME NEW p \in Procs, SignFails(p) PROVE TypeInv'
  BY <1>1, <1>7 DEF SignFails
<1> QED BY <1>1, <1>2, <1>3, <1>4, <1>5, <1>6, <1>7, <1>8 DEF Next

\* The state keeps its types, whatever the processes, the database and Vault do.
THEOREM TypeCorrect == Spec => []TypeOK
<1>1. ASSUME Init PROVE TypeInv
  <2> USE <1>1, StartupAssumption DEF Init, Versions, Keyless, Files
  <2>1. version \in {Keyless} \cup Versions /\ faults \in 0 .. MaxFaults
    OBVIOUS
  <2>2. file \in [Procs -> 1 .. NumFiles + 1]
    OBVIOUS
  <2>3. since \in [Procs -> {Keyless} \cup Versions]
    OBVIOUS
  <2>4. key \in [Procs -> {0} \cup Versions]
    OBVIOUS
  <2>5. signed \in [Procs -> SUBSET ({0} \cup Versions)]
    OBVIOUS
  <2> QED BY <2>1, <2>2, <2>3, <2>4, <2>5 DEF TypeInv, InRange, TypeOK, Places
<1>2. TypeInv => TypeOK
  BY DEF TypeInv
<1> QED BY <1>1, <1>2, TypeStep, PTL DEF Spec

--------------------------------------------------------------------------------
InTransaction(p) == at[p] \in {"mark", "commit"}

\* What the transactions and the tracker keep of the migrations: a process has
\* the files before its own behind it, one process at a time runs a file, and
\* what is about to be committed has not been committed.
SchemaInv ==
  /\ \A f \in Files : runs[f] = IF f \in applied THEN 1 ELSE 0
  /\ \A p \in Procs : \A g \in Files : g < file[p] => g \in applied
  /\ \A p \in Procs : at[p] = "sql" \/ InTransaction(p) => file[p] \in Files
  /\ \A p \in Procs : at[p] = "commit" => file[p] \notin applied
  /\ \A p, q \in Procs :
       InTransaction(p) /\ InTransaction(q) /\ file[p] = file[q] => p = q
  /\ \A p \in Procs : at[p] = "serving" => file[p] > NumFiles
  /\ \A f \in applied : \A g \in Files : g < f => g \in applied

\* One statement of a process keeps the invariant of the migrations.
LEMMA SchemaRun ==
  ASSUME TypeOK, SchemaInv, NEW p \in Procs, Run(p)
  PROVE  SchemaInv'
<1> USE StartupAssumption DEF TypeOK, Places, Files, SchemaInv, InTransaction
<1>1. CASE Start(p)
  BY <1>1 DEF Start, Go
<1>2. CASE CreateTracker(p)
  BY <1>2 DEF CreateTracker, Go
<1>3. CASE Check(p)
  <2>1. CASE file[p] > NumFiles /\ at' = [at EXCEPT ![p] = "serving"] /\ UNCHANGED file
    BY <1>3, <2>1 DEF Check
  <2>2. CASE file[p] \in applied /\ file' = [file EXCEPT ![p] = @ + 1] /\ UNCHANGED at
    <3>1. \A q \in Procs : \A g \in Files : g < file'[q] => g \in applied
      BY <2>2
    <3> QED BY <1>3, <2>2, <3>1 DEF Check
  <2>3. CASE file[p] \in Files /\ at' = [at EXCEPT ![p] = "sql"] /\ UNCHANGED file
    BY <1>3, <2>3 DEF Check
  <2> QED BY <1>3, <2>1, <2>2, <2>3 DEF Check, Go
<1>4. CASE RunSql(p)
  BY <1>4 DEF RunSql, Go, Holders
<1>5. CASE SqlFails(p) \/ MarkFails(p)
  <2>1. at' = [at EXCEPT ![p] = "down"] /\ UNCHANGED <<file, applied, runs>>
    BY <1>5 DEF SqlFails, MarkFails, Exit, Go
  <2> QED BY <2>1
<1>6. CASE Mark(p)
  BY <1>6 DEF Mark, Go
<1>7. CASE Commit(p)
  <2>1. /\ file[p] \in Files \ applied
        /\ runs[file[p]] = 0
    BY <1>7 DEF Commit
  <2>2. /\ runs' = [runs EXCEPT ![file[p]] = @ + 1]
        /\ applied' = applied \cup {file[p]}
        /\ file' = [file EXCEPT ![p] = @ + 1]
        /\ at' = [at EXCEPT ![p] = "check"]
    BY <1>7 DEF Commit, Go
  <2>3. \A f \in Files : runs'[f] = IF f \in applied' THEN 1 ELSE 0
    BY <2>1, <2>2
  <2>4. \A q \in Procs : \A g \in Files : g < file'[q] => g \in applied'
    BY <2>1, <2>2
  <2>5. \A q \in Procs : at'[q] = "commit" => file'[q] \notin applied'
    BY <1>7, <2>1, <2>2 DEF Commit
  <2>6. \A f \in applied' : \A g \in Files : g < f => g \in applied'
    BY <2>1, <2>2
  <2> QED BY <2>2, <2>3, <2>4, <2>5, <2>6
<1> QED BY <1>1, <1>2, <1>3, <1>4, <1>5, <1>6, <1>7 DEF Run

\* No step breaks the invariant of the migrations.
LEMMA SchemaStep ==
  TypeOK /\ SchemaInv /\ [Next]_vars => SchemaInv'
<1> SUFFICES ASSUME TypeOK, SchemaInv, [Next]_vars PROVE SchemaInv'
  OBVIOUS
<1>1. ASSUME UNCHANGED migration PROVE SchemaInv'
  BY <1>1 DEF SchemaInv, InTransaction, migration
<1>2. ASSUME NEW p \in Procs, Run(p) PROVE SchemaInv'
  BY <1>2, SchemaRun
<1>3. ASSUME NEW p \in Procs, Stop(p) PROVE SchemaInv'
  BY <1>3 DEF TypeOK, SchemaInv, InTransaction, Stop, Exit, Go
<1>4. ASSUME NEW p \in Procs, Sign(p) \/ SignFails(p) \/ ResolveKey(p) PROVE SchemaInv'
  BY <1>1, <1>4 DEF Sign, SignFails, ResolveKey, vars
<1>5. CASE Outage \/ Recover \/ Rotate \/ UNCHANGED vars
  BY <1>1, <1>5 DEF Outage, Recover, Rotate, vars
<1> QED BY <1>2, <1>3, <1>4, <1>5 DEF Next

\* The SQL of every file takes effect exactly once, in order, and before any
\* process serves, however many processes race and wherever they stop.
THEOREM SchemaIsWhole == Spec => []ServesWholeSchema
<1>1. Init => SchemaInv
  BY StartupAssumption DEF Init, SchemaInv, InTransaction, Files
<1>2. ASSUME TypeOK, SchemaInv PROVE ServesWholeSchema
  <2>1. ASSUME NEW p \in Procs, at[p] = "serving" PROVE applied = Files
    <3>1. \A g \in Files : g < file[p]
      BY <1>2, <2>1, StartupAssumption DEF TypeOK, SchemaInv, Files
    <3> QED BY <1>2, <3>1 DEF TypeOK, SchemaInv
  <2> QED BY <1>2, <2>1 DEF SchemaInv, ServesWholeSchema
<1> QED BY <1>1, <1>2, SchemaStep, TypeCorrect, PTL DEF Spec

--------------------------------------------------------------------------------
\* Why the published key fits: a Vault signature that is accepted is one of the
\* first version, so whoever holds one started before the second version.
KeyInv ==
  /\ PublishedVerifies
  /\ \A p \in Procs :
       /\ since[p] <= version
       /\ status[p] = "unsigned" => signer = "unsigned" \/ since[p] = Keyless
       /\ status[p] = "published" => signer = "vault" /\ key[p] \in Versions
       /\ signer = "unsigned" => signed[p] \subseteq {0}
       /\ signer = "vault" => \A v \in signed[p] : v = 1 /\ since[p] <= 1

\* No step breaks what is known of keys and signatures.
LEMMA KeyStep ==
  TypeOK /\ KeyInv /\ [Next]_vars => KeyInv'
<1> SUFFICES ASSUME TypeOK, KeyInv, [Next]_vars PROVE KeyInv'
  OBVIOUS
<1> USE StartupAssumption DEF TypeOK, Versions, Keyless
<1>1. ASSUME UNCHANGED <<publication, signer, version>> PROVE KeyInv'
  BY <1>1 DEF KeyInv, PublishedVerifies, publication
<1>2. ASSUME NEW p \in Procs, Start(p) PROVE KeyInv'
  BY <1>2 DEF Start, KeyInv, PublishedVerifies, vault
<1>3. ASSUME NEW p \in Procs, Run(p), ~Start(p) PROVE KeyInv'
  BY <1>1, <1>3 DEF Run, CreateTracker, Check, RunSql, SqlFails, Mark, MarkFails,
                    Commit, Exit, vault
<1>4. ASSUME NEW p \in Procs, Stop(p) PROVE KeyInv'
  BY <1>1, <1>4 DEF Stop, Exit, vault
<1>5. ASSUME NEW p \in Procs, Sign(p) PROVE KeyInv'
  <2>1. UNCHANGED <<status, key, since, signer, version>>
    BY <1>5 DEF Sign, vault
  <2>2. CASE signer = "unsigned" /\ signed' = [signed EXCEPT ![p] = @ \cup {0}]
    BY <2>1, <2>2 DEF KeyInv, PublishedVerifies
  <2>3. CASE /\ signer = "vault" /\ version = 1
             /\ signed' = [signed EXCEPT ![p] = @ \cup {version}]
    <3>1. since[p] <= 1
      BY <2>3 DEF KeyInv
    <3>2. signed'[p] = signed[p] \cup {1} /\ \A q \in Procs \ {p} : signed'[q] = signed[q]
      BY <2>3
    <3>3. ASSUME NEW q \in Procs, status[q] = "published", key[q] = since[q]
          PROVE  signed'[q] \subseteq {key[q]}
      <4>1. CASE q = p
        <5>1. key[p] = 1
          BY <3>1, <3>3, <4>1 DEF KeyInv
        <5>2. \A v \in signed[p] : v = 1
          BY <2>3 DEF KeyInv
        <5> QED BY <3>2, <4>1, <5>1, <5>2
      <4>2. CASE q # p
        BY <3>2, <3>3, <4>2 DEF KeyInv, PublishedVerifies
      <4> QED BY <4>1, <4>2
    <3>4. PublishedVerifies'
      BY <2>1, <2>3, <3>3 DEF KeyInv, PublishedVerifies
    <3>5. ASSUME NEW q \in Procs, NEW v \in signed'[q] PROVE v = 1 /\ since[q] <= 1
      BY <2>3, <3>1, <3>2, <3>5 DEF KeyInv
    <3> QED BY <2>1, <2>3, <3>4, <3>5 DEF KeyInv
  <2> QED BY <1>5, <2>2, <2>3 DEF Sign, AcceptsVersion
<1>6. ASSUME NEW p \in Procs, ResolveKey(p) PROVE KeyInv'
  BY <1>6 DEF ResolveKey, StillProbes, KeyInv, PublishedVerifies, vault
<1>7. CASE Outage \/ Recover \/ UNCHANGED vars
  BY <1>1, <1>7 DEF Outage, Recover, vars, vault
<1>8. CASE Rotate
  BY <1>8 DEF Rotate, KeyInv, PublishedVerifies, publication
<1>9. ASSUME NEW p \in Procs, SignFails(p) PROVE KeyInv'
  BY <1>7, <1>9 DEF SignFails
<1> QED BY <1>2, <1>3, <1>4, <1>5, <1>6, <1>7, <1>8, <1>9 DEF Next

\* What a process signs verifies under the key it publishes, unless the Vault
\* key was rotated between its start and its first successful probe.
THEOREM KeyFits == Spec => []PublishedVerifies
<1>1. Init => KeyInv
  BY StartupAssumption DEF Init, KeyInv, PublishedVerifies, Keyless
<1>2. KeyInv => PublishedVerifies
  BY DEF KeyInv
<1> QED BY <1>1, <1>2, KeyStep, TypeCorrect, PTL DEF Spec
================================================================================
