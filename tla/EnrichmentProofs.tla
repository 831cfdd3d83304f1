---------------------------- MODULE EnrichmentProofs ---------------------------
(* Enrichment, for every set of servers, namespaces, declarations and         *)
(* requests: type correctness, the rights behind a receipt, the supersession  *)
(* chain and the two halves of a record.                                      *)
EXTENDS Enrichment, TLAPS, SequenceTheorems

--------------------------------------------------------------------------------
(* Receipts as sequences.                                                     *)

\* A receipt that supersedes a chain is one content longer and ends in it.
LEMMA SupersedingExtends ==
  ASSUME NEW S, NEW prior \in Seq(S), NEW content \in S
  PROVE  LET chain == Superseding(prior, content)
         IN  /\ chain \in Seq(S) /\ chain # <<>>
             /\ Front(chain) = prior /\ Last(chain) = content
<1> DEFINE chain == Superseding(prior, content)
<1>1. /\ chain \in Seq(S) /\ chain # <<>> /\ Len(chain) = Len(prior) + 1
      /\ \A i \in 1 .. Len(prior) : chain[i] = prior[i]
      /\ chain[Len(prior) + 1] = content
  BY AppendProperties DEF Superseding
<1>2. Len(prior) \in Nat
  BY LenProperties
<1>3. Last(chain) = content
  BY <1>1 DEF Last
<1>4. Front(chain) = prior
  <2>1. Front(chain) = SubSeq(chain, 1, Len(prior))
    BY <1>1, <1>2 DEF Front
  <2> QED BY <1>1, <1>2, <2>1, SMT
<1> QED BY <1>1, <1>3, <1>4

\* What precedes a receipt, and what precedes that, is a prefix of it.
LEMMA FrontPrefix ==
  ASSUME NEW S, NEW c \in Seq(S), NEW d \in Seq(S), d # <<>>, IsPrefix(c, Front(d))
  PROVE  IsPrefix(c, d)
<1>1. Len(d) \in Nat /\ Len(d) > 0 /\ Len(c) \in Nat
  BY LenProperties, EmptySeq
<1>2. PICK n \in Nat : n + 1 = Len(d)
  BY <1>1
<1>3. /\ Front(d) \in Seq(S) /\ Len(Front(d)) = n
      /\ \A i \in 1 .. n : Front(d)[i] = d[i]
  <2>1. Front(d) = SubSeq(d, 1, n)
    BY <1>2 DEF Front
  <2>2. \A i \in 1 .. n : d[i] \in S
    BY <1>2, ElementOfSeq
  <2>3. /\ SubSeq(d, 1, n) \in Seq(S)
        /\ Len(SubSeq(d, 1, n)) = IF 1 <= n THEN n - 1 + 1 ELSE 0
        /\ \A i \in 1 .. n - 1 + 1 : SubSeq(d, 1, n)[i] = d[1 + i - 1]
    BY <2>2, SubSeqProperties
  <2> QED BY <2>1, <2>3
<1> QED BY <1>1, <1>2, <1>3, SMT DEF IsPrefix

\* Every receipt is a prefix of itself.
LEMMA PrefixOfItself ==
  ASSUME NEW S, NEW c \in Seq(S)
  PROVE  IsPrefix(c, c)
BY LenProperties DEF IsPrefix

--------------------------------------------------------------------------------
(* Types.                                                                     *)

\* The fields a job has in its stage.
LEMMA JobFields ==
  ASSUME NEW j \in Job
  PROVE  /\ j.stage \in {"fetch", "rights", "prior", "row", "meta"} => j.name \in Names
         /\ j.stage \in {"rights", "prior"} => j.doc \in Docs
         /\ j.stage = "prior" => j.method \in Methods
         /\ j.stage \in {"row", "meta"} =>
              j.chain \in Chains /\ [j EXCEPT !.stage = "meta"] =
                [stage |-> "meta", name |-> j.name, chain |-> j.chain]
BY DEF Job, Idle

\* What the prior of a job and its declaration give is a job.
LEMMA MintedJob ==
  ASSUME NEW n \in Names, NEW doc \in Docs, NEW method \in Methods, NEW w \in Writers,
         NEW prior \in Chains
  PROVE  LET content == [doc |-> doc, method |-> method, by |-> By(w)]
             j == [stage |-> "row", name |-> n, chain |-> Superseding(prior, content)]
         IN  /\ content \in Contents /\ j \in Job
             /\ j.chain # <<>> /\ Front(j.chain) = prior /\ Last(j.chain) = content
<1> DEFINE content == [doc |-> doc, method |-> method, by |-> By(w)]
<1>1. content \in Contents
  BY DEF Contents, By
<1>2. /\ Superseding(prior, content) \in Chains /\ Superseding(prior, content) # <<>>
      /\ Front(Superseding(prior, content)) = prior /\ Last(Superseding(prior, content)) = content
  <2> HIDE DEF content
  <2> QED BY <1>1, SupersedingExtends DEF Chains
<1> HIDE DEF content
<1> QED BY <1>1, <1>2 DEF Job, content

\* Beyond the types: what is about to be said in the second table has been
\* published in the first.
TypeInv ==
  /\ TypeOK
  /\ published \in [Names -> SUBSET Chains]
  /\ meta \in [Names -> {None} \cup {Sidecar(c) : c \in Chains}]
  /\ \A w \in Writers : job[w].stage = "meta" => job[w].chain \in published[job[w].name]

\* A writer goes on to a job that is not the second statement.
LEMMA TypeOfGoto ==
  ASSUME TypeInv, NEW w \in Writers, NEW j \in Job, j.stage # "meta", Goto(w, j),
         UNCHANGED <<world, tables, ghosts>>, todo' \subseteq Names \X Discoveries, events' \in 0 .. MaxEvents
  PROVE  TypeInv'
<1>1. job' \in [Writers -> Job]
  BY DEF Goto, TypeInv, TypeOK
<1>2. \A v \in Writers : job'[v].stage = "meta" => job'[v] = job[v]
  BY DEF Goto, TypeInv, TypeOK
<1> QED BY <1>1, <1>2 DEF TypeInv, TypeOK, world, tables, ghosts, Sidecar

\* The steps of a writer that only change what it is doing, apart from the list
\* of the sweep and the count of events.
Moves(w) ==
  \/ w = Sweep /\ (NextRow \/ Fetch)
  \/ w \in Requests /\ Receive(w)
  \/ LookupRights(w) \/ ReadPrior(w)

\* Where such a step takes the writer.
LEMMA WhereItMoves ==
  ASSUME TypeInv, NEW w \in Writers, Moves(w)
  PROVE  /\ UNCHANGED <<world, tables, ghosts>>
         /\ todo' \subseteq Names \X Discoveries /\ events' \in 0 .. MaxEvents
         /\ job[w].stage # "meta"
         /\ \/ UNCHANGED job
            \/ \E j \in Job : j.stage \in {"idle", "fetch", "rights"} /\ Goto(w, j)
            \/ /\ LookupRights(w)
               /\ \E n \in Names, doc \in Docs, m \in Methods :
                    /\ RightsOf(doc.passport, n) = m
                    /\ Goto(w, [stage |-> "prior", name |-> n, doc |-> doc, method |-> m])
            \/ /\ ReadPrior(w)
               /\ job[w].stage = "prior"
               /\ \E j \in Job :
                    /\ j.stage = "row" /\ j.name = job[w].name
                    /\ j.chain # <<>> /\ Front(j.chain) = row[j.name]
                    /\ Last(j.chain).doc = job[w].doc
                    /\ Goto(w, j)
<1> USE EnrichmentAssumption DEF TypeInv, TypeOK
<1>1. job[w] \in Job /\ Idle \in Job /\ Idle.stage = "idle"
  BY DEF Job, Idle
<1>2. CASE w = Sweep /\ NextRow
  <2>1. PICK r \in todo :
          /\ todo' = IF r[2] = "broken" THEN {} ELSE todo \ {r}
          /\ IF r[2] = "uri" THEN Goto(Sweep, [stage |-> "fetch", name |-> r[1]])
             ELSE UNCHANGED job
    BY <1>2 DEF NextRow
  <2>2. r[1] \in Names
    BY <2>1
  <2>3. [stage |-> "fetch", name |-> r[1]] \in Job
    BY <2>2 DEF Job
  <2>4. job[w].stage = "idle"
    BY <1>2 DEF NextRow, Idle
  <2> QED BY <1>2, <2>1, <2>3, <2>4 DEF NextRow, tables, world, ghosts
<1>3. CASE w = Sweep /\ Fetch
  <2>1. job[w].stage = "fetch" /\ job[w].name \in Names
    BY <1>1, <1>3, JobFields DEF Fetch
  <2>2. hosted[job[w].name] # None => hosted[job[w].name] \in Docs
    BY <2>1
  <2>3. hosted[job[w].name] # None =>
          [stage |-> "rights", name |-> job[w].name, doc |-> hosted[job[w].name]] \in Job
    BY <2>1, <2>2 DEF Job
  <2> QED BY <1>1, <1>3, <2>1, <2>3 DEF Fetch, Finish, tables, world, ghosts
<1>4. CASE w \in Requests /\ Receive(w)
  <2>1. PICK n \in Names, doc \in Docs :
          Goto(w, [stage |-> "rights", name |-> n, doc |-> doc])
    BY <1>4 DEF Receive
  <2>2. [stage |-> "rights", name |-> n, doc |-> doc] \in Job
    BY DEF Job
  <2>3. events' \in 0 .. MaxEvents
    BY <1>4 DEF Receive, Event
  <2>4. job[w].stage = "idle"
    BY <1>4 DEF Receive, Idle
  <2> QED BY <1>4, <2>1, <2>2, <2>3, <2>4 DEF Receive, tables, world, ghosts
<1>5. CASE LookupRights(w)
  <2>1. job[w].stage = "rights" /\ job[w].name \in Names /\ job[w].doc \in Docs
    BY <1>1, <1>5, JobFields DEF LookupRights
  <2> DEFINE m == RightsOf(job[w].doc.passport, job[w].name)
  <2>2. job[w].doc.passport \in Passports /\ NamespaceOf[job[w].name] \in Namespaces
    BY <2>1 DEF Declaration
  <2>3. m # None => m \in Methods
    BY <2>2 DEF RightsOf
  <2>4. IF m = None THEN Finish(w)
        ELSE Goto(w, [stage |-> "prior", name |-> job[w].name, doc |-> job[w].doc, method |-> m])
    BY <1>5 DEF LookupRights
  <2>5. UNCHANGED <<world, tables, todo, events, ghosts>>
    BY <1>5 DEF LookupRights
  <2> HIDE DEF m
  <2>6. CASE m = None
    BY <1>1, <2>1, <2>4, <2>5, <2>6 DEF Finish
  <2>7. CASE m # None
    BY <1>5, <2>1, <2>3, <2>4, <2>5, <2>7 DEF m
  <2> QED BY <2>6, <2>7
<1>6. CASE ReadPrior(w)
  <2>1. /\ job[w].stage = "prior" /\ job[w].name \in Names
        /\ job[w].doc \in Docs /\ job[w].method \in Methods
    BY <1>1, <1>6, JobFields DEF ReadPrior
  <2> DEFINE content == [doc |-> job[w].doc, method |-> job[w].method, by |-> By(w)]
             j == [stage |-> "row", name |-> job[w].name,
                   chain |-> Superseding(row[job[w].name], content)]
  <2>2. Finish(w) \/ Goto(w, j)
    BY <1>6 DEF ReadPrior
  <2>3. UNCHANGED <<world, tables, todo, events, ghosts>>
    BY <1>6 DEF ReadPrior
  <2>4. row[job[w].name] \in Chains
    BY <2>1
  <2>5. /\ j \in Job /\ j.chain # <<>>
        /\ Front(j.chain) = row[job[w].name] /\ Last(j.chain) = content
    BY <2>1, <2>4, MintedJob
  <2>6. j.stage = "row" /\ j.name = job[w].name /\ content.doc = job[w].doc
    OBVIOUS
  <2> HIDE DEF j, content
  <2> QED BY <1>1, <1>6, <2>1, <2>2, <2>3, <2>5, <2>6 DEF Finish
<1> QED BY <1>2, <1>3, <1>4, <1>5, <1>6 DEF Moves

\* Every step is one of these.
LEMMA Steps ==
  ASSUME [Next]_vars
  PROVE  \/ UNCHANGED vars \/ BeginSweep \/ Restart
         \/ \E w \in Writers : Moves(w) \/ WriteRow(w) \/ WriteMeta(w) \/ Fails(w)
         \/ \E n \in Names : Evict(n) \/ \E d \in Discoveries : Upsert(n, d)
         \/ Publishers
BY DEF Next, SweepStep, Write, Moves, Writers, Upstream

\* The first statement, when the server is still there.
Stores(w) ==
  LET n == job[w].name
  IN  /\ job[w].stage = "row" /\ n \in mirrored
      /\ row' = [row EXCEPT ![n] = job[w].chain]
      /\ job' = [job EXCEPT ![w] = [stage |-> "meta", name |-> n, chain |-> job[w].chain]]
      /\ published' = [published EXCEPT ![n] = @ \cup {job[w].chain}]
      /\ raced' = raced \cup (IF Others(w, {"row"}) = {} THEN {} ELSE {n})
      /\ torn' = torn \cup (IF Others(w, {"meta"}) = {} THEN {} ELSE {n})
      /\ UNCHANGED <<world, meta, todo, events>>

LEMMA WriteRowCases ==
  ASSUME TypeInv, NEW w \in Writers, WriteRow(w)
  PROVE  /\ job[w].stage = "row" /\ job[w].name \in Names /\ job[w].chain \in Chains
         /\ \/ Finish(w) /\ UNCHANGED <<world, tables, todo, events, ghosts>>
            \/ Stores(w)
<1>1. job[w] \in Job /\ job[w].stage = "row"
  BY DEF WriteRow, TypeInv, TypeOK
<1>2. /\ job[w].name \in Names /\ job[w].chain \in Chains
      /\ [job[w] EXCEPT !.stage = "meta"] =
           [stage |-> "meta", name |-> job[w].name, chain |-> job[w].chain]
  BY <1>1, JobFields
<1> QED BY <1>1, <1>2 DEF WriteRow, Stores, Goto, tables

\* No step breaks the types.
LEMMA TypeStep ==
  TypeInv /\ [Next]_vars => TypeInv'
<1> SUFFICES ASSUME TypeInv, [Next]_vars PROVE TypeInv'
  OBVIOUS
<1>0. Idle \in Job /\ Idle.stage = "idle"
  BY DEF Job, Idle
<1>1. CASE UNCHANGED vars
  BY <1>1 DEF vars, TypeInv, TypeOK, Sidecar
<1>2. CASE BeginSweep
  <2>1. todo' \subseteq Names \X Discoveries
    BY <1>2 DEF BeginSweep, TypeInv, TypeOK
  <2> QED BY <1>2, <2>1 DEF BeginSweep, TypeInv, TypeOK, world, tables, ghosts, Sidecar
<1>3. CASE Restart
  <2>1. job' \in [Writers -> Job] /\ \A w \in Writers : job'[w].stage # "meta"
    BY <1>0, <1>3 DEF Restart
  <2>2. torn' \subseteq Names
    <3>1. ASSUME NEW w \in Writers, job[w].stage = "meta" PROVE job[w].name \in Names
      BY <3>1, JobFields DEF TypeInv, TypeOK
    <3> QED BY <1>3, <3>1 DEF Restart, Cut, TypeInv, TypeOK
  <2>3. events' \in 0 .. MaxEvents
    BY <1>3, EnrichmentAssumption DEF Restart, Event, TypeInv, TypeOK
  <2> QED BY <1>3, <2>1, <2>2, <2>3 DEF Restart, TypeInv, TypeOK, world, tables, Sidecar
<1>4. ASSUME NEW w \in Writers, Moves(w) PROVE TypeInv'
  <2>1. CASE UNCHANGED job
    BY <1>4, <2>1, WhereItMoves DEF TypeInv, TypeOK, world, tables, ghosts, Sidecar
  <2>2. CASE \E j \in Job : j.stage # "meta" /\ Goto(w, j)
    BY <1>4, <2>2, WhereItMoves, TypeOfGoto
  <2>3. ASSUME NEW n \in Names, NEW doc \in Docs, NEW m \in Methods
        PROVE  [stage |-> "prior", name |-> n, doc |-> doc, method |-> m] \in Job
    BY DEF Job
  <2> QED BY <1>4, <2>1, <2>2, <2>3, WhereItMoves
<1>5. ASSUME NEW w \in Writers, WriteRow(w) PROVE TypeInv'
  <2>1. CASE Finish(w) /\ UNCHANGED <<world, tables, todo, events, ghosts>>
    BY <1>0, <2>1, TypeOfGoto DEF Finish, TypeInv, TypeOK
  <2>2. CASE Stores(w)
    <3> DEFINE n == job[w].name
               c == job[w].chain
    <3>1. n \in Names /\ c \in Chains
      BY <1>5, WriteRowCases
    <3>2. [stage |-> "meta", name |-> n, chain |-> c] \in Job
      BY <3>1 DEF Job
    <3>3. job' \in [Writers -> Job] /\ row' \in [Names -> Chains]
          /\ published' \in [Names -> SUBSET Chains]
      BY <2>2, <3>1, <3>2 DEF Stores, TypeInv, TypeOK
    <3>4. \A m \in Names : published[m] \subseteq published'[m]
      BY <2>2 DEF Stores, TypeInv, TypeOK
    <3>5. c \in published'[n] /\ row'[n] = c /\ n \in mirrored
          /\ \A m \in Names : m # n => row'[m] = row[m]
      BY <2>2, <3>1 DEF Stores, TypeInv, TypeOK
    <3>6. job'[w].chain = c /\ job'[w].name = n
          /\ \A v \in Writers : v # w => job'[v] = job[v]
      BY <2>2 DEF Stores, TypeInv, TypeOK
    <3>7. \A v \in Writers : job'[v].stage = "meta" => job'[v].chain \in published'[job'[v].name]
      <4>1. ASSUME NEW v \in Writers, v # w, job[v].stage = "meta"
            PROVE  job[v].name \in Names
        BY <4>1, JobFields DEF TypeInv, TypeOK
      <4> QED BY <3>4, <3>5, <3>6, <4>1 DEF TypeInv
    <3>8. raced' \subseteq Names /\ torn' \subseteq Names
      BY <2>2, <3>1 DEF Stores, TypeInv, TypeOK
    <3>9. UNCHANGED <<mirrored, found, hosted, rights, meta, todo, events>>
      BY <2>2 DEF Stores, world
    <3> HIDE DEF n, c
    <3>10. \A m \in Names : row'[m] # <<>> => m \in mirrored /\ row'[m] \in published'[m]
      BY <3>4, <3>5 DEF TypeInv, TypeOK
    <3> QED BY <3>3, <3>4, <3>7, <3>8, <3>9, <3>10 DEF TypeInv, TypeOK, Sidecar
  <2> QED BY <1>5, <2>1, <2>2, WriteRowCases
<1>6. ASSUME NEW w \in Writers, WriteMeta(w) PROVE TypeInv'
  <2>1. job[w].name \in Names /\ job[w].chain \in published[job[w].name]
        /\ job[w].chain \in Chains
    BY <1>6, JobFields DEF WriteMeta, TypeInv, TypeOK
  <2>2. /\ meta' = [meta EXCEPT ![job[w].name] = Sidecar(job[w].chain)]
        /\ job' = [job EXCEPT ![w] = Idle]
        /\ UNCHANGED <<mirrored, found, hosted, rights, row, todo, events, published, raced, torn>>
    BY <1>6 DEF WriteMeta, PutSidecar, Finish, Goto, world, ghosts
  <2>3. job' \in [Writers -> Job] /\ \A v \in Writers : job'[v].stage = "meta" => job'[v] = job[v]
    BY <1>0, <2>2 DEF TypeInv, TypeOK
  <2> DEFINE sc == Sidecar(job[w].chain)
  <2>4. meta' \in [Names -> {None} \cup {Sidecar(c) : c \in Chains}]
    BY <2>1, <2>2 DEF TypeInv, TypeOK
  <2>5. \A m \in Names : meta'[m] = None \/ \E c \in published[m] : meta'[m] = Sidecar(c)
    BY <2>1, <2>2 DEF TypeInv, TypeOK
  <2> QED BY <2>2, <2>3, <2>4, <2>5 DEF TypeInv, TypeOK, Sidecar
<1>7. ASSUME NEW w \in Writers, Fails(w) PROVE TypeInv'
  <2>1. job' \in [Writers -> Job] /\ \A v \in Writers : job'[v].stage = "meta" => job'[v] = job[v]
    BY <1>0, <1>7 DEF Fails, Finish, Goto, TypeInv, TypeOK
  <2>2. torn' \subseteq Names
    <3>1. job[w].stage = "meta" => job[w].name \in Names
      BY JobFields DEF TypeInv, TypeOK
    <3> QED BY <1>7, <3>1 DEF Fails, Cut, TypeInv, TypeOK
  <2>3. events' \in 0 .. MaxEvents
    BY <1>7, EnrichmentAssumption DEF Fails, Event, TypeInv, TypeOK
  <2> QED BY <1>7, <2>1, <2>2, <2>3 DEF Fails, TypeInv, TypeOK, world, tables, Sidecar
<1>8. ASSUME NEW n \in Names, Evict(n) PROVE TypeInv'
  <2>1. events' \in 0 .. MaxEvents
    BY <1>8, EnrichmentAssumption DEF Evict, Event, TypeInv, TypeOK
  <2> QED BY <1>8, <2>1 DEF Evict, TypeInv, TypeOK, tables, ghosts, Sidecar
<1>9. ASSUME NEW n \in Names, NEW d \in Discoveries, Upsert(n, d) PROVE TypeInv'
  <2>1. events' \in 0 .. MaxEvents
    BY <1>9, EnrichmentAssumption DEF Upsert, Event, TypeInv, TypeOK
  <2> QED BY <1>9, <2>1 DEF Upsert, TypeInv, TypeOK, tables, ghosts, Sidecar
<1>10. CASE Publishers
  <2>1. events' \in 0 .. MaxEvents
    <3>1. Event
      BY <1>10 DEF Publishers, Host, Verify
    <3> QED BY <3>1, EnrichmentAssumption DEF Event, TypeInv, TypeOK
  <2>2. hosted' \in [Names -> Docs \cup {None}]
    BY <1>10 DEF Publishers, Host, Verify, TypeInv, TypeOK
  <2>3. rights' \in [Passports \X Namespaces -> Methods \cup {None}]
    BY <1>10 DEF Publishers, Host, Verify, TypeInv, TypeOK
  <2>4. UNCHANGED <<mirrored, found, tables, todo, job, ghosts>>
    BY <1>10 DEF Publishers, Host, Verify
  <2> QED BY <2>1, <2>2, <2>3, <2>4 DEF TypeInv, TypeOK, tables, ghosts, Sidecar
<1> QED
  BY <1>1, <1>2, <1>3, <1>4, <1>5, <1>6, <1>7, <1>8, <1>9, <1>10, Steps

\* The initial tables are empty and no writer does anything.
LEMMA TypeInit ==
  Init => TypeInv
<1> SUFFICES ASSUME Init PROVE TypeInv
  OBVIOUS
<1> USE EnrichmentAssumption DEF Init
<1>1. /\ found \in [Names -> Discoveries] /\ hosted \in [Names -> Docs \cup {None}]
      /\ rights \in [Passports \X Namespaces -> Methods \cup {None}]
  BY DEF Surroundings
<1>2. row \in [Names -> Chains]
  BY EmptySeq DEF Chains
<1>3. job \in [Writers -> Job] /\ \A w \in Writers : job[w].stage = "idle"
  BY DEF Job, Idle
<1>4. meta \in [Names -> {None}] /\ published \in [Names -> {{}}]
  OBVIOUS
<1>5. todo = {} /\ events = 0 /\ raced = {} /\ torn = {} /\ mirrored = Names /\ MaxEvents \in Nat
      /\ \A n \in Names : row[n] = <<>> /\ meta[n] = None /\ published[n] = {}
  OBVIOUS
<1> QED BY <1>1, <1>2, <1>3, <1>4, <1>5 DEF TypeInv, TypeOK

\* The tables, the jobs of the writers and what surrounds them keep their types,
\* whatever races, fails or is evicted.
THEOREM TypeCorrect == Spec => []TypeOK
<1>1. TypeInv => TypeOK
  BY DEF TypeInv
<1> QED BY <1>1, TypeInit, TypeStep, PTL DEF Spec

--------------------------------------------------------------------------------
(* The rights behind a receipt.                                               *)

Backed(doc, n) == rights[<<doc.passport, NamespaceOf[n]>>] # None

\* What a writer has looked up stays true of its declaration until it is
\* published, and after: nothing takes a right away.
Rests(w) ==
  /\ job[w].stage = "prior" => Backed(job[w].doc, job[w].name)
  /\ job[w].stage = "row" => Backed(Last(job[w].chain).doc, job[w].name)

RightsInv == ReceiptsRestOnRights /\ \A w \in Writers : Rests(w)

\* A right that has been recorded stays, by this method or another.
LEMMA RightsStay ==
  ASSUME TypeInv, [Next]_vars, NEW x, rights[x] # None
  PROVE  rights'[x] # None
<1>1. CASE Publishers
  <2>1. CASE UNCHANGED rights
    BY <2>1
  <2>2. ASSUME NEW p \in Passports, NEW ns \in Namespaces, NEW m \in Methods, Verify(p, ns, m)
        PROVE  rights'[x] # None
    <3>1. m # None /\ rights' = [rights EXCEPT ![<<p, ns>>] = m]
      BY <2>2, EnrichmentAssumption DEF Verify
    <3> QED BY <3>1 DEF TypeInv, TypeOK
  <2> QED BY <1>1, <2>1, <2>2 DEF Publishers, Host
<1>2. CASE ~Publishers
  <2>1. UNCHANGED rights
    BY <1>2, Steps, WhereItMoves
       DEF vars, BeginSweep, Restart, WriteRow, WriteMeta, Fails, Evict, Upsert, world
  <2> QED BY <2>1
<1> QED BY <1>1, <1>2

\* No step publishes, or goes on to publish, what no right backs.
LEMMA RightsStep ==
  TypeInv /\ RightsInv /\ [Next]_vars => RightsInv'
<1> SUFFICES ASSUME TypeInv, RightsInv, [Next]_vars PROVE RightsInv'
  OBVIOUS
<1>1. ASSUME NEW doc, NEW n, Backed(doc, n) PROVE Backed(doc, n)'
  BY <1>1, RightsStay DEF Backed
<1>0. ASSUME \A n \in Names : \A c \in published'[n] : c \in published[n] \/ Backed(Last(c).doc, n)',
             \A w \in Writers : job'[w] = job[w] \/ Rests(w)'
      PROVE  RightsInv'
  <2>1. ReceiptsRestOnRights'
    BY <1>0, <1>1 DEF RightsInv, ReceiptsRestOnRights, Backed
  <2>2. ASSUME NEW w \in Writers PROVE Rests(w)'
    <3>1. CASE Rests(w)'
      BY <3>1
    <3>2. CASE job'[w] = job[w]
      <4>1. Rests(w)
        BY DEF RightsInv
      <4> QED BY <1>1, <3>2, <4>1 DEF Rests
    <3> QED BY <1>0, <3>1, <3>2
  <2> QED BY <2>1, <2>2 DEF RightsInv
<1>2. ASSUME published' = published,
             \A w \in Writers : job'[w] = job[w] \/ job'[w].stage \notin {"prior", "row"}
      PROVE  RightsInv'
  BY <1>0, <1>2 DEF Rests
<1>3. CASE UNCHANGED vars \/ BeginSweep \/ Publishers
  BY <1>2, <1>3 DEF vars, BeginSweep, Publishers, Host, Verify, ghosts
<1>4. CASE Restart
  BY <1>2, <1>4 DEF Restart, Idle
<1>5. ASSUME NEW n \in Names, Evict(n) \/ \E d \in Discoveries : Upsert(n, d) PROVE RightsInv'
  BY <1>2, <1>5 DEF Evict, Upsert, ghosts
<1>6. ASSUME NEW w \in Writers, Moves(w) PROVE RightsInv'
  <2>1. published' = published
    BY <1>6, WhereItMoves DEF ghosts
  <2>2. CASE UNCHANGED job
    BY <1>2, <2>1, <2>2
  <2>3. ASSUME NEW j \in Job, j.stage \in {"idle", "fetch", "rights"}, Goto(w, j) PROVE RightsInv'
    BY <1>2, <2>1, <2>3 DEF Goto, TypeInv, TypeOK
  <2>4. ASSUME NEW n \in Names, NEW doc \in Docs, NEW m \in Methods, RightsOf(doc.passport, n) = m,
               Goto(w, [stage |-> "prior", name |-> n, doc |-> doc, method |-> m])
        PROVE  RightsInv'
    <3>1. Backed(doc, n)'
      BY <1>1, <2>4, EnrichmentAssumption DEF RightsOf, Backed
    <3>2. job'[w] = [stage |-> "prior", name |-> n, doc |-> doc, method |-> m]
          /\ \A v \in Writers : v # w => job'[v] = job[v]
      BY <2>4 DEF Goto, TypeInv, TypeOK
    <3>3. Rests(w)'
      BY <3>1, <3>2 DEF Rests
    <3> QED BY <1>0, <2>1, <3>2, <3>3
  <2>5. ASSUME NEW j \in Job, j.stage = "row", j.name = job[w].name, job[w].stage = "prior",
               Last(j.chain).doc = job[w].doc, Goto(w, j)
        PROVE  RightsInv'
    <3>1. Backed(Last(j.chain).doc, j.name)'
      BY <1>1, <2>5 DEF RightsInv, Rests
    <3>2. job'[w] = j /\ \A v \in Writers : v # w => job'[v] = job[v]
      BY <2>5 DEF Goto, TypeInv, TypeOK
    <3>3. Rests(w)'
      BY <2>5, <3>1, <3>2 DEF Rests
    <3> QED BY <1>0, <2>1, <3>2, <3>3
  <2> QED BY <1>6, <2>2, <2>3, <2>4, <2>5, WhereItMoves
<1>7. ASSUME NEW w \in Writers, WriteRow(w) PROVE RightsInv'
  <2>1. CASE Finish(w) /\ UNCHANGED <<world, tables, todo, events, ghosts>>
    BY <1>2, <2>1 DEF Finish, Goto, Idle, ghosts, TypeInv, TypeOK
  <2>2. CASE Stores(w)
    <3>1. ASSUME NEW c, NEW m, c = job[w].chain, m = job[w].name
          PROVE  Backed(Last(c).doc, m)'
      <4>1. Backed(Last(c).doc, m)
        BY <2>2, <3>1 DEF RightsInv, Rests, Stores
      <4> QED BY <1>1, <4>1
    <3>2. \A v \in Writers : job'[v] = job[v] \/ job'[v].stage = "meta"
      BY <2>2 DEF Stores, TypeInv, TypeOK
    <3>3. \A m \in Names : \A c \in published'[m] :
            c \in published[m] \/ (c = job[w].chain /\ m = job[w].name)
      BY <2>2 DEF Stores, TypeInv, TypeOK
    <3>4. \A v \in Writers : job'[v] = job[v] \/ Rests(v)'
      BY <3>2 DEF Rests
    <3> QED BY <1>0, <3>1, <3>3, <3>4
  <2> QED BY <1>7, <2>1, <2>2, WriteRowCases
<1>8. ASSUME NEW w \in Writers, WriteMeta(w) \/ Fails(w) PROVE RightsInv'
  BY <1>2, <1>8 DEF WriteMeta, Fails, Finish, Goto, Idle, ghosts, TypeInv, TypeOK
<1> QED BY <1>3, <1>4, <1>5, <1>6, <1>7, <1>8, Steps

\* A receipt that has been published rests on a right of its passport to the
\* namespace of its server, looked up by whichever writer minted it.
THEOREM RightsCorrect == Spec => []ReceiptsRestOnRights
<1>1. Init => TypeInv /\ RightsInv
  <2>1. Init => RightsInv
    BY DEF Init, RightsInv, Rests, ReceiptsRestOnRights, Idle
  <2> QED BY <2>1, TypeInit
<1>2. RightsInv => ReceiptsRestOnRights
  BY DEF RightsInv
<1> QED BY <1>1, <1>2, TypeStep, RightsStep, PTL DEF Spec
--------------------------------------------------------------------------------
(* The supersession chain.                                                    *)

\* What a writer that is about to store a receipt holds is still the stored prior,
\* for a server whose prior no two writers have held at once.
Continues(w) ==
  job[w].stage = "row" =>
    /\ job[w].chain # <<>>
    /\ job[w].name \notin raced => Front(job[w].chain) = row[job[w].name]

ChainInv == ForksOnlyWhenRaced /\ \A w \in Writers : Continues(w)

\* No step that leaves the first table alone, and no writer that stores a receipt,
\* breaks the chain.
LEMMA ChainStep ==
  TypeInv /\ ChainInv /\ [Next]_vars => ChainInv'
<1> SUFFICES ASSUME TypeInv, ChainInv, [Next]_vars PROVE ChainInv'
  OBVIOUS
<1>1. ASSUME UNCHANGED <<row, published, raced>>,
             \A w \in Writers : job'[w] = job[w] \/ Continues(w)'
      PROVE  ChainInv'
  <2>1. ForksOnlyWhenRaced'
    BY <1>1 DEF ChainInv, ForksOnlyWhenRaced
  <2>2. ASSUME NEW w \in Writers PROVE Continues(w)'
    <3>1. Continues(w)
      BY DEF ChainInv
    <3> QED BY <1>1, <3>1 DEF Continues
  <2> QED BY <2>1, <2>2 DEF ChainInv
<1>2. ASSUME UNCHANGED <<row, published, raced>>,
             \A w \in Writers : job'[w] = job[w] \/ job'[w].stage # "row"
      PROVE  ChainInv'
  BY <1>1, <1>2 DEF Continues
<1>3. CASE UNCHANGED vars \/ BeginSweep \/ Publishers
  BY <1>2, <1>3 DEF vars, BeginSweep, Publishers, Host, Verify, tables, ghosts
<1>4. CASE Restart
  BY <1>2, <1>4 DEF Restart, Idle, tables
<1>5. ASSUME NEW n \in Names, Evict(n) \/ \E d \in Discoveries : Upsert(n, d) PROVE ChainInv'
  BY <1>2, <1>5 DEF Evict, Upsert, tables, ghosts
<1>6. ASSUME NEW w \in Writers, Moves(w) PROVE ChainInv'
  <2>1. UNCHANGED <<row, published, raced>>
    BY <1>6, WhereItMoves DEF tables, ghosts
  <2>2. CASE UNCHANGED job
    BY <1>2, <2>1, <2>2
  <2>3. ASSUME NEW j, j.stage # "row", Goto(w, j) PROVE ChainInv'
    BY <1>2, <2>1, <2>3 DEF Goto, TypeInv, TypeOK
  <2>4. ASSUME NEW j \in Job, j.stage = "row", j.chain # <<>>, Front(j.chain) = row[j.name], Goto(w, j)
        PROVE  ChainInv'
    <3>1. job'[w] = j /\ \A v \in Writers : v # w => job'[v] = job[v]
      BY <2>4 DEF Goto, TypeInv, TypeOK
    <3>2. Continues(w)'
      BY <2>1, <2>4, <3>1 DEF Continues
    <3> QED BY <1>1, <2>1, <3>1, <3>2
  <2> QED BY <1>6, <2>2, <2>3, <2>4, WhereItMoves
<1>7. ASSUME NEW w \in Writers, WriteRow(w) PROVE ChainInv'
  <2>1. CASE Finish(w) /\ UNCHANGED <<world, tables, todo, events, ghosts>>
    BY <1>2, <2>1 DEF Finish, Goto, Idle, tables, ghosts, TypeInv, TypeOK
  <2>2. CASE Stores(w)
    <3>1. PICK n \in Names, c \in Chains : n = job[w].name /\ c = job[w].chain
      BY <1>7, WriteRowCases
    <3>2. /\ row' = [row EXCEPT ![n] = c] /\ published' = [published EXCEPT ![n] = @ \cup {c}]
          /\ raced \subseteq raced' /\ (n \notin raced' => Others(w, {"row"}) = {})
          /\ job'[w].stage = "meta" /\ \A v \in Writers : v # w => job'[v] = job[v]
      BY <2>2, <3>1 DEF Stores, TypeInv, TypeOK
    <3>3. /\ row[n] \in Chains /\ published[n] \subseteq Chains
          /\ row'[n] = c /\ published'[n] = published[n] \cup {c}
          /\ \A m \in Names : m # n => row'[m] = row[m] /\ published'[m] = published[m]
      BY <3>2 DEF TypeInv, TypeOK
    <3>4. c # <<>> /\ (n \notin raced' => Front(c) = row[n])
      BY <2>2, <3>1, <3>2 DEF ChainInv, Continues, Stores
    <3>5. ForksOnlyWhenRaced'
      <4>1. ASSUME NEW m \in Names \ raced', m # n
            PROVE  (published'[m] = {} <=> row'[m] = <<>>) /\ \A d \in published'[m] : IsPrefix(d, row'[m])
        BY <3>2, <3>3, <4>1 DEF ChainInv, ForksOnlyWhenRaced
      <4>2. ASSUME n \notin raced', NEW d \in published'[n] PROVE IsPrefix(d, c)
        <5>1. CASE d = c
          BY <5>1, PrefixOfItself DEF Chains
        <5>2. CASE d \in published[n]
          <6>1. IsPrefix(d, Front(c)) /\ d \in Chains
            BY <3>2, <3>3, <3>4, <4>2, <5>2 DEF ChainInv, ForksOnlyWhenRaced
          <6> QED BY <3>4, <6>1, FrontPrefix DEF Chains
        <5> QED BY <3>3, <4>2, <5>1, <5>2
      <4> QED BY <3>3, <3>4, <4>1, <4>2 DEF ForksOnlyWhenRaced
    <3>6. ASSUME NEW v \in Writers PROVE Continues(v)'
      <4>1. CASE v = w
        BY <3>2, <4>1 DEF Continues
      <4>2. CASE v # w /\ job[v].stage = "row"
        <5>1. Continues(v) /\ job'[v] = job[v] /\ job[v].name \in Names
          BY <3>2, <4>2, JobFields DEF ChainInv, TypeInv, TypeOK
        <5>2. n \notin raced' => job[v].name # n
          BY <3>1, <3>2, <4>2 DEF Others
        <5> QED BY <3>2, <3>3, <5>1, <5>2 DEF Continues
      <4>3. CASE v # w /\ job[v].stage # "row"
        BY <3>2, <4>3 DEF Continues
      <4> QED BY <4>1, <4>2, <4>3
    <3> QED BY <3>5, <3>6 DEF ChainInv
  <2> QED BY <1>7, <2>1, <2>2, WriteRowCases
<1>8. ASSUME NEW w \in Writers, WriteMeta(w) \/ Fails(w) PROVE ChainInv'
  BY <1>2, <1>8 DEF WriteMeta, Fails, Finish, Goto, Idle, tables, ghosts, TypeInv, TypeOK
<1> QED BY <1>3, <1>4, <1>5, <1>6, <1>7, <1>8, Steps

\* The receipts published for a server form one chain that ends in the stored one,
\* unless two writers held its prior at once.
THEOREM ForksCorrect == Spec => []ForksOnlyWhenRaced
<1>1. Init => TypeInv /\ ChainInv
  <2>1. Init => ChainInv
    BY DEF Init, ChainInv, Continues, ForksOnlyWhenRaced, Idle
  <2> QED BY <2>1, TypeInit
<1>2. ChainInv => ForksOnlyWhenRaced
  BY DEF ChainInv
<1> QED BY <1>1, <1>2, TypeStep, ChainStep, PTL DEF Spec

--------------------------------------------------------------------------------
(* The two halves of a record.                                                *)

\* What a writer is about to describe in the second table is what the first one
\* holds, for a server whose two statements were neither cut nor crossed.
Describes(w) ==
  /\ job[w].stage \in {"row", "meta"} => job[w].chain # <<>>
  /\ job[w].stage = "meta" /\ job[w].name \notin torn => job[w].chain = row[job[w].name]

HalvesInv == HalvesAgree /\ \A w \in Writers : Describes(w)

\* The halves agree, or a writer between its statements is about to make them.
LEMMA HalvesStep ==
  TypeInv /\ HalvesInv /\ [Next]_vars => HalvesInv'
<1> SUFFICES ASSUME TypeInv, HalvesInv, [Next]_vars PROVE HalvesInv'
  OBVIOUS
<1>1. ASSUME UNCHANGED tables, torn \subseteq torn',
             \A w \in Writers : job'[w] = job[w] \/ Describes(w)',
             \A w \in Writers : job[w].stage = "meta" /\ job[w].name \notin torn' => job'[w] = job[w]
      PROVE  HalvesInv'
  <2>1. HalvesAgree'
    BY <1>1 DEF HalvesInv, HalvesAgree, tables, Sidecar
  <2>2. ASSUME NEW w \in Writers PROVE Describes(w)'
    <3>1. Describes(w)
      BY DEF HalvesInv
    <3> QED BY <1>1, <3>1 DEF Describes, tables
  <2> QED BY <2>1, <2>2 DEF HalvesInv
<1>2. ASSUME UNCHANGED tables, UNCHANGED torn,
             \A w \in Writers :
               \/ job'[w] = job[w]
               \/ /\ "meta" \notin {job[w].stage, job'[w].stage}
                  /\ job'[w].stage = "row" => job'[w].chain # <<>>
      PROVE  HalvesInv'
  <2>1. \A w \in Writers : job'[w] = job[w] \/ Describes(w)'
    BY <1>2 DEF Describes
  <2>2. \A w \in Writers : job[w].stage = "meta" /\ job[w].name \notin torn' => job'[w] = job[w]
    BY <1>2
  <2> QED BY <1>1, <1>2, <2>1, <2>2
<1>3. CASE UNCHANGED vars \/ BeginSweep \/ Publishers
  BY <1>2, <1>3 DEF vars, BeginSweep, Publishers, Host, Verify, tables, ghosts
<1>4. CASE Restart
  BY <1>1, <1>4 DEF Restart, Idle, Cut, Describes
<1>5. ASSUME NEW n \in Names, Evict(n) \/ \E d \in Discoveries : Upsert(n, d) PROVE HalvesInv'
  BY <1>2, <1>5 DEF Evict, Upsert, tables, ghosts
<1>6. ASSUME NEW w \in Writers, Moves(w) PROVE HalvesInv'
  <2>1. UNCHANGED tables /\ UNCHANGED torn /\ job[w].stage # "meta"
    BY <1>6, WhereItMoves DEF ghosts
  <2>2. CASE UNCHANGED job
    BY <1>2, <2>1, <2>2
  <2>3. ASSUME NEW j, j.stage # "meta", j.stage = "row" => j.chain # <<>>, Goto(w, j)
        PROVE  HalvesInv'
    <3>1. job'[w] = j /\ \A v \in Writers : v # w => job'[v] = job[v]
      BY <2>3 DEF Goto, TypeInv, TypeOK
    <3> QED BY <1>2, <2>1, <2>3, <3>1
  <2> QED BY <1>6, <2>2, <2>3, WhereItMoves
<1>7. ASSUME NEW w \in Writers, WriteRow(w) PROVE HalvesInv'
  <2>1. CASE Finish(w) /\ UNCHANGED <<world, tables, todo, events, ghosts>>
    BY <1>2, <1>7, <2>1 DEF WriteRow, Finish, Goto, Idle, ghosts, TypeInv, TypeOK
  <2>2. CASE Stores(w)
    <3>1. PICK n \in Names, c \in Chains : n = job[w].name /\ c = job[w].chain
      BY <1>7, WriteRowCases
    <3>2. /\ row' = [row EXCEPT ![n] = c] /\ UNCHANGED meta
          /\ torn \subseteq torn' /\ (n \notin torn' => Others(w, {"meta"}) = {})
          /\ job'[w] = [stage |-> "meta", name |-> n, chain |-> c]
          /\ \A v \in Writers : v # w => job'[v] = job[v]
      BY <2>2, <3>1 DEF Stores, TypeInv, TypeOK
    <3>3. row'[n] = c /\ \A m \in Names : m # n => row'[m] = row[m]
      BY <3>2 DEF TypeInv, TypeOK
    <3>4. c # <<>> /\ job[w].stage = "row"
      BY <2>2, <3>1 DEF HalvesInv, Describes, Stores
    <3>5. HalvesAgree'
      <4>1. ASSUME NEW m \in Names, m # n
            PROVE  \/ m \in torn'
                   \/ \E v \in Writers : job'[v].stage = "meta" /\ job'[v].name = m
                   \/ row'[m] = <<>> /\ meta'[m] = None
                   \/ row'[m] # <<>> /\ meta'[m] = Sidecar(row'[m])
        <5>1. \A v \in Writers : job[v].stage = "meta" => job'[v] = job[v]
          BY <3>2, <3>4
        <5> QED BY <3>2, <3>3, <4>1, <5>1 DEF HalvesInv, HalvesAgree
      <4>2. job'[w].stage = "meta" /\ job'[w].name = n
        BY <3>2
      <4> QED BY <4>1, <4>2 DEF HalvesAgree, Sidecar
    <3>6. ASSUME NEW v \in Writers PROVE Describes(v)'
      <4>1. CASE v = w
        BY <3>2, <3>3, <3>4, <4>1 DEF Describes
      <4>2. CASE v # w
        <5>1. Describes(v) /\ job'[v] = job[v]
              /\ (job[v].stage = "meta" => job[v].name \in Names)
          BY <3>2, <4>2, JobFields DEF HalvesInv, TypeInv, TypeOK
        <5>2. n \notin torn' /\ job[v].stage = "meta" => job[v].name # n
          BY <3>1, <3>2, <4>2 DEF Others
        <5> QED BY <3>2, <3>3, <5>1, <5>2 DEF Describes
      <4> QED BY <4>1, <4>2
    <3> QED BY <3>5, <3>6 DEF HalvesInv
  <2> QED BY <1>7, <2>1, <2>2, WriteRowCases
<1>8. ASSUME NEW w \in Writers, WriteMeta(w) PROVE HalvesInv'
  <2>1. PICK n \in Names, c \in Chains : n = job[w].name /\ c = job[w].chain
    BY <1>8, JobFields DEF WriteMeta, TypeInv, TypeOK
  <2>2. /\ meta' = [meta EXCEPT ![n] = Sidecar(c)] /\ UNCHANGED <<row, torn>>
        /\ job'[w] = Idle /\ \A v \in Writers : v # w => job'[v] = job[v]
    BY <1>8, <2>1 DEF WriteMeta, PutSidecar, Finish, Goto, ghosts, TypeInv, TypeOK
  <2>3. meta'[n] = Sidecar(c) /\ \A m \in Names : m # n => meta'[m] = meta[m]
    BY <2>2 DEF TypeInv, TypeOK
  <2>4. c # <<>> /\ (n \notin torn => c = row[n])
    BY <1>8, <2>1 DEF HalvesInv, Describes, WriteMeta
  <2>5. HalvesAgree'
    <3>1. ASSUME NEW m \in Names, m # n
          PROVE  \/ m \in torn'
                 \/ \E v \in Writers : job'[v].stage = "meta" /\ job'[v].name = m
                 \/ row'[m] = <<>> /\ meta'[m] = None
                 \/ row'[m] # <<>> /\ meta'[m] = Sidecar(row'[m])
      <4>1. \A v \in Writers : job[v].name = m => job'[v] = job[v]
        BY <2>1, <2>2, <3>1
      <4> QED BY <2>2, <2>3, <3>1, <4>1 DEF HalvesInv, HalvesAgree
    <3>2. n \notin torn' => row'[n] # <<>> /\ meta'[n] = Sidecar(row'[n])
      BY <2>2, <2>3, <2>4
    <3> QED BY <3>1, <3>2 DEF HalvesAgree, Sidecar
  <2>6. ASSUME NEW v \in Writers PROVE Describes(v)'
    <3>1. Describes(v)
      BY DEF HalvesInv
    <3> QED BY <2>2, <3>1 DEF Describes, Idle
  <2> QED BY <2>5, <2>6 DEF HalvesInv
<1>9. ASSUME NEW w \in Writers, Fails(w) PROVE HalvesInv'
  <2>1. /\ UNCHANGED tables /\ torn' = torn \cup Cut({w})
        /\ job'[w] = Idle /\ \A v \in Writers : v # w => job'[v] = job[v]
    BY <1>9 DEF Fails, Finish, Goto, TypeInv, TypeOK
  <2>2. job[w].stage = "meta" => job[w].name \in torn'
    BY <2>1 DEF Cut
  <2>3. Describes(w)'
    BY <2>1 DEF Describes, Idle
  <2> QED BY <1>1, <2>1, <2>2, <2>3
<1> QED BY <1>3, <1>4, <1>5, <1>6, <1>7, <1>8, <1>9, Steps

\* The two tables describe one receipt, except of a server with a writer between
\* its two statements, or where one was stopped or crossed there.
THEOREM HalvesCorrect == Spec => []HalvesAgree
<1>1. Init => TypeInv /\ HalvesInv
  <2>1. Init => HalvesInv
    BY DEF Init, HalvesInv, Describes, HalvesAgree, Idle
  <2> QED BY <2>1, TypeInit
<1>2. HalvesInv => HalvesAgree
  BY DEF HalvesInv
<1> QED BY <1>1, <1>2, TypeStep, HalvesStep, PTL DEF Spec
================================================================================
