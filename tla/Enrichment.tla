------------------------------- MODULE Enrichment ------------------------------
(* Publisher declarations: the refresh sweep of loops/enrich.rs and the       *)
(* declare handler of the API, over the tables rcx_enrichment and             *)
(* rcx_enrichment_publisher_meta.  Both read the prior record, mint a receipt *)
(* that supersedes its receipt and write the two rows, one autocommitted      *)
(* statement each; nothing keeps a sweep and a request, or two requests, from *)
(* doing so at once.                                                          *)
(*                                                                            *)
(* A receipt is known by the hash of its content, the prior receipt's hash    *)
(* included, so it is modelled as the chain of contents it ends.              *)
EXTENDS Naturals, FiniteSets, SequencesExt

CONSTANTS
  Names, Namespaces,   \* mirrored server names and their namespaces
  NamespaceOf,         \* classify_namespace
  LabelOf,             \* the passport label a declaration for it must carry
  Passports, Caps, None,
  Methods,             \* VerificationMethod
  Docs,                \* the declarations publishers host or send
  Starts,              \* the surroundings the process may start in
  Requests, Sweep,     \* the writers: declare requests, and the refresh loop
  MaxEvents            \* bound: requests, faults and changes of the surroundings

\* What the checks look at in a declaration.  schema: it satisfies the JSON
\* schema; dated: declared_at parses, which the schema does not enforce.
Declaration ==
  [mcp_name : Names, passport : Passports, schema : BOOLEAN, dated : BOOLEAN,
   nodes : Seq(Caps), edges : SUBSET (Caps \X Caps),
   numbers : SUBSET {"natural", "negative", "float"}]

\* The discovery metadata of a mirrored envelope.
Discoveries == {"absent", "uri", "broken", "not_envelope"}

Surroundings ==
  [found : [Names -> Discoveries], hosted : [Names -> Docs \cup {None}],
   rights : [Passports \X Namespaces -> Methods \cup {None}]]

ASSUME EnrichmentAssumption ==
  /\ NamespaceOf \in [Names -> Namespaces]
  /\ LabelOf \in [Namespaces -> Passports]
  /\ Docs \subseteq Declaration
  /\ Sweep \notin Requests
  /\ None \notin Docs /\ None \notin Methods
  /\ Starts \subseteq Surroundings
  /\ MaxEvents \in Nat

Writers == Requests \cup {Sweep}

\* What a receipt says beyond its prior.  by stands for the signer and for the
\* refresh interval, which only the sweep knows.
Contents == [doc : Docs, method : Methods, by : {"sweep", "declare"}]
Chains == Seq(Contents)

VARIABLES
  mirrored,    \* the names in mcp_servers
  found,       \* what the envelope of each name says about a declaration
  hosted,      \* the declaration at that address, or None
  rights,      \* publisher_rights: (passport, namespace) -> method or None
  row,         \* rcx_enrichment: the stored receipt, <<>> without a row
  meta,        \* rcx_enrichment_publisher_meta, or None
  todo,        \* the rows the sweep has yet to visit
  job,         \* what each writer is doing
  events,      \* how much has happened, up to MaxEvents
  published,   \* history: the receipts each row has held
  raced,       \* history: the names whose prior two writers held at once
  torn         \* history: the names whose two statements were cut or crossed

tables == <<row, meta>>
world == <<mirrored, found, hosted, rights>>
ghosts == <<published, raced, torn>>
vars == <<mirrored, found, hosted, rights, row, meta, todo, job, events,
          published, raced, torn>>

Sidecar(chain) ==
  [passport |-> Last(chain).doc.passport, method |-> Last(chain).method,
   by |-> Last(chain).by, supersedes |-> Front(chain)]

Idle == [stage |-> "idle"]
Job ==
  {Idle}
    \cup [stage : {"fetch"}, name : Names]
    \cup [stage : {"rights"}, name : Names, doc : Docs]
    \cup [stage : {"prior"}, name : Names, doc : Docs, method : Methods]
    \cup [stage : {"row", "meta"}, name : Names, chain : Chains]

TypeOK ==
  /\ mirrored \subseteq Names
  /\ found \in [Names -> Discoveries]
  /\ hosted \in [Names -> Docs \cup {None}]
  /\ rights \in [Passports \X Namespaces -> Methods \cup {None}]
  /\ row \in [Names -> Chains]
  /\ \A n \in Names :
       /\ meta[n] = None \/ \E c \in published[n] : meta[n] = Sidecar(c)
       /\ row[n] # <<>> => n \in mirrored /\ row[n] \in published[n]
       /\ published[n] \subseteq Chains
  /\ todo \subseteq Names \X Discoveries
  /\ job \in [Writers -> Job]
  /\ events \in 0 .. MaxEvents
  /\ raced \subseteq Names /\ torn \subseteq Names

Init ==
  /\ mirrored = Names
  /\ \E s \in Starts : found = s.found /\ hosted = s.hosted /\ rights = s.rights
  /\ row = [n \in Names |-> <<>>] /\ meta = [n \in Names |-> None]
  /\ todo = {} /\ job = [w \in Writers |-> Idle] /\ events = 0
  /\ published = [n \in Names |-> {}] /\ raced = {} /\ torn = {}

--------------------------------------------------------------------------------
(* What a declaration must satisfy.                                           *)

\* validate_capability_graph_edges: no capability twice, no edge to a missing one.
GraphCloses(doc) ==
  /\ IsInjective(doc.nodes)
  /\ \A e \in doc.edges : {e[1], e[2]} \subseteq ToSet(doc.nodes)

\* validate_publisher_declaration_value.
Validates(doc, n) == doc.schema /\ doc.mcp_name = n /\ GraphCloses(doc)

\* json_to_cbor has no negative integers; the upsert parses declared_at.
Mintable(doc) == "negative" \notin doc.numbers /\ doc.dated

By(w) == IF w = Sweep THEN "sweep" ELSE "declare"

--------------------------------------------------------------------------------
(* The writers.                                                               *)

Goto(w, j) == job' = [job EXCEPT ![w] = j]
Finish(w) == Goto(w, Idle)
Event == events < MaxEvents /\ events' = events + 1

\* tick_blocking: one SELECT over the mirror.
BeginSweep ==
  /\ todo = {} /\ job[Sweep] = Idle
  /\ todo' = {<<n, found[n]>> : n \in mirrored}
  /\ UNCHANGED <<world, tables, job, events, ghosts>>

\* Mutant of NextRow: a row that is no envelope ends the sweep as well.
NextRowOrStop ==
  /\ job[Sweep] = Idle
  /\ \E r \in todo :
       /\ todo' = IF r[2] \in {"broken", "not_envelope"} THEN {} ELSE todo \ {r}
       /\ IF r[2] = "uri" THEN Goto(Sweep, [stage |-> "fetch", name |-> r[1]])
          ELSE UNCHANGED job
  /\ UNCHANGED <<world, tables, events, ghosts>>

\* The rows come in no order.  One that is no envelope or says nothing is
\* skipped; one whose discovery metadata has no address ends the sweep.
NextRow ==
  /\ job[Sweep] = Idle
  /\ \E r \in todo :
       /\ todo' = IF r[2] = "broken" THEN {} ELSE todo \ {r}
       /\ IF r[2] = "uri" THEN Goto(Sweep, [stage |-> "fetch", name |-> r[1]])
          ELSE UNCHANGED job
  /\ UNCHANGED <<world, tables, events, ghosts>>

\* PublisherDeclarationClient::fetch and the validation of what it answers.
Fetch ==
  /\ job[Sweep].stage = "fetch"
  /\ LET n == job[Sweep].name
     IN  IF hosted[n] # None /\ Validates(hosted[n], n)
         THEN Goto(Sweep, [stage |-> "rights", name |-> n, doc |-> hosted[n]])
         ELSE Finish(Sweep)
  /\ UNCHANGED <<world, tables, todo, events, ghosts>>

\* A declare request that has proven possession and control of the domain.
Receive(r) ==
  /\ job[r] = Idle /\ Event
  /\ \E n \in Names, doc \in Docs :
       /\ Validates(doc, n)
       /\ doc.passport = LabelOf[NamespaceOf[n]]
       /\ Goto(r, [stage |-> "rights", name |-> n, doc |-> doc])
  /\ UNCHANGED <<world, tables, todo, ghosts>>

\* Mutant of RightsOf: a right to any namespace will do.
RightsAnywhere(passport, n) ==
  LET held == {rights[<<passport, ns>>] : ns \in Namespaces} \ {None}
  IN  IF held = {} THEN None ELSE CHOOSE m \in held : TRUE

\* PublisherRightsStore::lookup for the namespace of a server.
RightsOf(passport, n) == rights[<<passport, NamespaceOf[n]>>]

LookupRights(w) ==
  /\ job[w].stage = "rights"
  /\ LET j == job[w]
         method == RightsOf(j.doc.passport, j.name)
     IN  IF method = None THEN Finish(w)
         ELSE Goto(w, [stage |-> "prior", name |-> j.name, doc |-> j.doc, method |-> method])
  /\ UNCHANGED <<world, tables, todo, events, ghosts>>

\* Mutant of Superseding: the receipt replaces what its prior replaced.
SupersedingThePriorsPrior(prior, content) ==
  Append(IF prior = <<>> THEN <<>> ELSE Front(prior), content)

\* build_entry_enriched_receipt: the new receipt names the prior one.
Superseding(prior, content) == Append(prior, content)

\* The sweep leaves an unchanged declaration alone; a declare request mints a
\* receipt whatever the hash.
Unchanged(w, doc, prior) == w = Sweep /\ prior # <<>> /\ Last(prior).doc = doc

\* The record is read, and the receipt and the new record are built from it.
ReadPrior(w) ==
  /\ job[w].stage = "prior"
  /\ LET j == job[w]
         content == [doc |-> j.doc, method |-> j.method, by |-> By(w)]
     IN  IF Unchanged(w, j.doc, row[j.name]) \/ ~Mintable(j.doc)
         THEN Finish(w)
         ELSE Goto(w, [stage |-> "row", name |-> j.name,
                       chain |-> Superseding(row[j.name], content)])
  /\ UNCHANGED <<world, tables, todo, events, ghosts>>

Others(w, stages) ==
  {v \in Writers \ {w} : job[v].stage \in stages /\ job[v].name = job[w].name}

\* upsert, first statement: refused by the foreign key if the server was evicted.
WriteRow(w) ==
  /\ job[w].stage = "row"
  /\ LET j == job[w]
     IN  IF j.name \notin mirrored
         THEN Finish(w) /\ UNCHANGED <<row, ghosts>>
         ELSE /\ row' = [row EXCEPT ![j.name] = j.chain]
              /\ Goto(w, [j EXCEPT !.stage = "meta"])
              /\ published' = [published EXCEPT ![j.name] = @ \cup {j.chain}]
              /\ raced' = raced \cup (IF Others(w, {"row"}) = {} THEN {} ELSE {j.name})
              /\ torn' = torn \cup (IF Others(w, {"meta"}) = {} THEN {} ELSE {j.name})
  /\ UNCHANGED <<world, meta, todo, events>>

\* Mutant of PutSidecar: ON CONFLICT (server_name) DO NOTHING.
PutSidecarOnce(n, chain) ==
  meta' = IF meta[n] = None THEN [meta EXCEPT ![n] = Sidecar(chain)] ELSE meta

PutSidecar(n, chain) == meta' = [meta EXCEPT ![n] = Sidecar(chain)]

\* upsert, second statement.
WriteMeta(w) ==
  /\ job[w].stage = "meta"
  /\ PutSidecar(job[w].name, job[w].chain)
  /\ Finish(w)
  /\ UNCHANGED <<world, row, todo, events, ghosts>>

Cut(ws) == {job[w].name : w \in {v \in ws : job[v].stage = "meta"}}

\* The host, the signer or the database answers with an error: a request ends,
\* the sweep goes on with the next row.
Fails(w) ==
  /\ job[w] # Idle /\ Event
  /\ Finish(w)
  /\ torn' = torn \cup Cut({w})
  /\ UNCHANGED <<world, tables, todo, published, raced>>

--------------------------------------------------------------------------------
(* The surroundings.                                                          *)

Restart ==
  /\ Event
  /\ job' = [w \in Writers |-> Idle] /\ todo' = {}
  /\ torn' = torn \cup Cut(Writers)
  /\ UNCHANGED <<world, tables, published, raced>>

\* The sync loop stores another envelope of a name, or adds the name.
Upsert(n, d) ==
  /\ Event
  /\ mirrored' = mirrored \cup {n}
  /\ found' = [found EXCEPT ![n] = d]
  /\ UNCHANGED <<hosted, rights, tables, todo, job, ghosts>>

\* Mutant of Evict: no foreign key.
EvictRegardless(n) ==
  /\ Event
  /\ mirrored' = mirrored \ {n}
  /\ UNCHANGED <<found, hosted, rights, tables, todo, job, ghosts>>

\* The sync loop evicts a name that no enrichment row refers to.
Evict(n) ==
  /\ row[n] = <<>> /\ Event
  /\ mirrored' = mirrored \ {n}
  /\ UNCHANGED <<found, hosted, rights, tables, todo, job, ghosts>>

Host(n, doc) ==
  /\ Event
  /\ hosted' = [hosted EXCEPT ![n] = doc]
  /\ UNCHANGED <<mirrored, found, rights, tables, todo, job, ghosts>>

\* A namespace is verified, again perhaps by another method, or a row is filed by
\* the operator: rights rows are upserted and nothing in the code removes one.
Verify(passport, ns, method) ==
  /\ method # "manual" => passport = LabelOf[ns]
  /\ Event
  /\ rights' = [rights EXCEPT ![<<passport, ns>>] = method]
  /\ UNCHANGED <<mirrored, found, hosted, tables, todo, job, ghosts>>

Upstream == \E n \in Names : Evict(n) \/ \E d \in Discoveries : Upsert(n, d)
Publishers ==
  \/ \E n \in Names, doc \in Docs \cup {None} : Host(n, doc)
  \/ \E p \in Passports, ns \in Namespaces, m \in Methods : Verify(p, ns, m)

Write(w) == LookupRights(w) \/ ReadPrior(w) \/ WriteRow(w) \/ WriteMeta(w)
SweepStep == BeginSweep \/ NextRow \/ Fetch \/ Write(Sweep)

Next ==
  \/ SweepStep
  \/ \E r \in Requests : Receive(r) \/ Write(r)
  \/ \E w \in Writers : Fails(w)
  \/ Restart \/ Upstream \/ Publishers

Spec == Init /\ [][Next]_vars

\* The loop is a task of the runtime and its waits all end.
FairSpec == Spec /\ WF_vars(SweepStep)

--------------------------------------------------------------------------------
(* Properties.                                                                *)

\* The two tables describe one receipt, unless a writer is between its two
\* statements, was stopped there, or crossed another one there
\* (PgPublisherEnrichmentStore::upsert, get).
HalvesAgree ==
  \A n \in Names :
    \/ n \in torn
    \/ \E w \in Writers : job[w].stage = "meta" /\ job[w].name = n
    \/ row[n] = <<>> /\ meta[n] = None
    \/ row[n] # <<>> /\ meta[n] = Sidecar(row[n])

Comparable(c, d) == IsPrefix(c, d) \/ IsPrefix(d, c)

\* The receipts published for a server form one supersession chain that ends in
\* the stored one, for every server whose prior no two writers held at once.
ForksOnlyWhenRaced ==
  \A n \in Names \ raced :
    /\ published[n] = {} <=> row[n] = <<>>
    /\ \A c \in published[n] : IsPrefix(c, row[n])

\* Spec 06, section 6.7: the receipts of a server form a per-server chain.
ReceiptsFormAChain ==
  \A n \in Names : \A c, d \in published[n] : Comparable(c, d)

\* A published receipt rests on a rights row of its passport for the namespace
\* of its server, whichever writer minted it and whatever came after.
ReceiptsRestOnRights ==
  \A n \in Names : \A c \in published[n] :
    rights[<<Last(c).doc.passport, NamespaceOf[n]>>] # None

Refreshable(n) ==
  /\ n \in mirrored /\ found[n] = "uri"
  /\ hosted[n] # None /\ Validates(hosted[n], n) /\ Mintable(hosted[n])
  /\ RightsOf(hosted[n].passport, n) # None

\* Once the surroundings stay as they are and no envelope's metadata is broken,
\* the declaration a publisher hosts is the one on record, whatever was declared
\* meanwhile and whatever other rows the sweep meets (loops/enrich.rs).
HostedIsRecorded ==
  \A n \in Names :
    <>[](Refreshable(n) /\ \A m \in mirrored : found[m] # "broken")
      => <>[](row[n] # <<>> /\ Last(row[n]).doc = hosted[n])
================================================================================
