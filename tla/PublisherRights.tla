---------------------------- MODULE PublisherRights ----------------------------
(* How a publisher proves control of a namespace: the mutating handlers of    *)
(* rcx-registry-api over the nonce store, the OAuth state store, the rate     *)
(* limiter and the table publisher_rights.  A request runs on a thread of its *)
(* own and stops between any two of its calls: after the token is spent come  *)
(* a DNS lookup or a GitHub exchange, then the database.  The maps are lost   *)
(* when the process restarts, the table is not.                               *)
EXTENDS Naturals, Sequences

CONSTANTS
  Servers, Namespaces,  \* server names and their namespaces
  NamespaceOf,          \* classify_namespace: the part before the slash
  KindOf,               \* NamespaceKind of a namespace
  Passports,            \* publisher passport labels
  LabelOf,              \* passport:dns:<domain>, passport:github:<owner>
  Keys, Fprs,           \* ed25519 public keys and passport fingerprints
  Fingerprint,          \* passport_fpr_from_public_key
  TxtRecords,           \* what the TXT record of a domain may hold
  Redirects,
  Operator, None,
  Bodies,               \* the requests clients send
  Clients, Window, MaxRate,
  Tokens, Ttl,
  Requests              \* the requests in flight

Kinds == {"dns_challenge", "dns_verify", "declare", "github_start",
          "github_callback", "manual"}

\* signer is the key that signed the challenge, the passport of the account that
\* GitHub resolves the code to, or the bearer of the operator token.
Body == [kind : Kinds, server : Servers, passport : Passports \cup {None},
         fpr : Fprs \cup {None}, key : Keys \cup {None},
         redirect : Redirects \cup {None},
         signer : Keys \cup Passports \cup {Operator, None}]

Methods == {"dns_txt", "github_oauth", "manual"}

ASSUME RightsAssumption ==
  /\ NamespaceOf \in [Servers -> Namespaces]
  /\ KindOf \in [Namespaces -> {"reverse_dns", "github", "anonymous"}]
  /\ LabelOf \in [Namespaces -> Passports]
  /\ Fingerprint \in [Keys -> Fprs]
  /\ \A k, l \in Keys : Fingerprint[k] = Fingerprint[l] => k = l
  /\ TxtRecords \subseteq SUBSET Fprs
  /\ Bodies \subseteq Body
  /\ \A b \in Bodies :
       /\ b.kind \in {"dns_challenge", "dns_verify", "declare"} => b.fpr \in Fprs /\ b.key \in Keys
       /\ b.kind \in {"github_start", "github_callback"} =>
            b.passport \in Passports /\ b.redirect \in Redirects
  /\ None \notin Keys \cup Passports \cup Methods
  /\ None \notin TxtRecords
  /\ Ttl \in Nat /\ Window \in Nat \ {0} /\ MaxRate \in Nat \ {0}

NonceBindings == [server : Servers, fpr : Fprs, key : Keys]
StateBindings == [server : Servers, passport : Passports, redirect : Redirects]

VARIABLES
  nonces,   \* ApiState.pop_nonces
  states,   \* ApiState.oauth_states
  windows,  \* ApiState.mutation_limiter
  rights,   \* publisher_rights: (passport, namespace) -> method
  txt,      \* the fingerprints in the TXT record of each domain
  cache,    \* the last answer the resolver has remembered, or None
  req,      \* the handlers that are running
  issued,   \* history: every token ever issued, with its binding
  named,    \* history: the fingerprints each domain has ever named
  burnt,    \* history: the tokens of refused attempts
  written   \* history: what tokens have authorised, in order

stores == <<nonces, states>>
dns == <<txt, cache>>
ghosts == <<issued, named, burnt, written>>
vars == <<nonces, states, windows, rights, txt, cache, req, issued, named, burnt, written>>

Nonces == INSTANCE TokenStore WITH entries <- nonces, Bindings <- NonceBindings
States == INSTANCE TokenStore WITH entries <- states, Bindings <- StateBindings
Limiter == INSTANCE RateWindows

\* issue waits for its store, consume for its token; after consume, dns and
\* exchange wait for the outside world, rights and record for the database.
Idle == [stage |-> "idle"]
Request ==
  {Idle}
    \cup [stage : {"issue", "record"}, body : Bodies]
    \cup [stage : {"consume", "dns", "exchange", "rights", "record"},
          body : Bodies, token : Tokens]

\* The domains, by the namespaces that are theirs.
Domains == {ns \in Namespaces : KindOf[ns] = "reverse_dns"}

Namespace(b) == NamespaceOf[b.server]
NonceBinding(b) == [server |-> b.server, fpr |-> b.fpr, key |-> b.key]
StateBinding(b) == [server |-> b.server, passport |-> b.passport, redirect |-> b.redirect]

\* A handler that has spent its token and has not written yet.
Claims(q) == \/ q.stage \in {"dns", "exchange", "rights"}
             \/ q.stage = "record" /\ q.body.kind # "manual"
Claiming == {r \in Requests : Claims(req[r])}

TypeOK ==
  /\ Nonces!StoreTypeOK
  /\ States!StoreTypeOK
  /\ Limiter!WindowsTypeOK
  /\ rights \in [Passports \X Namespaces -> Methods \cup {None}]
  /\ txt \in [Domains -> TxtRecords]
  /\ cache \in [Domains -> TxtRecords \cup {None}]
  /\ req \in [Requests -> Request]
  /\ DOMAIN issued \subseteq Tokens
  /\ \A t \in DOMAIN issued : issued[t] \in NonceBindings \cup StateBindings
  /\ named \in [Domains -> SUBSET Fprs]
  /\ burnt \subseteq DOMAIN issued
  /\ written \in Seq([proof : Tokens, subject : Servers])

\* Rows from earlier runs of the process play no part in what is written now.
Init ==
  /\ nonces = [t \in {} |-> 0] /\ states = [t \in {} |-> 0]
  /\ windows = [c \in {} |-> 0]
  /\ rights = [r \in Passports \X Namespaces |-> None]
  /\ txt \in [Domains -> TxtRecords] /\ cache = [ns \in Domains |-> None]
  /\ req = [r \in Requests |-> Idle]
  /\ issued = [t \in {} |-> 0] /\ named = txt /\ burnt = {} /\ written = <<>>

--------------------------------------------------------------------------------
(* What a handler checks before it touches a store.                           *)

Limited(b) == b.kind \in {"dns_challenge", "dns_verify", "declare"}

\* Mutant of Labelled: dns_verify takes any label for the namespace.
LabelledOnGitHub(b) ==
  b.kind \in {"github_start", "github_callback"} => b.passport = LabelOf[Namespace(b)]

\* The label of a verification is the one of its namespace.
Labelled(b) ==
  b.kind \in {"dns_verify", "github_start", "github_callback"} =>
    b.passport = LabelOf[Namespace(b)]

Admissible(b) ==
  LET kind == KindOf[Namespace(b)]
  IN  /\ b.kind \in {"dns_challenge", "dns_verify"} => kind = "reverse_dns"
      /\ b.kind = "dns_challenge" => b.fpr = Fingerprint[b.key]
      /\ b.kind \in {"github_start", "github_callback"} => kind = "github"
      /\ b.kind = "manual" => b.signer = Operator /\ kind # "anonymous"
      /\ Labelled(b)

\* verify_pop: the fingerprint is the key's, and the key signed this challenge.
ProvesPossession(b) == b.fpr = Fingerprint[b.key] /\ b.signer = b.key

--------------------------------------------------------------------------------
(* Steps of the handlers.                                                     *)

Finish(r) == req' = [req EXCEPT ![r] = Idle]
Move(r, s) == req' = [req EXCEPT ![r].stage = s]

\* A request arrives, with a token that was issued to somebody when it spends
\* one: the rate limiter, then the checks.
Receive(r) ==
  /\ req[r] = Idle
  /\ \E b \in Bodies, c \in Clients :
       /\ IF Limited(b) THEN Limiter!Check(c) ELSE UNCHANGED windows
       /\ Limited(b) => Limiter!Admits(c)
       /\ Admissible(b)
       /\ CASE b.kind \in {"dns_challenge", "github_start"} ->
                 req' = [req EXCEPT ![r] = [stage |-> "issue", body |-> b]]
            [] b.kind = "manual" ->
                 req' = [req EXCEPT ![r] = [stage |-> "record", body |-> b]]
            [] OTHER ->
                 \E t \in DOMAIN issued :
                   req' = [req EXCEPT ![r] = [stage |-> "consume", body |-> b, token |-> t]]
  /\ UNCHANGED <<stores, rights, dns, ghosts>>

\* A request that the limiter or the checks turn away has been counted, and so
\* has one whose token was never issued.
TurnAway(r) ==
  /\ req[r] = Idle
  /\ \E b \in Bodies, c \in Clients :
       /\ Limited(b)
       /\ \/ ~Limiter!Admits(c)
          \/ ~Admissible(b)
          \/ b.kind \in {"dns_verify", "declare"}
       /\ Limiter!Check(c)
  /\ UNCHANGED <<stores, rights, dns, req, ghosts>>

Remember(t, binding) ==
  issued' = [u \in DOMAIN issued \cup {t} |-> IF u = t THEN binding ELSE issued[u]]

\* dns_challenge; fresh_nonce never answers the same twice.
IssueNonce(r) ==
  /\ req[r].stage = "issue" /\ req[r].body.kind = "dns_challenge"
  /\ \E t \in Tokens \ DOMAIN issued :
       LET b == req[r].body
       IN  /\ Nonces!Issue(t, NonceBinding(b))
           /\ Remember(t, NonceBinding(b))
  /\ Finish(r)
  /\ UNCHANGED <<states, windows, rights, dns, named, burnt, written>>

\* github_oauth_start.
IssueState(r) ==
  /\ req[r].stage = "issue" /\ req[r].body.kind = "github_start"
  /\ \E t \in Tokens \ DOMAIN issued :
       /\ States!Issue(t, StateBinding(req[r].body))
       /\ Remember(t, StateBinding(req[r].body))
  /\ Finish(r)
  /\ UNCHANGED <<nonces, windows, rights, dns, named, burnt, written>>

\* dns_verify and declare: spend the nonce, then verify the signature.
SpendNonce(r) ==
  /\ req[r].stage = "consume" /\ req[r].body.kind \in {"dns_verify", "declare"}
  /\ LET b == req[r].body
         t == req[r].token
     IN  /\ Nonces!Consume(t, NonceBinding(b))
         /\ IF Nonces!Redeems(t, NonceBinding(b)) /\ ProvesPossession(b)
            THEN Move(r, "dns") /\ UNCHANGED burnt
            ELSE Finish(r) /\ burnt' = burnt \cup ({t} \cap DOMAIN nonces)
  /\ UNCHANGED <<states, windows, rights, dns, issued, named, written>>

\* github_oauth_callback: spend the state.
SpendState(r) ==
  /\ req[r].stage = "consume" /\ req[r].body.kind = "github_callback"
  /\ LET b == req[r].body
         t == req[r].token
     IN  /\ States!Consume(t, StateBinding(b))
         /\ IF States!Redeems(t, StateBinding(b))
            THEN Move(r, "exchange") /\ UNCHANGED burnt
            ELSE Finish(r) /\ burnt' = burnt \cup ({t} \cap DOMAIN states)
  /\ UNCHANGED <<nonces, windows, rights, dns, issued, named, written>>

\* Mutant of Names: any TXT record at all will do.
NamesAnyone(b, answer) == answer # {}

\* verify_dns_txt.
Names(b, answer) == b.fpr \in answer

\* lookup_txt answers what the domain says now or what the resolver remembers.
\* declare checks the namespace before it and the label after it.
LookupTxt(r) ==
  /\ req[r].stage = "dns"
  /\ LET b == req[r].body
         ns == Namespace(b)
     IN  /\ ns \in Domains
         /\ \E answer \in TxtRecords :
              /\ answer \in {txt[ns], cache[ns]}
              /\ cache' = [cache EXCEPT ![ns] = answer]
              /\ IF Names(b, answer) /\ (b.kind = "declare" => b.passport = LabelOf[ns])
                 THEN /\ Move(r, IF b.kind = "declare" THEN "rights" ELSE "record")
                      /\ UNCHANGED burnt
                 ELSE Finish(r) /\ burnt' = burnt \cup {req[r].token}
  /\ UNCHANGED <<stores, windows, rights, txt, issued, named, written>>

\* declare: the rights row of the namespace must be there.
LookupRights(r) ==
  /\ req[r].stage = "rights"
  /\ rights[<<req[r].body.passport, Namespace(req[r].body)>>] # None
  /\ Move(r, "record")
  /\ UNCHANGED <<stores, windows, rights, dns, ghosts>>

\* exchange_code: the account behind the code must own the namespace.
ExchangeCode(r) ==
  /\ req[r].stage = "exchange"
  /\ req[r].body.signer = LabelOf[Namespace(req[r].body)]
  /\ Move(r, "record")
  /\ UNCHANGED <<stores, windows, rights, dns, ghosts>>

\* Mutant of MethodOf: the row takes the kind of its namespace for the method.
MethodByKind(b) == KindOf[Namespace(b)]

MethodOf(b) ==
  CASE b.kind = "dns_verify" -> "dns_txt"
    [] b.kind = "github_callback" -> "github_oauth"
    [] b.kind = "manual" -> "manual"

\* The upsert: of a rights row, or of the enrichment a declaration carries.
Record(r) ==
  /\ req[r].stage = "record"
  /\ LET b == req[r].body
     IN  /\ IF b.kind = "declare" THEN UNCHANGED rights
            ELSE rights' = [rights EXCEPT ![<<b.passport, Namespace(b)>>] = MethodOf(b)]
         /\ IF b.kind = "manual" THEN UNCHANGED written
            ELSE written' = Append(written, [proof |-> req[r].token, subject |-> b.server])
  /\ Finish(r)
  /\ UNCHANGED <<stores, windows, dns, issued, named, burnt>>

\* A check fails, GitHub, DNS or the database answers with an error: the
\* request ends, and what it has spent stays spent.
RequestFails(r) ==
  /\ req[r] # Idle
  /\ Finish(r)
  /\ burnt' = IF Claims(req[r]) THEN burnt \cup {req[r].token} ELSE burnt
  /\ UNCHANGED <<stores, windows, rights, dns, issued, named, written>>

--------------------------------------------------------------------------------
(* The surroundings.                                                          *)

Restart ==
  /\ Nonces!Clear /\ States!Clear /\ Limiter!ForgetWindows
  /\ cache' = [ns \in Domains |-> None]
  /\ req' = [r \in Requests |-> Idle]
  /\ UNCHANGED <<rights, txt, ghosts>>

\* The owner of a domain edits its TXT record.
EditTxt ==
  /\ \E ns \in Domains, S \in TxtRecords :
       /\ txt' = [txt EXCEPT ![ns] = S]
       /\ named' = [named EXCEPT ![ns] = @ \cup S]
  /\ UNCHANGED <<stores, windows, rights, cache, req, issued, burnt, written>>

TimePasses ==
  /\ Nonces!GrowOlder /\ States!GrowOlder /\ Limiter!GrowOlder
  /\ UNCHANGED <<rights, dns, req, ghosts>>

Handler(r) ==
  \/ Receive(r) \/ TurnAway(r) \/ IssueNonce(r) \/ IssueState(r) \/ SpendNonce(r)
  \/ SpendState(r) \/ LookupTxt(r) \/ LookupRights(r) \/ ExchangeCode(r)
  \/ Record(r) \/ RequestFails(r)

Next == (\E r \in Requests : Handler(r)) \/ Restart \/ EditTxt \/ TimePasses

Spec == Init /\ [][Next]_vars

--------------------------------------------------------------------------------
(* Properties.                                                                *)

Offered ==
  [t \in DOMAIN nonces \cup DOMAIN states |->
     LET e == IF t \in DOMAIN nonces THEN nonces[t] ELSE states[t]
     IN  [subject |-> e.binding.server, age |-> e.age]]

Holder(t) == CHOOSE r \in Claiming : req[r].token = t
Claimed == [t \in {req[r].token : r \in Claiming} |-> req[Holder(t)].body.server]

\* A nonce or a state is claimed by one request, in time and for the server it
\* was issued for, and authorises one write at most: whatever requests carry the
\* same token at the same time, fail, or are cut off by a restart.
Promise == INSTANCE OneTimeProofs
             WITH Proofs <- Tokens, Subjects <- Servers, Lifetime <- Ttl,
                  spentOrOffered <- DOMAIN issued, offered <- Offered, claimed <- Claimed
ImplementsOneTimeProofs == Promise!Spec

\* A failed attempt cannot be retried with the token it presented.
NoWriteAfterFailure ==
  [][\A i \in DOMAIN written' \ DOMAIN written : written'[i].proof \notin burnt]_vars

\* What a nonce authorises rests on control of the domain: the TXT record of the
\* domain of the server written about has named the fingerprint of the key that
\* the nonce was issued for, at the lookup or when the cached answer was fetched.
WritesRestOnControl ==
  \A i \in DOMAIN written :
    LET b == issued[written[i].proof]
    IN  b \in NonceBindings => b.fpr \in named[NamespaceOf[written[i].subject]]

Proven(ns, bindings) ==
  \E i \in DOMAIN written :
    /\ NamespaceOf[issued[written[i].proof].server] = ns
    /\ issued[written[i].proof] \in bindings

\* A row that no operator filed is filed under the one label of its namespace,
\* by a proof of the kind it names, issued for a server of that namespace.
RowsRestOnProofs ==
  \A p \in Passports, ns \in Namespaces :
    /\ rights[<<p, ns>>] = "dns_txt" => p = LabelOf[ns] /\ Proven(ns, NonceBindings)
    /\ rights[<<p, ns>>] = "github_oauth" => p = LabelOf[ns] /\ Proven(ns, StateBindings)
================================================================================
