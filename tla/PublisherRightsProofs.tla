-------------------------- MODULE PublisherRightsProofs -------------------------
(* Proofs about PublisherRights, for every set of servers, keys, requests and *)
(* tokens, every lifetime and every budget of the rate limiter.               *)
EXTENDS PublisherRights, TLAPS, SequenceTheorems

--------------------------------------------------------------------------------
(* The inductive invariant.                                                   *)

\* A handler in a stage that has a token to spend, or that has spent it.
Holding == [stage : {"consume", "dns", "exchange", "rights", "record"},
            body : Bodies, token : Tokens]

ByNonce(b) == b.kind \in {"dns_verify", "declare"}

\* A token in a map is there with the binding it was issued for.
StoresRemember ==
  /\ \A t \in DOMAIN nonces : t \in DOMAIN issued /\ issued[t] = nonces[t].binding
  /\ \A t \in DOMAIN states : t \in DOMAIN issued /\ issued[t] = states[t].binding
  /\ DOMAIN nonces \cap DOMAIN states = {}

\* What a request has passed stays true of it: the checks before the stores, then
\* the comparison with the binding.
Matches(q) ==
  /\ q.stage = "consume" \/ Claims(q) =>
       /\ q \in Holding
       /\ q.token \in DOMAIN issued
       /\ q.body.kind # "declare" => q.body.passport = LabelOf[Namespace(q.body)]
  /\ Claims(q) =>
       \/ /\ ByNonce(q.body)
          /\ issued[q.token] = NonceBinding(q.body)
          /\ issued[q.token] \in NonceBindings
       \/ /\ q.body.kind = "github_callback"
          /\ issued[q.token] = StateBinding(q.body)
          /\ issued[q.token] \in StateBindings
  /\ q.stage = "exchange" => q.body.kind = "github_callback"

RequestsMatch == \A r \in Requests : Matches(req[r])

\* A spent token is in no map and in no other request.
ClaimsExclude ==
  \A r \in Claiming :
    /\ req[r].token \notin DOMAIN nonces \cup DOMAIN states
    /\ \A q \in Claiming : req[q].token = req[r].token => q = r

Settled == burnt \cup {written[i].proof : i \in DOMAIN written}

\* A token that has failed or has written is gone for good.
SettledIsGone ==
  \A t \in Settled :
    /\ t \in DOMAIN issued
    /\ t \notin DOMAIN nonces \cup DOMAIN states
    /\ \A r \in Claiming : req[r].token # t

\* The domain has named what its record or the cache holds, and what a request
\* has been let past the lookup with.
LookupsNamed ==
  /\ \A ns \in Domains :
       /\ txt[ns] \subseteq named[ns]
       /\ cache[ns] # None => cache[ns] \subseteq named[ns]
  /\ \A r \in Requests :
       req[r].stage \in {"rights", "record"} /\ ByNonce(req[r].body) =>
         /\ Namespace(req[r].body) \in Domains
         /\ req[r].body.fpr \in named[Namespace(req[r].body)]

\* A write is about the server its token was issued for, which is one of a domain
\* when the token is a nonce.
WritesMatch ==
  \A i \in DOMAIN written :
    LET b == issued[written[i].proof]
    IN  /\ b.server = written[i].subject
        /\ b \in NonceBindings => NamespaceOf[b.server] \in Domains

IInv ==
  /\ TypeOK
  /\ StoresRemember
  /\ RequestsMatch
  /\ ClaimsExclude
  /\ SettledIsGone
  /\ LookupsNamed
  /\ WritesMatch
  /\ WritesRestOnControl
  /\ RowsRestOnProofs

--------------------------------------------------------------------------------
(* Lemmas about requests, bindings and the maps.                              *)

\* No binding is both.
LEMMA BindingsDiffer ==
  NonceBindings \cap StateBindings = {}
BY DEF NonceBindings, StateBindings

\* A running request has a body, an idle one has neither a token nor a claim.
LEMMA RequestShape ==
  ASSUME TypeOK, NEW r \in Requests
  PROVE  /\ req[r] # Idle => req[r].body \in Bodies
         /\ req[r].stage # "idle" => req[r] # Idle
         /\ Idle \in Request
         /\ Idle.stage = "idle"
         /\ ~Claims(Idle)
BY DEF TypeOK, Request, Idle, Claims

\* A request with a token moves on with its body and its token.
LEMMA MoveShape ==
  ASSUME NEW q \in Holding, NEW s \in {"consume", "dns", "exchange", "rights", "record"}
  PROVE  /\ [q EXCEPT !.stage = s] \in Holding
         /\ [q EXCEPT !.stage = s].stage = s
         /\ [q EXCEPT !.stage = s].body = q.body
         /\ [q EXCEPT !.stage = s].token = q.token
BY DEF Holding

\* Requests with a token are requests.
LEMMA HoldingIsRequest == Holding \subseteq Request
BY DEF Holding, Request

\* What the stores are asked about has the type of a binding.
LEMMA BindingType ==
  ASSUME NEW b \in Bodies
  PROVE  /\ b.server \in Servers
         /\ b.kind \in {"dns_challenge", "dns_verify", "declare"} => NonceBinding(b) \in NonceBindings
         /\ b.kind \in {"github_start", "github_callback"} => StateBinding(b) \in StateBindings
BY RightsAssumption DEF Body, NonceBinding, StateBinding, NonceBindings, StateBindings

\* The limiter keeps its windows well-typed.
LEMMA CheckType ==
  ASSUME Limiter!WindowsTypeOK, NEW c \in Clients, Limiter!Check(c)
  PROVE  Limiter!WindowsTypeOK'
BY RightsAssumption
   DEF Limiter!WindowsTypeOK, Limiter!Check, Limiter!Running, Limiter!Ordinal, Limiter!RateWindow

\* Time passing keeps the windows well-typed.
LEMMA WindowsAgeType ==
  ASSUME Limiter!WindowsTypeOK, Limiter!GrowOlder
  PROVE  Limiter!WindowsTypeOK'
BY RightsAssumption DEF Limiter!WindowsTypeOK, Limiter!GrowOlder, Limiter!RateWindow

\* Issuing a nonce adds it to the map of nonces, and nothing else changes in it.
LEMMA IssueNonceMap ==
  ASSUME Nonces!StoreTypeOK, NEW t \in Tokens, NEW b \in NonceBindings, Nonces!Issue(t, b)
  PROVE  /\ Nonces!StoreTypeOK'
         /\ \A u \in DOMAIN nonces' :
              \/ u = t /\ nonces'[u].binding = b
              \/ u \in DOMAIN nonces /\ nonces'[u] = nonces[u]
         /\ t \in DOMAIN nonces' /\ nonces'[t].age = 0
<1>1. /\ Nonces!StoreTypeOK'
      /\ DOMAIN nonces' \subseteq DOMAIN nonces \cup {t}
      /\ t \in DOMAIN nonces' /\ nonces'[t] = [binding |-> b, age |-> 0]
      /\ \A u \in DOMAIN nonces' \ {t} : nonces'[u] = nonces[u]
  BY RightsAssumption
  DEF Nonces!StoreTypeOK, Nonces!Issue, Nonces!Usable, Nonces!Entry, Nonces!Ages
<1>2. nonces'[t].binding = b /\ nonces'[t].age = 0
  BY <1>1
<1> QED
  BY <1>1, <1>2

\* Consuming a nonce takes it out of its map and leaves the others alone.
LEMMA ConsumeNonceMap ==
  ASSUME Nonces!StoreTypeOK, NEW t, NEW b, Nonces!Consume(t, b)
  PROVE  /\ Nonces!StoreTypeOK'
         /\ DOMAIN nonces' = DOMAIN nonces \ {t}
         /\ \A u \in DOMAIN nonces' : nonces'[u] = nonces[u]
BY DEF Nonces!StoreTypeOK, Nonces!Consume

\* Time passing ages the nonces, one past their lifetime at most.
LEMMA NoncesAge ==
  ASSUME Nonces!StoreTypeOK, Nonces!GrowOlder
  PROVE  /\ Nonces!StoreTypeOK'
         /\ DOMAIN nonces' = DOMAIN nonces
         /\ \A u \in DOMAIN nonces :
              /\ nonces'[u].binding = nonces[u].binding
              /\ nonces'[u].age = IF nonces[u].age <= Ttl THEN nonces[u].age + 1 ELSE nonces[u].age
BY RightsAssumption DEF Nonces!StoreTypeOK, Nonces!GrowOlder, Nonces!Entry, Nonces!Ages

\* Issuing a state adds it to the map of states, and nothing else changes in it.
LEMMA IssueStateMap ==
  ASSUME States!StoreTypeOK, NEW t \in Tokens, NEW b \in StateBindings, States!Issue(t, b)
  PROVE  /\ States!StoreTypeOK'
         /\ \A u \in DOMAIN states' :
              \/ u = t /\ states'[u].binding = b
              \/ u \in DOMAIN states /\ states'[u] = states[u]
         /\ t \in DOMAIN states' /\ states'[t].age = 0
<1>1. /\ States!StoreTypeOK'
      /\ DOMAIN states' \subseteq DOMAIN states \cup {t}
      /\ t \in DOMAIN states' /\ states'[t] = [binding |-> b, age |-> 0]
      /\ \A u \in DOMAIN states' \ {t} : states'[u] = states[u]
  BY RightsAssumption
  DEF States!StoreTypeOK, States!Issue, States!Usable, States!Entry, States!Ages
<1>2. states'[t].binding = b /\ states'[t].age = 0
  BY <1>1
<1> QED
  BY <1>1, <1>2

\* Consuming a state takes it out of its map and leaves the others alone.
LEMMA ConsumeStateMap ==
  ASSUME States!StoreTypeOK, NEW t, NEW b, States!Consume(t, b)
  PROVE  /\ States!StoreTypeOK'
         /\ DOMAIN states' = DOMAIN states \ {t}
         /\ \A u \in DOMAIN states' : states'[u] = states[u]
BY DEF States!StoreTypeOK, States!Consume

\* Time passing ages the states, one past their lifetime at most.
LEMMA StatesAge ==
  ASSUME States!StoreTypeOK, States!GrowOlder
  PROVE  /\ States!StoreTypeOK'
         /\ DOMAIN states' = DOMAIN states
         /\ \A u \in DOMAIN states :
              /\ states'[u].binding = states[u].binding
              /\ states'[u].age = IF states[u].age <= Ttl THEN states[u].age + 1 ELSE states[u].age
BY RightsAssumption DEF States!StoreTypeOK, States!GrowOlder, States!Entry, States!Ages

--------------------------------------------------------------------------------
(* Type correctness.                                                          *)

\* A request that moves on or ends keeps the array of requests well-typed.
LEMMA RequestStep ==
  ASSUME TypeOK, NEW r \in Requests, NEW q \in Request, req' = [req EXCEPT ![r] = q]
  PROVE  req' \in [Requests -> Request]
BY DEF TypeOK

\* Move keeps requests well-typed, and changes nothing but the stage.
LEMMA MoveType ==
  ASSUME TypeOK, RequestsMatch, NEW r \in Requests,
         NEW s \in {"dns", "exchange", "rights", "record"},
         req[r].stage = "consume" \/ Claims(req[r]), Move(r, s)
  PROVE  /\ req' \in [Requests -> Request]
         /\ req' = [req EXCEPT ![r] = [req[r] EXCEPT !.stage = s]]
<1>1. req[r] \in Holding
  BY DEF RequestsMatch, Matches
<1>2. [req[r] EXCEPT !.stage = s] \in Request
  BY <1>1, MoveShape, HoldingIsRequest
<1> QED
  BY <1>2 DEF Move, TypeOK

\* Finish keeps requests well-typed.
LEMMA FinishType ==
  ASSUME TypeOK, NEW r \in Requests, Finish(r)
  PROVE  req' \in [Requests -> Request]
BY RequestShape DEF Finish, TypeOK

\* Remember adds one token to the history of tokens.
LEMMA RememberType ==
  ASSUME TypeOK, NEW t \in Tokens \ DOMAIN issued,
         NEW b \in NonceBindings \cup StateBindings, Remember(t, b)
  PROVE  /\ DOMAIN issued' = DOMAIN issued \cup {t}
         /\ issued'[t] = b
         /\ \A u \in DOMAIN issued : issued'[u] = issued[u]
         /\ DOMAIN issued' \subseteq Tokens
         /\ \A u \in DOMAIN issued' : issued'[u] \in NonceBindings \cup StateBindings
BY DEF Remember, TypeOK

\* The initial state is well-typed.
LEMMA InitTypes == Init => TypeOK
BY RightsAssumption
   DEF Init, TypeOK, Nonces!StoreTypeOK, States!StoreTypeOK, Limiter!WindowsTypeOK,
       Request, Idle, Domains

\* Every step keeps every variable's type.
LEMMA TypeStep ==
  ASSUME TypeOK, RequestsMatch, [Next]_vars
  PROVE  TypeOK'
<1>1. ASSUME NEW r \in Requests, Receive(r)
      PROVE  TypeOK'
  <2>1. PICK b \in Bodies, c \in Clients :
          /\ IF Limited(b) THEN Limiter!Check(c) ELSE UNCHANGED windows
          /\ CASE b.kind \in {"dns_challenge", "github_start"} ->
                    req' = [req EXCEPT ![r] = [stage |-> "issue", body |-> b]]
               [] b.kind = "manual" ->
                    req' = [req EXCEPT ![r] = [stage |-> "record", body |-> b]]
               [] OTHER ->
                    \E t \in DOMAIN issued :
                      req' = [req EXCEPT ![r] = [stage |-> "consume", body |-> b, token |-> t]]
    BY <1>1 DEF Receive
  <2>2. Limiter!WindowsTypeOK'
    BY <2>1, CheckType DEF TypeOK, Limiter!WindowsTypeOK
  <2>3. req' \in [Requests -> Request]
    BY <2>1 DEF TypeOK, Request
  <2> QED
    BY <1>1, <2>2, <2>3
    DEF Receive, TypeOK, stores, dns, ghosts, Nonces!StoreTypeOK, States!StoreTypeOK
<1>2. ASSUME NEW r \in Requests, TurnAway(r)
      PROVE  TypeOK'
  <2>1. Limiter!WindowsTypeOK'
    BY <1>2, CheckType DEF TurnAway, TypeOK
  <2> QED
    BY <1>2, <2>1
    DEF TurnAway, TypeOK, stores, dns, ghosts, Nonces!StoreTypeOK, States!StoreTypeOK
<1>3. ASSUME NEW r \in Requests, IssueNonce(r)
      PROVE  TypeOK'
  <2>1. req[r].body \in Bodies /\ NonceBinding(req[r].body) \in NonceBindings
    BY <1>3, RequestShape, BindingType DEF IssueNonce
  <2>2. PICK t \in Tokens \ DOMAIN issued :
          /\ Nonces!Issue(t, NonceBinding(req[r].body))
          /\ Remember(t, NonceBinding(req[r].body))
    BY <1>3 DEF IssueNonce
  <2>3. Nonces!StoreTypeOK'
    BY <2>1, <2>2, IssueNonceMap DEF TypeOK
  <2>4. req' \in [Requests -> Request]
    BY <1>3, FinishType DEF IssueNonce
  <2>5. /\ DOMAIN issued' \subseteq Tokens
        /\ \A u \in DOMAIN issued' : issued'[u] \in NonceBindings \cup StateBindings
        /\ DOMAIN issued \subseteq DOMAIN issued'
    BY <2>1, <2>2, RememberType
  <2> QED
    BY <1>3, <2>3, <2>4, <2>5
    DEF IssueNonce, TypeOK, dns, States!StoreTypeOK, Limiter!WindowsTypeOK
<1>4. ASSUME NEW r \in Requests, IssueState(r)
      PROVE  TypeOK'
  <2>1. req[r].body \in Bodies /\ StateBinding(req[r].body) \in StateBindings
    BY <1>4, RequestShape, BindingType DEF IssueState
  <2>2. PICK t \in Tokens \ DOMAIN issued :
          /\ States!Issue(t, StateBinding(req[r].body))
          /\ Remember(t, StateBinding(req[r].body))
    BY <1>4 DEF IssueState
  <2>3. States!StoreTypeOK'
    BY <2>1, <2>2, IssueStateMap DEF TypeOK
  <2>4. req' \in [Requests -> Request]
    BY <1>4, FinishType DEF IssueState
  <2>5. /\ DOMAIN issued' \subseteq Tokens
        /\ \A u \in DOMAIN issued' : issued'[u] \in NonceBindings \cup StateBindings
        /\ DOMAIN issued \subseteq DOMAIN issued'
    BY <2>1, <2>2, RememberType
  <2> QED
    BY <1>4, <2>3, <2>4, <2>5
    DEF IssueState, TypeOK, dns, Nonces!StoreTypeOK, Limiter!WindowsTypeOK
<1>5. ASSUME NEW r \in Requests, SpendNonce(r)
      PROVE  TypeOK'
  <2>1. Nonces!StoreTypeOK'
    BY <1>5, ConsumeNonceMap DEF SpendNonce, TypeOK
  <2>2. req' \in [Requests -> Request]
    BY <1>5, MoveType, FinishType DEF SpendNonce
  <2>3. burnt' \subseteq DOMAIN issued
    BY <1>5 DEF SpendNonce, TypeOK, RequestsMatch, Matches
  <2> QED
    BY <1>5, <2>1, <2>2, <2>3
    DEF SpendNonce, TypeOK, dns, States!StoreTypeOK, Limiter!WindowsTypeOK
<1>6. ASSUME NEW r \in Requests, SpendState(r)
      PROVE  TypeOK'
  <2>1. States!StoreTypeOK'
    BY <1>6, ConsumeStateMap DEF SpendState, TypeOK
  <2>2. req' \in [Requests -> Request]
    BY <1>6, MoveType, FinishType DEF SpendState
  <2>3. burnt' \subseteq DOMAIN issued
    BY <1>6 DEF SpendState, TypeOK, RequestsMatch, Matches
  <2> QED
    BY <1>6, <2>1, <2>2, <2>3
    DEF SpendState, TypeOK, dns, Nonces!StoreTypeOK, Limiter!WindowsTypeOK
<1>7. ASSUME NEW r \in Requests, LookupTxt(r)
      PROVE  TypeOK'
  <2>1. Claims(req[r])
    BY <1>7 DEF LookupTxt, Claims
  <2>2. req' \in [Requests -> Request]
    BY <1>7, <2>1, MoveType, FinishType DEF LookupTxt
  <2>3. burnt' \subseteq DOMAIN issued
    BY <1>7, <2>1 DEF LookupTxt, TypeOK, RequestsMatch, Matches
  <2>4. cache' \in [Domains -> TxtRecords \cup {None}]
    BY <1>7 DEF LookupTxt, TypeOK
  <2> QED
    BY <1>7, <2>2, <2>3, <2>4
    DEF LookupTxt, TypeOK, stores, Nonces!StoreTypeOK, States!StoreTypeOK, Limiter!WindowsTypeOK
<1>8. ASSUME NEW r \in Requests, LookupRights(r) \/ ExchangeCode(r)
      PROVE  TypeOK'
  <2>1. Claims(req[r]) /\ Move(r, "record")
    BY <1>8 DEF LookupRights, ExchangeCode, Claims
  <2>2. req' \in [Requests -> Request]
    BY <2>1, MoveType
  <2> QED
    BY <1>8, <2>2
    DEF LookupRights, ExchangeCode, TypeOK, stores, dns, ghosts,
        Nonces!StoreTypeOK, States!StoreTypeOK, Limiter!WindowsTypeOK
<1>9. ASSUME NEW r \in Requests, Record(r)
      PROVE  TypeOK'
  <2> DEFINE b == req[r].body
  <2>1. b \in Bodies /\ b.server \in Servers
    BY <1>9, RequestShape, BindingType DEF Record
  <2>2. b.kind # "manual" =>
          /\ req[r].token \in Tokens
          /\ b.kind \in {"dns_verify", "declare", "github_callback"}
    BY <1>9 DEF Record, RequestsMatch, Matches, Claims, Holding, ByNonce
  <2>3. rights' \in [Passports \X Namespaces -> Methods \cup {None}]
    <3>1. b.kind # "declare" => MethodOf(b) \in Methods
      BY <2>2 DEF MethodOf, Methods
    <3>2. ASSUME NEW x, NEW m \in Methods, rights' = [rights EXCEPT ![x] = m]
          PROVE  rights' \in [Passports \X Namespaces -> Methods \cup {None}]
      BY <3>2 DEF TypeOK
    <3>3. \/ rights' = rights
          \/ b.kind # "declare"
             /\ rights' = [rights EXCEPT ![<<b.passport, Namespace(b)>>] = MethodOf(b)]
      BY <1>9 DEF Record
    <3> QED
      BY <3>1, <3>2, <3>3 DEF TypeOK
  <2>4. written' \in Seq([proof : Tokens, subject : Servers])
    <3>1. CASE b.kind = "manual"
      BY <1>9, <3>1 DEF Record, TypeOK
    <3>2. CASE b.kind # "manual"
      <4>1. [proof |-> req[r].token, subject |-> b.server] \in [proof : Tokens, subject : Servers]
        BY <2>1, <2>2, <3>2
      <4>2. written' = Append(written, [proof |-> req[r].token, subject |-> b.server])
        BY <1>9, <3>2 DEF Record
      <4> QED
        BY <4>1, <4>2, AppendProperties DEF TypeOK
    <3> QED
      BY <3>1, <3>2
  <2>5. req' \in [Requests -> Request]
    BY <1>9, FinishType DEF Record
  <2> QED
    BY <1>9, <2>3, <2>4, <2>5
    DEF Record, TypeOK, stores, dns, Nonces!StoreTypeOK, States!StoreTypeOK, Limiter!WindowsTypeOK
<1>10. ASSUME NEW r \in Requests, RequestFails(r)
       PROVE  TypeOK'
  <2>1. req' \in [Requests -> Request]
    BY <1>10, FinishType DEF RequestFails
  <2>2. burnt' \subseteq DOMAIN issued
    BY <1>10 DEF RequestFails, TypeOK, RequestsMatch, Matches
  <2> QED
    BY <1>10, <2>1, <2>2
    DEF RequestFails, TypeOK, stores, dns, Nonces!StoreTypeOK, States!StoreTypeOK,
        Limiter!WindowsTypeOK
<1>11. CASE Restart
  BY <1>11, RequestShape
  DEF Restart, TypeOK, ghosts, Nonces!Clear, States!Clear, Limiter!ForgetWindows,
      Nonces!StoreTypeOK, States!StoreTypeOK, Limiter!WindowsTypeOK, Request
<1>12. CASE EditTxt
  BY <1>12, RightsAssumption
  DEF EditTxt, TypeOK, stores, Nonces!StoreTypeOK, States!StoreTypeOK, Limiter!WindowsTypeOK
<1>13. CASE TimePasses
  BY <1>13, NoncesAge, StatesAge, WindowsAgeType DEF TimePasses, TypeOK, dns, ghosts
<1>14. CASE UNCHANGED vars
  BY <1>14
  DEF vars, TypeOK, Nonces!StoreTypeOK, States!StoreTypeOK, Limiter!WindowsTypeOK
<1> QED
  BY <1>1, <1>2, <1>3, <1>4, <1>5, <1>6, <1>7, <1>8, <1>9, <1>10, <1>11, <1>12, <1>13, <1>14
  DEF Next, Handler

--------------------------------------------------------------------------------
(* The invariant: steps that take away, and steps of one request.             *)

\* What stands behind a row stays behind it.
LEMMA ProvenKept ==
  ASSUME NEW ns, NEW bindings, Proven(ns, bindings),
         \A i \in DOMAIN written :
           /\ i \in DOMAIN written' /\ written'[i] = written[i]
           /\ issued'[written[i].proof] = issued[written[i].proof]
  PROVE  Proven(ns, bindings)'
BY DEF Proven

\* Rows stay proven while they stay the same and the writes only grow.
LEMMA RowsKept ==
  ASSUME RowsRestOnProofs, UNCHANGED rights,
         \A i \in DOMAIN written :
           /\ i \in DOMAIN written' /\ written'[i] = written[i]
           /\ issued'[written[i].proof] = issued[written[i].proof]
  PROVE  RowsRestOnProofs'
<1>1. ASSUME NEW p \in Passports, NEW ns \in Namespaces
      PROVE  /\ rights'[<<p, ns>>] = "dns_txt" =>
                  p = LabelOf[ns] /\ Proven(ns, NonceBindings)'
             /\ rights'[<<p, ns>>] = "github_oauth" =>
                  p = LabelOf[ns] /\ Proven(ns, StateBindings)'
  BY ProvenKept DEF RowsRestOnProofs
<1> QED
  BY <1>1 DEF RowsRestOnProofs, NonceBindings, StateBindings

\* Nothing is added to the maps or the writes, and requests only end: a refusal, a
\* failure, a restart, a change of a TXT record, the passing of time.
LEMMA StepBack ==
  ASSUME IInv, TypeOK', UNCHANGED <<rights, issued, written>>,
         \A t \in DOMAIN nonces' : t \in DOMAIN nonces /\ nonces'[t].binding = nonces[t].binding,
         \A t \in DOMAIN states' : t \in DOMAIN states /\ states'[t].binding = states[t].binding,
         \A q \in Requests : req'[q] = req[q] \/ req'[q] = Idle,
         \A t \in burnt' \ burnt :
           /\ t \in DOMAIN issued
           /\ t \notin DOMAIN nonces' \cup DOMAIN states'
           /\ \A q \in Requests : Claims(req'[q]) => req'[q].token # t,
         \A ns \in Domains :
           /\ named[ns] \subseteq named'[ns]
           /\ txt'[ns] \subseteq named'[ns]
           /\ cache'[ns] # None => cache'[ns] \subseteq named'[ns]
  PROVE  IInv'
<1>1. StoresRemember'
  BY DEF IInv, StoresRemember
<1>2. \A q \in Requests :
        Claims(req'[q]) \/ req'[q].stage # "idle" => req'[q] = req[q]
  BY RequestShape DEF IInv
<1>3. RequestsMatch'
  BY <1>2 DEF IInv, RequestsMatch, Matches, Claims
<1>4. Claiming' \subseteq Claiming
  BY <1>2 DEF Claiming
<1>5. ClaimsExclude'
  BY <1>2, <1>4 DEF IInv, ClaimsExclude, Claiming
<1>6. SettledIsGone'
  BY <1>2, <1>4 DEF IInv, SettledIsGone, Settled, Claiming
<1>7. LookupsNamed'
  BY <1>2 DEF IInv, LookupsNamed
<1>8. WritesMatch'
  BY DEF IInv, WritesMatch
<1>9. WritesRestOnControl'
  BY DEF IInv, WritesMatch, WritesRestOnControl
<1>10. RowsRestOnProofs'
  BY RowsKept DEF IInv
<1> QED
  BY <1>1, <1>3, <1>5, <1>6, <1>7, <1>8, <1>9, <1>10 DEF IInv

\* TurnAway touches nothing but the windows of the limiter.
LEMMA TurnAwayStep ==
  ASSUME IInv, TypeOK', NEW r \in Requests, TurnAway(r)
  PROVE  IInv'
BY StepBack DEF TurnAway, stores, dns, ghosts, IInv, LookupsNamed

\* RequestFails settles the token of the request it ends.
LEMMA FailStep ==
  ASSUME IInv, TypeOK', NEW r \in Requests, RequestFails(r)
  PROVE  IInv'
<1>1. /\ req' = [req EXCEPT ![r] = Idle]
      /\ \A q \in Requests : req'[q] = IF q = r THEN Idle ELSE req[q]
  BY DEF RequestFails, Finish, IInv, TypeOK
<1>2. \A t \in burnt' \ burnt :
        /\ t \in DOMAIN issued
        /\ t \notin DOMAIN nonces' \cup DOMAIN states'
        /\ \A q \in Requests : Claims(req'[q]) => req'[q].token # t
  <2>1. ASSUME NEW t \in burnt' \ burnt
        PROVE  Claims(req[r]) /\ t = req[r].token
    BY DEF RequestFails
  <2> QED
    BY <1>1, <2>1, RequestShape
    DEF RequestFails, IInv, RequestsMatch, Matches, ClaimsExclude, Claiming, stores
<1> QED
  BY <1>1, <1>2, StepBack DEF RequestFails, stores, dns, IInv, LookupsNamed

\* A restart empties the maps and ends every request.
LEMMA RestartStep ==
  ASSUME IInv, TypeOK', Restart
  PROVE  IInv'
BY StepBack
DEF Restart, Nonces!Clear, States!Clear, ghosts, IInv, LookupsNamed

\* What a domain comes to name is remembered as it is named.
LEMMA EditTxtStep ==
  ASSUME IInv, TypeOK', EditTxt
  PROVE  IInv'
<1>1. PICK ns \in Domains, S \in TxtRecords :
        /\ txt' = [txt EXCEPT ![ns] = S]
        /\ named' = [named EXCEPT ![ns] = @ \cup S]
  BY DEF EditTxt
<1>2. \A d \in Domains :
        /\ named[d] \subseteq named'[d]
        /\ txt'[d] \subseteq named'[d]
        /\ cache'[d] # None => cache'[d] \subseteq named'[d]
  BY <1>1 DEF EditTxt, IInv, TypeOK, LookupsNamed
<1> QED
  BY <1>2, StepBack DEF EditTxt, stores

\* Time passing changes no binding.
LEMMA AgeStep ==
  ASSUME IInv, TypeOK', TimePasses
  PROVE  IInv'
BY StepBack, NoncesAge, StatesAge
DEF TimePasses, dns, ghosts, IInv, TypeOK, LookupsNamed

\* Stuttering keeps the invariant.
LEMMA StutterStep ==
  ASSUME IInv, TypeOK', UNCHANGED vars
  PROVE  IInv'
BY StepBack DEF vars, IInv, LookupsNamed

\* A nonce that is refused is spent all the same, and so is a state.
LEMMA NonceRefused ==
  ASSUME IInv, TypeOK', NEW r \in Requests, SpendNonce(r),
         ~(Nonces!Redeems(req[r].token, NonceBinding(req[r].body)) /\ ProvesPossession(req[r].body))
  PROVE  IInv'
<1> DEFINE t == req[r].token
<1>1. /\ req' = [req EXCEPT ![r] = Idle]
      /\ \A q \in Requests : req'[q] = IF q = r THEN Idle ELSE req[q]
      /\ burnt' = burnt \cup ({t} \cap DOMAIN nonces)
  BY DEF SpendNonce, Finish, IInv, TypeOK
<1>2. /\ DOMAIN nonces' = DOMAIN nonces \ {t}
      /\ \A u \in DOMAIN nonces' : nonces'[u] = nonces[u]
  BY ConsumeNonceMap DEF SpendNonce, IInv, TypeOK
<1>3. \A u \in burnt' \ burnt :
        /\ u \in DOMAIN issued
        /\ u \notin DOMAIN nonces' \cup DOMAIN states'
        /\ \A q \in Requests : Claims(req'[q]) => req'[q].token # u
  BY <1>1, <1>2, RequestShape
  DEF SpendNonce, IInv, StoresRemember, ClaimsExclude, Claiming
<1> QED
  BY <1>1, <1>2, <1>3, StepBack DEF SpendNonce, dns, IInv, LookupsNamed

\* A state that does not redeem is gone and settled.
LEMMA StateRefused ==
  ASSUME IInv, TypeOK', NEW r \in Requests, SpendState(r),
         ~States!Redeems(req[r].token, StateBinding(req[r].body))
  PROVE  IInv'
<1> DEFINE t == req[r].token
<1>1. /\ req' = [req EXCEPT ![r] = Idle]
      /\ \A q \in Requests : req'[q] = IF q = r THEN Idle ELSE req[q]
      /\ burnt' = burnt \cup ({t} \cap DOMAIN states)
  BY DEF SpendState, Finish, IInv, TypeOK
<1>2. /\ DOMAIN states' = DOMAIN states \ {t}
      /\ \A u \in DOMAIN states' : states'[u] = states[u]
  BY ConsumeStateMap DEF SpendState, IInv, TypeOK
<1>3. \A u \in burnt' \ burnt :
        /\ u \in DOMAIN issued
        /\ u \notin DOMAIN nonces' \cup DOMAIN states'
        /\ \A q \in Requests : Claims(req'[q]) => req'[q].token # u
  BY <1>1, <1>2, RequestShape
  DEF SpendState, IInv, StoresRemember, ClaimsExclude, Claiming
<1> QED
  BY <1>1, <1>2, <1>3, StepBack DEF SpendState, dns, IInv, LookupsNamed

\* A request that has spent its token moves on: past the lookup it has been named.
LEMMA StepOn ==
  ASSUME IInv, TypeOK', NEW r \in Requests, Claims(req[r]),
         NEW s \in {"rights", "record"}, Move(r, s),
         UNCHANGED <<nonces, states, rights, txt, issued, named, burnt, written>>,
         \A ns \in Domains : cache'[ns] # None => cache'[ns] \subseteq named[ns],
         ByNonce(req[r].body) =>
           /\ Namespace(req[r].body) \in Domains
           /\ req[r].body.fpr \in named[Namespace(req[r].body)]
  PROVE  IInv'
<1>1. req[r] \in Holding /\ req' = [req EXCEPT ![r] = [req[r] EXCEPT !.stage = s]]
  BY MoveType DEF IInv, RequestsMatch, Matches
<1>2. /\ req'[r] \in Holding /\ req'[r].stage = s
      /\ req'[r].body = req[r].body /\ req'[r].token = req[r].token
      /\ \A q \in Requests \ {r} : req'[q] = req[q]
  <2>1. req'[r] = [req[r] EXCEPT !.stage = s] /\ \A q \in Requests \ {r} : req'[q] = req[q]
    BY <1>1 DEF IInv, TypeOK
  <2>2. s \in {"consume", "dns", "exchange", "rights", "record"}
    OBVIOUS
  <2>3. /\ [req[r] EXCEPT !.stage = s] \in Holding
        /\ [req[r] EXCEPT !.stage = s].stage = s
        /\ [req[r] EXCEPT !.stage = s].body = req[r].body
        /\ [req[r] EXCEPT !.stage = s].token = req[r].token
    BY <1>1, <2>2, MoveShape
  <2> QED
    BY <2>1, <2>3
<1>3. \A q \in Requests :
        /\ Claims(req'[q]) => Claims(req[q])
        /\ Claims(req[q]) => req'[q].body = req[q].body /\ req'[q].token = req[q].token
  BY <1>2 DEF Claims
<1>4. Claiming' \subseteq Claiming
  BY <1>3 DEF Claiming
<1>5. StoresRemember'
  BY DEF IInv, StoresRemember
<1>6. RequestsMatch'
  <2>1. Matches(req'[r])
    BY <1>2 DEF IInv, RequestsMatch, Matches, Claims
  <2>2. \A q \in Requests : Matches(req'[q])
    BY <1>2, <2>1 DEF IInv, RequestsMatch
  <2> QED
    BY <2>2 DEF RequestsMatch, Matches
<1>7. ClaimsExclude'
  BY <1>3, <1>4 DEF IInv, ClaimsExclude, Claiming
<1>8. SettledIsGone'
  BY <1>3, <1>4 DEF IInv, SettledIsGone, Settled, Claiming
<1>9. LookupsNamed'
  BY <1>2 DEF IInv, LookupsNamed
<1>10. WritesMatch' /\ WritesRestOnControl'
  BY DEF IInv, WritesMatch, WritesRestOnControl
<1>11. RowsRestOnProofs'
  BY RowsKept DEF IInv
<1> QED
  BY <1>5, <1>6, <1>7, <1>8, <1>9, <1>10, <1>11 DEF IInv

\* The lookup lets through a key that the domain has named, or ends the request.
LEMMA LookupTxtStep ==
  ASSUME IInv, TypeOK', NEW r \in Requests, LookupTxt(r)
  PROVE  IInv'
<1> DEFINE b == req[r].body
           ns == Namespace(b)
<1>1. PICK answer \in TxtRecords :
        /\ answer \in {txt[ns], cache[ns]}
        /\ cache' = [cache EXCEPT ![ns] = answer]
        /\ IF Names(b, answer) /\ (b.kind = "declare" => b.passport = LabelOf[ns])
           THEN /\ Move(r, IF b.kind = "declare" THEN "rights" ELSE "record")
                /\ UNCHANGED burnt
           ELSE Finish(r) /\ burnt' = burnt \cup {req[r].token}
  BY DEF LookupTxt
<1>2. ns \in Domains /\ Claims(req[r])
  BY DEF LookupTxt, Claims
<1>3. answer \subseteq named[ns]
  BY <1>1, <1>2, RightsAssumption DEF IInv, LookupsNamed
<1>4. \A d \in Domains : cache'[d] # None => cache'[d] \subseteq named[d]
  BY <1>1, <1>3 DEF IInv, TypeOK, LookupsNamed
<1>5. CASE Names(b, answer) /\ (b.kind = "declare" => b.passport = LabelOf[ns])
  <2>1. b.fpr \in named[ns]
    BY <1>3, <1>5 DEF Names
  <2>2. PICK s \in {"rights", "record"} : Move(r, s)
    BY <1>1, <1>5
  <2> QED
    BY <1>1, <1>2, <1>4, <1>5, <2>1, <2>2, StepOn DEF LookupTxt, stores
<1>6. CASE ~(Names(b, answer) /\ (b.kind = "declare" => b.passport = LabelOf[ns]))
  <2>1. /\ req' = [req EXCEPT ![r] = Idle]
        /\ \A q \in Requests : req'[q] = IF q = r THEN Idle ELSE req[q]
        /\ burnt' = burnt \cup {req[r].token}
    BY <1>1, <1>6 DEF Finish, IInv, TypeOK
  <2>2. \A t \in burnt' \ burnt :
          /\ t \in DOMAIN issued
          /\ t \notin DOMAIN nonces' \cup DOMAIN states'
          /\ \A q \in Requests : Claims(req'[q]) => req'[q].token # t
    BY <1>2, <2>1, RequestShape
    DEF LookupTxt, stores, IInv, RequestsMatch, Matches, ClaimsExclude, Claiming
  <2> QED
    BY <1>4, <2>1, <2>2, StepBack DEF LookupTxt, stores, IInv, LookupsNamed
<1> QED
  BY <1>5, <1>6

\* LookupRights lets a declaration through with what its lookup has shown.
LEMMA LookupRightsStep ==
  ASSUME IInv, TypeOK', NEW r \in Requests, LookupRights(r)
  PROVE  IInv'
<1>1. Claims(req[r]) /\ Move(r, "record")
  BY DEF LookupRights, Claims
<1> QED
  BY <1>1, StepOn DEF LookupRights, stores, dns, ghosts, IInv, LookupsNamed

\* ExchangeCode lets a state through; it says nothing of nonces.
LEMMA ExchangeStep ==
  ASSUME IInv, TypeOK', NEW r \in Requests, ExchangeCode(r)
  PROVE  IInv'
<1>1. Claims(req[r]) /\ Move(r, "record")
  BY DEF ExchangeCode, Claims
<1>2. ~ByNonce(req[r].body)
  BY DEF ExchangeCode, IInv, RequestsMatch, Matches, ByNonce
<1> QED
  BY <1>1, <1>2, StepOn DEF ExchangeCode, stores, dns, ghosts, IInv, LookupsNamed

\* A request claims a token: it leaves its map and matches its binding.
LEMMA StepClaim ==
  ASSUME IInv, TypeOK', NEW r \in Requests, req[r].stage = "consume",
         NEW s \in {"dns", "exchange"}, Move(r, s),
         UNCHANGED <<rights, txt, cache, issued, named, burnt, written>>,
         DOMAIN nonces' = DOMAIN nonces \ {req[r].token},
         \A u \in DOMAIN nonces' : nonces'[u] = nonces[u],
         DOMAIN states' = DOMAIN states \ {req[r].token},
         \A u \in DOMAIN states' : states'[u] = states[u],
         req[r].token \in DOMAIN nonces \cup DOMAIN states,
         \/ /\ ByNonce(req[r].body)
            /\ issued[req[r].token] = NonceBinding(req[r].body)
            /\ issued[req[r].token] \in NonceBindings
         \/ /\ req[r].body.kind = "github_callback"
            /\ issued[req[r].token] = StateBinding(req[r].body)
            /\ issued[req[r].token] \in StateBindings,
         s = "exchange" => req[r].body.kind = "github_callback"
  PROVE  IInv'
<1>1. req[r] \in Holding /\ req' = [req EXCEPT ![r] = [req[r] EXCEPT !.stage = s]]
  BY MoveType DEF IInv, RequestsMatch, Matches
<1>2. /\ req'[r] \in Holding /\ req'[r].stage = s
      /\ req'[r].body = req[r].body /\ req'[r].token = req[r].token
      /\ \A q \in Requests \ {r} : req'[q] = req[q]
  <2>1. req'[r] = [req[r] EXCEPT !.stage = s] /\ \A q \in Requests \ {r} : req'[q] = req[q]
    BY <1>1 DEF IInv, TypeOK
  <2>2. s \in {"consume", "dns", "exchange", "rights", "record"}
    OBVIOUS
  <2>3. /\ [req[r] EXCEPT !.stage = s] \in Holding
        /\ [req[r] EXCEPT !.stage = s].stage = s
        /\ [req[r] EXCEPT !.stage = s].body = req[r].body
        /\ [req[r] EXCEPT !.stage = s].token = req[r].token
    BY <1>1, <2>2, MoveShape
  <2> QED
    BY <2>1, <2>3
<1>3. Claiming' = Claiming \cup {r}
  BY <1>2 DEF Claiming, Claims
<1>4. r \notin Claiming
  BY DEF Claiming, Claims
<1>5. \A q \in Claiming : req'[q] = req[q] /\ req[q].token # req[r].token
  BY <1>2, <1>4 DEF IInv, ClaimsExclude, Claiming
<1>6. StoresRemember'
  BY DEF IInv, StoresRemember
<1>7. RequestsMatch'
  <2>1. Matches(req'[r])
    BY <1>2 DEF IInv, RequestsMatch, Matches, Claims
  <2>2. \A q \in Requests : Matches(req'[q])
    BY <1>2, <2>1 DEF IInv, RequestsMatch
  <2> QED
    BY <2>2 DEF RequestsMatch, Matches
<1>8. ClaimsExclude'
  BY <1>2, <1>3, <1>5 DEF IInv, ClaimsExclude
<1>9. SettledIsGone'
  BY <1>2, <1>3, <1>5 DEF IInv, SettledIsGone, Settled
<1>10. LookupsNamed'
  BY <1>2 DEF IInv, LookupsNamed
<1>11. WritesMatch' /\ WritesRestOnControl'
  BY DEF IInv, WritesMatch, WritesRestOnControl
<1>12. RowsRestOnProofs'
  BY RowsKept DEF IInv
<1> QED
  BY <1>6, <1>7, <1>8, <1>9, <1>10, <1>11, <1>12 DEF IInv

\* SpendNonce claims a nonce with its own binding, or settles it.
LEMMA SpendNonceStep ==
  ASSUME IInv, TypeOK', NEW r \in Requests, SpendNonce(r)
  PROVE  IInv'
<1> DEFINE b == req[r].body
           t == req[r].token
<1>1. CASE ~(Nonces!Redeems(t, NonceBinding(b)) /\ ProvesPossession(b))
  BY <1>1, NonceRefused
<1>2. CASE Nonces!Redeems(t, NonceBinding(b)) /\ ProvesPossession(b)
  <2>1. Move(r, "dns") /\ UNCHANGED burnt
    BY <1>2 DEF SpendNonce
  <2>2. t \in DOMAIN nonces /\ issued[t] = NonceBinding(b) /\ t \notin DOMAIN states
    BY <1>2 DEF Nonces!Redeems, Nonces!Usable, IInv, StoresRemember
  <2>3. b \in Bodies /\ NonceBinding(b) \in NonceBindings
    BY BindingType DEF SpendNonce, IInv, RequestsMatch, Matches, Holding
  <2>4. /\ DOMAIN nonces' = DOMAIN nonces \ {t}
        /\ \A u \in DOMAIN nonces' : nonces'[u] = nonces[u]
    BY ConsumeNonceMap DEF SpendNonce, IInv, TypeOK
  <2>5. ByNonce(b) /\ req[r].stage = "consume"
    BY DEF SpendNonce, ByNonce
  <2> QED
    BY <2>1, <2>2, <2>3, <2>4, <2>5, StepClaim DEF SpendNonce, dns
<1> QED
  BY <1>1, <1>2

\* SpendState claims a state with its own binding, or settles it.
LEMMA SpendStateStep ==
  ASSUME IInv, TypeOK', NEW r \in Requests, SpendState(r)
  PROVE  IInv'
<1> DEFINE b == req[r].body
           t == req[r].token
<1>1. CASE ~States!Redeems(t, StateBinding(b))
  BY <1>1, StateRefused
<1>2. CASE States!Redeems(t, StateBinding(b))
  <2>1. Move(r, "exchange") /\ UNCHANGED burnt
    BY <1>2 DEF SpendState
  <2>2. t \in DOMAIN states /\ issued[t] = StateBinding(b) /\ t \notin DOMAIN nonces
    BY <1>2 DEF States!Redeems, States!Usable, IInv, StoresRemember
  <2>3. b \in Bodies /\ StateBinding(b) \in StateBindings
    BY BindingType DEF SpendState, IInv, RequestsMatch, Matches, Holding
  <2>4. /\ DOMAIN states' = DOMAIN states \ {t}
        /\ \A u \in DOMAIN states' : states'[u] = states[u]
    BY ConsumeStateMap DEF SpendState, IInv, TypeOK
  <2>5. b.kind = "github_callback" /\ req[r].stage = "consume"
    BY DEF SpendState
  <2> QED
    BY <2>1, <2>2, <2>3, <2>4, <2>5, StepClaim DEF SpendState, dns
<1> QED
  BY <1>1, <1>2

\* A token is issued: it is new, so nobody holds it and nothing rests on it.
LEMMA StepIssue ==
  ASSUME IInv, TypeOK', NEW r \in Requests, Finish(r),
         NEW t \in Tokens \ DOMAIN issued, NEW b \in NonceBindings \cup StateBindings,
         Remember(t, b),
         UNCHANGED <<rights, txt, cache, named, burnt, written>>,
         \A u \in DOMAIN nonces' :
           \/ u = t /\ nonces'[u].binding = b
           \/ u \in DOMAIN nonces /\ nonces'[u] = nonces[u],
         \A u \in DOMAIN states' :
           \/ u = t /\ states'[u].binding = b
           \/ u \in DOMAIN states /\ states'[u] = states[u],
         t \notin DOMAIN nonces' \/ t \notin DOMAIN states'
  PROVE  IInv'
<1>1. /\ DOMAIN issued' = DOMAIN issued \cup {t}
      /\ issued'[t] = b
      /\ \A u \in DOMAIN issued : issued'[u] = issued[u]
  BY RememberType DEF IInv
<1>2. \A q \in Requests : req'[q] = IF q = r THEN Idle ELSE req[q]
  BY DEF Finish, IInv, TypeOK
<1>3. \A q \in Requests :
        Claims(req'[q]) \/ req'[q].stage # "idle" => req'[q] = req[q]
  BY <1>2, RequestShape DEF IInv
<1>4. Claiming' \subseteq Claiming
  BY <1>3 DEF Claiming
<1>5. \A q \in Claiming : req[q].token \in DOMAIN issued
  BY DEF IInv, RequestsMatch, Matches, Claiming
<1>6. \A i \in DOMAIN written : written[i].proof \in DOMAIN issued
  BY DEF IInv, SettledIsGone, Settled
<1>7. StoresRemember'
  BY <1>1 DEF IInv, StoresRemember
<1>8. RequestsMatch'
  BY <1>1, <1>3 DEF IInv, RequestsMatch, Matches, Claims
<1>9. ClaimsExclude'
  BY <1>3, <1>4, <1>5 DEF IInv, ClaimsExclude, Claiming
<1>10. SettledIsGone'
  BY <1>1, <1>3, <1>4 DEF IInv, SettledIsGone, Settled, Claiming
<1>11. LookupsNamed'
  BY <1>3 DEF IInv, LookupsNamed
<1>12. WritesMatch' /\ WritesRestOnControl'
  BY <1>1, <1>6 DEF IInv, WritesMatch, WritesRestOnControl
<1>13. RowsRestOnProofs'
  BY <1>1, <1>6, RowsKept DEF IInv
<1> QED
  BY <1>7, <1>8, <1>9, <1>10, <1>11, <1>12, <1>13 DEF IInv

\* IssueNonce issues a token to the map of nonces only.
LEMMA IssueNonceStep ==
  ASSUME IInv, TypeOK', NEW r \in Requests, IssueNonce(r)
  PROVE  IInv'
<1> DEFINE b == NonceBinding(req[r].body)
<1>1. b \in NonceBindings
  BY RequestShape, BindingType DEF IssueNonce, IInv
<1>2. PICK t \in Tokens \ DOMAIN issued : Nonces!Issue(t, b) /\ Remember(t, b)
  BY DEF IssueNonce
<1> HIDE DEF b
<1>3. \A u \in DOMAIN nonces' :
        \/ u = t /\ nonces'[u].binding = b
        \/ u \in DOMAIN nonces /\ nonces'[u] = nonces[u]
  BY <1>1, <1>2, IssueNonceMap DEF IInv, TypeOK
<1>4. states' = states /\ t \notin DOMAIN states
  BY <1>2 DEF IssueNonce, IInv, StoresRemember
<1> QED
  BY <1>1, <1>2, <1>3, <1>4, StepIssue DEF IssueNonce, dns

\* IssueState issues a token to the map of states only.
LEMMA IssueStateStep ==
  ASSUME IInv, TypeOK', NEW r \in Requests, IssueState(r)
  PROVE  IInv'
<1> DEFINE b == StateBinding(req[r].body)
<1>1. b \in StateBindings
  BY RequestShape, BindingType DEF IssueState, IInv
<1>2. PICK t \in Tokens \ DOMAIN issued : States!Issue(t, b) /\ Remember(t, b)
  BY DEF IssueState
<1> HIDE DEF b
<1>3. \A u \in DOMAIN states' :
        \/ u = t /\ states'[u].binding = b
        \/ u \in DOMAIN states /\ states'[u] = states[u]
  BY <1>1, <1>2, IssueStateMap DEF IInv, TypeOK
<1>4. nonces' = nonces /\ t \notin DOMAIN nonces
  BY <1>2 DEF IssueState, IInv, StoresRemember
<1> QED
  BY <1>1, <1>2, <1>3, <1>4, StepIssue DEF IssueState, dns

\* A request that arrives claims nothing yet.
LEMMA ReceiveStep ==
  ASSUME IInv, TypeOK', NEW r \in Requests, Receive(r)
  PROVE  IInv'
<1>1. PICK b \in Bodies :
        /\ Admissible(b)
        /\ CASE b.kind \in {"dns_challenge", "github_start"} ->
                  req' = [req EXCEPT ![r] = [stage |-> "issue", body |-> b]]
             [] b.kind = "manual" ->
                  req' = [req EXCEPT ![r] = [stage |-> "record", body |-> b]]
             [] OTHER ->
                  \E t \in DOMAIN issued :
                    req' = [req EXCEPT ![r] = [stage |-> "consume", body |-> b, token |-> t]]
  BY DEF Receive
<1>2. b.kind \in Kinds
  BY RightsAssumption DEF Body
<1>3. \A q \in Requests \ {r} : req'[q] = req[q]
  BY <1>1 DEF IInv, TypeOK
<1>4. \/ req'[r] = [stage |-> "issue", body |-> b]
      \/ req'[r] = [stage |-> "record", body |-> b] /\ b.kind = "manual"
      \/ /\ \E t \in DOMAIN issued : req'[r] = [stage |-> "consume", body |-> b, token |-> t]
         /\ b.kind \in {"dns_verify", "declare", "github_callback"}
  BY <1>1, <1>2 DEF Kinds, IInv, TypeOK
<1>5. /\ ~Claims(req'[r])
      /\ Matches(req'[r])
      /\ ~(req'[r].stage \in {"rights", "record"} /\ ByNonce(req'[r].body))
  <2>1. b.kind \in {"dns_verify", "github_callback"} => b.passport = LabelOf[Namespace(b)]
    BY <1>1 DEF Admissible, Labelled
  <2>2. DOMAIN issued \subseteq Tokens
    BY DEF IInv, TypeOK
  <2>3. CASE req'[r] = [stage |-> "issue", body |-> b]
    BY <2>3 DEF Claims, Matches
  <2>4. CASE req'[r] = [stage |-> "record", body |-> b] /\ b.kind = "manual"
    BY <2>4 DEF Claims, Matches, ByNonce
  <2>5. ASSUME NEW t \in DOMAIN issued, req'[r] = [stage |-> "consume", body |-> b, token |-> t],
               b.kind \in {"dns_verify", "declare", "github_callback"}
        PROVE  /\ ~Claims(req'[r])
               /\ Matches(req'[r])
               /\ ~(req'[r].stage \in {"rights", "record"} /\ ByNonce(req'[r].body))
    <3>1. req'[r] \in Holding
      BY <2>2, <2>5 DEF Holding
    <3> QED
      BY <2>1, <2>5, <3>1 DEF Claims, Matches
  <2> QED
    BY <1>4, <2>3, <2>4, <2>5
<1>6. Claiming' \subseteq Claiming
  BY <1>3, <1>5 DEF Claiming
<1>7. \A q \in Claiming' : req'[q] = req[q]
  BY <1>3, <1>5 DEF Claiming
<1>8. UNCHANGED <<nonces, states, rights, txt, cache, issued, named, burnt, written>>
  BY DEF Receive, stores, dns, ghosts
<1>9. StoresRemember'
  BY <1>8 DEF IInv, StoresRemember
<1>10. RequestsMatch'
  <2>1. \A q \in Requests : Matches(req'[q])
    BY <1>3, <1>5 DEF IInv, RequestsMatch
  <2> QED
    BY <1>8, <2>1 DEF RequestsMatch, Matches
<1>11. ClaimsExclude'
  BY <1>6, <1>7, <1>8 DEF IInv, ClaimsExclude
<1>12. SettledIsGone'
  BY <1>6, <1>7, <1>8 DEF IInv, SettledIsGone, Settled
<1>13. LookupsNamed'
  BY <1>3, <1>5, <1>8 DEF IInv, LookupsNamed
<1>14. WritesMatch' /\ WritesRestOnControl'
  BY <1>8 DEF IInv, WritesMatch, WritesRestOnControl
<1>15. RowsRestOnProofs'
  BY <1>8, RowsKept DEF IInv
<1> QED
  BY <1>9, <1>10, <1>11, <1>12, <1>13, <1>14, <1>15 DEF IInv

\* The operator files a row: nothing is proved by it, and nothing is said to be.
LEMMA ManualStep ==
  ASSUME IInv, TypeOK', NEW r \in Requests, Record(r), req[r].body.kind = "manual"
  PROVE  IInv'
<1> DEFINE b == req[r].body
<1>1. /\ written' = written
      /\ rights' = [rights EXCEPT ![<<b.passport, Namespace(b)>>] = MethodOf(b)]
      /\ UNCHANGED <<nonces, states, txt, cache, issued, named, burnt>>
  BY DEF Record, stores, dns
<1>2. MethodOf(b) = "manual"
  BY DEF MethodOf
<1>3. \A q \in Requests : req'[q] = IF q = r THEN Idle ELSE req[q]
  BY DEF Record, Finish, IInv, TypeOK
<1>4. \A q \in Requests :
        Claims(req'[q]) \/ req'[q].stage # "idle" => req'[q] = req[q]
  BY <1>3, RequestShape DEF IInv
<1>5. Claiming' \subseteq Claiming
  BY <1>4 DEF Claiming
<1>6. StoresRemember'
  BY <1>1 DEF IInv, StoresRemember
<1>7. RequestsMatch'
  BY <1>1, <1>4 DEF IInv, RequestsMatch, Matches, Claims
<1>8. ClaimsExclude'
  BY <1>1, <1>4, <1>5 DEF IInv, ClaimsExclude, Claiming
<1>9. SettledIsGone'
  BY <1>1, <1>4, <1>5 DEF IInv, SettledIsGone, Settled, Claiming
<1>10. LookupsNamed'
  BY <1>1, <1>4 DEF IInv, LookupsNamed
<1>11. WritesMatch' /\ WritesRestOnControl'
  BY <1>1 DEF IInv, WritesMatch, WritesRestOnControl
<1>12. RowsRestOnProofs'
  <2>1. ASSUME NEW p \in Passports, NEW ns \in Namespaces
        PROVE  rights'[<<p, ns>>] \in {rights[<<p, ns>>], "manual"}
    <3>1. ASSUME NEW x, NEW m, rights' = [rights EXCEPT ![x] = m]
          PROVE  rights'[<<p, ns>>] \in {rights[<<p, ns>>], m}
      BY <3>1 DEF IInv, TypeOK
    <3> QED
      BY <1>1, <1>2, <3>1
  <2>2. \A ns, bindings : Proven(ns, bindings) => Proven(ns, bindings)'
    BY <1>1 DEF Proven
  <2>3. ASSUME NEW p \in Passports, NEW ns \in Namespaces
        PROVE  /\ rights'[<<p, ns>>] = "dns_txt" =>
                    p = LabelOf[ns] /\ Proven(ns, NonceBindings)'
               /\ rights'[<<p, ns>>] = "github_oauth" =>
                    p = LabelOf[ns] /\ Proven(ns, StateBindings)'
    BY <2>1, <2>2 DEF IInv, RowsRestOnProofs
  <2> QED
    BY <2>3 DEF RowsRestOnProofs, NonceBindings, StateBindings
<1> QED
  BY <1>6, <1>7, <1>8, <1>9, <1>10, <1>11, <1>12 DEF IInv

\* A request writes what its token authorises: the token is settled with that.
LEMMA WriteStep ==
  ASSUME IInv, TypeOK', NEW r \in Requests, Record(r), req[r].body.kind # "manual"
  PROVE  IInv'
<1> DEFINE b == req[r].body
           t == req[r].token
           n == Len(written) + 1
<1>1. /\ written' = Append(written, [proof |-> t, subject |-> b.server])
      /\ UNCHANGED <<nonces, states, txt, cache, issued, named, burnt>>
  BY DEF Record, stores, dns
<1>2. /\ Claims(req[r]) /\ req[r] \in Holding
      /\ t \in DOMAIN issued
      /\ b \in Bodies /\ b.server \in Servers
  BY BindingType DEF Record, Claims, IInv, RequestsMatch, Matches, Holding
<1>3. \/ /\ ByNonce(b)
         /\ issued[t] = NonceBinding(b)
         /\ issued[t] \in NonceBindings
      \/ /\ b.kind = "github_callback"
         /\ issued[t] = StateBinding(b)
         /\ issued[t] \in StateBindings
  BY <1>2 DEF IInv, RequestsMatch, Matches
<1>4. /\ DOMAIN written = 1 .. Len(written) /\ Len(written) \in Nat
      /\ DOMAIN written' = DOMAIN written \cup {n}
      /\ \A i \in DOMAIN written : i # n /\ written'[i] = written[i]
      /\ written'[n].proof = t /\ written'[n].subject = b.server
  <2>1. [proof |-> t, subject |-> b.server] \in [proof : Tokens, subject : Servers]
    BY <1>2 DEF Holding
  <2>2. written \in Seq([proof : Tokens, subject : Servers])
    BY DEF IInv, TypeOK
  <2>3. Len(written) \in Nat /\ DOMAIN written = 1 .. Len(written)
    BY <2>2, LenProperties
  <2>4. /\ Len(written') = Len(written) + 1
        /\ written' \in Seq([proof : Tokens, subject : Servers])
        /\ \A i \in 1 .. Len(written) : written'[i] = written[i]
        /\ written'[n] = [proof |-> t, subject |-> b.server]
    BY <1>1, <2>1, <2>2, <2>3, AppendProperties
  <2>5. DOMAIN written' = 1 .. n
    BY <2>4, LenProperties
  <2> QED
    BY <2>3, <2>4, <2>5
<1> HIDE DEF n
<1>5. \A q \in Requests : req'[q] = IF q = r THEN Idle ELSE req[q]
  BY DEF Record, Finish, IInv, TypeOK
<1>6. \A q \in Requests :
        Claims(req'[q]) \/ req'[q].stage # "idle" => req'[q] = req[q] /\ q # r
  BY <1>5, RequestShape DEF IInv
<1>7. Claiming' \subseteq Claiming \ {r}
  BY <1>6 DEF Claiming
<1>8. \A q \in Claiming' : req'[q] = req[q] /\ req[q].token # t
  BY <1>2, <1>6 DEF IInv, ClaimsExclude, Claiming
<1>9. StoresRemember'
  BY <1>1 DEF IInv, StoresRemember
<1>10. RequestsMatch'
  BY <1>1, <1>6 DEF IInv, RequestsMatch, Matches, Claims
<1>11. ClaimsExclude'
  BY <1>1, <1>7, <1>8 DEF IInv, ClaimsExclude
<1>12. SettledIsGone'
  <2>1. Settled' = Settled \cup {t}
    BY <1>1, <1>4 DEF Settled
  <2>2. t \notin DOMAIN nonces \cup DOMAIN states
    BY <1>2 DEF IInv, ClaimsExclude, Claiming
  <2> QED
    BY <1>1, <1>2, <1>7, <1>8, <2>1, <2>2 DEF IInv, SettledIsGone
<1>13. LookupsNamed'
  BY <1>1, <1>6 DEF IInv, LookupsNamed
<1>14. /\ issued[t].server = b.server
       /\ issued[t] \in NonceBindings =>
            /\ NamespaceOf[b.server] \in Domains
            /\ issued[t].fpr \in named[NamespaceOf[b.server]]
  <2>1. CASE ByNonce(b)
    <3>1. Namespace(b) \in Domains /\ b.fpr \in named[Namespace(b)]
      BY <2>1 DEF Record, IInv, LookupsNamed
    <3>2. issued[t] = NonceBinding(b)
      BY <1>3, <2>1 DEF ByNonce
    <3> QED
      BY <3>1, <3>2 DEF NonceBinding, Namespace
  <2>2. CASE ~ByNonce(b)
    <3>1. issued[t] = StateBinding(b) /\ issued[t] \in StateBindings
      BY <1>3, <2>2
    <3> QED
      BY <3>1, BindingsDiffer DEF StateBinding
  <2> QED
    BY <2>1, <2>2
<1>15. WritesMatch' /\ WritesRestOnControl'
  <2>1. \A i \in DOMAIN written :
          /\ issued[written[i].proof].server = written[i].subject
          /\ issued[written[i].proof] \in NonceBindings =>
               /\ NamespaceOf[issued[written[i].proof].server] \in Domains
               /\ issued[written[i].proof].fpr \in named[NamespaceOf[written[i].subject]]
    BY DEF IInv, WritesMatch, WritesRestOnControl
  <2> HIDE DEF t, b
  <2>2. \A i \in DOMAIN written' :
          /\ issued'[written'[i].proof].server = written'[i].subject
          /\ issued'[written'[i].proof] \in NonceBindings =>
               /\ NamespaceOf[issued'[written'[i].proof].server] \in Domains
               /\ issued'[written'[i].proof].fpr \in named'[NamespaceOf[written'[i].subject]]
    BY <1>1, <1>4, <1>14, <2>1
  <2> QED
    BY <2>2 DEF WritesMatch, WritesRestOnControl, NonceBindings, Domains
<1>16. RowsRestOnProofs'
  <2>1. \A ns, bindings : Proven(ns, bindings) => Proven(ns, bindings)'
    BY <1>1, <1>4 DEF Proven
  <2>2. CASE b.kind = "declare"
    BY <1>1, <1>4, <2>2, RowsKept DEF Record, IInv
  <2>3. CASE b.kind # "declare"
    <3>1. b.passport = LabelOf[Namespace(b)]
      BY <1>2, <2>3 DEF IInv, RequestsMatch, Matches
    <3>2. /\ MethodOf(b) = "dns_txt" => issued[t] \in NonceBindings
          /\ MethodOf(b) = "github_oauth" => issued[t] \in StateBindings
      BY <1>3, <2>3 DEF MethodOf, ByNonce
    <3>3. ASSUME NEW ns, ns = Namespace(b), NEW bindings, issued[t] \in bindings
          PROVE  Proven(ns, bindings)'
      <4>1. /\ issued' = issued /\ n \in DOMAIN written' /\ written'[n].proof = t
            /\ NamespaceOf[issued[t].server] = ns
        BY <1>1, <1>4, <1>14, <3>3 DEF Namespace
      <4> HIDE DEF t, b
      <4> QED
        BY <3>3, <4>1 DEF Proven
    <3>4. ASSUME NEW p \in Passports, NEW ns \in Namespaces
          PROVE  \/ rights'[<<p, ns>>] = rights[<<p, ns>>]
                 \/ p = b.passport /\ ns = Namespace(b) /\ rights'[<<p, ns>>] = MethodOf(b)
      <4>1. ASSUME NEW x, NEW m, rights' = [rights EXCEPT ![x] = m]
            PROVE  \/ rights'[<<p, ns>>] = rights[<<p, ns>>]
                   \/ <<p, ns>> = x /\ rights'[<<p, ns>>] = m
        BY <4>1 DEF IInv, TypeOK
      <4>2. rights' = [rights EXCEPT ![<<b.passport, Namespace(b)>>] = MethodOf(b)]
        BY <2>3 DEF Record
      <4> HIDE DEF b
      <4> QED
        BY <4>1, <4>2
    <3>5. ASSUME NEW p \in Passports, NEW ns \in Namespaces
          PROVE  /\ rights'[<<p, ns>>] = "dns_txt" =>
                      p = LabelOf[ns] /\ Proven(ns, NonceBindings)'
                 /\ rights'[<<p, ns>>] = "github_oauth" =>
                      p = LabelOf[ns] /\ Proven(ns, StateBindings)'
      <4>1. CASE rights'[<<p, ns>>] = rights[<<p, ns>>]
        BY <2>1, <4>1 DEF IInv, RowsRestOnProofs
      <4>2. CASE p = b.passport /\ ns = Namespace(b) /\ rights'[<<p, ns>>] = MethodOf(b)
        BY <3>1, <3>2, <3>3, <4>2
      <4> QED
        BY <3>4, <4>1, <4>2
    <3> QED
      BY <3>5 DEF RowsRestOnProofs, NonceBindings, StateBindings
  <2> QED
    BY <2>2, <2>3
<1> QED
  BY <1>9, <1>10, <1>11, <1>12, <1>13, <1>15, <1>16 DEF IInv

--------------------------------------------------------------------------------
(* Theorems.                                                                  *)

\* The invariant holds in the beginning.
LEMMA InitCorrect == Init => IInv
<1> SUFFICES ASSUME Init PROVE IInv
  OBVIOUS
<1>1. TypeOK
  BY InitTypes
<1>2. \A r \in Requests : req[r] = Idle /\ ~Claims(req[r]) /\ req[r].stage = "idle"
  BY DEF Init, Idle, Claims
<1>3. /\ StoresRemember /\ RequestsMatch /\ ClaimsExclude /\ LookupsNamed
  BY <1>2 DEF Init, StoresRemember, RequestsMatch, Matches, ClaimsExclude, Claiming, LookupsNamed
<1>4. written = <<>> /\ DOMAIN written = {}
  BY DEF Init
<1>5. SettledIsGone /\ WritesMatch /\ WritesRestOnControl
  BY <1>4 DEF Init, SettledIsGone, Settled, WritesMatch, WritesRestOnControl
<1>6. RowsRestOnProofs
  BY RightsAssumption DEF Init, RowsRestOnProofs, Methods
<1> QED
  BY <1>1, <1>3, <1>5, <1>6 DEF IInv

\* Record preserves the invariant, whoever asks for the row.
LEMMA RecordStep ==
  ASSUME IInv, TypeOK', NEW r \in Requests, Record(r)
  PROVE  IInv'
BY ManualStep, WriteStep

\* Every step preserves the invariant.
LEMMA InvariantStep ==
  ASSUME IInv, [Next]_vars
  PROVE  IInv'
<1>1. TypeOK'
  BY TypeStep DEF IInv
<1>2. ASSUME NEW r \in Requests, Handler(r)
      PROVE  IInv'
  BY <1>1, <1>2, ReceiveStep, TurnAwayStep, IssueNonceStep, IssueStateStep, SpendNonceStep,
     SpendStateStep, LookupTxtStep, LookupRightsStep, ExchangeStep, RecordStep, FailStep
  DEF Handler
<1> QED
  BY <1>1, <1>2, RestartStep, EditTxtStep, AgeStep, StutterStep DEF Next

\* The invariant holds in every reachable state, however many requests race for
\* however many tokens.
THEOREM InvariantHolds == Spec => []IInv
<1>1. Init => IInv
  BY InitCorrect
<1>2. IInv /\ [Next]_vars => IInv'
  BY InvariantStep
<1> QED
  BY <1>1, <1>2, PTL DEF Spec

\* Every variable keeps its type.
THEOREM TypeCorrect == Spec => []TypeOK
<1>1. IInv => TypeOK
  BY DEF IInv
<1> QED
  BY <1>1, InvariantHolds, PTL

\* No nonce authorises a write about a server whose domain has never named the key.
THEOREM ControlCorrect == Spec => []WritesRestOnControl
<1>1. IInv => WritesRestOnControl
  BY DEF IInv
<1> QED
  BY <1>1, InvariantHolds, PTL

\* Rows that no operator filed rest on proofs.
THEOREM RowsCorrect == Spec => []RowsRestOnProofs
<1>1. IInv => RowsRestOnProofs
  BY DEF IInv
<1> QED
  BY <1>1, InvariantHolds, PTL

--------------------------------------------------------------------------------
(* What has failed stays failed.                                              *)

\* Only a request that has spent a token writes.
LEMMA OnlyRecordWrites ==
  ASSUME [Next]_vars, written' # written
  PROVE  \E r \in Requests : Record(r) /\ req[r].body.kind # "manual"
BY DEF Next, Handler, vars, Receive, TurnAway, IssueNonce, IssueState, SpendNonce, SpendState,
       LookupTxt, LookupRights, ExchangeCode, Record, RequestFails, Restart, EditTxt, TimePasses,
       ghosts

\* A token that an attempt has failed with authorises nothing afterwards.
THEOREM FailureIsFinal == Spec => NoWriteAfterFailure
<1>1. ASSUME IInv, [Next]_vars, NEW i \in DOMAIN written' \ DOMAIN written
      PROVE  written'[i].proof \notin burnt
  <2>1. PICK r \in Requests : Record(r) /\ req[r].body.kind # "manual"
    BY <1>1, OnlyRecordWrites
  <2> DEFINE w == [proof |-> req[r].token, subject |-> req[r].body.server]
  <2>2. written' = Append(written, w) /\ r \in Claiming
    BY <2>1 DEF Record, Claiming, Claims
  <2>3. w \in [proof : Tokens, subject : Servers] /\ w.proof = req[r].token
    BY <1>1, <2>1, <2>2, BindingType DEF Claiming, IInv, RequestsMatch, Matches, Holding
  <2> HIDE DEF w
  <2>4. written'[i] = w
    BY <1>1, <2>2, <2>3, AppendProperties, LenProperties DEF IInv, TypeOK
  <2> QED
    BY <1>1, <2>2, <2>3, <2>4 DEF IInv, SettledIsGone, Settled
<1>2. IInv /\ [Next]_vars =>
        [\A i \in DOMAIN written' \ DOMAIN written : written'[i].proof \notin burnt]_vars
  BY <1>1
<1> QED
  BY <1>2, InvariantHolds, PTL DEF Spec, NoWriteAfterFailure

--------------------------------------------------------------------------------
(* Proofs are used once: the mapping to OneTimeProofs.                        *)

\* What the mapping makes of the maps and of the requests.
OfferedIs ==
  /\ Offered = [t \in DOMAIN Offered |-> Offered[t]]
  /\ DOMAIN Offered = DOMAIN nonces \cup DOMAIN states
  /\ \A t \in DOMAIN nonces :
       Offered[t] = [subject |-> nonces[t].binding.server, age |-> nonces[t].age]
  /\ \A t \in DOMAIN states :
       Offered[t] = [subject |-> states[t].binding.server, age |-> states[t].age]

ClaimedIs ==
  /\ Claimed = [t \in DOMAIN Claimed |-> Claimed[t]]
  /\ DOMAIN Claimed = {req[r].token : r \in Claiming}
  /\ \A r \in Claiming : Claimed[req[r].token] = req[r].body.server

\* The mapping is what it says, because claims exclude each other.
LEMMA Mapped == IInv => OfferedIs /\ ClaimedIs
<1>1. IInv => OfferedIs
  BY DEF Offered, OfferedIs, IInv, StoresRemember
<1>2. ASSUME IInv, NEW r \in Claiming
      PROVE  Claimed[req[r].token] = req[r].body.server
  <2>1. \E q \in Claiming : req[q].token = req[r].token
    OBVIOUS
  <2>2. /\ Holder(req[r].token) \in Claiming
        /\ req[Holder(req[r].token)].token = req[r].token
    BY <2>1 DEF Holder
  <2>3. Holder(req[r].token) = r
    BY <1>2, <2>2 DEF IInv, ClaimsExclude
  <2> QED
    BY <2>3 DEF Claimed
<1>3. IInv => ClaimedIs
  BY <1>2 DEF Claimed, ClaimedIs
<1> QED
  BY <1>1, <1>3

\* The mapping is what it says after a step, too.
LEMMA MappedNext == IInv' => OfferedIs' /\ ClaimedIs'
BY Mapped, PTL

\* What the ends and the moves of requests make of the claims.
LEMMA FinishClaims ==
  ASSUME IInv, NEW r \in Requests, Finish(r)
  PROVE  /\ Claiming' = Claiming \ {r}
         /\ \A q \in Claiming' : req'[q] = req[q]
<1>1. \A q \in Requests : req'[q] = IF q = r THEN Idle ELSE req[q]
  BY DEF Finish, IInv, TypeOK
<1> QED
  BY <1>1, RequestShape DEF Claiming, IInv

\* A move makes its request a claim and keeps what every claim is for.
LEMMA MoveClaims ==
  ASSUME IInv, NEW r \in Requests, req[r].stage = "consume" \/ Claims(req[r]),
         NEW s \in {"dns", "exchange", "rights", "record"}, Move(r, s),
         req[r].body.kind # "manual"
  PROVE  /\ Claiming' = Claiming \cup {r}
         /\ \A q \in Claiming' : req'[q].token = req[q].token /\ req'[q].body = req[q].body
<1>1. req[r] \in Holding /\ req' = [req EXCEPT ![r] = [req[r] EXCEPT !.stage = s]]
  BY MoveType DEF IInv, RequestsMatch, Matches
<1>2. req'[r] = [req[r] EXCEPT !.stage = s] /\ \A q \in Requests \ {r} : req'[q] = req[q]
  BY <1>1 DEF IInv, TypeOK
<1>3. s \in {"consume", "dns", "exchange", "rights", "record"}
  OBVIOUS
<1>4. /\ [req[r] EXCEPT !.stage = s].stage = s
      /\ [req[r] EXCEPT !.stage = s].body = req[r].body
      /\ [req[r] EXCEPT !.stage = s].token = req[r].token
  BY <1>1, <1>3, MoveShape
<1>5. /\ req'[r].stage = s
      /\ req'[r].body = req[r].body /\ req'[r].token = req[r].token
  BY <1>2, <1>4
<1> QED
  BY <1>2, <1>5 DEF Claiming, Claims

\* Claims that stay the same are mapped to the same.
LEMMA SameClaims ==
  ASSUME ClaimedIs, ClaimedIs', Claiming' = Claiming,
         \A q \in Claiming' : req'[q].token = req[q].token /\ req'[q].body = req[q].body
  PROVE  Claimed' = Claimed
<1>1. DOMAIN Claimed' = DOMAIN Claimed
  BY DEF ClaimedIs
<1>2. \A t \in DOMAIN Claimed : Claimed'[t] = Claimed[t]
  BY DEF ClaimedIs
<1> QED
  BY <1>1, <1>2 DEF ClaimedIs

\* Claims that are given up are mapped to a part of what was claimed.
LEMMA FewerClaims ==
  ASSUME ClaimedIs, ClaimedIs', Claiming' \subseteq Claiming,
         \A q \in Claiming' : req'[q] = req[q]
  PROVE  /\ DOMAIN Claimed' \subseteq DOMAIN Claimed
         /\ Claimed' = Promise!Keep(Claimed, DOMAIN Claimed')
<1>1. DOMAIN Claimed' \subseteq DOMAIN Claimed
  BY DEF ClaimedIs
<1>2. \A t \in DOMAIN Claimed' : Claimed'[t] = Claimed[t]
  BY DEF ClaimedIs
<1> QED
  BY <1>1, <1>2 DEF ClaimedIs, Promise!Keep

\* Tokens that leave their maps are mapped to a part of what was offered.
LEMMA FewerOffers ==
  ASSUME OfferedIs, OfferedIs',
         \A t \in DOMAIN nonces' : t \in DOMAIN nonces /\ nonces'[t] = nonces[t],
         \A t \in DOMAIN states' : t \in DOMAIN states /\ states'[t] = states[t]
  PROVE  /\ DOMAIN Offered' \subseteq DOMAIN Offered
         /\ Offered' = Promise!Keep(Offered, DOMAIN Offered')
<1>1. DOMAIN Offered' \subseteq DOMAIN Offered
  BY DEF OfferedIs
<1>2. \A t \in DOMAIN Offered' : Offered'[t] = Offered[t]
  BY DEF OfferedIs
<1> QED
  BY <1>1, <1>2 DEF OfferedIs, Promise!Keep

\* A step in which tokens and claims only go is one of Withdraw.
LEMMA WithdrawMapped ==
  ASSUME IInv, IInv', UNCHANGED <<issued, written>>,
         \A t \in DOMAIN nonces' : t \in DOMAIN nonces /\ nonces'[t] = nonces[t],
         \A t \in DOMAIN states' : t \in DOMAIN states /\ states'[t] = states[t],
         Claiming' \subseteq Claiming,
         \A q \in Claiming' : req'[q] = req[q]
  PROVE  Promise!Withdraw
<1>1. OfferedIs /\ ClaimedIs /\ OfferedIs' /\ ClaimedIs'
  BY Mapped, MappedNext
<1>2. /\ DOMAIN Offered' \subseteq DOMAIN Offered
      /\ Offered' = Promise!Keep(Offered, DOMAIN Offered')
  BY <1>1, FewerOffers
<1>3. /\ DOMAIN Claimed' \subseteq DOMAIN Claimed
      /\ Claimed' = Promise!Keep(Claimed, DOMAIN Claimed')
  BY <1>1, FewerClaims
<1> QED
  BY <1>2, <1>3 DEF Promise!Withdraw

\* A step in which neither changes is a stutter.
LEMMA StutterMapped ==
  ASSUME IInv, IInv', UNCHANGED <<nonces, states, issued, written>>,
         Claiming' = Claiming,
         \A q \in Claiming' : req'[q].token = req[q].token /\ req'[q].body = req[q].body
  PROVE  UNCHANGED Promise!vars
<1>1. Claimed' = Claimed
  BY Mapped, MappedNext, SameClaims
<1>2. Offered' = Offered
  BY DEF Offered
<1> QED
  BY <1>1, <1>2 DEF Promise!vars

\* The steps that end a request without a write.
LEMMA EndMapped ==
  ASSUME IInv, IInv', NEW r \in Requests, Finish(r), UNCHANGED <<issued, written>>,
         \A t \in DOMAIN nonces' : t \in DOMAIN nonces /\ nonces'[t] = nonces[t],
         \A t \in DOMAIN states' : t \in DOMAIN states /\ states'[t] = states[t]
  PROVE  Promise!Withdraw
BY FinishClaims, WithdrawMapped

\* The steps in which a claim goes on to its next stage.
LEMMA OnwardsMapped ==
  ASSUME IInv, IInv', NEW r \in Requests, Claims(req[r]), req[r].body.kind # "manual",
         NEW s \in {"rights", "record"}, Move(r, s),
         UNCHANGED <<nonces, states, issued, written>>
  PROVE  UNCHANGED Promise!vars
<1>1. r \in Claiming
  BY DEF Claiming
<1>2. /\ Claiming' = Claiming \cup {r}
      /\ \A q \in Claiming' : req'[q].token = req[q].token /\ req'[q].body = req[q].body
  BY MoveClaims
<1> QED
  BY <1>1, <1>2, StutterMapped

\* A request with a claim was not sent by the operator.
LEMMA ClaimsKind ==
  ASSUME IInv, NEW r \in Requests, Claims(req[r])
  PROVE  req[r].body.kind # "manual"
BY DEF IInv, RequestsMatch, Matches, ByNonce

\* LookupTxt: a claim goes on, or is given up.
LEMMA LookupTxtMapped ==
  ASSUME IInv, IInv', NEW r \in Requests, LookupTxt(r)
  PROVE  Promise!Withdraw \/ UNCHANGED Promise!vars
<1>1. Claims(req[r]) /\ req[r].body.kind # "manual"
  BY ClaimsKind DEF LookupTxt, Claims
<1>2. UNCHANGED <<nonces, states, issued, written>>
  BY DEF LookupTxt, stores
<1>3. Finish(r) \/ \E s \in {"rights", "record"} : Move(r, s)
  BY DEF LookupTxt
<1>4. CASE Finish(r)
  BY <1>2, <1>4, EndMapped
<1>5. ASSUME NEW s \in {"rights", "record"}, Move(r, s)
      PROVE  UNCHANGED Promise!vars
  BY <1>1, <1>2, <1>5, OnwardsMapped
<1> QED
  BY <1>3, <1>4, <1>5

\* LookupRights and ExchangeCode: a claim goes on.
LEMMA PassMapped ==
  ASSUME IInv, IInv', NEW r \in Requests, LookupRights(r) \/ ExchangeCode(r)
  PROVE  UNCHANGED Promise!vars
<1>1. Claims(req[r]) /\ req[r].body.kind # "manual"
  BY ClaimsKind DEF LookupRights, ExchangeCode, Claims
<1>2. UNCHANGED <<nonces, states, issued, written>> /\ Move(r, "record")
  BY DEF LookupRights, ExchangeCode, stores, ghosts
<1> QED
  BY <1>1, <1>2, OnwardsMapped

\* RequestFails gives a claim up, if there is one.
LEMMA FailMapped ==
  ASSUME IInv, IInv', NEW r \in Requests, RequestFails(r)
  PROVE  Promise!Withdraw
BY EndMapped DEF RequestFails, stores

\* Receive: what arrives claims nothing yet.
LEMMA ReceiveMapped ==
  ASSUME IInv, IInv', NEW r \in Requests, Receive(r)
  PROVE  Promise!Withdraw
<1>1. PICK b \in Bodies :
        CASE b.kind \in {"dns_challenge", "github_start"} ->
               req' = [req EXCEPT ![r] = [stage |-> "issue", body |-> b]]
          [] b.kind = "manual" ->
               req' = [req EXCEPT ![r] = [stage |-> "record", body |-> b]]
          [] OTHER ->
               \E t \in DOMAIN issued :
                 req' = [req EXCEPT ![r] = [stage |-> "consume", body |-> b, token |-> t]]
  BY DEF Receive
<1>2. \A q \in Requests \ {r} : req'[q] = req[q]
  BY <1>1 DEF IInv, TypeOK
<1>3. \/ req'[r] = [stage |-> "issue", body |-> b]
      \/ req'[r] = [stage |-> "record", body |-> b] /\ b.kind = "manual"
      \/ \E t \in DOMAIN issued : req'[r] = [stage |-> "consume", body |-> b, token |-> t]
  BY <1>1 DEF IInv, TypeOK
<1>4. ~Claims(req'[r])
  <2>1. CASE req'[r] = [stage |-> "issue", body |-> b]
    BY <2>1 DEF Claims
  <2>2. CASE req'[r] = [stage |-> "record", body |-> b] /\ b.kind = "manual"
    BY <2>2 DEF Claims
  <2>3. ASSUME NEW t, req'[r] = [stage |-> "consume", body |-> b, token |-> t]
        PROVE  ~Claims(req'[r])
    BY <2>3 DEF Claims
  <2> QED
    BY <1>3, <2>1, <2>2, <2>3
<1>5. Claiming' \subseteq Claiming /\ \A q \in Claiming' : req'[q] = req[q]
  BY <1>2, <1>4 DEF Claiming
<1> QED
  BY <1>5, WithdrawMapped DEF Receive, stores, ghosts

\* Restart: every offer and every claim goes.
LEMMA RestartMapped ==
  ASSUME IInv, IInv', Restart
  PROVE  Promise!Withdraw
<1>1. Claiming' = {}
  BY RequestShape DEF Restart, Claiming, IInv
<1>2. DOMAIN nonces' = {} /\ DOMAIN states' = {}
  BY DEF Restart, Nonces!Clear, States!Clear
<1> QED
  BY <1>1, <1>2, WithdrawMapped DEF Restart, ghosts

\* TimePasses: the offers age, one past their lifetime at most.
LEMMA TimeMapped ==
  ASSUME IInv, IInv', TimePasses
  PROVE  Promise!Tick
<1>1. OfferedIs /\ OfferedIs' /\ ClaimedIs /\ ClaimedIs'
  BY Mapped, MappedNext
<1>2. UNCHANGED <<req, issued, written>>
  BY DEF TimePasses, ghosts
<1>3. Claimed' = Claimed
  BY <1>1, <1>2, SameClaims DEF Claiming
<1>4. /\ DOMAIN nonces' = DOMAIN nonces
      /\ \A u \in DOMAIN nonces :
           /\ nonces'[u].binding = nonces[u].binding
           /\ nonces'[u].age = IF nonces[u].age <= Ttl THEN nonces[u].age + 1 ELSE nonces[u].age
  BY NoncesAge DEF TimePasses, IInv, TypeOK
<1>5. /\ DOMAIN states' = DOMAIN states
      /\ \A u \in DOMAIN states :
           /\ states'[u].binding = states[u].binding
           /\ states'[u].age = IF states[u].age <= Ttl THEN states[u].age + 1 ELSE states[u].age
  BY StatesAge DEF TimePasses, IInv, TypeOK
<1> DEFINE older(e) == [e EXCEPT !.age = IF @ <= Ttl THEN @ + 1 ELSE @]
<1>6. \A s, a : older([subject |-> s, age |-> a])
                  = [subject |-> s, age |-> IF a <= Ttl THEN a + 1 ELSE a]
  OBVIOUS
<1>7. \A t \in DOMAIN nonces : Offered'[t] = older(Offered[t])
  <2>1. TAKE t \in DOMAIN nonces
  <2>2. Offered[t] = [subject |-> nonces[t].binding.server, age |-> nonces[t].age]
    BY <1>1 DEF OfferedIs
  <2>3. Offered'[t] = [subject |-> nonces'[t].binding.server, age |-> nonces'[t].age]
    BY <1>1, <1>4 DEF OfferedIs
  <2> HIDE DEF older
  <2> QED
    BY <1>4, <1>6, <2>2, <2>3
<1>8. \A t \in DOMAIN states : Offered'[t] = older(Offered[t])
  <2>1. TAKE t \in DOMAIN states
  <2>2. Offered[t] = [subject |-> states[t].binding.server, age |-> states[t].age]
    BY <1>1 DEF OfferedIs
  <2>3. Offered'[t] = [subject |-> states'[t].binding.server, age |-> states'[t].age]
    BY <1>1, <1>5 DEF OfferedIs
  <2> HIDE DEF older
  <2> QED
    BY <1>5, <1>6, <2>2, <2>3
<1>9. DOMAIN Offered' = DOMAIN Offered /\ DOMAIN Offered = DOMAIN nonces \cup DOMAIN states
  BY <1>1, <1>4, <1>5 DEF OfferedIs
<1>10. Offered' = [t \in DOMAIN Offered |-> older(Offered[t])]
  <2> HIDE DEF older
  <2>1. \A t \in DOMAIN Offered : Offered'[t] = older(Offered[t])
    BY <1>7, <1>8, <1>9
  <2> QED
    BY <1>1, <1>9, <2>1 DEF OfferedIs
<1> QED
  BY <1>2, <1>3, <1>10 DEF Promise!Tick

\* A token leaves its map for a request that carries it in time and names its
\* server: the proof is claimed.
LEMMA ClaimMapped ==
  ASSUME IInv, IInv', NEW r \in Requests, req[r].stage = "consume",
         req[r].body.kind # "manual",
         NEW s \in {"dns", "exchange"}, Move(r, s),
         UNCHANGED <<issued, written>>,
         DOMAIN nonces' = DOMAIN nonces \ {req[r].token},
         \A u \in DOMAIN nonces' : nonces'[u] = nonces[u],
         DOMAIN states' = DOMAIN states \ {req[r].token},
         \A u \in DOMAIN states' : states'[u] = states[u],
         req[r].token \in DOMAIN Offered,
         Offered[req[r].token].age <= Ttl,
         Offered[req[r].token].subject = req[r].body.server
  PROVE  Promise!Claim
<1> DEFINE t == req[r].token
<1>1. OfferedIs /\ OfferedIs' /\ ClaimedIs /\ ClaimedIs'
  BY Mapped, MappedNext
<1>2. /\ Claiming' = Claiming \cup {r}
      /\ \A q \in Claiming' : req'[q].token = req[q].token /\ req'[q].body = req[q].body
  BY MoveClaims
<1>3. DOMAIN Offered' = DOMAIN Offered \ {t}
  BY <1>1 DEF OfferedIs
<1>4. \A u \in DOMAIN Offered' : Offered'[u] = Offered[u]
  BY <1>1, <1>3 DEF OfferedIs
<1>5. Offered' = Promise!Keep(Offered, DOMAIN Offered \ {t})
  BY <1>1, <1>3, <1>4 DEF OfferedIs, Promise!Keep
<1>6. DOMAIN Claimed' = DOMAIN Claimed \cup {t}
  BY <1>1, <1>2 DEF ClaimedIs
<1>7. Claimed'[t] = Offered[t].subject
  BY <1>1, <1>2 DEF ClaimedIs
<1>8. \A u \in DOMAIN Claimed : Claimed'[u] = Claimed[u]
  BY <1>1, <1>2 DEF ClaimedIs
<1>9. Claimed' = [q \in DOMAIN Claimed \cup {t} |->
                    IF q = t THEN Offered[t].subject ELSE Claimed[q]]
  BY <1>1, <1>6, <1>7, <1>8 DEF ClaimedIs
<1> QED
  BY <1>5, <1>9 DEF Promise!Claim

\* SpendNonce: the nonce is claimed, or it is withdrawn.
LEMMA SpendNonceMapped ==
  ASSUME IInv, IInv', NEW r \in Requests, SpendNonce(r)
  PROVE  Promise!Claim \/ Promise!Withdraw
<1> DEFINE b == req[r].body
           t == req[r].token
<1>1. /\ DOMAIN nonces' = DOMAIN nonces \ {t}
      /\ \A u \in DOMAIN nonces' : nonces'[u] = nonces[u]
  BY ConsumeNonceMap DEF SpendNonce, IInv, TypeOK
<1>2. UNCHANGED <<states, issued, written>>
  BY DEF SpendNonce
<1>3. CASE Finish(r)
  BY <1>1, <1>2, <1>3, EndMapped
<1>4. CASE Nonces!Redeems(t, NonceBinding(b)) /\ Move(r, "dns")
  <2>1. t \in DOMAIN nonces /\ nonces[t].age <= Ttl /\ nonces[t].binding = NonceBinding(b)
    BY <1>4 DEF Nonces!Redeems, Nonces!Usable
  <2>2. nonces[t].binding.server = b.server
    BY <2>1 DEF NonceBinding
  <2>3. OfferedIs
    BY Mapped
  <2>4. t \in DOMAIN Offered /\ Offered[t].age <= Ttl /\ Offered[t].subject = b.server
    BY <2>1, <2>2, <2>3 DEF OfferedIs
  <2>5. /\ DOMAIN states' = DOMAIN states \ {t}
        /\ \A u \in DOMAIN states' : states'[u] = states[u]
    BY <1>2, <2>1 DEF IInv, StoresRemember
  <2>6. req[r].stage = "consume" /\ b.kind # "manual"
    BY DEF SpendNonce
  <2> QED
    BY <1>1, <1>2, <1>4, <2>4, <2>5, <2>6, ClaimMapped
<1> QED
  BY <1>3, <1>4 DEF SpendNonce

\* SpendState: the state is claimed, or it is withdrawn.
LEMMA SpendStateMapped ==
  ASSUME IInv, IInv', NEW r \in Requests, SpendState(r)
  PROVE  Promise!Claim \/ Promise!Withdraw
<1> DEFINE b == req[r].body
           t == req[r].token
<1>1. /\ DOMAIN states' = DOMAIN states \ {t}
      /\ \A u \in DOMAIN states' : states'[u] = states[u]
  BY ConsumeStateMap DEF SpendState, IInv, TypeOK
<1>2. UNCHANGED <<nonces, issued, written>>
  BY DEF SpendState
<1>3. CASE Finish(r)
  BY <1>1, <1>2, <1>3, EndMapped
<1>4. CASE States!Redeems(t, StateBinding(b)) /\ Move(r, "exchange")
  <2>1. t \in DOMAIN states /\ states[t].age <= Ttl /\ states[t].binding = StateBinding(b)
    BY <1>4 DEF States!Redeems, States!Usable
  <2>2. states[t].binding.server = b.server
    BY <2>1 DEF StateBinding
  <2>3. OfferedIs
    BY Mapped
  <2>4. t \in DOMAIN Offered /\ Offered[t].age <= Ttl /\ Offered[t].subject = b.server
    BY <2>1, <2>2, <2>3 DEF OfferedIs
  <2>5. /\ DOMAIN nonces' = DOMAIN nonces \ {t}
        /\ \A u \in DOMAIN nonces' : nonces'[u] = nonces[u]
    BY <1>2, <2>1 DEF IInv, StoresRemember
  <2>6. req[r].stage = "consume" /\ b.kind # "manual"
    BY DEF SpendState
  <2> QED
    BY <1>1, <1>2, <1>4, <2>4, <2>5, <2>6, ClaimMapped
<1> QED
  BY <1>3, <1>4 DEF SpendState

\* A fresh token enters a map: a proof is offered.
LEMMA OfferMapped ==
  ASSUME IInv, IInv', NEW r \in Requests, Finish(r), req[r].stage = "issue",
         NEW t \in Tokens \ DOMAIN issued, DOMAIN issued' = DOMAIN issued \cup {t},
         UNCHANGED written,
         t \in DOMAIN Offered', Offered'[t].age = 0, Offered'[t].subject \in Servers,
         \A u \in DOMAIN nonces' : u = t \/ (u \in DOMAIN nonces /\ nonces'[u] = nonces[u]),
         \A u \in DOMAIN states' : u = t \/ (u \in DOMAIN states /\ states'[u] = states[u])
  PROVE  Promise!Offer
<1>1. OfferedIs /\ OfferedIs' /\ ClaimedIs /\ ClaimedIs'
  BY Mapped, MappedNext
<1>2. r \notin Claiming
  BY DEF Claiming, Claims
<1>3. Claiming' = Claiming /\ \A q \in Claiming' : req'[q] = req[q]
  BY <1>2, FinishClaims
<1>4. Claimed' = Claimed
  BY <1>1, <1>3, SameClaims
<1> DEFINE S == DOMAIN Offered' \ {t}
           s == Offered'[t].subject
<1>5. S \in SUBSET DOMAIN Offered /\ DOMAIN Offered' = S \cup {t}
  BY <1>1 DEF OfferedIs
<1>6. \A u \in S : Offered'[u] = Offered[u]
  BY <1>1 DEF OfferedIs
<1>7. Offered'[t] = [subject |-> s, age |-> 0]
  BY <1>1 DEF OfferedIs
<1>8. Offered' = [q \in S \cup {t} |->
                    IF q = t THEN [subject |-> s, age |-> 0] ELSE Offered[q]]
  BY <1>1, <1>5, <1>6, <1>7 DEF OfferedIs
<1> HIDE DEF S, s
<1>9. s \in Servers
  BY DEF s
<1> QED
  BY <1>4, <1>5, <1>8, <1>9 DEF Promise!Offer

\* IssueNonce offers a nonce.
LEMMA IssueNonceMapped ==
  ASSUME IInv, IInv', NEW r \in Requests, IssueNonce(r)
  PROVE  Promise!Offer
<1> DEFINE b == NonceBinding(req[r].body)
<1>1. b \in NonceBindings
  BY RequestShape, BindingType DEF IssueNonce, IInv
<1>2. PICK t \in Tokens \ DOMAIN issued : Nonces!Issue(t, b) /\ Remember(t, b)
  BY DEF IssueNonce
<1> HIDE DEF b
<1>3. /\ \A u \in DOMAIN nonces' :
           \/ u = t /\ nonces'[u].binding = b
           \/ u \in DOMAIN nonces /\ nonces'[u] = nonces[u]
      /\ t \in DOMAIN nonces' /\ nonces'[t].age = 0
  BY <1>1, <1>2, IssueNonceMap DEF IInv, TypeOK
<1>4. nonces'[t].binding = b
  BY <1>2, <1>3 DEF IInv, StoresRemember
<1>5. DOMAIN issued' = DOMAIN issued \cup {t}
  BY <1>1, <1>2, RememberType DEF IInv
<1>6. OfferedIs'
  BY MappedNext
<1>7. t \in DOMAIN Offered' /\ Offered'[t].age = 0 /\ Offered'[t].subject = b.server
  BY <1>3, <1>4, <1>6 DEF OfferedIs
<1>8. b.server \in Servers
  BY <1>1 DEF NonceBindings
<1>9. written' = written /\ states' = states /\ Finish(r) /\ req[r].stage = "issue"
  BY DEF IssueNonce
<1>10. /\ \A u \in DOMAIN nonces' : u = t \/ (u \in DOMAIN nonces /\ nonces'[u] = nonces[u])
       /\ \A u \in DOMAIN states' : u = t \/ (u \in DOMAIN states /\ states'[u] = states[u])
  BY <1>3, <1>9
<1>11. t \in DOMAIN Offered' /\ Offered'[t].age = 0 /\ Offered'[t].subject \in Servers
  BY <1>7, <1>8
<1> QED
  BY <1>5, <1>9, <1>10, <1>11, OfferMapped

\* IssueState offers a state.
LEMMA IssueStateMapped ==
  ASSUME IInv, IInv', NEW r \in Requests, IssueState(r)
  PROVE  Promise!Offer
<1> DEFINE b == StateBinding(req[r].body)
<1>1. b \in StateBindings
  BY RequestShape, BindingType DEF IssueState, IInv
<1>2. PICK t \in Tokens \ DOMAIN issued : States!Issue(t, b) /\ Remember(t, b)
  BY DEF IssueState
<1> HIDE DEF b
<1>3. /\ \A u \in DOMAIN states' :
           \/ u = t /\ states'[u].binding = b
           \/ u \in DOMAIN states /\ states'[u] = states[u]
      /\ t \in DOMAIN states' /\ states'[t].age = 0
  BY <1>1, <1>2, IssueStateMap DEF IInv, TypeOK
<1>4. states'[t].binding = b
  BY <1>2, <1>3 DEF IInv, StoresRemember
<1>5. DOMAIN issued' = DOMAIN issued \cup {t}
  BY <1>1, <1>2, RememberType DEF IInv
<1>6. OfferedIs'
  BY MappedNext
<1>7. t \in DOMAIN Offered' /\ Offered'[t].age = 0 /\ Offered'[t].subject = b.server
  BY <1>3, <1>4, <1>6 DEF OfferedIs
<1>8. b.server \in Servers
  BY <1>1 DEF StateBindings
<1>9. written' = written /\ nonces' = nonces /\ Finish(r) /\ req[r].stage = "issue"
  BY DEF IssueState
<1>10. /\ \A u \in DOMAIN states' : u = t \/ (u \in DOMAIN states /\ states'[u] = states[u])
       /\ \A u \in DOMAIN nonces' : u = t \/ (u \in DOMAIN nonces /\ nonces'[u] = nonces[u])
  BY <1>3, <1>9
<1>11. t \in DOMAIN Offered' /\ Offered'[t].age = 0 /\ Offered'[t].subject \in Servers
  BY <1>7, <1>8
<1> QED
  BY <1>5, <1>9, <1>10, <1>11, OfferMapped

\* Record writes what a claim is for, unless the operator asks for the row.
LEMMA RecordMapped ==
  ASSUME IInv, IInv', NEW r \in Requests, Record(r)
  PROVE  Promise!Write \/ Promise!Withdraw
<1>1. UNCHANGED <<nonces, states, issued>> /\ Finish(r)
  BY DEF Record, stores
<1>2. CASE req[r].body.kind = "manual"
  <2>1. UNCHANGED written
    BY <1>2 DEF Record
  <2> QED
    BY <1>1, <2>1, EndMapped
<1>3. CASE req[r].body.kind # "manual"
  <2> DEFINE t == req[r].token
  <2>1. OfferedIs /\ OfferedIs' /\ ClaimedIs /\ ClaimedIs'
    BY Mapped, MappedNext
  <2>2. r \in Claiming
    BY <1>3 DEF Record, Claiming, Claims
  <2>3. Claiming' = Claiming \ {r} /\ \A q \in Claiming' : req'[q] = req[q]
    BY <1>1, FinishClaims
  <2>4. DOMAIN Claimed' = DOMAIN Claimed \ {t}
    BY <2>1, <2>2, <2>3 DEF ClaimedIs, IInv, ClaimsExclude
  <2>5. Claimed' = Promise!Keep(Claimed, DOMAIN Claimed \ {t})
    BY <2>1, <2>3, <2>4, FewerClaims
  <2>6. t \in DOMAIN Claimed /\ Claimed[t] = req[r].body.server
    BY <2>1, <2>2 DEF ClaimedIs
  <2>7. written' = Append(written, [proof |-> t, subject |-> Claimed[t]])
    BY <1>3, <2>6 DEF Record
  <2>8. Offered' = Offered
    BY <1>1 DEF Offered
  <2> HIDE DEF t
  <2> QED
    BY <1>1, <2>5, <2>6, <2>7, <2>8 DEF Promise!Write
<1> QED
  BY <1>2, <1>3

\* Turned away requests and edits of TXT records touch no proof.
LEMMA OtherMapped ==
  ASSUME IInv, IInv', (\E r \in Requests : TurnAway(r)) \/ EditTxt \/ UNCHANGED vars
  PROVE  Promise!Withdraw
<1>1. UNCHANGED <<nonces, states, req, issued, written>>
  BY DEF TurnAway, EditTxt, vars, stores, ghosts
<1> QED
  BY <1>1, WithdrawMapped DEF Claiming

\* Every step is one of the promise, or a stutter of it.
LEMMA StepMapped ==
  ASSUME IInv, IInv', [Next]_vars
  PROVE  [Promise!Next]_(Promise!vars)
<1>1. ASSUME NEW r \in Requests, Handler(r)
      PROVE  [Promise!Next]_(Promise!vars)
  BY <1>1, ReceiveMapped, OtherMapped, IssueNonceMapped, IssueStateMapped, SpendNonceMapped,
     SpendStateMapped, LookupTxtMapped, PassMapped, RecordMapped, FailMapped
  DEF Handler, Promise!Next
<1> QED
  BY <1>1, RestartMapped, TimeMapped, OtherMapped DEF Next, Promise!Next

\* In the beginning nothing is offered, claimed or written.
LEMMA InitMapped == Init => Promise!Init
<1>1. Init => Claiming = {}
  BY DEF Init, Claiming, Claims, Idle
<1>2. Init => Offered = [p \in {} |-> 0] /\ Claimed = [p \in {} |-> 0]
  BY <1>1 DEF Init, Offered, Claimed
<1> QED
  BY <1>2 DEF Init, Promise!Init

\* The registry keeps the promise of OneTimeProofs, for every set of tokens and
\* of requests: a proof is claimed once, in time and for its own subject, and
\* authorises one write at most.
THEOREM OneTimeProofsRefined == Spec => ImplementsOneTimeProofs
<1>1. Init => Promise!Init
  BY InitMapped
<1>2. IInv /\ IInv' /\ [Next]_vars => [Promise!Next]_(Promise!vars)
  BY StepMapped
<1> QED
  BY <1>1, <1>2, InvariantHolds, PTL DEF Spec, ImplementsOneTimeProofs, Promise!Spec
================================================================================
