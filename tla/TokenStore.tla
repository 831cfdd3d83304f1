------------------------------- MODULE TokenStore ------------------------------
(* NonceStore and OAuthStateStore of rcx-registry-admin: two maps of the same *)
(* shape from a token to what it was issued for and when it expires.  Every   *)
(* operation holds the mutex of its map from end to end, and reads the clock  *)
(* just before it: minutes of lifetime against microseconds of waiting, so    *)
(* the reading and the operation are one step here.                           *)
(*                                                                            *)
(* An expiry instant is kept as the age of the token, which stops growing     *)
(* one past Ttl: nothing tells two expired tokens apart.                      *)
EXTENDS Naturals

CONSTANTS
  Tokens,     \* 32 bytes of entropy each
  Bindings,   \* what a token may be issued for
  Ttl         \* DEFAULT_NONCE_TTL_MS

VARIABLE entries

Ages == 0 .. Ttl + 1
Entry == [binding : Bindings, age : Ages]

StoreTypeOK ==
  /\ DOMAIN entries \subseteq Tokens
  /\ \A t \in DOMAIN entries : entries[t] \in Entry

\* now <= expires_at_ms.
Usable(t) == t \in DOMAIN entries /\ entries[t].age <= Ttl

\* issue: drop what has expired, then insert.
Issue(t, b) ==
  entries' = [u \in {v \in DOMAIN entries : Usable(v)} \cup {t} |->
                IF u = t THEN [binding |-> b, age |-> 0] ELSE entries[u]]

\* Whether consume answers Ok.
Redeems(t, b) == Usable(t) /\ entries[t].binding = b

\* Mutants of Consume: the entry is looked up and stays, or is removed only when
\* it has been found to match.
ConsumeKeeps(t, b) == UNCHANGED entries
ConsumeOnMatch(t, b) ==
  entries' = [u \in DOMAIN entries \ {v \in {t} : Redeems(v, b)} |-> entries[u]]

\* consume: the entry goes before expiry and binding are looked at.
Consume(t, b) == entries' = [u \in DOMAIN entries \ {t} |-> entries[u]]

\* The map lives in the process.
Clear == entries' = [u \in {} |-> 0]

GrowOlder ==
  entries' = [t \in DOMAIN entries |->
                [entries[t] EXCEPT !.age = IF @ <= Ttl THEN @ + 1 ELSE @]]
================================================================================
