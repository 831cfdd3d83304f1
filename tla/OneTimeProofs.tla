----------------------------- MODULE OneTimeProofs -----------------------------
(* What the registry promises of a proof: it is offered to one subject, may   *)
(* be claimed once and only within its lifetime, and what it authorises is    *)
(* written at most once, for the subject it was offered to.                   *)
EXTENDS Naturals, Sequences

CONSTANTS
  Proofs,     \* challenge nonces and OAuth states
  Subjects,   \* server names
  Lifetime

VARIABLES
  spentOrOffered,  \* the proofs that have ever been offered
  offered,         \* proof -> subject and age
  claimed,         \* proof -> subject
  written          \* the writes, in their order

vars == <<spentOrOffered, offered, claimed, written>>

Keep(f, S) == [p \in S |-> f[p]]

Init ==
  /\ spentOrOffered = {} /\ offered = [p \in {} |-> 0]
  /\ claimed = [p \in {} |-> 0] /\ written = <<>>

\* A fresh proof is offered; stale offers may be withdrawn on the way.
Offer ==
  /\ \E p \in Proofs \ spentOrOffered, s \in Subjects, S \in SUBSET DOMAIN offered :
       /\ spentOrOffered' = spentOrOffered \cup {p}
       /\ offered' = [q \in S \cup {p} |->
                        IF q = p THEN [subject |-> s, age |-> 0] ELSE offered[q]]
  /\ UNCHANGED <<claimed, written>>

Claim ==
  /\ \E p \in DOMAIN offered :
       /\ offered[p].age <= Lifetime
       /\ offered' = Keep(offered, DOMAIN offered \ {p})
       /\ claimed' = [q \in DOMAIN claimed \cup {p} |->
                        IF q = p THEN offered[p].subject ELSE claimed[q]]
  /\ UNCHANGED <<spentOrOffered, written>>

Write ==
  /\ \E p \in DOMAIN claimed :
       /\ written' = Append(written, [proof |-> p, subject |-> claimed[p]])
       /\ claimed' = Keep(claimed, DOMAIN claimed \ {p})
  /\ UNCHANGED <<spentOrOffered, offered>>

\* A failed attempt, a refused claim, a restart.
Withdraw ==
  /\ \E S \in SUBSET DOMAIN offered : offered' = Keep(offered, S)
  /\ \E S \in SUBSET DOMAIN claimed : claimed' = Keep(claimed, S)
  /\ UNCHANGED <<spentOrOffered, written>>

Tick ==
  /\ offered' = [p \in DOMAIN offered |->
                   [offered[p] EXCEPT !.age = IF @ <= Lifetime THEN @ + 1 ELSE @]]
  /\ UNCHANGED <<spentOrOffered, claimed, written>>

Next == Offer \/ Claim \/ Write \/ Withdraw \/ Tick
Spec == Init /\ [][Next]_vars
================================================================================
