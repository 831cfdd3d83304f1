------------------------------ MODULE RateLimiter ------------------------------
(* The rate limiter on its own, between two restarts of the process, with a   *)
(* record of what it has admitted.  Requests come at any time, from any       *)
(* client; a window may start anywhere, so windows of two clients overlap.    *)
EXTENDS RateWindows, FiniteSets

ASSUME RateAssumption == Window \in Nat \ {0} /\ MaxRate \in Nat \ {0}

VARIABLE admitted  \* history: admissions of each client, by their age

vars == <<windows, admitted>>

Recent == 0 .. Window - 1

TypeOK ==
  /\ WindowsTypeOK
  /\ admitted \in [Clients -> [Recent -> 0 .. MaxRate]]

Init ==
  /\ windows = [c \in {} |-> 0]
  /\ admitted = [c \in Clients |-> [a \in Recent |-> 0]]

Ask(c) ==
  /\ Check(c)
  /\ admitted' = IF Admits(c) THEN [admitted EXCEPT ![c][0] = @ + 1] ELSE admitted

TimePasses ==
  /\ GrowOlder
  /\ admitted' = [c \in Clients |->
                    [a \in Recent |-> IF a = 0 THEN 0 ELSE admitted[c][a - 1]]]

Next == (\E c \in Clients : Ask(c)) \/ TimePasses

Spec == Init /\ [][Next]_vars

\* The clock runs, and every client goes on asking.
FairSpec == Spec /\ WF_vars(TimePasses) /\ \A c \in Clients : WF_vars(Ask(c))

\* The admissions of a history, numbered within each age, and their sum.
Admissions(history) == UNION {{a} \X (1 .. history[a]) : a \in Recent}
AdmittedLately(c) == Cardinality(Admissions(admitted[c]))

\* Whatever the moment, a client has had at most twice its budget admitted over
\* the length of a window: the end of one window and the beginning of the next.
AtMostTwiceTheBudget == \A c \in Clients : AdmittedLately(c) <= 2 * MaxRate

\* Nobody is turned away who has not had a full budget within a window's length,
\* whatever the requests of others do to the map.
RefusedOnlyOverBudget ==
  [][\A c \in Clients : Ask(c) /\ ~Admits(c) => AdmittedLately(c) >= MaxRate]_vars

\* A client that never stops asking is admitted again and again: the requests it
\* is refused are counted but do not prolong its window.
AdmittedAgain == \A c \in Clients : []<>(admitted[c][0] > 0)
================================================================================
