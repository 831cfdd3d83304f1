------------------------------ MODULE RateWindows ------------------------------
(* The RateLimiter of rcx-registry-api: a fixed window per client, behind a   *)
(* mutex that is held for the whole check.  The start of a window is kept as  *)
(* its age, which stops at Window: an elapsed window is an elapsed window.    *)
EXTENDS Naturals

CONSTANTS
  Clients,    \* values of client_key, the shared "unknown" among them
  Window,     \* DEFAULT_MUTATION_RATE_WINDOW_MS
  MaxRate     \* DEFAULT_MUTATION_RATE_MAX

VARIABLE windows

RateWindow == [age : 0 .. Window, count : 1 .. MaxRate + 1]

WindowsTypeOK ==
  /\ DOMAIN windows \subseteq Clients
  /\ \A c \in DOMAIN windows : windows[c] \in RateWindow

\* Mutants of Running: the window ends one unit late, or the comparison of
\* retain is the wrong way round.
RunningLonger == {c \in DOMAIN windows : windows[c].age <= Window}
RunningElapsed == {c \in DOMAIN windows : windows[c].age >= Window}

\* The windows that retain keeps: now - started_at_ms < window_ms.
Running == {c \in DOMAIN windows : windows[c].age < Window}

\* The number of the request in its window.  check counts on up to u32::MAX; the
\* model stops at one over the budget, as check only asks whether it is over.
Ordinal(c) ==
  IF c \notin Running THEN 1
  ELSE IF windows[c].count > MaxRate THEN windows[c].count
  ELSE windows[c].count + 1

\* Mutant of Admits: the requests before this one are compared with the budget.
AdmitsOneMore(c) == IF c \in Running THEN windows[c].count <= MaxRate ELSE TRUE

Admits(c) == Ordinal(c) <= MaxRate

\* Mutant of Check: the window starts again with every request.
CheckRestarts(c) ==
  windows' = [d \in Running \cup {c} |->
                IF d = c THEN [age |-> 0, count |-> Ordinal(c)] ELSE windows[d]]

\* check: elapsed windows of all clients go, and this request is counted,
\* whether it is admitted or not.
Check(c) ==
  windows' = [d \in Running \cup {c} |->
                IF d # c THEN windows[d]
                ELSE [age |-> IF c \in Running THEN windows[c].age ELSE 0,
                      count |-> Ordinal(c)]]

ForgetWindows == windows' = [c \in {} |-> 0]

GrowOlder ==
  windows' = [c \in DOMAIN windows |->
                [windows[c] EXCEPT !.age = IF @ < Window THEN @ + 1 ELSE @]]
================================================================================
