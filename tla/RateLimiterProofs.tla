---------------------------- MODULE RateLimiterProofs ---------------------------
(* The rate limiter, for any clients, any window and any budget: what a       *)
(* client may be admitted, and who may be turned away.                        *)
EXTENDS RateLimiter, Integers, FunctionTheorems, FiniteSetTheorems, TLAPS

--------------------------------------------------------------------------------
(* Counting the admissions of a history.                                      *)

Histories == [Recent -> Nat]

\* The history a unit of time later, and with one more admission.
Shifted(h) == [a \in Recent |-> IF a = 0 THEN 0 ELSE h[a - 1]]
OneMore(h) == [h EXCEPT ![0] = @ + 1]

\* The admissions of at most a given age, and the older ones.
Newer(h, t) == {p \in Admissions(h) : p[1] <= t}
Older(h, t) == {p \in Admissions(h) : p[1] > t}

LEMMA AdmissionsOf ==
  ASSUME NEW h
  PROVE  Admissions(h) = {p \in Recent \X Nat : p[2] \in 1 .. h[p[1]]}
<1>1. ASSUME NEW p \in Admissions(h) PROVE p \in Recent \X Nat /\ p[2] \in 1 .. h[p[1]]
  <2>1. PICK a \in Recent : p \in {a} \X (1 .. h[a])
    BY DEF Admissions
  <2> QED BY <2>1
<1>2. ASSUME NEW p \in Recent \X Nat, p[2] \in 1 .. h[p[1]] PROVE p \in Admissions(h)
  <2>1. PICK a \in Recent, k \in Nat : p = <<a, k>>
    OBVIOUS
  <2>2. p \in {a} \X (1 .. h[a])
    BY <1>2, <2>1
  <2> QED BY <2>2 DEF Admissions
<1> QED BY <1>1, <1>2

\* No window holds more admissions than can be counted.
LEMMA AdmissionsAreFinite ==
  ASSUME NEW h \in Histories, NEW B \in Nat, \A a \in Recent : h[a] <= B,
         NEW S \in SUBSET Admissions(h)
  PROVE  IsFiniteSet(S) /\ Cardinality(S) \in Nat
<1>1. IsFiniteSet(Recent) /\ IsFiniteSet(0 .. B)
  BY RateAssumption, FS_Interval DEF Recent
<1>2. IsFiniteSet(Recent \X (0 .. B))
  BY <1>1, FS_Product
<1>3. S \subseteq Recent \X (0 .. B)
  <2>1. ASSUME NEW p \in S PROVE p \in Recent \X (0 .. B)
    <3>1. p \in Recent \X Nat /\ p[2] \in 1 .. h[p[1]] /\ p[1] \in Recent
      BY AdmissionsOf
    <3>2. h[p[1]] \in Nat /\ h[p[1]] <= B
      BY <3>1 DEF Histories
    <3>3. p[2] \in 0 .. B
      BY <3>1, <3>2
    <3> QED BY <3>1, <3>3
  <2> QED BY <2>1
<1>4. IsFiniteSet(S)
  BY <1>2, <1>3, FS_Subset
<1> QED BY <1>4, FS_CardinalityType

\* One admission more is one more among the newer ones, of any age.
LEMMA OneMoreIsCounted ==
  ASSUME NEW h \in Histories, NEW B \in Nat, \A a \in Recent : h[a] <= B, NEW t \in Nat
  PROVE  /\ OneMore(h) \in Histories
         /\ Cardinality(Newer(OneMore(h), t)) = Cardinality(Newer(h, t)) + 1
         /\ Older(OneMore(h), t) = Older(h, t)
<1>1. 0 \in Recent
  BY RateAssumption DEF Recent
<1>2. /\ OneMore(h) \in Histories /\ OneMore(h)[0] = h[0] + 1
      /\ \A a \in Recent : a # 0 => OneMore(h)[a] = h[a]
  BY <1>1 DEF OneMore, Histories
<1> DEFINE new == <<0, h[0] + 1>>
<1>3. h[0] \in Nat
  BY <1>1 DEF Histories
<1>4. Admissions(OneMore(h)) = Admissions(h) \cup {new} /\ new \notin Admissions(h)
  <2>1. ASSUME NEW a \in Recent, NEW k \in Nat
        PROVE  k \in 1 .. OneMore(h)[a] <=> (k \in 1 .. h[a] \/ <<a, k>> = new)
    BY <1>2, <1>3
  <2>2. ASSUME NEW p \in Recent \X Nat
        PROVE  p[2] \in 1 .. OneMore(h)[p[1]] <=> (p[2] \in 1 .. h[p[1]] \/ p = new)
    BY <2>1
  <2>3. new \in Recent \X Nat /\ ~(new[2] \in 1 .. h[new[1]])
    BY <1>1, <1>3
  <2> HIDE DEF new
  <2> QED BY <2>2, <2>3, AdmissionsOf
<1>5. Newer(OneMore(h), t) = Newer(h, t) \cup {new} /\ new \notin Newer(h, t)
      /\ Older(OneMore(h), t) = Older(h, t)
  BY <1>4 DEF Newer, Older
<1> HIDE DEF new
<1>6. IsFiniteSet(Newer(h, t))
  BY AdmissionsAreFinite DEF Newer
<1>7. Cardinality(Newer(h, t) \cup {new}) = Cardinality(Newer(h, t)) + 1
  BY <1>5, <1>6, FS_AddElement
<1> QED BY <1>2, <1>5, <1>7

\* Time takes admissions away and adds none; of those that stay in the window
\* none is lost.
LEMMA ShiftedAreFewer ==
  ASSUME NEW h \in Histories, NEW B \in Nat, \A a \in Recent : h[a] <= B, NEW t \in Nat
  PROVE  /\ Shifted(h) \in Histories
         /\ Cardinality(Newer(Shifted(h), t + 1)) <= Cardinality(Newer(h, t))
         /\ Cardinality(Older(Shifted(h), t + 1)) <= Cardinality(Older(h, t))
         /\ Cardinality(Admissions(Shifted(h))) <= Cardinality(Admissions(h))
         /\ t + 1 < Window => Cardinality(Newer(Shifted(h), t + 1)) = Cardinality(Newer(h, t))
<1> DEFINE back(p) == <<p[1] - 1, p[2]>>
<1>0. \A p : back(p)[1] = p[1] - 1
  OBVIOUS
<1>1. \A a \in Recent : a # 0 => a - 1 \in Recent
  BY RateAssumption DEF Recent
<1>2. Shifted(h) \in Histories
  BY <1>1 DEF Shifted, Histories
<1>3. ASSUME NEW p \in Admissions(Shifted(h))
      PROVE  /\ p \in Recent \X Nat /\ p[1] # 0
             /\ <<p[1] - 1, p[2]>> \in Admissions(h)
  <2>1. p \in Recent \X Nat /\ p[1] \in Recent /\ p[2] \in 1 .. Shifted(h)[p[1]]
    BY AdmissionsOf
  <2>2. p[1] # 0 /\ p[2] \in 1 .. h[p[1] - 1]
    BY <2>1 DEF Shifted
  <2>3. <<p[1] - 1, p[2]>> \in Recent \X Nat
    BY <1>1, <2>1, <2>2
  <2> QED BY <2>1, <2>2, <2>3, AdmissionsOf
<1>4. ASSUME NEW S \in SUBSET Admissions(Shifted(h)), NEW T \in SUBSET Admissions(h),
             \A p \in S : <<p[1] - 1, p[2]>> \in T
      PROVE  /\ Cardinality(S) <= Cardinality(T)
             /\ (\A q \in T : \E p \in S : q = <<p[1] - 1, p[2]>>) => Cardinality(S) = Cardinality(T)
  <2> DEFINE f == [p \in S |-> <<p[1] - 1, p[2]>>]
  <2>1. f \in [S -> T]
    BY <1>4
  <2>2. ASSUME NEW p \in S, NEW q \in S, f[p] = f[q] PROVE p = q
    <3>1. p \in Recent \X Nat /\ q \in Recent \X Nat
      BY <1>3
    <3>2. p[1] - 1 = q[1] - 1 /\ p[2] = q[2]
      BY <2>2
    <3>3. p[1] \in Int /\ q[1] \in Int
      BY <3>1 DEF Recent
    <3> QED BY <3>1, <3>2, <3>3
  <2>3. f \in Injection(S, T)
    BY <2>1, <2>2, Fun_IsInj
  <2>4. IsFiniteSet(T)
    BY AdmissionsAreFinite
  <2>5. /\ Cardinality(S) <= Cardinality(T)
        /\ Cardinality(S) = Cardinality(T) <=> f \in Surjection(S, T)
    <3> HIDE DEF f
    <3> QED BY <2>3, <2>4, FS_Injection
  <2>6. ASSUME \A q \in T : \E p \in S : q = <<p[1] - 1, p[2]>> PROVE f \in Surjection(S, T)
    <3>1. \A q \in T : \E p \in S : f[p] = q
      BY <2>6
    <3> HIDE DEF f
    <3> QED BY <2>1, <3>1, Fun_IsSurj
  <2> QED BY <2>5, <2>6
<1>5. \A p \in Admissions(Shifted(h)) :
        /\ <<p[1] - 1, p[2]>> \in Admissions(h)
        /\ p[1] <= t + 1 <=> p[1] - 1 <= t
        /\ p[1] > t + 1 <=> p[1] - 1 > t
  <2>1. ASSUME NEW p \in Admissions(Shifted(h))
        PROVE  (p[1] <= t + 1 <=> p[1] - 1 <= t) /\ (p[1] > t + 1 <=> p[1] - 1 > t)
    <3>1. p[1] \in Recent
      BY <1>3
    <3>2. PICK a \in Int : a = p[1]
      BY <3>1 DEF Recent
    <3> QED BY <3>2
  <2> QED BY <1>3, <2>1
<1>6. Cardinality(Newer(Shifted(h), t + 1)) <= Cardinality(Newer(h, t))
  <2>1. \A p \in Newer(Shifted(h), t + 1) : <<p[1] - 1, p[2]>> \in Newer(h, t)
    BY <1>5, <1>0 DEF Newer
  <2> QED BY <1>4, <2>1 DEF Newer
<1>7. Cardinality(Older(Shifted(h), t + 1)) <= Cardinality(Older(h, t))
  <2>1. \A p \in Older(Shifted(h), t + 1) : <<p[1] - 1, p[2]>> \in Older(h, t)
    BY <1>5, <1>0 DEF Older
  <2> QED BY <1>4, <2>1 DEF Older
<1>8. Cardinality(Admissions(Shifted(h))) <= Cardinality(Admissions(h))
  BY <1>3, <1>4
<1>9. ASSUME t + 1 < Window PROVE Cardinality(Newer(Shifted(h), t + 1)) = Cardinality(Newer(h, t))
  <2>1. \A p \in Newer(Shifted(h), t + 1) : <<p[1] - 1, p[2]>> \in Newer(h, t)
    BY <1>5, <1>0 DEF Newer
  <2>2. ASSUME NEW q \in Newer(h, t)
        PROVE  \E p \in Newer(Shifted(h), t + 1) : q = <<p[1] - 1, p[2]>>
    <3>1. q \in Recent \X Nat /\ q[2] \in 1 .. h[q[1]] /\ q[1] <= t /\ q[1] \in Recent
      BY AdmissionsOf DEF Newer
    <3> DEFINE p == <<q[1] + 1, q[2]>>
    <3>2. q[1] \in Nat /\ q[1] + 1 \in Recent /\ q[1] + 1 <= t + 1 /\ q[1] + 1 - 1 = q[1] /\ q[1] + 1 # 0
      BY <1>9, <3>1, RateAssumption DEF Recent
    <3>3. p \in Recent \X Nat /\ p[2] \in 1 .. Shifted(h)[p[1]]
      BY <3>1, <3>2 DEF Shifted
    <3>4. p \in Newer(Shifted(h), t + 1)
      BY <3>2, <3>3, AdmissionsOf DEF Newer
    <3>5. q = <<p[1] - 1, p[2]>>
      BY <3>1, <3>2
    <3> QED BY <3>4, <3>5
  <2> QED BY <1>4, <2>1, <2>2 DEF Newer
<1> QED BY <1>2, <1>6, <1>7, <1>8, <1>9

--------------------------------------------------------------------------------
(* The windows and what was admitted in them.                                 *)

\* What is left of the admissions before the window that runs is at most one
\* budget, and what the window has admitted is its count up to the budget.  When
\* no window runs, nothing was admitted at this moment, and at most one budget
\* within a window's length.
WindowInv(c) ==
  IF c \in Running
  THEN /\ Cardinality(Newer(admitted[c], windows[c].age)) =
            IF windows[c].count > MaxRate THEN MaxRate ELSE windows[c].count
       /\ Cardinality(Older(admitted[c], windows[c].age)) <= MaxRate
  ELSE admitted[c][0] = 0 /\ Cardinality(Admissions(admitted[c])) <= MaxRate

RateInv == TypeOK /\ \A c \in Clients : WindowInv(c)

\* A typed history can be counted, and its parts add up.
LEMMA PartsAddUp ==
  ASSUME TypeOK, NEW c \in Clients, NEW t \in Nat
  PROVE  LET h == admitted[c]
         IN  /\ h \in Histories /\ \A a \in Recent : h[a] <= MaxRate
             /\ Cardinality(Newer(h, t)) \in Nat /\ Cardinality(Older(h, t)) \in Nat
             /\ Cardinality(Admissions(h)) \in Nat
             /\ Cardinality(Admissions(h)) = Cardinality(Newer(h, t)) + Cardinality(Older(h, t))
             /\ h[0] \in Nat /\ h[0] <= Cardinality(Newer(h, t))
<1> DEFINE h == admitted[c]
<1>1. h \in Histories /\ (\A a \in Recent : h[a] <= MaxRate) /\ MaxRate \in Nat /\ 0 \in Recent
  BY RateAssumption DEF TypeOK, Histories, Recent
<1> HIDE DEF h
<1>2. \A S \in SUBSET Admissions(h) : IsFiniteSet(S) /\ Cardinality(S) \in Nat
  BY <1>1, AdmissionsAreFinite
<1>3. \A p \in Admissions(h) : p[1] \in Int
  BY AdmissionsOf DEF Recent
<1>4. /\ Newer(h, t) \cup Older(h, t) = Admissions(h) /\ Newer(h, t) \cap Older(h, t) = {}
      /\ Newer(h, t) \in SUBSET Admissions(h) /\ Older(h, t) \in SUBSET Admissions(h)
  BY <1>3 DEF Newer, Older
<1>6. Cardinality(Admissions(h)) = Cardinality(Newer(h, t)) + Cardinality(Older(h, t))
  <2>1. Cardinality({}) = 0
    BY FS_EmptySet
  <2>2. Cardinality(Newer(h, t)) \in Nat /\ Cardinality(Older(h, t)) \in Nat
    BY <1>2, <1>4
  <2>3. Cardinality(Newer(h, t) \cup Older(h, t)) = Cardinality(Newer(h, t)) + Cardinality(Older(h, t))
    <3>1. Newer(h, t) \cap Older(h, t) = {}
      BY <1>4
    <3>2. Cardinality(Newer(h, t) \cap Older(h, t)) = 0
      BY <2>1, <3>1
    <3>3. Cardinality(Newer(h, t) \cup Older(h, t)) = Cardinality(Newer(h, t)) + Cardinality(Older(h, t))
                                                     - Cardinality(Newer(h, t) \cap Older(h, t))
      BY <1>2, <1>4, FS_Union
    <3> QED BY <2>2, <3>2, <3>3
  <2> QED BY <1>4, <2>3
<1>7. h[0] \in Nat /\ h[0] <= Cardinality(Newer(h, t))
  <2> DEFINE S == {0} \X (1 .. h[0])
             f == [k \in 1 .. h[0] |-> <<0, k>>]
  <2>1. h[0] \in Nat
    BY <1>1 DEF Histories
  <2>2. f \in [1 .. h[0] -> Newer(h, t)]
    <3>1. ASSUME NEW k \in 1 .. h[0] PROVE <<0, k>> \in Newer(h, t)
      <4>1. <<0, k>> \in Recent \X Nat
        BY <1>1, <2>1
      <4> QED BY <4>1, AdmissionsOf DEF Newer
    <3> QED BY <3>1
  <2>3. f \in Injection(1 .. h[0], Newer(h, t))
    <3>1. \A k, m \in 1 .. h[0] : f[k] = f[m] => k = m
      OBVIOUS
    <3> HIDE DEF f
    <3> QED BY <2>2, <3>1, Fun_IsInj
  <2>4. Cardinality(1 .. h[0]) <= Cardinality(Newer(h, t))
    <3> HIDE DEF f
    <3> QED BY <1>2, <1>4, <2>3, FS_Injection
  <2>5. Cardinality(1 .. h[0]) = h[0]
    <3>1. Cardinality(1 .. h[0]) = IF 1 > h[0] THEN 0 ELSE h[0] - 1 + 1
      BY <2>1, FS_Interval
    <3> QED BY <2>1, <3>1
  <2> QED BY <2>1, <2>4, <2>5
<1>8. /\ Cardinality(Newer(h, t)) \in Nat /\ Cardinality(Older(h, t)) \in Nat
      /\ Cardinality(Admissions(h)) \in Nat
  BY <1>2, <1>4
<1> QED BY <1>1, <1>6, <1>7, <1>8 DEF h

\* Nobody has had more than two budgets.
LEMMA AtMostTwo ==
  RateInv => AtMostTwiceTheBudget
<1> SUFFICES ASSUME RateInv, NEW c \in Clients PROVE AdmittedLately(c) <= 2 * MaxRate
  BY DEF AtMostTwiceTheBudget
<1>1. TypeOK /\ WindowInv(c) /\ MaxRate \in Nat
  BY RateAssumption DEF RateInv
<1>2. CASE c \in Running
  <2>1. windows[c].age \in Nat /\ windows[c].count \in Nat
    BY <1>1, <1>2 DEF Running, TypeOK, WindowsTypeOK, RateWindow
  <2>2. /\ Cardinality(Newer(admitted[c], windows[c].age)) <= MaxRate
        /\ Cardinality(Older(admitted[c], windows[c].age)) <= MaxRate
    BY <1>1, <1>2, <2>1 DEF WindowInv
  <2> QED BY <1>1, <2>1, <2>2, PartsAddUp DEF AdmittedLately
<1>3. CASE c \notin Running
  <2>1. Cardinality(Admissions(admitted[c])) \in Nat
    BY <1>1, PartsAddUp
  <2> QED BY <1>1, <1>3, <2>1 DEF WindowInv, AdmittedLately
<1> QED BY <1>2, <1>3

--------------------------------------------------------------------------------
(* The steps.                                                                 *)

\* What a request does to the window of its client and to the others.
LEMMA CheckedWindows ==
  ASSUME WindowsTypeOK, NEW c \in Clients, Check(c)
  PROVE  /\ WindowsTypeOK'
         /\ c \in Running' /\ windows'[c].count = Ordinal(c)
         /\ windows'[c].age = IF c \in Running THEN windows[c].age ELSE 0
         /\ \A d \in Clients : d # c => /\ d \in Running' <=> d \in Running
                                        /\ d \in Running => windows'[d] = windows[d]
<1> DEFINE new == [age |-> IF c \in Running THEN windows[c].age ELSE 0, count |-> Ordinal(c)]
<1>1. /\ DOMAIN windows' = Running \cup {c} /\ windows'[c] = new
      /\ \A d \in Running : d # c => windows'[d] = windows[d]
  BY DEF Check
<1>2. Window \in Nat \ {0} /\ MaxRate \in Nat \ {0}
  BY RateAssumption
<1>3. \A d \in Running : d \in Clients /\ windows[d] \in RateWindow /\ windows[d].age < Window
  BY DEF WindowsTypeOK, Running
<1>4. Ordinal(c) \in 1 .. MaxRate + 1
  <2>1. c \in Running => windows[c].count \in 1 .. MaxRate + 1
    BY <1>3 DEF RateWindow
  <2> QED BY <1>2, <2>1 DEF Ordinal
<1>5. new \in RateWindow /\ new.age < Window
  <2>1. c \in Running => windows[c].age \in 0 .. Window /\ windows[c].age < Window
    BY <1>3 DEF RateWindow
  <2>2. new.age \in 0 .. Window /\ new.age < Window
    BY <1>2, <2>1
  <2> QED BY <1>4, <2>2 DEF RateWindow
<1>6. new.count = Ordinal(c) /\ new.age = IF c \in Running THEN windows[c].age ELSE 0
  OBVIOUS
<1> HIDE DEF new
<1>7. WindowsTypeOK'
  BY <1>1, <1>3, <1>5 DEF WindowsTypeOK
<1>8. Running' = Running \cup {c}
  BY <1>1, <1>3, <1>5 DEF Running
<1> QED BY <1>1, <1>6, <1>7, <1>8

\* A request is admitted while its window has not had the budget.
LEMMA AskStep ==
  ASSUME RateInv, NEW c \in Clients, Ask(c)
  PROVE  RateInv'
<1>0. TypeOK /\ WindowInv(c) /\ MaxRate \in Nat \ {0} /\ 0 \in Recent
  BY RateAssumption DEF RateInv, Recent
<1>1. /\ WindowsTypeOK'
      /\ c \in Running' /\ windows'[c].count = Ordinal(c)
      /\ windows'[c].age = IF c \in Running THEN windows[c].age ELSE 0
      /\ \A d \in Clients : d # c => /\ d \in Running' <=> d \in Running
                                     /\ d \in Running => windows'[d] = windows[d]
  BY <1>0, CheckedWindows DEF Ask, TypeOK
<1>2. admitted' = IF Admits(c) THEN [admitted EXCEPT ![c] = OneMore(@)] ELSE admitted
  BY DEF Ask, OneMore
<1>3. \A d \in Clients : d # c => admitted'[d] = admitted[d]
  BY <1>0, <1>2 DEF TypeOK
<1> DEFINE h == admitted[c]
           t == windows'[c].age
<1>4. t \in Nat
  BY <1>1 DEF WindowsTypeOK, RateWindow, Running
<1>5. /\ h \in Histories /\ \A a \in Recent : h[a] <= MaxRate
      /\ Cardinality(Newer(h, t)) \in Nat
      /\ Cardinality(Admissions(h)) = Cardinality(Newer(h, t)) + Cardinality(Older(h, t))
      /\ Cardinality(Older(h, t)) \in Nat
  BY <1>0, <1>4, PartsAddUp
<1>6. /\ OneMore(h) \in Histories
      /\ Cardinality(Newer(OneMore(h), t)) = Cardinality(Newer(h, t)) + 1
      /\ Older(OneMore(h), t) = Older(h, t)
  BY <1>0, <1>4, <1>5, OneMoreIsCounted
<1>7. admitted'[c] = IF Admits(c) THEN OneMore(h) ELSE h
  BY <1>0, <1>2 DEF TypeOK
<1> HIDE DEF h, t
\* The newer part counts the requests of the window, the older part is as before.
<1>8. /\ Cardinality(Newer(h, t)) =
           IF c \notin Running THEN 0
           ELSE IF windows[c].count > MaxRate THEN MaxRate ELSE windows[c].count
      /\ Cardinality(Older(h, t)) <= MaxRate
  <2>1. CASE c \in Running
    BY <1>0, <1>1, <2>1 DEF WindowInv, h, t
  <2>2. CASE c \notin Running
    <3>1. t = 0 /\ h[0] = 0 /\ Cardinality(Admissions(h)) <= MaxRate
      BY <1>0, <1>1, <2>2 DEF WindowInv, h, t
    <3>2. Newer(h, t) = {}
      <4>1. SUFFICES ASSUME NEW p \in Newer(h, t) PROVE FALSE
        OBVIOUS
      <4>2. p \in Recent \X Nat /\ p[1] \in Recent /\ p[2] \in 1 .. h[p[1]] /\ p[1] <= 0
        BY <3>1, AdmissionsOf DEF Newer
      <4>3. p[1] = 0
        BY <4>2 DEF Recent
      <4> QED BY <3>1, <4>2, <4>3
    <3>3. Cardinality(Newer(h, t)) = 0
      BY <3>2, FS_EmptySet
    <3>4. Cardinality(Older(h, t)) <= MaxRate
      BY <1>0, <1>5, <3>1, <3>3
    <3> QED BY <2>2, <3>3, <3>4
  <2> QED BY <2>1, <2>2
<1>9. c \in Running => windows[c].count \in 1 .. MaxRate + 1
  BY <1>0 DEF TypeOK, WindowsTypeOK, RateWindow, Running
<1>10. /\ Cardinality(Newer(admitted'[c], t)) =
            IF Ordinal(c) > MaxRate THEN MaxRate ELSE Ordinal(c)
       /\ Cardinality(Older(admitted'[c], t)) <= MaxRate
       /\ admitted'[c] \in Histories
  BY <1>0, <1>5, <1>6, <1>7, <1>8, <1>9 DEF Ordinal, Admits
<1>11. ASSUME NEW a \in Recent PROVE admitted'[c][a] \in 0 .. MaxRate
  <2>1. CASE a # 0 \/ ~Admits(c)
    <3>1. admitted'[c][a] = h[a]
      BY <1>0, <1>5, <1>7, <2>1 DEF OneMore, Histories
    <3> QED BY <1>5, <3>1 DEF Histories
  <2>2. CASE a = 0 /\ Admits(c)
    <3>1. admitted'[c][0] = h[0] + 1 /\ h[0] \in Nat /\ h[0] <= Cardinality(Newer(h, t))
      BY <1>0, <1>4, <1>5, <1>7, <2>2, PartsAddUp DEF OneMore, Histories, h
    <3>2. Cardinality(Newer(h, t)) + 1 <= MaxRate
      BY <1>0, <1>6, <1>7, <1>9, <1>10, <2>2 DEF Admits, Ordinal
    <3> QED BY <1>0, <1>5, <2>2, <3>1, <3>2
  <2> QED BY <2>1, <2>2
<1>12. TypeOK'
  <2>1. admitted'[c] \in [Recent -> 0 .. MaxRate]
    BY <1>10, <1>11 DEF Histories
  <2>2. admitted' \in [Clients -> [Recent -> 0 .. MaxRate]]
    <3>1. DOMAIN admitted' = Clients /\ admitted' = [d \in Clients |-> admitted'[d]]
      BY <1>0, <1>2 DEF TypeOK
    <3> QED BY <1>0, <1>3, <2>1, <3>1 DEF TypeOK
  <2> QED BY <1>1, <2>2 DEF TypeOK
<1>13. ASSUME NEW d \in Clients PROVE WindowInv(d)'
  <2>1. CASE d = c
    BY <1>1, <1>10, <2>1 DEF WindowInv, t
  <2>2. CASE d # c
    <3>1. WindowInv(d)
      BY DEF RateInv
    <3> QED BY <1>1, <1>3, <2>2, <3>1 DEF WindowInv
  <2> QED BY <2>1, <2>2
<1> QED BY <1>12, <1>13 DEF RateInv

\* Time moves the admissions with the window they were made in.
LEMMA TimeStep ==
  ASSUME RateInv, TimePasses
  PROVE  RateInv'
<1>0. TypeOK /\ Window \in Nat \ {0} /\ MaxRate \in Nat \ {0} /\ 0 \in Recent
  BY RateAssumption DEF RateInv, Recent
<1>1. \A c \in Clients : admitted'[c] = Shifted(admitted[c])
  BY DEF TimePasses, Shifted
<1>2. /\ DOMAIN windows' = DOMAIN windows
      /\ \A c \in DOMAIN windows : windows'[c] =
           [windows[c] EXCEPT !.age = IF windows[c].age < Window THEN windows[c].age + 1 ELSE windows[c].age]
  BY DEF TimePasses, GrowOlder
<1>3. ASSUME NEW c \in DOMAIN windows
      PROVE  /\ windows[c].age \in 0 .. Window /\ windows'[c] \in RateWindow
             /\ windows'[c].count = windows[c].count
             /\ windows'[c].age = IF windows[c].age < Window THEN windows[c].age + 1 ELSE windows[c].age
  <2>1. windows[c] \in RateWindow
    BY <1>0 DEF TypeOK, WindowsTypeOK
  <2> QED BY <1>0, <1>2, <2>1 DEF RateWindow
<1>4. ASSUME NEW c \in Clients, NEW t \in Nat
      PROVE  /\ admitted'[c] \in [Recent -> 0 .. MaxRate] /\ admitted'[c][0] = 0
             /\ Cardinality(Newer(admitted'[c], t + 1)) <= Cardinality(Newer(admitted[c], t))
             /\ Cardinality(Older(admitted'[c], t + 1)) <= Cardinality(Older(admitted[c], t))
             /\ Cardinality(Admissions(admitted'[c])) <= Cardinality(Admissions(admitted[c]))
             /\ t + 1 < Window =>
                  Cardinality(Newer(admitted'[c], t + 1)) = Cardinality(Newer(admitted[c], t))
             /\ Cardinality(Newer(admitted[c], t)) \in Nat /\ Cardinality(Older(admitted[c], t)) \in Nat
             /\ Cardinality(Admissions(admitted[c])) \in Nat
  <2>1. admitted[c] \in [Recent -> 0 .. MaxRate]
    BY <1>0 DEF TypeOK
  <2>2. \A a \in Recent : a # 0 => a - 1 \in Recent
    BY <1>0 DEF Recent
  <2>3. Shifted(admitted[c]) \in [Recent -> 0 .. MaxRate] /\ Shifted(admitted[c])[0] = 0
    BY <1>0, <2>1, <2>2 DEF Shifted
  <2>4. /\ admitted[c] \in Histories /\ \A a \in Recent : admitted[c][a] <= MaxRate
        /\ Cardinality(Newer(admitted[c], t)) \in Nat /\ Cardinality(Older(admitted[c], t)) \in Nat
        /\ Cardinality(Admissions(admitted[c])) \in Nat
    BY <1>0, PartsAddUp
  <2>5. /\ Cardinality(Newer(Shifted(admitted[c]), t + 1)) <= Cardinality(Newer(admitted[c], t))
        /\ Cardinality(Older(Shifted(admitted[c]), t + 1)) <= Cardinality(Older(admitted[c], t))
        /\ Cardinality(Admissions(Shifted(admitted[c]))) <= Cardinality(Admissions(admitted[c]))
        /\ t + 1 < Window =>
             Cardinality(Newer(Shifted(admitted[c]), t + 1)) = Cardinality(Newer(admitted[c], t))
    BY <1>0, <2>4, ShiftedAreFewer
  <2> QED BY <1>1, <2>3, <2>4, <2>5
<1>5. TypeOK'
  <2>1. admitted' \in [Clients -> [Recent -> 0 .. MaxRate]]
    <3>1. admitted' = [c \in Clients |-> admitted'[c]]
      BY DEF TimePasses
    <3>2. \A c \in Clients : admitted'[c] \in [Recent -> 0 .. MaxRate]
      BY <1>4
    <3> QED BY <3>1, <3>2
  <2>2. WindowsTypeOK'
    BY <1>0, <1>2, <1>3 DEF TypeOK, WindowsTypeOK
  <2> QED BY <2>1, <2>2 DEF TypeOK
<1>6. ASSUME NEW c \in Clients PROVE WindowInv(c)'
  <2>0. WindowInv(c)
    BY DEF RateInv
  <2>1. CASE c \in Running /\ windows[c].age + 1 < Window
    <3> DEFINE t == windows[c].age
    <3>1. c \in DOMAIN windows /\ t \in Nat /\ t + 1 < Window /\ t < Window
      BY <1>3, <2>1 DEF Running
    <3>2. windows'[c].age = t + 1 /\ windows'[c].count = windows[c].count /\ c \in Running'
      BY <1>2, <1>3, <3>1 DEF Running
    <3>3. /\ Cardinality(Newer(admitted[c], t)) =
               IF windows[c].count > MaxRate THEN MaxRate ELSE windows[c].count
          /\ Cardinality(Older(admitted[c], t)) <= MaxRate
      BY <2>0, <2>1 DEF WindowInv
    <3> HIDE DEF t
    <3>4. /\ Cardinality(Newer(admitted'[c], t + 1)) = Cardinality(Newer(admitted[c], t))
          /\ Cardinality(Older(admitted'[c], t + 1)) <= Cardinality(Older(admitted[c], t))
          /\ Cardinality(Older(admitted[c], t)) \in Nat
      BY <1>4, <3>1
    <3>5. Cardinality(Older(admitted'[c], t + 1)) <= MaxRate
      <4>1. IsFiniteSet(Older(admitted'[c], t + 1)) /\ Cardinality(Older(admitted'[c], t + 1)) \in Nat
        <5>1. admitted'[c] \in Histories /\ \A a \in Recent : admitted'[c][a] <= MaxRate
          BY <1>0, <1>4, <3>1 DEF Histories
        <5> QED BY <1>0, <5>1, AdmissionsAreFinite DEF Older
      <4> QED BY <1>0, <3>3, <3>4, <4>1
    <3> QED BY <3>2, <3>3, <3>4, <3>5 DEF WindowInv
  <2>2. CASE c \in Running /\ ~(windows[c].age + 1 < Window)
    <3> DEFINE t == windows[c].age
    <3>1. c \in DOMAIN windows /\ t \in Nat /\ t + 1 = Window
      BY <1>0, <1>3, <2>2 DEF Running
    <3>2. windows'[c].age = Window /\ c \notin Running'
      BY <1>0, <1>2, <1>3, <3>1 DEF Running
    <3>3. windows[c].count \in 1 .. MaxRate + 1
      BY <1>0, <3>1 DEF TypeOK, WindowsTypeOK, RateWindow
    <3>4. Cardinality(Newer(admitted[c], t)) <= MaxRate
      BY <1>0, <2>0, <2>2, <3>3 DEF WindowInv
    <3> HIDE DEF t
    <3>5. /\ Cardinality(Newer(admitted'[c], t + 1)) <= Cardinality(Newer(admitted[c], t))
          /\ Cardinality(Newer(admitted[c], t)) \in Nat /\ admitted'[c][0] = 0
      BY <1>4, <3>1
    <3>6. Newer(admitted'[c], t + 1) = Admissions(admitted'[c])
      <4>1. \A p \in Admissions(admitted'[c]) : p[1] \in Recent
        BY AdmissionsOf
      <4> QED BY <1>0, <3>1, <4>1 DEF Newer, Recent
    <3>7. Cardinality(Admissions(admitted'[c])) \in Nat
      <4>1. admitted'[c] \in Histories /\ \A a \in Recent : admitted'[c][a] <= MaxRate
        BY <1>0, <1>4, <3>1 DEF Histories
      <4> QED BY <1>0, <4>1, AdmissionsAreFinite
    <3> QED BY <1>0, <3>2, <3>4, <3>5, <3>6, <3>7 DEF WindowInv
  <2>3. CASE c \notin Running
    <3>1. c \notin Running'
      BY <1>0, <1>2, <1>3, <2>3 DEF Running
    <3>2. Cardinality(Admissions(admitted[c])) <= MaxRate
      BY <2>0, <2>3 DEF WindowInv
    <3>3. /\ Cardinality(Admissions(admitted'[c])) <= Cardinality(Admissions(admitted[c]))
          /\ Cardinality(Admissions(admitted[c])) \in Nat /\ admitted'[c][0] = 0
      BY <1>0, <1>4
    <3>4. Cardinality(Admissions(admitted'[c])) \in Nat
      <4>1. admitted'[c] \in Histories /\ \A a \in Recent : admitted'[c][a] <= MaxRate
        BY <1>0, <1>4 DEF Histories
      <4> QED BY <1>0, <4>1, AdmissionsAreFinite
    <3> QED BY <1>0, <3>1, <3>2, <3>3, <3>4 DEF WindowInv
  <2> QED BY <2>1, <2>2, <2>3
<1> QED BY <1>5, <1>6 DEF RateInv

LEMMA RateStep == RateInv /\ [Next]_vars => RateInv'
<1> SUFFICES ASSUME RateInv, [Next]_vars PROVE RateInv'
  OBVIOUS
<1>1. ASSUME NEW c \in Clients, Ask(c) PROVE RateInv'
  BY <1>1, AskStep
<1>2. CASE TimePasses
  BY <1>2, TimeStep
<1>3. CASE UNCHANGED vars
  <2>1. windows' = windows /\ admitted' = admitted
    BY <1>3 DEF vars
  <2> QED BY <2>1 DEF RateInv, TypeOK, WindowsTypeOK, WindowInv, Running, Newer, Older
<1> QED BY <1>1, <1>2, <1>3 DEF Next

\* Nothing is admitted before the first request.
LEMMA RateInit == Init => RateInv
<1> SUFFICES ASSUME Init PROVE RateInv
  OBVIOUS
<1>1. MaxRate \in Nat \ {0} /\ 0 \in Recent
  BY RateAssumption DEF Recent
<1>2. TypeOK
  BY <1>1 DEF Init, TypeOK, WindowsTypeOK
<1>3. ASSUME NEW c \in Clients PROVE WindowInv(c)
  <2>1. c \notin Running
    BY DEF Init, Running
  <2>2. admitted[c][0] = 0 /\ \A a \in Recent : admitted[c][a] = 0
    BY <1>1 DEF Init
  <2>3. Admissions(admitted[c]) = {}
    <3>1. SUFFICES ASSUME NEW p \in Admissions(admitted[c]) PROVE FALSE
      OBVIOUS
    <3>2. p[1] \in Recent /\ p[2] \in 1 .. admitted[c][p[1]]
      BY AdmissionsOf
    <3> QED BY <2>2, <3>2
  <2>4. Cardinality(Admissions(admitted[c])) = 0
    BY <2>3, FS_EmptySet
  <2> QED BY <1>1, <2>1, <2>2, <2>4 DEF WindowInv
<1> QED BY <1>2, <1>3 DEF RateInv

--------------------------------------------------------------------------------
(* The theorems.                                                              *)

\* The map of the limiter holds windows of its clients, each with an age up to
\* the window's length and a count up to one over the budget.
THEOREM TypeCorrect == Spec => []TypeOK
<1>1. RateInv => TypeOK
  BY DEF RateInv
<1> QED BY <1>1, RateInit, RateStep, PTL DEF Spec

\* However requests and time are interleaved, no client has more than two
\* budgets admitted by check within the length of a window.
THEOREM BudgetCorrect == Spec => []AtMostTwiceTheBudget
<1> QED BY AtMostTwo, RateInit, RateStep, PTL DEF Spec

\* check refuses a request only when its client has had a whole budget within
\* the length of a window: no request of another client, and no window that
\* retain removed, counts against it.
THEOREM RefusalsCorrect == Spec => RefusedOnlyOverBudget
<1> DEFINE Fair == \A c \in Clients : Ask(c) /\ ~Admits(c) => AdmittedLately(c) >= MaxRate
<1>1. ASSUME RateInv, NEW c \in Clients, ~Admits(c) PROVE AdmittedLately(c) >= MaxRate
  <2>1. TypeOK /\ WindowInv(c) /\ MaxRate \in Nat \ {0}
    BY <1>1, RateAssumption DEF RateInv
  <2>2. c \in Running
    BY <1>1, <2>1 DEF Admits, Ordinal
  <2>3. windows[c].age \in Nat /\ windows[c].count \in Nat
    BY <2>1, <2>2 DEF Running, TypeOK, WindowsTypeOK, RateWindow
  <2>4. windows[c].count >= MaxRate
    BY <1>1, <2>1, <2>2, <2>3 DEF Admits, Ordinal
  <2>5. Cardinality(Newer(admitted[c], windows[c].age)) = MaxRate
    BY <2>1, <2>2, <2>3, <2>4 DEF WindowInv
  <2> QED BY <2>1, <2>3, <2>5, PartsAddUp DEF AdmittedLately
<1>2. RateInv /\ [Next]_vars => [Fair]_vars
  BY <1>1
<1> QED BY <1>2, RateInit, RateStep, PTL DEF Spec, RefusedOnlyOverBudget
================================================================================
