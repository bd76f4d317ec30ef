------------------------- MODULE ProviderClientProofs -------------------------
(***************************************************************************)
(* Proofs about ProviderClient, for any number of replicas and searches,   *)
(* any threshold, any limit and any number of retries.                     *)
(***************************************************************************)
EXTENDS ProviderClient, FiniteSetTheorems, TLAPS

-----------------------------------------------------------------------------
(* Type correctness *)

LEMMA NewBreakerType == NewBreaker \in Breaker
BY DEF NewBreaker, Breaker, Gate

LEMMA FailedType == \A b \in Breaker : Failed(b) \in Breaker
BY DEF Failed, Breaker, Gate

LEMMA InitType == Init => TypeOK
<1> SUFFICES ASSUME Init PROVE TypeOK
  OBVIOUS
<1>1. search \in [Searches -> Search]
  <2>1. \A r \in Replicas :
          [pc |-> "idle", at |-> r, phase |-> 1, tries |-> 0, window |-> 0,
           probe |-> FALSE] \in Search
    BY ProviderClientAssumption DEF Search, Pc, Windows
  <2> QED
    BY <2>1 DEF Init
<1> QED
  BY <1>1, NewBreakerType, ProviderClientAssumption DEF Init, TypeOK, Late, Windows

\* The bounds are counted down and never below zero.
LEMMA SpendType ==
  ASSUME NEW b \in {"searches", "outages", "restarts"},
         left \in [{"searches", "outages", "restarts"} -> Nat], Spend(b)
  PROVE  left' \in [{"searches", "outages", "restarts"} -> Nat]
<1>1. left[b] - 1 \in Nat
  BY DEF Spend
<1> QED
  BY <1>1 DEF Spend

\* The values a search moves to.
LEMMA StatesTyped ==
  ASSUME NEW x \in Search
  PROVE  /\ \A p \in Pc : [x EXCEPT !.pc = p] \in Search
         /\ Ended(x) \in Search
         /\ [x EXCEPT !.pc = "ask", !.phase = 1, !.tries = 0] \in Search
         /\ \A p \in Pc : [x EXCEPT !.pc = p, !.probe = TRUE] \in Search
         /\ \A p \in Pc, w \in Windows : [x EXCEPT !.window = w, !.pc = p] \in Search
         /\ x.tries < Retries => [x EXCEPT !.tries = @ + 1] \in Search
         /\ x.phase # Requests =>
              [x EXCEPT !.pc = "ask", !.phase = @ + 1, !.tries = 0,
                        !.probe = FALSE] \in Search
<1>0. /\ Requests \in Nat /\ Retries \in Nat /\ "ask" \in Pc /\ "idle" \in Pc
      /\ 1 \in 1..Requests /\ 0 \in 0..Retries
  BY ProviderClientAssumption DEF Pc
<1>1. \A p \in Pc : [x EXCEPT !.pc = p] \in Search
  BY DEF Search
<1>2. Ended(x) \in Search
  BY <1>0 DEF Search, Ended
<1>3. [x EXCEPT !.pc = "ask", !.phase = 1, !.tries = 0] \in Search
  BY <1>0 DEF Search
<1>4. \A p \in Pc : [x EXCEPT !.pc = p, !.probe = TRUE] \in Search
  BY DEF Search
<1>5. \A p \in Pc, w \in Windows : [x EXCEPT !.window = w, !.pc = p] \in Search
  BY DEF Search
<1>6. ASSUME x.tries < Retries PROVE [x EXCEPT !.tries = @ + 1] \in Search
  <2>1. x.tries + 1 \in 0..Retries
    BY <1>0, <1>6 DEF Search
  <2> QED
    BY <2>1 DEF Search
<1>7. ASSUME x.phase # Requests
      PROVE  [x EXCEPT !.pc = "ask", !.phase = @ + 1, !.tries = 0, !.probe = FALSE]
               \in Search
  <2>1. x.phase + 1 \in 1..Requests
    BY <1>0, <1>7 DEF Search
  <2>2. \A n \in 1..Requests :
          [x EXCEPT !.pc = "ask", !.phase = n, !.tries = 0, !.probe = FALSE] \in Search
    BY <1>0 DEF Search
  <2> QED
    BY <2>1, <2>2
<1> QED
  BY <1>1, <1>2, <1>3, <1>4, <1>5, <1>6, <1>7

\* Every step of a search leaves a well-formed search behind.
LEMMA SearchType ==
  ASSUME TypeOK, NEW s \in Searches, SearchStep(s) \/ Start(s)
  PROVE  search' \in [Searches -> Search]
<1>0. search[s] \in Search /\ window \in Windows
  BY DEF TypeOK
<1>1. \A x \in Search : Become(s, x) => search' \in [Searches -> Search]
  BY DEF Become, TypeOK
<1>2. End(s) => search' \in [Searches -> Search]
  BY <1>0, <1>1, StatesTyped DEF End
<1>3. \A p \in Pc : Goto(s, p) => search' \in [Searches -> Search]
  BY <1>0, <1>1, StatesTyped DEF Goto
<1>4. Guarded(s) \in Pc /\ {"refund", "attempt"} \subseteq Pc
  BY DEF Guarded, Pc
<1>5. CASE Start(s)
  BY <1>0, <1>1, <1>5, StatesTyped DEF Start
<1>6. CASE Admit(s) \/ ConsumeLate(s)
  BY <1>3, <1>4, <1>6 DEF Admit, ConsumeLate
<1>7. CASE AdmitProbe(s)
  BY <1>0, <1>1, <1>4, <1>7, StatesTyped DEF AdmitProbe
<1>8. CASE Refuse(s) \/ Refund(s) \/ GiveUp(s)
  BY <1>2, <1>8 DEF Refuse, Refund, GiveUp
<1>9. CASE Consume(s)
  <2> DEFINE units == used[window] + Cost
  <2>1. (IF OverLimit(units) THEN "refund" ELSE "attempt") \in Pc
    BY <1>4
  <2> HIDE DEF units
  <2>2. Become(s, [search[s] EXCEPT !.window = window,
                     !.pc = IF OverLimit(units) THEN "refund" ELSE "attempt"])
    BY <1>9 DEF Consume, units
  <2> QED
    BY <1>0, <1>1, <2>1, <2>2, StatesTyped
<1>10. CASE Answered(s)
  BY <1>0, <1>1, <1>2, <1>10, StatesTyped DEF Answered, Charged
<1>11. CASE Retry(s)
  BY <1>0, <1>1, <1>11, StatesTyped DEF Retry
<1> QED
  BY <1>5, <1>6, <1>7, <1>8, <1>9, <1>10, <1>11 DEF SearchStep

LEMMA StepType == TypeOK /\ [Next]_vars => TypeOK'
<1> SUFFICES ASSUME TypeOK, [Next]_vars PROVE TypeOK'
  OBVIOUS
<1>0. Cost \in Nat /\ MaxWindow \in Nat
  BY ProviderClientAssumption
<1>1. ASSUME NEW s \in Searches, Start(s) PROVE TypeOK'
  BY <1>1, SearchType, SpendType DEF TypeOK, Start
<1>2. ASSUME NEW s \in Searches, SearchStep(s) PROVE TypeOK'
  <2>0. search' \in [Searches -> Search] /\ Replica(s) \in Replicas
        /\ search[s].window \in Windows
    BY <1>2, SearchType DEF TypeOK, Search, Replica
  <2>1. CASE Admit(s) \/ Refuse(s) \/ Retry(s)
    BY <2>0, <2>1 DEF TypeOK, Admit, Refuse, Retry
  <2>2. CASE AdmitProbe(s)
    <3>1. breaker' \in [Replicas -> Breaker]
      BY <2>0, <2>2 DEF TypeOK, AdmitProbe, Breaker
    <3> QED
      BY <2>0, <2>2, <3>1 DEF TypeOK, AdmitProbe
  <2>3. CASE Consume(s)
    BY <1>0, <2>0, <2>3 DEF TypeOK, Consume
  <2>4. CASE ConsumeLate(s)
    BY <1>0, <2>0, <2>4 DEF TypeOK, ConsumeLate, Late
  <2>5. CASE Refund(s)
    BY <1>0, <2>0, <2>5 DEF TypeOK, Refund, Late
  <2>6. CASE Answered(s)
    <3>1. breaker' \in [Replicas -> Breaker]
      BY <2>0, <2>6, NewBreakerType DEF TypeOK, Answered, Succeeded
    <3>2. streak' \in [Replicas -> Nat]
      BY <2>0, <2>6 DEF TypeOK, Answered
    <3> QED
      BY <2>0, <2>6, <3>1, <3>2 DEF TypeOK, Answered
  <2>7. CASE GiveUp(s)
    <3>1. breaker' \in [Replicas -> Breaker]
      BY <2>0, <2>7, FailedType DEF TypeOK, GiveUp
    <3> QED
      BY <2>0, <2>7, <3>1 DEF TypeOK, GiveUp
  <2> QED
    BY <1>2, <2>1, <2>2, <2>3, <2>4, <2>5, <2>6, <2>7 DEF SearchStep
<1>3. ASSUME NEW r \in Replicas, Elapse(r) PROVE TypeOK'
  <2>1. breaker' \in [Replicas -> Breaker]
    BY <1>3 DEF TypeOK, Elapse, Breaker, Gate
  <2> QED
    BY <1>3, <2>1 DEF TypeOK, Elapse
<1>4. ASSUME NEW r \in Replicas, Restart(r) PROVE TypeOK'
  <2>1. breaker' \in [Replicas -> Breaker]
    BY <1>4, NewBreakerType DEF TypeOK, Restart
  <2>2. search' \in [Searches -> Search]
    <3>1. \A x \in Search : Ended(x) \in Search
      BY StatesTyped
    <3> QED
      BY <1>4, <3>1 DEF TypeOK, Restart
  <2> QED
    BY <1>4, <2>1, <2>2, SpendType DEF TypeOK, Restart
<1>5. CASE NextWindow
  BY <1>0, <1>5 DEF TypeOK, NextWindow, Windows
<1>6. CASE LoseRedis \/ RegainRedis
  BY <1>6, SpendType DEF TypeOK, LoseRedis, RegainRedis
<1>7. ASSUME NEW w \in Windows, Land(w) PROVE TypeOK'
  BY <1>7 DEF TypeOK, Land, Late
<1>8. CASE UNCHANGED vars
  BY <1>8 DEF TypeOK, vars
<1> QED
  BY <1>1, <1>2, <1>3, <1>4, <1>5, <1>6, <1>7, <1>8 DEF Next

\* The fields of the breaker, the searches and the counters keep their types.
THEOREM TypeCorrect == Spec => []TypeOK
<1> QED
  BY InitType, StepType, PTL DEF Spec

-----------------------------------------------------------------------------
(* The breaker *)

\* What a step can do to the breaker of a replica: nothing, take the success or
\* the failure of a request, mark a probe, elapse, or start afresh.
LEMMA BreakerMoves ==
  ASSUME TypeOK, [Next]_vars, NEW r \in Replicas
  PROVE  \/ breaker'[r] = breaker[r] /\ streak'[r] = streak[r]
         \/ breaker'[r] = NewBreaker /\ streak'[r] = 0
         \/ /\ breaker'[r] = NewBreaker /\ streak'[r] = streak[r]
            /\ \E s \in Searches : search[s].phase # Requests
         \/ breaker'[r] = Failed(breaker[r]) /\ streak'[r] = streak[r] + 1
         \/ /\ breaker[r].gate = "elapsed" /\ streak'[r] = streak[r]
            /\ breaker'[r] = [breaker[r] EXCEPT !.probing = TRUE]
         \/ /\ breaker[r].gate = "open" /\ streak'[r] = streak[r]
            /\ breaker'[r] = [breaker[r] EXCEPT !.gate = "elapsed"]
<1>0. breaker \in [Replicas -> Breaker] /\ streak \in [Replicas -> Nat]
  BY DEF TypeOK
<1>1. ASSUME UNCHANGED <<breaker, streak>>
      PROVE  breaker'[r] = breaker[r] /\ streak'[r] = streak[r]
  BY <1>1
<1>2. ASSUME NEW s \in Searches, AdmitProbe(s)
      PROVE  \/ breaker'[r] = breaker[r] /\ streak'[r] = streak[r]
             \/ /\ breaker[r].gate = "elapsed" /\ streak'[r] = streak[r]
                /\ breaker'[r] = [breaker[r] EXCEPT !.probing = TRUE]
  BY <1>0, <1>2 DEF AdmitProbe
<1>3. ASSUME NEW s \in Searches, Answered(s)
      PROVE  \/ breaker'[r] = breaker[r] /\ streak'[r] = streak[r]
             \/ breaker'[r] = NewBreaker /\ streak'[r] = 0
             \/ /\ breaker'[r] = NewBreaker /\ streak'[r] = streak[r]
                /\ search[s].phase # Requests
  BY <1>0, <1>3 DEF Answered, Succeeded, Charged
<1>4. ASSUME NEW s \in Searches, GiveUp(s)
      PROVE  \/ breaker'[r] = breaker[r] /\ streak'[r] = streak[r]
             \/ breaker'[r] = Failed(breaker[r]) /\ streak'[r] = streak[r] + 1
  BY <1>0, <1>4 DEF GiveUp
<1>5. ASSUME NEW q \in Replicas, Elapse(q)
      PROVE  \/ breaker'[r] = breaker[r] /\ streak'[r] = streak[r]
             \/ /\ breaker[r].gate = "open" /\ streak'[r] = streak[r]
                /\ breaker'[r] = [breaker[r] EXCEPT !.gate = "elapsed"]
  BY <1>0, <1>5 DEF Elapse
<1>6. ASSUME NEW q \in Replicas, Restart(q)
      PROVE  \/ breaker'[r] = breaker[r] /\ streak'[r] = streak[r]
             \/ breaker'[r] = NewBreaker /\ streak'[r] = 0
  BY <1>0, <1>6 DEF Restart
<1>7. ASSUME NEW s \in Searches,
             Start(s) \/ Admit(s) \/ Refuse(s) \/ Consume(s) \/ ConsumeLate(s)
               \/ Refund(s) \/ Retry(s)
      PROVE  UNCHANGED <<breaker, streak>>
  BY <1>7 DEF Start, Admit, Refuse, Consume, ConsumeLate, Refund, Retry
<1>8. ASSUME NextWindow \/ LoseRedis \/ RegainRedis \/ (\E w \in Windows : Land(w))
               \/ UNCHANGED vars
      PROVE  UNCHANGED <<breaker, streak>>
  BY <1>8 DEF NextWindow, LoseRedis, RegainRedis, Land, vars
<1>9. CASE \E s \in Searches : Start(s) \/ SearchStep(s)
  BY <1>1, <1>2, <1>3, <1>4, <1>7, <1>9 DEF SearchStep
<1>10. CASE \E q \in Replicas : Elapse(q) \/ Restart(q)
  BY <1>5, <1>6, <1>10
<1> QED
  BY <1>1, <1>8, <1>9, <1>10 DEF Next

\* A probe mark is never carried out of the half-open period it was made in.
THEOREM ProbeMarkCurrent == Spec => []ProbeMarkIsCurrent
<1>1. Init => ProbeMarkIsCurrent
  BY DEF Init, ProbeMarkIsCurrent, NewBreaker
<1>2. TypeOK /\ ProbeMarkIsCurrent /\ [Next]_vars => ProbeMarkIsCurrent'
  <2> SUFFICES ASSUME TypeOK, ProbeMarkIsCurrent, [Next]_vars, NEW r \in Replicas
               PROVE  breaker'[r].probing => breaker'[r].gate = "elapsed"
    BY DEF ProbeMarkIsCurrent
  <2>1. breaker[r] \in Breaker /\ (breaker[r].probing => breaker[r].gate = "elapsed")
    BY DEF TypeOK, ProbeMarkIsCurrent
  <2>2. CASE breaker'[r] = breaker[r] \/ breaker'[r] = NewBreaker
    BY <2>1, <2>2 DEF NewBreaker
  <2>3. CASE breaker'[r] = Failed(breaker[r])
    BY <2>3 DEF Failed
  <2>4. CASE breaker[r].gate = "elapsed" /\ breaker'[r] = [breaker[r] EXCEPT !.probing = TRUE]
    BY <2>1, <2>4 DEF Breaker
  <2>5. CASE breaker[r].gate = "open" /\ breaker'[r] = [breaker[r] EXCEPT !.gate = "elapsed"]
    BY <2>1, <2>5 DEF Breaker
  <2> QED
    BY <2>2, <2>3, <2>4, <2>5, BreakerMoves
<1> QED
  BY <1>1, <1>2, TypeCorrect, PTL DEF Spec

\* The failures of the breaker are the failed searches, when a search is a single
\* request, and it is closed only below the threshold.
FailuresCounted ==
  \A r \in Replicas :
    /\ breaker[r].failures = streak[r]
    /\ breaker[r].failures >= Threshold => breaker[r].gate # "closed"

\* For a provider whose search is a single request, Threshold failed searches in
\* a row open the breaker, and only a successful search closes it.
THEOREM BreakerOpens == Requests = 1 => (Spec => []OpensAfterFailures)
<1> SUFFICES ASSUME Requests = 1 PROVE Spec => []OpensAfterFailures
  OBVIOUS
<1>1. Init => FailuresCounted
  BY ProviderClientAssumption DEF Init, FailuresCounted, NewBreaker
<1>2. TypeOK /\ FailuresCounted /\ [Next]_vars => FailuresCounted'
  <2> SUFFICES ASSUME TypeOK, FailuresCounted, [Next]_vars, NEW r \in Replicas
               PROVE  /\ breaker'[r].failures = streak'[r]
                      /\ breaker'[r].failures >= Threshold
                           => breaker'[r].gate # "closed"
    BY DEF FailuresCounted
  <2>1. /\ breaker[r] \in Breaker /\ streak[r] \in Nat
        /\ breaker[r].failures = streak[r]
        /\ breaker[r].failures >= Threshold => breaker[r].gate # "closed"
    BY DEF TypeOK, FailuresCounted
  <2>2. \A s \in Searches : search[s].phase = Requests
    BY DEF TypeOK, Search
  <2>3. Threshold \in Nat /\ Threshold > 0
    BY ProviderClientAssumption
  <2>4. CASE breaker'[r] = breaker[r] /\ streak'[r] = streak[r]
    BY <2>1, <2>4
  <2>5. CASE breaker'[r] = NewBreaker /\ streak'[r] = 0
    BY <2>3, <2>5 DEF NewBreaker
  <2>6. CASE breaker'[r] = Failed(breaker[r]) /\ streak'[r] = streak[r] + 1
    <3>1. breaker'[r].failures = breaker[r].failures + 1
      BY <2>6 DEF Failed
    <3>2. breaker'[r].gate = IF Tripped(breaker[r].failures + 1) THEN "open"
                                                                ELSE breaker[r].gate
      BY <2>6 DEF Failed
    <3> QED
      BY <2>1, <2>3, <2>6, <3>1, <3>2 DEF Tripped, Breaker
  <2>7. CASE /\ breaker[r].gate = "elapsed" /\ streak'[r] = streak[r]
             /\ breaker'[r] = [breaker[r] EXCEPT !.probing = TRUE]
    BY <2>1, <2>7 DEF Breaker
  <2>8. CASE /\ breaker[r].gate = "open" /\ streak'[r] = streak[r]
             /\ breaker'[r] = [breaker[r] EXCEPT !.gate = "elapsed"]
    BY <2>1, <2>8 DEF Breaker
  <2> QED
    BY <2>2, <2>4, <2>5, <2>6, <2>7, <2>8, BreakerMoves
<1>3. FailuresCounted => OpensAfterFailures
  BY DEF FailuresCounted, OpensAfterFailures
<1> QED
  BY <1>1, <1>2, <1>3, TypeCorrect, PTL DEF Spec

-----------------------------------------------------------------------------
(* The owner of a probe mark *)

\* A request that costs nothing is never refused for quota, so a probe always
\* gets to the provider, and clears the mark when it is answered or given up.
NeverRefused ==
  /\ \A w \in Windows : used[w] = 0 /\ late[w].add = 0 /\ late[w].sub = 0
  /\ \A s \in Searches : search[s].pc # "refund"

ProbesRun == \A s \in Searches : search[s].probe => search[s].pc \notin {"idle", "ask"}

MarkOwned ==
  \A r \in Replicas : breaker[r].probing =>
    \E s \in Searches : search[s].at = r /\ search[s].probe

OwnerInv == NeverRefused /\ ProbesRun /\ MarkOwned

LEMMA NeverRefusedKept ==
  ASSUME Cost = 0, TypeOK, NeverRefused, [Next]_vars
  PROVE  NeverRefused'
<1>0. /\ search \in [Searches -> Search] /\ used \in [Windows -> Int]
      /\ late \in [Windows -> Late] /\ window \in Windows /\ Limit \in Nat
  BY ProviderClientAssumption DEF TypeOK
<1>1. ASSUME NEW s \in Searches, NEW x, Become(s, x), x.pc # "refund",
             UNCHANGED <<used, late>>
      PROVE  NeverRefused'
  BY <1>0, <1>1 DEF NeverRefused, Become
<1>2. ASSUME UNCHANGED <<search, used, late>> PROVE NeverRefused'
  BY <1>2 DEF NeverRefused
<1>3. ASSUME NEW s \in Searches, Consume(s) PROVE NeverRefused'
  <2>1. used[window] + Cost = 0 /\ ~OverLimit(used[window] + Cost)
    BY <1>0 DEF NeverRefused, OverLimit
  <2>2. used' = [used EXCEPT ![window] = 0] /\ UNCHANGED late
    BY <1>3, <2>1 DEF Consume
  <2>3. Become(s, [search[s] EXCEPT !.window = window, !.pc = "attempt"])
    BY <1>3, <2>1 DEF Consume
  <2> QED
    BY <1>0, <2>2, <2>3 DEF NeverRefused, Become, Search
<1>4. ASSUME NEW s \in Searches, ConsumeLate(s) PROVE NeverRefused'
  <2>1. late' = [late EXCEPT ![window].add = @ + Cost] /\ UNCHANGED used
    BY <1>4 DEF ConsumeLate
  <2>2. search' = [search EXCEPT ![s] = [search[s] EXCEPT !.pc = "attempt"]]
    BY <1>4 DEF ConsumeLate, Goto, Become
  <2>3. \A w \in Windows : late'[w].add = 0 /\ late'[w].sub = 0
    BY <1>0, <2>1 DEF NeverRefused, Late
  <2>4. \A t \in Searches : search'[t].pc # "refund"
    BY <1>0, <2>2 DEF NeverRefused, Search
  <2> QED
    BY <2>1, <2>3, <2>4 DEF NeverRefused
<1>5. ASSUME NEW s \in Searches, Start(s) PROVE NeverRefused'
  BY <1>0, <1>1, <1>5 DEF Start, Search
<1>6. ASSUME NEW s \in Searches, Admit(s) \/ AdmitProbe(s) PROVE NeverRefused'
  <2>1. Guarded(s) # "refund"
    BY DEF Guarded
  <2> QED
    BY <1>0, <1>1, <1>6, <2>1 DEF Admit, AdmitProbe, Goto, Search
<1>7. ASSUME NEW s \in Searches, End(s), UNCHANGED <<used, late>> PROVE NeverRefused'
  BY <1>0, <1>1, <1>7 DEF End, Ended, Search
<1>8. ASSUME NEW s \in Searches, Refuse(s) \/ GiveUp(s) PROVE NeverRefused'
  BY <1>7, <1>8 DEF Refuse, GiveUp
<1>9. ASSUME NEW s \in Searches, Refund(s) PROVE NeverRefused'
  BY <1>9 DEF Refund, NeverRefused
<1>10. ASSUME NEW s \in Searches, Answered(s) PROVE NeverRefused'
  BY <1>0, <1>1, <1>7, <1>10 DEF Answered, Search
<1>11. ASSUME NEW s \in Searches, Retry(s) PROVE NeverRefused'
  <2>1. search[s].pc = "attempt"
    BY <1>11 DEF Retry, Answering
  <2> QED
    BY <1>0, <1>1, <1>11, <2>1 DEF Retry, Search
<1>12. ASSUME NEW r \in Replicas, Restart(r) PROVE NeverRefused'
  <2>1. \A s \in Searches : Ended(search[s]).pc = "idle"
    BY <1>0 DEF Ended, Search
  <2> QED
    BY <1>0, <1>12, <2>1 DEF Restart, NeverRefused
<1>13. ASSUME NEW w \in Windows, Land(w) PROVE NeverRefused'
  BY <1>0, <1>13 DEF Land, NeverRefused, Late
<1>14. ASSUME \/ \E r \in Replicas : Elapse(r)
              \/ NextWindow \/ LoseRedis \/ RegainRedis \/ UNCHANGED vars
       PROVE  NeverRefused'
  BY <1>2, <1>14 DEF Elapse, NextWindow, LoseRedis, RegainRedis, vars
<1> QED
  BY <1>3, <1>4, <1>5, <1>6, <1>8, <1>9, <1>10, <1>11, <1>12, <1>13, <1>14
     DEF Next, SearchStep

LEMMA ProbesRunKept ==
  ASSUME TypeOK, ProbesRun, [Next]_vars
  PROVE  ProbesRun'
<1>0. search \in [Searches -> Search]
  BY DEF TypeOK
<1>1. ASSUME NEW s \in Searches, NEW x, Become(s, x),
             x.probe => x.pc \notin {"idle", "ask"}
      PROVE  ProbesRun'
  BY <1>0, <1>1 DEF ProbesRun, Become
<1>2. ASSUME UNCHANGED search PROVE ProbesRun'
  BY <1>2 DEF ProbesRun
<1>3. ASSUME NEW s \in Searches, End(s) PROVE ProbesRun'
  BY <1>0, <1>1, <1>3 DEF End, Ended, Search
<1>4. ASSUME NEW s \in Searches, Start(s) PROVE ProbesRun'
  <2>1. ~search[s].probe
    BY <1>0, <1>4 DEF Start, InFlight, ProbesRun
  <2> QED
    BY <1>0, <1>1, <1>4, <2>1 DEF Start, Search
<1>5. ASSUME NEW s \in Searches, Admit(s) \/ AdmitProbe(s) PROVE ProbesRun'
  <2>1. Guarded(s) \notin {"idle", "ask"}
    BY DEF Guarded
  <2> QED
    BY <1>0, <1>1, <1>5, <2>1 DEF Admit, AdmitProbe, Goto, Search
<1>6. ASSUME NEW s \in Searches, Consume(s) PROVE ProbesRun'
  <2> DEFINE p == IF OverLimit(used[window] + Cost) THEN "refund" ELSE "attempt"
  <2>1. p \notin {"idle", "ask"}
    OBVIOUS
  <2>2. Become(s, [search[s] EXCEPT !.window = window, !.pc = p])
    BY <1>6 DEF Consume
  <2> HIDE DEF p
  <2> QED
    BY <1>0, <1>1, <2>1, <2>2 DEF Search
<1>7. ASSUME NEW s \in Searches, ConsumeLate(s) PROVE ProbesRun'
  BY <1>0, <1>1, <1>7 DEF ConsumeLate, Goto, Search
<1>8. ASSUME NEW s \in Searches, Refuse(s) \/ Refund(s) \/ GiveUp(s) PROVE ProbesRun'
  BY <1>3, <1>8 DEF Refuse, Refund, GiveUp
<1>9. ASSUME NEW s \in Searches, Answered(s) PROVE ProbesRun'
  BY <1>0, <1>1, <1>3, <1>9 DEF Answered, Search
<1>10. ASSUME NEW s \in Searches, Retry(s) PROVE ProbesRun'
  <2>1. search[s].pc = "attempt"
    BY <1>10 DEF Retry, Answering
  <2> QED
    BY <1>0, <1>1, <1>10, <2>1 DEF Retry, Search
<1>11. ASSUME NEW r \in Replicas, Restart(r) PROVE ProbesRun'
  <2>1. \A s \in Searches : ~Ended(search[s]).probe
    BY <1>0 DEF Ended, Search
  <2> QED
    BY <1>0, <1>11, <2>1 DEF Restart, ProbesRun
<1>12. ASSUME \/ \E r \in Replicas : Elapse(r)
              \/ \E w \in Windows : Land(w)
              \/ NextWindow \/ LoseRedis \/ RegainRedis \/ UNCHANGED vars
       PROVE  ProbesRun'
  BY <1>2, <1>12 DEF Elapse, Land, NextWindow, LoseRedis, RegainRedis, vars
<1> QED
  BY <1>4, <1>5, <1>6, <1>7, <1>8, <1>9, <1>10, <1>11, <1>12 DEF Next, SearchStep

LEMMA MarkOwnedKept ==
  ASSUME TypeOK, NeverRefused, ProbesRun, MarkOwned, [Next]_vars
  PROVE  MarkOwned'
<1>0. search \in [Searches -> Search] /\ breaker \in [Replicas -> Breaker]
  BY DEF TypeOK
<1>1. ASSUME NEW s \in Searches, NEW x, Become(s, x), x.at = search[s].at,
             search[s].probe => x.probe, UNCHANGED breaker
      PROVE  MarkOwned'
  BY <1>0, <1>1 DEF MarkOwned, Become
<1>2. ASSUME UNCHANGED <<search, breaker>> PROVE MarkOwned'
  BY <1>2 DEF MarkOwned
<1>3. ASSUME NEW s \in Searches, NEW x, NEW b, Become(s, x), ~b.probing,
             breaker' = [breaker EXCEPT ![search[s].at] = b]
      PROVE  MarkOwned'
  BY <1>0, <1>3 DEF MarkOwned, Become, Search
<1>4. ASSUME NEW s \in Searches, Start(s) \/ Admit(s) \/ ConsumeLate(s) \/ Retry(s)
      PROVE  MarkOwned'
  BY <1>0, <1>1, <1>4 DEF Start, Admit, ConsumeLate, Retry, Goto, Search
<1>5. ASSUME NEW s \in Searches, AdmitProbe(s) PROVE MarkOwned'
  <2> DEFINE x == [search[s] EXCEPT !.pc = Guarded(s), !.probe = TRUE]
  <2>1. x.probe /\ x.at = search[s].at
    BY <1>0 DEF Search
  <2>2. search' = [search EXCEPT ![s] = x]
    BY <1>5 DEF AdmitProbe, Become
  <2>3. \A r \in Replicas : r # search[s].at => breaker'[r] = breaker[r]
    BY <1>0, <1>5 DEF AdmitProbe, Replica
  <2> HIDE DEF x
  <2> QED
    BY <1>0, <2>1, <2>2, <2>3 DEF MarkOwned
<1>6. ASSUME NEW s \in Searches, Consume(s) PROVE MarkOwned'
  <2> DEFINE p == IF OverLimit(used[window] + Cost) THEN "refund" ELSE "attempt"
  <2>1. Become(s, [search[s] EXCEPT !.window = window, !.pc = p]) /\ UNCHANGED breaker
    BY <1>6 DEF Consume
  <2> HIDE DEF p
  <2> QED
    BY <1>0, <1>1, <2>1 DEF Search
<1>7. ASSUME NEW s \in Searches, Refuse(s) PROVE MarkOwned'
  <2>1. ~search[s].probe
    BY <1>7 DEF Refuse, ProbesRun
  <2> QED
    BY <1>0, <1>1, <1>7, <2>1 DEF Refuse, End, Ended, Search
<1>8. ASSUME NEW s \in Searches, Refund(s) PROVE MarkOwned'
  BY <1>8 DEF Refund, NeverRefused
<1>9. ASSUME NEW s \in Searches, Answered(s) PROVE MarkOwned'
  <2>1. breaker' = [breaker EXCEPT ![search[s].at] = NewBreaker] /\ ~NewBreaker.probing
    BY <1>9 DEF Answered, Succeeded, Replica, NewBreaker
  <2>2. \E x : Become(s, x)
    BY <1>9 DEF Answered, End
  <2> QED
    BY <1>3, <2>1, <2>2
<1>10. ASSUME NEW s \in Searches, GiveUp(s) PROVE MarkOwned'
  <2> DEFINE b == Failed(breaker[search[s].at])
  <2>1. breaker' = [breaker EXCEPT ![search[s].at] = b] /\ ~b.probing
    BY <1>10 DEF GiveUp, Replica, Failed
  <2>2. \E x : Become(s, x)
    BY <1>10 DEF GiveUp, End
  <2> HIDE DEF b
  <2> QED
    BY <1>3, <2>1, <2>2
<1>11. ASSUME NEW q \in Replicas, Restart(q) PROVE MarkOwned'
  <2>1. \A r \in Replicas : breaker'[r].probing => r # q /\ breaker[r].probing
    BY <1>0, <1>11 DEF Restart, NewBreaker
  <2>2. \A s \in Searches : search[s].at # q => search'[s] = search[s]
    BY <1>0, <1>11 DEF Restart
  <2> QED
    BY <2>1, <2>2 DEF MarkOwned
<1>12. ASSUME NEW q \in Replicas, Elapse(q) PROVE MarkOwned'
  <2>1. \A r \in Replicas : breaker'[r].probing = breaker[r].probing
    BY <1>0, <1>12 DEF Elapse, Breaker
  <2> QED
    BY <1>12, <2>1 DEF Elapse, MarkOwned
<1>13. ASSUME \/ \E w \in Windows : Land(w)
              \/ NextWindow \/ LoseRedis \/ RegainRedis \/ UNCHANGED vars
       PROVE  MarkOwned'
  BY <1>2, <1>13 DEF Land, NextWindow, LoseRedis, RegainRedis, vars
<1> QED
  BY <1>4, <1>5, <1>6, <1>7, <1>8, <1>9, <1>10, <1>11, <1>12, <1>13
     DEF Next, SearchStep

\* For a provider whose searches cost no quota, a breaker that turns requests away
\* because "a probe is already in flight" has such a probe, whose end clears it.
THEOREM ProbeMarkOwned == Cost = 0 => (Spec => []ProbeMarkHasOwner)
<1> SUFFICES ASSUME Cost = 0 PROVE Spec => []ProbeMarkHasOwner
  OBVIOUS
<1>1. Init => OwnerInv
  <2> SUFFICES ASSUME Init PROVE OwnerInv
    OBVIOUS
  <2>1. \A s \in Searches : search[s].pc = "idle" /\ ~search[s].probe
    BY DEF Init
  <2>2. \A r \in Replicas : ~breaker[r].probing
    BY DEF Init, NewBreaker
  <2>3. \A w \in Windows : used[w] = 0 /\ late[w].add = 0 /\ late[w].sub = 0
    BY DEF Init
  <2> QED
    BY <2>1, <2>2, <2>3 DEF OwnerInv, NeverRefused, ProbesRun, MarkOwned
<1>2. TypeOK /\ OwnerInv /\ [Next]_vars => OwnerInv'
  BY NeverRefusedKept, ProbesRunKept, MarkOwnedKept DEF OwnerInv
<1>3. OwnerInv => ProbeMarkHasOwner
  BY DEF OwnerInv, ProbesRun, MarkOwned, ProbeMarkHasOwner, OnReplica, InFlight
<1> QED
  BY <1>1, <1>2, <1>3, TypeCorrect, PTL DEF Spec

-----------------------------------------------------------------------------
(* The quota *)

\* The searches whose refused units are still in the counter of a window.
Debtors(w) == {s \in Searches : search[s].pc = "refund" /\ search[s].window = w}

\* Besides the admitted units, the counter holds all that will be refunded: no
\* refund takes away a unit that was admitted.
QuotaInv ==
  \A w \in Windows :
    /\ used[w] >= charged[w] + late[w].sub + Cost * Cardinality(Debtors(w))
    /\ granted[w] <= charged[w]
    /\ granted[w] <= Limit

LEMMA DebtorsFinite ==
  \A w \in Windows : IsFiniteSet(Debtors(w)) /\ Cardinality(Debtors(w)) \in Nat
BY ProviderClientAssumption, FS_Subset, FS_CardinalityType DEF Debtors

LEMMA CostTimes ==
  /\ \A m, n \in Nat : m <= n => Cost * m <= Cost * n
  /\ \A n \in Nat : Cost * (n + 1) = Cost * n + Cost /\ Cost * n \in Nat
BY ProviderClientAssumption

\* Fewer debtors and the same counters keep the invariant.
LEMMA FewerDebtors ==
  ASSUME TypeOK, QuotaInv, UNCHANGED <<used, charged, granted>>,
         \A w \in Windows : late'[w].sub = late[w].sub,
         \A w \in Windows : Debtors(w)' \subseteq Debtors(w)
  PROVE  QuotaInv'
<1> SUFFICES ASSUME NEW w \in Windows
             PROVE  used[w] >= charged[w] + late[w].sub + Cost * Cardinality(Debtors(w)')
  BY DEF QuotaInv
<1>1. Cardinality(Debtors(w)') <= Cardinality(Debtors(w)) /\ Cardinality(Debtors(w)') \in Nat
  BY DebtorsFinite, FS_Subset, FS_CardinalityType
<1>2. Cost * Cardinality(Debtors(w)') <= Cost * Cardinality(Debtors(w))
  BY <1>1, DebtorsFinite, CostTimes
<1>3. /\ used[w] \in Int /\ charged[w] \in Nat /\ late[w].sub \in Nat
      /\ Cost * Cardinality(Debtors(w)') \in Nat /\ Cost * Cardinality(Debtors(w)) \in Nat
  BY <1>1, DebtorsFinite, CostTimes DEF TypeOK, Late
<1> QED
  BY <1>2, <1>3 DEF QuotaInv

\* A step of one search changes only its own membership among the debtors.
LEMMA DebtorsMove ==
  ASSUME TypeOK, NEW s \in Searches, NEW x, Become(s, x), NEW w \in Windows
  PROVE  Debtors(w)' = IF x.pc = "refund" /\ x.window = w THEN Debtors(w) \cup {s}
                                                      ELSE Debtors(w) \ {s}
BY DEF Debtors, Become, TypeOK

LEMMA QuotaKept ==
  ASSUME TypeOK, QuotaInv, [Next]_vars
  PROVE  QuotaInv'
<1>0. /\ search \in [Searches -> Search] /\ used \in [Windows -> Int]
      /\ late \in [Windows -> Late] /\ charged \in [Windows -> Nat]
      /\ granted \in [Windows -> Nat] /\ window \in Windows
      /\ Cost \in Nat /\ Limit \in Nat
  BY ProviderClientAssumption DEF TypeOK
<1>1. ASSUME NEW s \in Searches, NEW x, Become(s, x), x.pc # "refund",
             UNCHANGED <<used, charged, granted>>,
             \A w \in Windows : late'[w].sub = late[w].sub
      PROVE  QuotaInv'
  BY <1>1, FewerDebtors, DebtorsMove
<1>2. ASSUME UNCHANGED <<search, used, late, charged, granted>> PROVE QuotaInv'
  BY <1>2, FewerDebtors DEF Debtors
<1>3. ASSUME NEW s \in Searches, End(s), UNCHANGED <<used, late, charged, granted>>
      PROVE  QuotaInv'
  BY <1>0, <1>1, <1>3 DEF End, Ended, Search
<1>4. ASSUME NEW s \in Searches, Start(s) \/ Admit(s) \/ AdmitProbe(s) PROVE QuotaInv'
  <2>1. Guarded(s) # "refund"
    BY DEF Guarded
  <2> QED
    BY <1>0, <1>1, <1>4, <2>1 DEF Start, Admit, AdmitProbe, Goto, Search
<1>5. ASSUME NEW s \in Searches, ConsumeLate(s) PROVE QuotaInv'
  <2>1. Become(s, [search[s] EXCEPT !.pc = "attempt"])
    BY <1>5 DEF ConsumeLate, Goto
  <2>2. \A w \in Windows : late'[w].sub = late[w].sub
    BY <1>0, <1>5 DEF ConsumeLate, Late
  <2>3. UNCHANGED <<used, charged, granted>>
    BY <1>5 DEF ConsumeLate
  <2>4. [search[s] EXCEPT !.pc = "attempt"].pc # "refund"
    BY <1>0 DEF Search
  <2> QED
    BY <1>1, <2>1, <2>2, <2>3, <2>4
<1>6. ASSUME NEW s \in Searches, Refuse(s) \/ GiveUp(s) PROVE QuotaInv'
  BY <1>3, <1>6 DEF Refuse, GiveUp
<1>7. ASSUME NEW s \in Searches, Answered(s) PROVE QuotaInv'
  BY <1>0, <1>1, <1>3, <1>7 DEF Answered, Search
<1>8. ASSUME NEW s \in Searches, Retry(s) PROVE QuotaInv'
  <2>1. search[s].pc = "attempt"
    BY <1>8 DEF Retry, Answering
  <2> QED
    BY <1>0, <1>1, <1>8, <2>1 DEF Retry, Search
<1>9. ASSUME NEW s \in Searches, Consume(s) PROVE QuotaInv'
  <2>0. PICK v \in Windows : v = window
    BY <1>0
  <2> DEFINE units == used[v] + Cost
  <2>1. /\ used' = [used EXCEPT ![v] = units] /\ UNCHANGED late
        /\ search[s].pc = "consume"
    BY <1>9, <2>0 DEF Consume
  <2>2. \A w \in Windows : s \notin Debtors(w)
    BY <2>1 DEF Debtors
  <2>3. CASE OverLimit(units)
    <3>1. Become(s, [search[s] EXCEPT !.window = v, !.pc = "refund"])
          /\ UNCHANGED <<charged, granted>>
      BY <1>9, <2>0, <2>3 DEF Consume
    <3> DEFINE x == [search[s] EXCEPT !.window = v, !.pc = "refund"]
    <3>9. x.pc = "refund" /\ x.window = v /\ Become(s, x)
      BY <1>0, <3>1 DEF Search
    <3> HIDE DEF x
    <3>2. Debtors(v)' = Debtors(v) \cup {s}
      BY <3>9, DebtorsMove
    <3>3. \A w \in Windows \ {v} : Debtors(w)' = Debtors(w)
      <4>1. \A w \in Windows \ {v} : Debtors(w)' = Debtors(w) \ {s}
        BY <3>9, DebtorsMove
      <4> QED
        BY <2>2, <4>1
    <3>4. Cost * Cardinality(Debtors(v)')
            = Cost * Cardinality(Debtors(v)) + Cost
      BY <2>2, <3>2, DebtorsFinite, FS_AddElement, CostTimes
    <3>5. used'[v] >= charged'[v] + late'[v].sub
                             + Cost * Cardinality(Debtors(v)')
      <4>1. Cost * Cardinality(Debtors(v)) \in Nat
        BY DebtorsFinite, CostTimes
      <4>2. used[v] >= charged[v] + late[v].sub
                              + Cost * Cardinality(Debtors(v))
        BY <1>0, <2>0 DEF QuotaInv
      <4>3. late[v].sub \in Nat
        BY <1>0, <2>0 DEF Late
      <4> QED
        BY <1>0, <2>0, <2>1, <3>1, <3>4, <4>1, <4>2, <4>3
    <3>6. \A w \in Windows \ {v} :
            used'[w] >= charged'[w] + late'[w].sub + Cost * Cardinality(Debtors(w)')
      BY <1>0, <2>0, <2>1, <3>1, <3>3 DEF QuotaInv
    <3> QED
      BY <3>1, <3>5, <3>6 DEF QuotaInv
  <2>4. CASE ~OverLimit(units)
    <3>1. /\ Become(s, [search[s] EXCEPT !.window = v, !.pc = "attempt"])
          /\ granted' = [granted EXCEPT ![v] = @ + Cost]
          /\ charged' = [charged EXCEPT ![v] = @ + Cost]
      BY <1>9, <2>0, <2>4 DEF Consume
    <3> DEFINE x == [search[s] EXCEPT !.window = v, !.pc = "attempt"]
    <3>9. x.pc # "refund" /\ Become(s, x)
      BY <1>0, <3>1 DEF Search
    <3> HIDE DEF x
    <3>2. \A w \in Windows : Debtors(w)' = Debtors(w)
      <4>1. \A w \in Windows : Debtors(w)' = Debtors(w) \ {s}
        BY <3>9, DebtorsMove
      <4> QED
        BY <2>2, <4>1
    <3>3. /\ Cost * Cardinality(Debtors(v)) \in Nat /\ late[v].sub \in Nat
          /\ units <= Limit
      BY <1>0, <2>0, <2>4, DebtorsFinite, CostTimes DEF Late, OverLimit
    <3>4. /\ used'[v] >= charged'[v] + late'[v].sub
                                + Cost * Cardinality(Debtors(v)')
          /\ granted'[v] <= charged'[v]
          /\ granted'[v] <= Limit
      <4>1. /\ used[v] >= charged[v] + late[v].sub
                                + Cost * Cardinality(Debtors(v))
            /\ granted[v] <= charged[v]
        BY <1>0, <2>0 DEF QuotaInv
      <4>2. /\ used'[v] = used[v] + Cost
            /\ charged'[v] = charged[v] + Cost
            /\ granted'[v] = granted[v] + Cost
            /\ late'[v] = late[v]
            /\ Debtors(v)' = Debtors(v)
        BY <1>0, <2>0, <2>1, <3>1, <3>2
      <4>3. used[v] \in Int /\ charged[v] \in Nat /\ granted[v] \in Nat
        BY <1>0, <2>0
      <4> QED
        BY <1>0, <2>0, <3>3, <4>1, <4>2, <4>3
    <3>5. \A w \in Windows \ {v} :
            /\ used'[w] = used[w] /\ charged'[w] = charged[w]
            /\ granted'[w] = granted[w] /\ late'[w] = late[w]
            /\ Debtors(w)' = Debtors(w)
      BY <1>0, <2>0, <2>1, <3>1, <3>2
    <3> QED
      BY <3>4, <3>5 DEF QuotaInv
  <2> QED
    BY <2>3, <2>4
<1>10. ASSUME NEW s \in Searches, Refund(s) PROVE QuotaInv'
  <2>9. PICK w \in Windows : w = search[s].window
    BY <1>0 DEF Search
  <2>0. w \in Windows /\ s \in Debtors(w) /\ search[s].pc = "refund"
    BY <1>0, <1>10, <2>9 DEF Refund, Debtors, Search
  <2>1. Become(s, Ended(search[s])) /\ Ended(search[s]).pc = "idle"
    BY <1>0, <1>10 DEF Refund, End, Ended, Search
  <2>2. \A v \in Windows : Debtors(v)' = Debtors(v) \ {s}
    BY <2>1, DebtorsMove
  <2>3. Cost * Cardinality(Debtors(w)) = Cost * Cardinality(Debtors(w)') + Cost
        /\ Cost * Cardinality(Debtors(w)') \in Nat
    <3>1. /\ Cardinality(Debtors(w)') \in Nat
          /\ Cardinality(Debtors(w)) = Cardinality(Debtors(w)') + 1
      <4>1. IsFiniteSet(Debtors(w)) /\ Cardinality(Debtors(w)) \in Nat
        BY <2>0, DebtorsFinite
      <4>2. /\ Cardinality(Debtors(w) \ {s}) = Cardinality(Debtors(w)) - 1
            /\ IsFiniteSet(Debtors(w) \ {s})
        BY <2>0, <4>1, FS_RemoveElement
      <4>3. Cardinality(Debtors(w) \ {s}) \in Nat
        BY <4>2, FS_CardinalityType
      <4>4. Cardinality(Debtors(w)') = Cardinality(Debtors(w) \ {s})
        BY <2>2
      <4>5. \A m, n \in Nat : m = n - 1 => n = m + 1
        OBVIOUS
      <4> QED
        BY <4>1, <4>2, <4>3, <4>4, <4>5
    <3> QED
      BY <3>1, CostTimes
  <2>4. \A v \in Windows \ {w} : Debtors(v)' = Debtors(v)
    BY <2>2, <2>9 DEF Debtors
  <2>5. UNCHANGED <<charged, granted>>
    BY <1>10 DEF Refund
  <2>6. /\ used'[w] - late'[w].sub = used[w] - late[w].sub - Cost
        /\ used'[w] \in Int /\ late'[w].sub \in Nat /\ late[w].sub \in Nat
    <3>1. CASE used' = [used EXCEPT ![w] = @ - Cost] /\ UNCHANGED late
      BY <1>0, <2>0, <3>1 DEF Late
    <3>2. CASE late' = [late EXCEPT ![w].sub = @ + Cost] /\ UNCHANGED used
      BY <1>0, <2>0, <3>2 DEF Late
    <3> QED
      BY <1>10, <2>9, <3>1, <3>2 DEF Refund
  <2>7. \A v \in Windows \ {w} : used'[v] = used[v] /\ late'[v] = late[v]
    BY <1>0, <1>10, <2>9 DEF Refund
  <2>8. used'[w] >= charged'[w] + late'[w].sub + Cost * Cardinality(Debtors(w)')
    <3>1. used[w] >= charged[w] + late[w].sub + Cost * Cardinality(Debtors(w))
      BY <2>0 DEF QuotaInv
    <3>2. used[w] \in Int /\ charged[w] \in Nat
      BY <1>0, <2>0
    <3> QED
      BY <1>0, <2>3, <2>5, <2>6, <3>1, <3>2
  <2> QED
    BY <2>4, <2>5, <2>7, <2>8 DEF QuotaInv
<1>11. ASSUME NEW r \in Replicas, Restart(r) PROVE QuotaInv'
  <2>1. \A s \in Searches : search'[s] = search[s] \/ search'[s].pc = "idle"
    BY <1>0, <1>11 DEF Restart, Ended, Search
  <2>2. \A w \in Windows : Debtors(w)' \subseteq Debtors(w)
    BY <2>1 DEF Debtors
  <2> QED
    BY <1>11, <2>2, FewerDebtors DEF Restart
<1>12. ASSUME NEW w \in Windows, Land(w) PROVE QuotaInv'
  <2>1. \A v \in Windows : Debtors(v)' = Debtors(v)
    BY <1>12 DEF Land, Debtors
  <2>2. /\ used'[w] = used[w] + late[w].add - late[w].sub
        /\ charged'[w] = charged[w] + late[w].add /\ late'[w].sub = 0
        /\ UNCHANGED granted
    BY <1>0, <1>12 DEF Land
  <2>3. \A v \in Windows \ {w} :
          used'[v] = used[v] /\ charged'[v] = charged[v] /\ late'[v] = late[v]
    BY <1>0, <1>12 DEF Land
  <2>4. /\ Cost * Cardinality(Debtors(w)) \in Nat /\ late[w].sub \in Nat
        /\ late[w].add \in Nat /\ used[w] \in Int /\ charged[w] \in Nat
        /\ granted[w] \in Nat
    BY <1>0, DebtorsFinite, CostTimes DEF Late
  <2>5. /\ used'[w] >= charged'[w] + late'[w].sub + Cost * Cardinality(Debtors(w)')
        /\ granted'[w] <= charged'[w] /\ granted'[w] <= Limit
    BY <2>1, <2>2, <2>4 DEF QuotaInv
  <2> QED
    BY <2>1, <2>2, <2>3, <2>5 DEF QuotaInv
<1>13. ASSUME \/ \E r \in Replicas : Elapse(r)
              \/ NextWindow \/ LoseRedis \/ RegainRedis \/ UNCHANGED vars
       PROVE  QuotaInv'
  BY <1>2, <1>13 DEF Elapse, NextWindow, LoseRedis, RegainRedis, vars
<1> QED
  BY <1>4, <1>5, <1>6, <1>7, <1>8, <1>9, <1>10, <1>11, <1>12, <1>13
     DEF Next, SearchStep

\* Whatever the replicas interleave and whenever Redis fails, the units admitted
\* on the counter's answer in one window stay within the limit.
THEOREM QuotaKeptByAll == Spec => []QuotaRespected
<1>1. Init => QuotaInv
  <2> SUFFICES ASSUME Init, NEW w \in Windows
               PROVE  /\ used[w] >= charged[w] + late[w].sub
                                      + Cost * Cardinality(Debtors(w))
                      /\ granted[w] <= charged[w] /\ granted[w] <= Limit
    BY DEF QuotaInv
  <2>1. Debtors(w) = {}
    BY DEF Init, Debtors
  <2>2. Cost * Cardinality(Debtors(w)) = 0
    BY <2>1, FS_EmptySet, ProviderClientAssumption
  <2>3. used[w] = 0 /\ charged[w] = 0 /\ late[w].sub = 0 /\ granted[w] = 0
    BY DEF Init
  <2> QED
    BY <2>2, <2>3, ProviderClientAssumption
<1>2. TypeOK /\ QuotaInv /\ [Next]_vars => QuotaInv'
  BY QuotaKept
<1>3. QuotaInv => QuotaRespected
  BY DEF QuotaInv, QuotaRespected
<1> QED
  BY <1>1, <1>2, <1>3, TypeCorrect, PTL DEF Spec

-----------------------------------------------------------------------------
(* Refusals *)

\* As long as an admitted request would still fit, nothing is in the counter but what
\* admitted requests have used: whoever is refused first is refused because it is full.
RoomInv == \A w \in Windows : charged[w] + Cost <= Limit => used[w] <= charged[w]

LEMMA RoomKept ==
  ASSUME TypeOK, RoomInv, [Next]_vars
  PROVE  RoomInv'
<1>0. /\ used \in [Windows -> Int] /\ late \in [Windows -> Late]
      /\ charged \in [Windows -> Nat] /\ window \in Windows
      /\ Cost \in Nat /\ Limit \in Nat
  BY ProviderClientAssumption DEF TypeOK
<1>1. ASSUME UNCHANGED <<used, charged>> PROVE RoomInv'
  BY <1>1 DEF RoomInv
<1>2. ASSUME NEW s \in Searches, Consume(s) PROVE RoomInv'
  <2>1. PICK v \in Windows : v = window
    BY <1>0
  <2>2. PICK units \in Int : units = used[v] + Cost
    BY <1>0, <2>1
  <2>3. used' = [used EXCEPT ![v] = units]
    BY <1>2, <2>1, <2>2 DEF Consume
  <2>4. CASE OverLimit(units)
    <3>1. charged' = charged
      BY <1>2, <2>1, <2>2, <2>4 DEF Consume
    <3>2. charged[v] + Cost > Limit
      BY <1>0, <2>1, <2>2, <2>4 DEF RoomInv, OverLimit
    <3>3. QED
      BY <1>0, <2>3, <3>1, <3>2 DEF RoomInv
  <2>5. CASE ~OverLimit(units)
    <3>1. charged' = [charged EXCEPT ![v] = charged[v] + Cost]
      BY <1>2, <2>1, <2>2, <2>5 DEF Consume
    <3>2. used'[v] = used[v] + Cost /\ charged'[v] = charged[v] + Cost
      BY <1>0, <2>1, <2>2, <2>3, <3>1
    <3>3. charged'[v] + Cost <= Limit => used'[v] <= charged'[v]
      BY <1>0, <2>1, <3>2 DEF RoomInv
    <3>4. \A w \in Windows \ {v} : used'[w] = used[w] /\ charged'[w] = charged[w]
      BY <1>0, <2>1, <2>3, <3>1
    <3>5. QED
      BY <3>3, <3>4 DEF RoomInv
  <2>6. QED
    BY <2>4, <2>5
<1>3. ASSUME NEW s \in Searches, Refund(s) PROVE RoomInv'
  <2>1. charged' = charged
    BY <1>3 DEF Refund
  <2>2. \A w \in Windows : used'[w] <= used[w] /\ used'[w] \in Int
    BY <1>0, <1>3 DEF Refund
  <2>3. QED
    BY <1>0, <2>1, <2>2 DEF RoomInv
<1>4. ASSUME NEW w \in Windows, Land(w) PROVE RoomInv'
  <2>1. PICK a \in Nat, b \in Nat : a = late[w].add /\ b = late[w].sub
    BY <1>0 DEF Late
  <2>2. used' = [used EXCEPT ![w] = used[w] + a - b] /\ charged' = [charged EXCEPT ![w] = charged[w] + a]
    BY <1>4, <2>1 DEF Land
  <2>3. used'[w] = used[w] + a - b /\ charged'[w] = charged[w] + a
    BY <1>0, <2>1, <2>2
  <2>4. charged'[w] + Cost <= Limit => used'[w] <= charged'[w]
    BY <1>0, <2>1, <2>3 DEF RoomInv
  <2>5. \A v \in Windows \ {w} : used'[v] = used[v] /\ charged'[v] = charged[v]
    BY <1>0, <2>2
  <2>6. QED
    BY <2>4, <2>5 DEF RoomInv
<1>5. ASSUME NEW s \in Searches,
             \/ Start(s) \/ Admit(s) \/ AdmitProbe(s) \/ Refuse(s) \/ ConsumeLate(s)
             \/ Answered(s) \/ Retry(s) \/ GiveUp(s)
      PROVE  UNCHANGED <<used, charged>>
  BY <1>5 DEF Start, Admit, AdmitProbe, Refuse, ConsumeLate, Answered, Retry, GiveUp
<1>6. ASSUME NEW r \in Replicas, Elapse(r) \/ Restart(r) PROVE UNCHANGED <<used, charged>>
  BY <1>6 DEF Elapse, Restart
<1>7. ASSUME NextWindow \/ LoseRedis \/ RegainRedis \/ UNCHANGED vars
      PROVE  UNCHANGED <<used, charged>>
  BY <1>7 DEF NextWindow, LoseRedis, RegainRedis, vars
<1>8. QED
  BY <1>1, <1>2, <1>3, <1>4, <1>5, <1>6, <1>7 DEF Next, SearchStep

\* Only Consume takes a search from its quota to its refund.
LEMMA OnlyConsumeRefuses ==
  ASSUME TypeOK, [Next]_vars, NEW s \in Searches,
         search[s].pc = "consume", search'[s].pc = "refund"
  PROVE  Consume(s)
<1>0. search \in [Searches -> Search]
  BY DEF TypeOK
<1>1. ASSUME NEW t \in Searches, NEW x, Become(t, x), t # s \/ x.pc # "refund" PROVE FALSE
  BY <1>0, <1>1 DEF Become
<1>2. ASSUME NEW t \in Searches, Start(t) \/ Admit(t) \/ AdmitProbe(t) PROVE FALSE
  <2>1. Guarded(t) # "refund"
    BY DEF Guarded
  <2>2. QED
    BY <1>0, <1>1, <1>2, <2>1 DEF Start, Admit, AdmitProbe, Goto, Search
<1>3. ASSUME NEW t \in Searches, End(t) PROVE FALSE
  BY <1>0, <1>1, <1>3 DEF End, Ended, Search
<1>4. ASSUME NEW t \in Searches, Refuse(t) \/ Refund(t) \/ GiveUp(t) PROVE FALSE
  BY <1>3, <1>4 DEF Refuse, Refund, GiveUp
<1>5. ASSUME NEW t \in Searches, Answered(t) PROVE FALSE
  BY <1>0, <1>1, <1>3, <1>5 DEF Answered, Search
<1>6. ASSUME NEW t \in Searches, Retry(t) PROVE FALSE
  <2>1. search[t].pc = "attempt"
    BY <1>6 DEF Retry, Answering
  <2>2. QED
    BY <1>0, <1>1, <1>6, <2>1 DEF Retry, Search
<1>7. ASSUME NEW t \in Searches, ConsumeLate(t) PROVE FALSE
  BY <1>0, <1>1, <1>7 DEF ConsumeLate, Goto, Search
<1>8. ASSUME NEW t \in Searches, t # s, Consume(t) PROVE FALSE
  BY <1>1, <1>8 DEF Consume
<1>9. ASSUME NEW r \in Replicas, Restart(r) PROVE FALSE
  BY <1>0, <1>9 DEF Restart, Ended, Search
<1>10. ASSUME \/ \E r \in Replicas : Elapse(r)
              \/ \E w \in Windows : Land(w)
              \/ NextWindow \/ LoseRedis \/ RegainRedis \/ UNCHANGED vars
       PROVE  FALSE
  BY <1>10 DEF Elapse, Land, NextWindow, LoseRedis, RegainRedis, vars
<1>11. QED
  BY <1>2, <1>4, <1>5, <1>6, <1>7, <1>8, <1>9, <1>10 DEF Next, SearchStep

\* However many requests are refused at once, and whenever refunds are lost or land late,
\* a request is refused for quota only where admitted requests have left it no room.
THEOREM RefusalsAreJustified == Spec => RefusalJustified
<1>1. Init => RoomInv
  BY DEF Init, RoomInv
<1>2. TypeOK /\ RoomInv /\ [Next]_vars => RoomInv'
  BY RoomKept
<1>3. ASSUME TypeOK, RoomInv, [Next]_vars, NEW s \in Searches,
             search[s].pc = "consume", search'[s].pc = "refund"
      PROVE  charged[window] + Cost > Limit
  <2>1. Consume(s)
    BY <1>3, OnlyConsumeRefuses
  <2>2. OverLimit(used[window] + Cost)
    <3>1. search \in [Searches -> Search]
      BY <1>3 DEF TypeOK
    <3>2. QED
      BY <1>3, <2>1, <3>1 DEF Consume, Become, Search
  <2>3. /\ used[window] \in Int /\ charged[window] \in Nat /\ window \in Windows
        /\ Cost \in Nat /\ Limit \in Nat
    BY <1>3, ProviderClientAssumption DEF TypeOK
  <2>4. QED
    BY <1>3, <2>2, <2>3 DEF RoomInv, OverLimit
<1>4. TypeOK /\ RoomInv /\ [Next]_vars
        => [\A s \in Searches :
              (search[s].pc = "consume" /\ search'[s].pc = "refund")
                => charged[window] + Cost > Limit]_search
  BY <1>3
<1>5. QED
  BY <1>1, <1>2, <1>4, TypeCorrect, PTL DEF Spec, RefusalJustified

=============================================================================
