--------------------------- MODULE JobQueueProofs ---------------------------
(***************************************************************************)
(* Proofs about JobQueue for any keys, callers, workers and bounds.        *)
(***************************************************************************)
EXTENDS JobQueue, TLAPS

\* A handler that is in the middle of an operation works on some key.
CallsHaveKeys == \A c \in Callers : call[c].pc # "idle" => call[c].key \in Keys

\* TypeOK alone is not inductive: a call reads the record of its key.
TypeInv == TypeOK /\ CallsHaveKeys

CallsOK == call \in [Callers -> Call] /\ CallsHaveKeys

-----------------------------------------------------------------------------
(* Helpers: values that are well typed, and the two ways a handler moves on. *)

LEMMA ValuesTyped ==
  /\ Absent \in Job
  /\ \A p \in Payload : Fresh(p) \in Job
  /\ NoRecord \in Record
  /\ NoCall \in Call
  /\ NoRun \in Run
<1>1. Absent \in Job /\ \A p \in Payload : Fresh(p) \in Job
  BY DEF Absent, Fresh, Job, JobState, Payload
<1>2. NoRecord \in Record
  BY DEF NoRecord, Record, Status
<1>3. NoCall \in Call
  BY <1>2 DEF NoCall, Call, Pc, Payload
<1>4. NoRun \in Run
  BY JobQueueAssumption DEF NoRun, Run
<1> QED
  BY <1>1, <1>2, <1>3, <1>4

LEMMA PutTyped ==
  ASSUME bull \in [Keys -> Job], NEW k \in Keys, NEW j \in Job, Put(k, j)
  PROVE  bull' \in [Keys -> Job]
  BY DEF Put

\* The values a job is replaced by when its data or its state changes.
LEMMA JobsTyped ==
  ASSUME NEW j \in Job
  PROVE  /\ \A d \in Payload : [j EXCEPT !.cancelled = TRUE, !.payload = d] \in Job
         /\ \A w \in Workers : [j EXCEPT !.st = "active", !.lock = w] \in Job
         /\ [j EXCEPT !.st = "waiting"] \in Job
         /\ Leave(j, "completed") \in Job
         /\ Leave(j, "failed") \in Job
         /\ [Leave(j, "delayed") EXCEPT !.tries = @ + 1] \in Job
         /\ [Leave(j, "waiting") EXCEPT !.stalls = 1] \in Job
<1> USE DEF Job, JobState
<1>1. \A d \in Payload : [j EXCEPT !.cancelled = TRUE, !.payload = d] \in Job
  OBVIOUS
<1>2. \A w \in Workers : [j EXCEPT !.st = "active", !.lock = w] \in Job
  OBVIOUS
<1>3. \A s \in JobState : Leave(j, s) \in Job
  BY DEF Leave
<1>4. ASSUME NEW l \in Job PROVE [l EXCEPT !.tries = @ + 1] \in Job
  <2>1. l.tries + 1 \in Nat
    OBVIOUS
  <2>2. ASSUME NEW n \in Nat PROVE [l EXCEPT !.tries = n] \in Job
    OBVIOUS
  <2> QED
    BY <2>1, <2>2
<1>5. ASSUME NEW l \in Job PROVE [l EXCEPT !.stalls = 1] \in Job
  OBVIOUS
<1>6. [j EXCEPT !.st = "waiting"] \in Job
  OBVIOUS
<1>7. {"completed", "failed", "delayed", "waiting"} \subseteq JobState
  OBVIOUS
<1> HIDE DEF Job, JobState
<1> QED
  BY <1>1, <1>2, <1>3, <1>4, <1>5, <1>6, <1>7

LEMMA GotoCalls ==
  ASSUME TypeInv, NEW c \in Callers, call[c].pc # "idle", NEW p \in Pc, Goto(c, p)
  PROVE  CallsOK'
  BY DEF TypeInv, TypeOK, CallsOK, CallsHaveKeys, Goto, Call, Pc

LEMMA SeenCalls ==
  ASSUME TypeInv, NEW c \in Callers, call[c].pc # "idle", NEW p \in Pc,
         NEW r \in Record, call' = [call EXCEPT ![c].pc = p, ![c].seen = r]
  PROVE  CallsOK'
  BY DEF TypeInv, TypeOK, CallsOK, CallsHaveKeys, Call

LEMMA DataCalls ==
  ASSUME TypeInv, NEW c \in Callers, call[c].pc # "idle", NEW p \in Pc,
         NEW d \in Payload, call' = [call EXCEPT ![c].pc = p, ![c].data = d]
  PROVE  CallsOK'
  BY DEF TypeInv, TypeOK, CallsOK, CallsHaveKeys, Call

LEMMA ReturnCalls ==
  ASSUME TypeInv, NEW c \in Callers, Return(c)
  PROVE  CallsOK'
  BY ValuesTyped DEF TypeInv, TypeOK, CallsOK, CallsHaveKeys, Return, NoCall

\* What a step of a handler has to establish.
LEMMA CallStepTyped ==
  ASSUME TypeInv, CallsOK', bull' \in [Keys -> Job], rec' \in [Keys -> Record],
         owed' \in SUBSET Keys, UNCHANGED <<run, pending, left>>
  PROVE  TypeInv'
  BY DEF TypeInv, TypeOK, CallsOK

\* Init establishes the type invariant.
LEMMA InitTypeInv == Init => TypeInv
<1> SUFFICES ASSUME Init PROVE TypeInv
  OBVIOUS
<1>1. bull \in [Keys -> Job] /\ rec \in [Keys -> Record] /\ run \in [Workers -> Run]
  BY ValuesTyped DEF Init
<1>2. call \in [Callers -> Call] /\ CallsHaveKeys
  BY ValuesTyped DEF Init, CallsHaveKeys, NoCall
<1>3. pending \in [Keys -> [Event -> Nat]] /\ owed \in SUBSET Keys
  BY DEF Init
<1>4. left \in [Bound -> Nat]
  BY JobQueueAssumption DEF Init, Bound
<1> QED
  BY <1>1, <1>2, <1>3, <1>4 DEF TypeInv, TypeOK

\* The handlers of the API keep the types.
LEMMA CallTypeInv ==
  ASSUME TypeInv, NEW c \in Callers, CallStep(c)
  PROVE  TypeInv'
<1> USE CallStepTyped, GotoCalls, ReturnCalls, ValuesTyped
<1>k. call[c].pc # "idle" => call[c].key \in Keys
  BY DEF TypeInv, CallsHaveKeys
<1>0. bull \in [Keys -> Job] /\ rec \in [Keys -> Record] /\ owed \in SUBSET Keys
  BY DEF TypeInv, TypeOK
<1>1. CASE EnqueueGet(c)
  BY <1>0, <1>1 DEF EnqueueGet, Pc
<1>2. CASE EnqueueState(c)
  BY <1>0, <1>2 DEF EnqueueState, Pc
<1>3. CASE EnqueueRemove(c)
  BY <1>0, <1>k, <1>3, PutTyped DEF EnqueueRemove, Pc
<1>4. CASE EnqueueAdd(c)
  BY <1>0, <1>k, <1>4, PutTyped DEF EnqueueAdd, Pc, Payload
<1>5. CASE EnqueueMirror(c)
  BY <1>0, <1>5 DEF EnqueueMirror, Record, Status
<1>6. CASE CancelFind(c)
  <2>1. rec[call[c].key] \in Record /\ "cGet" \in Pc
    BY <1>0, <1>k, <1>6 DEF CancelFind, Pc
  <2> QED
    BY <1>0, <1>6, <2>1, SeenCalls DEF CancelFind
<1>7. CASE CancelGet(c)
  <2>1. bull[call[c].key].payload \in Payload /\ "cState" \in Pc /\ "cSave" \in Pc
    BY <1>0, <1>k, <1>7 DEF CancelGet, Pc, Job
  <2> QED
    BY <1>0, <1>7, <2>1, DataCalls DEF CancelGet
<1>8. CASE CancelState(c)
  BY <1>0, <1>8 DEF CancelState, Pc
<1>9. CASE CancelFlag(c)
  <2>1. call[c].data \in Payload
    BY DEF TypeInv, TypeOK, Call
  <2>2. bull' \in [Keys -> Job]
    BY <1>0, <1>k, <1>9, <2>1, JobsTyped, PutTyped DEF CancelFlag
  <2> QED
    BY <1>0, <1>9, <2>2 DEF CancelFlag, Pc
<1>10. CASE CancelRemove(c)
  BY <1>0, <1>k, <1>10, PutTyped DEF CancelRemove, Pc
<1>11. CASE CancelSave(c)
  BY <1>0, <1>11 DEF CancelSave, Record, Status, SavePath
<1>12. CASE RetryFind(c)
  <2>1. rec[call[c].key] \in Record /\ "rGet" \in Pc
    BY <1>0, <1>k, <1>12 DEF RetryFind, Pc
  <2>2. owed' \in SUBSET Keys
    BY <1>0, <1>k, <1>12 DEF RetryFind
  <2> QED
    BY <1>0, <1>12, <2>1, <2>2, SeenCalls DEF RetryFind
<1>13. CASE RetryGet(c)
  BY <1>0, <1>13 DEF RetryGet, Pc
<1>14. CASE RetryRemove(c)
  BY <1>0, <1>k, <1>14, PutTyped DEF RetryRemove, Pc
<1>15. CASE RetryAdd(c)
  BY <1>0, <1>k, <1>15, PutTyped DEF RetryAdd, Pc, Payload
<1>16. CASE RetrySave(c)
  BY <1>0, <1>16 DEF RetrySave, Record, Status, SavePath
<1> QED
  BY <1>1, <1>2, <1>3, <1>4, <1>5, <1>6, <1>7, <1>8, <1>9, <1>10, <1>11, <1>12,
     <1>13, <1>14, <1>15, <1>16 DEF CallStep

\* What a step of the queue, the processors or the bridge has to establish.
LEMMA QueueStepTyped ==
  ASSUME TypeInv, UNCHANGED call, bull' \in [Keys -> Job], run' \in [Workers -> Run],
         rec' \in [Keys -> Record], pending' \in [Keys -> [Event -> Nat]],
         left' \in [Bound -> Nat], owed' \in SUBSET Keys
  PROVE  TypeInv'
  BY DEF TypeInv, TypeOK, CallsHaveKeys

LEMMA EmitTyped ==
  ASSUME TypeInv, NEW k \in Keys, NEW e \in Event, Emit(k, e)
  PROVE  pending' \in [Keys -> [Event -> Nat]]
  BY DEF TypeInv, TypeOK, Emit

LEMMA SpendTyped ==
  ASSUME TypeInv, NEW b \in Bound, Spend(b)
  PROVE  left' \in [Bound -> Nat]
  BY DEF TypeInv, TypeOK, Spend

\* The start of a call keeps the types.
LEMMA StartTypeInv ==
  ASSUME TypeInv, NEW c \in Callers, NEW k \in Keys, StartCall(c, k)
  PROVE  TypeInv'
<1>1. ASSUME NEW p \in Pc, call' = [call EXCEPT ![c] = [NoCall EXCEPT !.pc = p, !.key = k]]
      PROVE  CallsOK'
  <2>1. [NoCall EXCEPT !.pc = p, !.key = k] \in Call
    BY ValuesTyped DEF Call
  <2>2. [NoCall EXCEPT !.pc = p, !.key = k].key = k
    BY DEF NoCall
  <2> QED
    BY <1>1, <2>1, <2>2 DEF TypeInv, TypeOK, CallsOK, CallsHaveKeys
<1>2. CASE StartEnqueue(c, k)
  BY <1>1, <1>2, SpendTyped
  DEF StartEnqueue, TypeInv, TypeOK, CallsOK, Pc, Bound
<1>3. ASSUME NEW b \in Bound, left["calls"] > 0, left[b] > 0, b # "calls",
             left' = [left EXCEPT !["calls"] = @ - 1, ![b] = @ - 1]
      PROVE  left' \in [Bound -> Nat]
  BY <1>3 DEF TypeInv, TypeOK, Bound
<1>4. CASE StartCancel(c, k)
  BY <1>1, <1>3, <1>4 DEF StartCancel, TypeInv, TypeOK, CallsOK, Pc, Bound
<1>5. CASE StartRetry(c, k)
  BY <1>1, <1>3, <1>5 DEF StartRetry, TypeInv, TypeOK, CallsOK, Pc, Bound
<1> QED
  BY <1>2, <1>4, <1>5 DEF StartCall

\* BullMQ and the processors keep the types.
LEMMA QueueTypeInv ==
  ASSUME TypeInv,
         \/ \E w \in Workers, k \in Keys : Pick(w, k)
         \/ \E w \in Workers : RunStep(w)
         \/ \E w \in Workers, dead \in BOOLEAN : Stall(w, dead)
         \/ \E k \in Keys : Promote(k) \/ Evict(k)
  PROVE  TypeInv'
<1> USE QueueStepTyped, ValuesTyped
<1>0. /\ bull \in [Keys -> Job] /\ rec \in [Keys -> Record] /\ owed \in SUBSET Keys
      /\ run \in [Workers -> Run] /\ left \in [Bound -> Nat]
      /\ pending \in [Keys -> [Event -> Nat]]
  BY DEF TypeInv, TypeOK
<1>e. Event = {"active", "progress", "completed", "failed"}
  BY DEF Event
<1>k. \A w \in Workers : run[w].key # Nobody => run[w].key \in Keys
  BY <1>0 DEF Run
<1>1. ASSUME NEW w \in Workers, NEW k \in Keys, Pick(w, k) PROVE TypeInv'
  <2>1. bull' \in [Keys -> Job]
    BY <1>0, <1>1, JobsTyped, PutTyped DEF Pick
  <2>2. run' \in [Workers -> Run]
    <3>1. bull[k].cancelled \in BOOLEAN
      BY <1>0 DEF Job
    <3>2. [NoRun EXCEPT !.key = k, !.flag = bull[k].cancelled,
                        !.at = IF k \in Cooperative THEN "check" ELSE "work"] \in Run
      BY <3>1 DEF Run
    <3> QED
      BY <1>0, <1>1, <3>2 DEF Pick
  <2> QED
    BY <1>0, <1>e, <1>1, <2>1, <2>2, EmitTyped DEF Pick
<1>2. ASSUME NEW w \in Workers, CheckCancelled(w) PROVE TypeInv'
  <2>1. run' \in [Workers -> Run]
    BY <1>0, <1>2 DEF CheckCancelled, Run
  <2> QED
    BY <1>0, <1>2, <2>1 DEF CheckCancelled
<1>3. ASSUME NEW w \in Workers, Progress(w) PROVE TypeInv'
  <2>1. run' \in [Workers -> Run]
    <3>1. run[w].stage < MaxStage => run[w].stage + 1 \in 0..MaxStage
      BY <1>0, JobQueueAssumption DEF Run
    <3>2. run[w].stage < MaxStage => [run[w] EXCEPT !.stage = @ + 1] \in Run
      BY <1>0, <3>1 DEF Run
    <3> QED
      BY <1>0, <1>3, <3>2 DEF Progress
  <2> QED
    BY <1>0, <1>e, <1>k, <1>3, <2>1, EmitTyped DEF Progress
<1>4. ASSUME NEW w \in Workers, Complete(w) PROVE TypeInv'
  <2>1. bull' \in [Keys -> Job]
    BY <1>0, <1>k, <1>4, JobsTyped, PutTyped DEF Complete
  <2> QED
    BY <1>0, <1>e, <1>k, <1>4, <2>1, EmitTyped DEF Complete
<1>5. ASSUME NEW w \in Workers, FailAttempt(w) PROVE TypeInv'
  <2>1. bull' \in [Keys -> Job]
    BY <1>0, <1>k, <1>5, JobsTyped, PutTyped DEF FailAttempt
  <2> QED
    BY <1>0, <1>e, <1>k, <1>5, <2>1, EmitTyped DEF FailAttempt
<1>6. ASSUME NEW w \in Workers, NEW dead \in BOOLEAN, Stall(w, dead) PROVE TypeInv'
  <2>1. bull' \in [Keys -> Job]
    BY <1>0, <1>k, <1>6, JobsTyped, PutTyped DEF Stall
  <2>2. run' \in [Workers -> Run]
    BY <1>0, <1>6 DEF Stall, Run
  <2>3. left' \in [Bound -> Nat]
    BY <1>6, SpendTyped DEF Stall, Bound
  <2> QED
    BY <1>0, <1>e, <1>k, <1>6, <2>1, <2>2, <2>3, EmitTyped DEF Stall
<1>7. ASSUME NEW k \in Keys, Promote(k) PROVE TypeInv'
  <2>1. bull' \in [Keys -> Job]
    BY <1>0, <1>7, JobsTyped, PutTyped DEF Promote
  <2> QED
    BY <1>0, <1>7, <2>1 DEF Promote
<1>8. ASSUME NEW k \in Keys, Evict(k) PROVE TypeInv'
  <2>1. left' \in [Bound -> Nat]
    BY <1>8, SpendTyped DEF Evict, Bound
  <2> QED
    BY <1>0, <1>8, <2>1, PutTyped DEF Evict
<1> QED
  BY <1>1, <1>2, <1>3, <1>4, <1>5, <1>6, <1>7, <1>8 DEF RunStep

\* The bridge keeps the types.
LEMMA BridgeTypeInv ==
  ASSUME TypeInv, NEW k \in Keys, NEW e \in Event, BridgeWrite(k, e)
  PROVE  TypeInv'
<1>1. pending' \in [Keys -> [Event -> Nat]]
  BY DEF BridgeWrite, TypeInv, TypeOK
<1>2. Written(rec[k], e) \in Record
  <2>1. rec[k] \in Record
    BY DEF TypeInv, TypeOK
  <2>2. CASE e \in {"active", "progress"}
    BY <2>1, <2>2 DEF Written, Record, Status
  <2>3. CASE e = "completed"
    BY <2>1, <2>3 DEF Written, Record, Status
  <2>4. CASE e = "failed"
    <3>1. Written(rec[k], e) = [rec[k] EXCEPT !.status = "FAILED",
                                              !.attempts = @ + 1]
      BY <2>4 DEF Written
    <3>2. rec[k].attempts + 1 \in Nat
      BY <2>1 DEF Record
    <3> QED
      BY <2>1, <3>1, <3>2 DEF Record, Status
  <2> QED
    BY <2>2, <2>3, <2>4 DEF Event
<1>3. rec' \in [Keys -> Record]
  BY <1>2 DEF BridgeWrite, TypeInv, TypeOK
<1> QED
  BY <1>1, <1>3, QueueStepTyped DEF BridgeWrite, TypeInv, TypeOK

\* A restart of the API keeps the types.
LEMMA RestartTypeInv == ASSUME TypeInv, RestartApi PROVE TypeInv'
<1>1. left' \in [Bound -> Nat]
  BY SpendTyped DEF RestartApi, Bound
<1>2. call' \in [Callers -> Call] /\ CallsHaveKeys'
  BY ValuesTyped DEF RestartApi, CallsHaveKeys, NoCall
<1> QED
  BY <1>1, <1>2 DEF RestartApi, TypeInv, TypeOK

LEMMA NextTypeInv == TypeInv /\ [Next]_vars => TypeInv'
<1> SUFFICES ASSUME TypeInv, [Next]_vars PROVE TypeInv'
  OBVIOUS
<1>1. CASE UNCHANGED vars
  BY <1>1 DEF vars, TypeInv, TypeOK, CallsHaveKeys
<1>2. CASE Next
  BY <1>2, StartTypeInv, CallTypeInv, QueueTypeInv, BridgeTypeInv, RestartTypeInv
  DEF Next
<1> QED
  BY <1>1, <1>2

\* Every reachable state of the queue is well typed.
THEOREM TypeCorrect == Spec => []TypeOK
<1>1. TypeInv => TypeOK
  BY DEF TypeInv
<1> QED
  BY <1>1, InitTypeInv, NextTypeInv, PTL DEF Spec

-----------------------------------------------------------------------------
(***************************************************************************)
(* One execution at a time.  LockHolder is inductive together with the     *)
(* types: a job is only replaced or removed when nobody holds its lock,    *)
(* whatever the handler that does it has read before.                      *)
(***************************************************************************)
LockInv == TypeInv /\ LockHolder

LEMMA UnlockedPut ==
  ASSUME LockInv, UNCHANGED run, NEW k \in Keys, NEW j, ~Locked(k), Put(k, j)
  PROVE  LockHolder'
<1>1. \A w \in Workers : w # Nobody
  BY JobQueueAssumption
<1>2. \A w \in Workers : run[w].key # Nobody => run[w].key \in Keys
  BY DEF LockInv, TypeInv, TypeOK, Run
<1> QED
  BY <1>1, <1>2 DEF LockInv, LockHolder, Locked, Put, TypeInv, TypeOK

LEMMA SameLocks ==
  ASSUME LockInv, UNCHANGED <<bull, run>>
  PROVE  LockHolder'
  BY DEF LockInv, LockHolder

\* The handlers take no job from its worker.
LEMMA CallLockHolder ==
  ASSUME LockInv, NEW c \in Callers, CallStep(c)
  PROVE  LockHolder'
<1> DEFINE k == call[c].key
<1>0. call[c].pc # "idle" => k \in Keys
  BY DEF LockInv, TypeInv, CallsHaveKeys
<1>1. CASE EnqueueRemove(c) \/ CancelRemove(c) \/ RetryRemove(c)
  BY <1>0, <1>1, UnlockedPut, SameLocks DEF EnqueueRemove, CancelRemove, RetryRemove
<1>2. ASSUME k \in Keys, ~Exists(k), NEW j, Put(k, j), UNCHANGED run
      PROVE  LockHolder'
  BY <1>2, JobQueueAssumption
  DEF LockInv, LockHolder, TypeInv, TypeOK, Run, Put, Exists
<1>3. CASE EnqueueAdd(c) \/ RetryAdd(c)
  BY <1>0, <1>2, <1>3, SameLocks DEF EnqueueAdd, RetryAdd
<1>4. CASE CancelFlag(c)
  <2>1. CASE UNCHANGED bull
    BY <1>4, <2>1, SameLocks DEF CancelFlag
  <2>2. ASSUME k \in Keys, Put(k, [bull[k] EXCEPT !.cancelled = TRUE, !.payload = call[c].data])
        PROVE  /\ \A l \in Keys : bull'[l].st = bull[l].st /\ bull'[l].lock = bull[l].lock
    BY <2>2 DEF Put, LockInv, TypeInv, TypeOK, Job
  <2> QED
    BY <1>0, <1>4, <2>1, <2>2 DEF CancelFlag, LockInv, LockHolder, TypeInv, TypeOK, Run
<1>5. CASE UNCHANGED <<bull, run>>
  BY <1>5, SameLocks
<1> QED
  BY <1>1, <1>3, <1>4, <1>5
  DEF CallStep, EnqueueGet, EnqueueState, EnqueueMirror, CancelFind, CancelGet,
      CancelState, CancelSave, RetryFind, RetryGet, RetrySave

\* A slot takes a job nobody holds, and a job leaves the slot that holds it.
LEMMA QueueLockHolder ==
  ASSUME LockInv,
         \/ \E w \in Workers, k \in Keys : Pick(w, k)
         \/ \E w \in Workers : RunStep(w)
         \/ \E w \in Workers, dead \in BOOLEAN : Stall(w, dead)
         \/ \E k \in Keys : Promote(k) \/ Evict(k)
  PROVE  LockHolder'
<1>0. /\ bull \in [Keys -> Job] /\ run \in [Workers -> Run]
      /\ \A w \in Workers : run[w].key # Nobody => run[w].key \in Keys
      /\ \A w \in Workers : w # Nobody
      /\ LockHolder
  BY JobQueueAssumption DEF LockInv, TypeInv, TypeOK, Run
<1>1. ASSUME NEW w \in Workers, NEW k \in Keys, Pick(w, k) PROVE LockHolder'
  <2>1. /\ bull'[k].st = "active" /\ bull'[k].lock = w
        /\ \A l \in Keys : l # k => bull'[l] = bull[l]
        /\ bull[k].st = "waiting"
    BY <1>0, <1>1 DEF Pick, Put, Job
  <2>2. run'[w].key = k /\ \A v \in Workers : v # w => run'[v] = run[v]
    BY <1>0, <1>1 DEF Pick, NoRun
  <2> QED
    BY <1>0, <2>1, <2>2 DEF LockHolder
<1>2. ASSUME NEW w \in Workers, CheckCancelled(w) PROVE LockHolder'
  BY <1>0, <1>2 DEF CheckCancelled, LockHolder, Run
<1>3. ASSUME NEW w \in Workers, run' = [run EXCEPT ![w] = NoRun],
             \/ UNCHANGED bull
             \/ run[w].key \in Keys /\ bull[run[w].key].lock = w /\ \E j : Put(run[w].key, j)
      PROVE  LockHolder'
  <2>1. run'[w].key = Nobody /\ \A v \in Workers : v # w => run'[v] = run[v]
    BY <1>0, <1>3 DEF NoRun
  <2>2. \A v \in Workers, l \in Keys : v # w /\ bull[l].lock = v => bull'[l] = bull[l]
    BY <1>0, <1>3 DEF Put
  <2> QED
    BY <1>0, <2>1, <2>2 DEF LockHolder
<1>4. ASSUME NEW w \in Workers, Progress(w) PROVE LockHolder'
  <2>1. CASE run' = [run EXCEPT ![w] = NoRun]
    BY <1>3, <1>4, <2>1 DEF Progress
  <2>2. CASE run' = [run EXCEPT ![w].stage = @ + 1]
    BY <1>0, <1>4, <2>2 DEF Progress, LockHolder, Run
  <2> QED
    BY <1>4, <2>1, <2>2 DEF Progress
<1>5. ASSUME NEW w \in Workers, Complete(w) PROVE LockHolder'
  BY <1>0, <1>3, <1>5 DEF Complete
<1>6. ASSUME NEW w \in Workers, FailAttempt(w) PROVE LockHolder'
  BY <1>0, <1>3, <1>6 DEF FailAttempt
<1>7. ASSUME NEW w \in Workers, NEW dead \in BOOLEAN, Stall(w, dead) PROVE LockHolder'
  <2>1. CASE dead
    BY <1>0, <1>3, <1>7, <2>1 DEF Stall
  <2>2. CASE ~dead
    <3>1. run'[w].zombie /\ \A v \in Workers : v # w => run'[v] = run[v]
      BY <1>0, <1>7, <2>2 DEF Stall, Run
    <3>2. \A v \in Workers, l \in Keys : v # w /\ bull[l].lock = v => bull'[l] = bull[l]
      BY <1>0, <1>7 DEF Stall, Put
    <3> QED
      BY <1>0, <3>1, <3>2 DEF LockHolder
  <2> QED
    BY <2>1, <2>2
<1>8. ASSUME NEW k \in Keys, bull[k].st # "active", NEW j, Put(k, j), UNCHANGED run
      PROVE  LockHolder'
  BY <1>0, <1>8 DEF Put, LockHolder
<1>9. ASSUME NEW k \in Keys, Promote(k) PROVE LockHolder'
  BY <1>8, <1>9 DEF Promote
<1>10. ASSUME NEW k \in Keys, Evict(k) PROVE LockHolder'
  BY <1>8, <1>10 DEF Evict
<1> QED
  BY <1>1, <1>2, <1>4, <1>5, <1>6, <1>7, <1>9, <1>10 DEF RunStep

LEMMA NextLockInv == LockInv /\ [Next]_vars => LockInv'
<1> SUFFICES ASSUME LockInv, [Next]_vars PROVE LockInv'
  OBVIOUS
<1>1. TypeInv'
  BY NextTypeInv DEF LockInv
<1>2. ASSUME UNCHANGED vars PROVE LockHolder'
  BY <1>2, SameLocks DEF vars
<1>3. ASSUME Next PROVE LockHolder'
  <2>1. CASE \E c \in Callers : CallStep(c)
    BY <2>1, CallLockHolder
  <2>2. CASE UNCHANGED <<bull, run>>
    BY <2>2, SameLocks
  <2> QED
    BY <1>3, <2>1, <2>2, QueueLockHolder
    DEF Next, StartCall, StartEnqueue, StartCancel, StartRetry, BridgeWrite, RestartApi
<1> QED
  BY <1>1, <1>2, <1>3 DEF LockInv

\* The job of an execution stays there, active and locked by its worker, as long
\* as the worker has not lost the lock.
THEOREM LockHolderCorrect == Spec => []LockHolder
<1>1. Init => LockInv
  <2>1. Init => LockHolder
    BY DEF Init, LockHolder, NoRun
  <2> QED
    BY <2>1, InitTypeInv DEF LockInv
<1>2. LockInv => LockHolder
  BY DEF LockInv
<1> QED
  BY <1>1, <1>2, NextLockInv, PTL DEF Spec

\* Two worker slots never execute the same jobKey, unless one has lost its lock.
THEOREM SingleExecution == Spec => []NoParallelRuns
<1>1. LockHolder => NoParallelRuns
  BY DEF LockHolder, NoParallelRuns
<1> QED
  BY <1>1, LockHolderCorrect, PTL

-----------------------------------------------------------------------------
(* Bounded attempts, and a lock for every active job. *)

ActiveIsLocked ==
  \A k \in Keys : (bull[k].st = "active") <=> (bull[k].lock # Nobody)

JobInv == AttemptsBounded /\ ActiveIsLocked

\* What JobInv says of one job.
JobFine(j) ==
  /\ j.tries < MaxAttempts /\ j.stalls <= 1
  /\ (j.st = "active") <=> (j.lock # Nobody)

LEMMA PutFine ==
  ASSUME TypeInv, JobInv, NEW k \in Keys, NEW j, JobFine(j), Put(k, j)
  PROVE  JobInv'
  BY DEF TypeInv, TypeOK, JobInv, AttemptsBounded, ActiveIsLocked, JobFine, Put

LEMMA FineJobs ==
  /\ JobFine(Absent)
  /\ \A p \in Payload : JobFine(Fresh(p))
  BY JobQueueAssumption DEF JobFine, Absent, Fresh

LEMMA NextJobInv == TypeInv /\ JobInv /\ [Next]_vars => JobInv'
<1> SUFFICES ASSUME TypeInv, JobInv, [Next]_vars PROVE JobInv'
  OBVIOUS
<1>0. /\ bull \in [Keys -> Job] /\ \A k \in Keys : JobFine(bull[k])
      /\ \A w \in Workers : run[w].key # Nobody => run[w].key \in Keys
      /\ \A w \in Workers : w # Nobody
      /\ \A c \in Callers : call[c].pc # "idle" => call[c].key \in Keys
  BY JobQueueAssumption
  DEF TypeInv, TypeOK, Run, JobInv, JobFine, AttemptsBounded, ActiveIsLocked,
      CallsHaveKeys
<1>1. CASE UNCHANGED bull
  BY <1>1 DEF JobInv, AttemptsBounded, ActiveIsLocked
<1>2. ASSUME NEW c \in Callers, CallStep(c) PROVE JobInv'
  <2>1. CASE EnqueueRemove(c) \/ CancelRemove(c) \/ RetryRemove(c)
    BY <1>0, <1>1, <2>1, PutFine, FineJobs DEF EnqueueRemove, CancelRemove, RetryRemove
  <2>2. CASE EnqueueAdd(c) \/ RetryAdd(c)
    BY <1>0, <1>1, <2>2, PutFine, FineJobs DEF EnqueueAdd, RetryAdd, Payload
  <2>3. CASE CancelFlag(c)
    <3>1. call[c].key \in Keys
      BY <1>0, <2>3 DEF CancelFlag
    <3>2. JobFine([bull[call[c].key] EXCEPT !.cancelled = TRUE, !.payload = call[c].data])
      BY <1>0, <3>1 DEF JobFine, Job
    <3> QED
      BY <1>1, <2>3, <3>1, <3>2, PutFine DEF CancelFlag
  <2> QED
    BY <1>1, <1>2, <2>1, <2>2, <2>3
    DEF CallStep, EnqueueGet, EnqueueState, EnqueueMirror, CancelFind, CancelGet,
        CancelState, CancelSave, RetryFind, RetryGet, RetrySave
<1>3. ASSUME NEW w \in Workers, NEW k \in Keys, Pick(w, k) PROVE JobInv'
  <2>1. JobFine([bull[k] EXCEPT !.st = "active", !.lock = w])
    BY <1>0 DEF JobFine, Job
  <2> QED
    BY <1>3, <2>1, PutFine DEF Pick
<1>4. ASSUME NEW k \in Keys, NEW st \in {"completed", "failed"}
      PROVE  JobFine(Leave(bull[k], st))
  BY <1>0 DEF JobFine, Leave, Job
<1>5. ASSUME NEW w \in Workers, RunStep(w) PROVE JobInv'
  <2>1. CASE CheckCancelled(w) \/ Progress(w)
    BY <1>1, <2>1 DEF CheckCancelled, Progress
  <2>2. CASE Complete(w)
    BY <1>0, <1>1, <1>4, <2>2, PutFine DEF Complete
  <2>3. CASE FailAttempt(w)
    <3> DEFINE k == run[w].key
    <3>1. k \in Keys
      BY <1>0, <2>3 DEF FailAttempt
    <3>2. ~Exhausted(k) => JobFine([Leave(bull[k], "delayed") EXCEPT !.tries = @ + 1])
      BY <1>0, <3>1, JobQueueAssumption DEF JobFine, Leave, Job, Exhausted
    <3> QED
      BY <1>1, <1>4, <2>3, <3>1, <3>2, PutFine DEF FailAttempt
  <2> QED
    BY <1>5, <2>1, <2>2, <2>3 DEF RunStep
<1>6. ASSUME NEW w \in Workers, NEW dead \in BOOLEAN, Stall(w, dead) PROVE JobInv'
  <2>1. run[w].key \in Keys
    BY <1>0, <1>6 DEF Stall
  <2>2. JobFine([Leave(bull[run[w].key], "waiting") EXCEPT !.stalls = 1])
    BY <1>0, <2>1 DEF JobFine, Leave, Job
  <2> QED
    BY <1>4, <1>6, <2>1, <2>2, PutFine DEF Stall
<1>7. ASSUME NEW k \in Keys, Promote(k) PROVE JobInv'
  <2>1. JobFine([bull[k] EXCEPT !.st = "waiting"])
    BY <1>0, <1>7 DEF JobFine, Job, Promote
  <2> QED
    BY <1>7, <2>1, PutFine DEF Promote
<1>8. ASSUME NEW k \in Keys, Evict(k) PROVE JobInv'
  BY <1>8, FineJobs, PutFine DEF Evict
<1> QED
  BY <1>1, <1>2, <1>3, <1>5, <1>6, <1>7, <1>8
  DEF Next, vars, StartCall, StartEnqueue, StartCancel, StartRetry, BridgeWrite,
      RestartApi

LEMMA InitJobInv == Init => JobInv
  BY JobQueueAssumption DEF Init, JobInv, AttemptsBounded, ActiveIsLocked, Absent

\* A submission is never executed more often than its attempts and the single
\* requeue after a stall allow.
THEOREM AttemptsCorrect == Spec => []AttemptsBounded
<1>1. JobInv => AttemptsBounded
  BY DEF JobInv
<1> QED
  BY <1>1, InitTypeInv, NextTypeInv, InitJobInv, NextJobInv, PTL DEF Spec

-----------------------------------------------------------------------------
(***************************************************************************)
(* The queue implements JobSlot: every step is a step of one slot or       *)
(* leaves all of them alone.                                               *)
(***************************************************************************)
SlotVars == <<[k \in Keys |-> SlotOf(bull[k])], [k \in Keys |-> UsedOf(bull[k])]>>

\* A move of a slot, on the job that is behind it.
SlotMove(i, j) ==
  \/ SlotOf(i) \in {"idle", "ended"} /\ SlotOf(j) = "queued" /\ UsedOf(j) = 0
  \/ SlotOf(i) = "ended" /\ SlotOf(j) = "idle" /\ UsedOf(j) = 0
  \/ SlotOf(i) = "queued" /\ SlotOf(j) = "idle" /\ UsedOf(j) = 0
  \/ /\ SlotOf(i) = "queued" /\ SlotOf(j) = "running"
     /\ UsedOf(i) < MaxAttempts + 1 /\ UsedOf(j) = UsedOf(i)
  \/ SlotOf(i) = "running" /\ SlotOf(j) = "queued" /\ UsedOf(j) = UsedOf(i) + 1
  \/ SlotOf(i) = "running" /\ SlotOf(j) = "ended" /\ UsedOf(j) = 0
  \/ SlotOf(j) = SlotOf(i) /\ UsedOf(j) = UsedOf(i)

LEMMA PutMovesSlot ==
  ASSUME bull \in [Keys -> Job], NEW k \in Keys, NEW j, SlotMove(bull[k], j), Put(k, j)
  PROVE  Slot!Next \/ UNCHANGED SlotVars
<1> DEFINE S == [l \in Keys |-> SlotOf(bull[l])]
           U == [l \in Keys |-> UsedOf(bull[l])]
<1>1. S' = [S EXCEPT ![k] = SlotOf(j)]
  BY DEF Put
<1>2. U' = [U EXCEPT ![k] = UsedOf(j)]
  BY DEF Put
<1>3. S[k] = SlotOf(bull[k]) /\ U[k] = UsedOf(bull[k])
  OBVIOUS
<1>4. CASE SlotOf(j) = SlotOf(bull[k]) /\ UsedOf(j) = UsedOf(bull[k])
  <2>1. S' = S /\ U' = U
    BY <1>1, <1>2, <1>4
  <2> QED
    BY <2>1 DEF SlotVars
<1>5. CASE ~(SlotOf(j) = SlotOf(bull[k]) /\ UsedOf(j) = UsedOf(bull[k]))
  <2>1. \/ Slot!Submit(k) \/ Slot!Withdraw(k) \/ Slot!Start(k) \/ Slot!GiveBack(k)
        \/ Slot!Finish(k) \/ Slot!Forget(k)
    <3> HIDE DEF S, U
    <3> QED
      BY <1>1, <1>2, <1>3, <1>5
      DEF SlotMove, Slot!Submit, Slot!Withdraw, Slot!Start, Slot!GiveBack,
          Slot!Finish, Slot!Forget, Slot!Move, S, U
  <2> QED
    BY <2>1 DEF Slot!Next
<1> QED
  BY <1>4, <1>5

LEMMA SlotStutter == ASSUME UNCHANGED bull PROVE UNCHANGED SlotVars
  BY DEF SlotVars

LEMMA FreshSlots ==
  /\ SlotOf(Absent) = "idle" /\ UsedOf(Absent) = 0
  /\ \A p \in Payload : SlotOf(Fresh(p)) = "queued" /\ UsedOf(Fresh(p)) = 0
  BY DEF SlotOf, UsedOf, Absent, Fresh

LEMMA NextMovesSlot ==
  TypeInv /\ JobInv /\ [Next]_vars => [Slot!Next]_SlotVars
<1> SUFFICES ASSUME TypeInv, JobInv, [Next]_vars
             PROVE  Slot!Next \/ UNCHANGED SlotVars
  OBVIOUS
<1>0. /\ bull \in [Keys -> Job]
      /\ \A k \in Keys : JobFine(bull[k]) /\ bull[k] \in Job
      /\ \A w \in Workers : run[w].key # Nobody => run[w].key \in Keys
      /\ \A w \in Workers : w # Nobody
      /\ \A c \in Callers : call[c].pc # "idle" => call[c].key \in Keys
  BY JobQueueAssumption
  DEF TypeInv, TypeOK, Run, JobInv, JobFine, AttemptsBounded, ActiveIsLocked,
      CallsHaveKeys
<1>1. CASE UNCHANGED bull
  BY <1>1, SlotStutter
<1>r. \A k \in Keys : ~Locked(k) => SlotMove(bull[k], Absent)
  BY <1>0, FreshSlots DEF SlotMove, JobFine, Locked, SlotOf, UsedOf
<1>a. \A k \in Keys, p \in Payload : ~Exists(k) => SlotMove(bull[k], Fresh(p))
  BY FreshSlots DEF SlotMove, Exists, SlotOf
<1>2. ASSUME NEW c \in Callers, CallStep(c) PROVE Slot!Next \/ UNCHANGED SlotVars
  <2>1. CASE EnqueueRemove(c) \/ CancelRemove(c) \/ RetryRemove(c)
    BY <1>0, <1>1, <1>r, <2>1, PutMovesSlot DEF EnqueueRemove, CancelRemove, RetryRemove
  <2>2. CASE EnqueueAdd(c) \/ RetryAdd(c)
    BY <1>0, <1>1, <1>a, <2>2, PutMovesSlot DEF EnqueueAdd, RetryAdd, Payload
  <2>3. CASE CancelFlag(c)
    <3>1. call[c].key \in Keys
      BY <1>0, <2>3 DEF CancelFlag
    <3>2. SlotMove(bull[call[c].key],
                   [bull[call[c].key] EXCEPT !.cancelled = TRUE, !.payload = call[c].data])
      BY <1>0, <3>1 DEF SlotMove, SlotOf, UsedOf, Job
    <3> QED
      BY <1>0, <1>1, <2>3, <3>1, <3>2, PutMovesSlot DEF CancelFlag
  <2> QED
    BY <1>1, <1>2, <2>1, <2>2, <2>3
    DEF CallStep, EnqueueGet, EnqueueState, EnqueueMirror, CancelFind, CancelGet,
        CancelState, CancelSave, RetryFind, RetryGet, RetrySave
<1>3. ASSUME NEW w \in Workers, NEW k \in Keys, Pick(w, k)
      PROVE  Slot!Next \/ UNCHANGED SlotVars
  <2>1. UsedOf(bull[k]) < MaxAttempts + 1
    BY <1>0, JobQueueAssumption DEF JobFine, UsedOf, Job
  <2>2. SlotMove(bull[k], [bull[k] EXCEPT !.st = "active", !.lock = w])
    BY <1>0, <1>3, <2>1 DEF SlotMove, SlotOf, UsedOf, Job, Pick
  <2> QED
    BY <1>0, <1>3, <2>2, PutMovesSlot DEF Pick
<1>4. ASSUME NEW k \in Keys, NEW st \in {"completed", "failed"}, bull[k].lock # Nobody
      PROVE  SlotMove(bull[k], Leave(bull[k], st))
  <2>1. bull[k].st = "active"
    BY <1>0, <1>4 DEF JobFine
  <2> QED
    BY <1>0, <1>4, <2>1 DEF SlotMove, SlotOf, UsedOf, Leave, Job
<1>5. ASSUME NEW w \in Workers, RunStep(w) PROVE Slot!Next \/ UNCHANGED SlotVars
  <2>1. CASE CheckCancelled(w) \/ Progress(w)
    BY <1>1, <2>1 DEF CheckCancelled, Progress
  <2>2. CASE Complete(w)
    BY <1>0, <1>1, <1>4, <2>2, PutMovesSlot DEF Complete
  <2>3. CASE FailAttempt(w)
    <3> DEFINE k == run[w].key
    <3>1. k \in Keys
      BY <1>0, <2>3 DEF FailAttempt
    <3>2. bull[k].lock = w => SlotMove(bull[k], [Leave(bull[k], "delayed") EXCEPT !.tries = @ + 1])
      BY <1>0, <3>1 DEF JobFine, SlotMove, SlotOf, UsedOf, Leave, Job
    <3> QED
      BY <1>0, <1>1, <1>4, <2>3, <3>1, <3>2, PutMovesSlot DEF FailAttempt
  <2> QED
    BY <1>5, <2>1, <2>2, <2>3 DEF RunStep
<1>6. ASSUME NEW w \in Workers, NEW dead \in BOOLEAN, Stall(w, dead)
      PROVE  Slot!Next \/ UNCHANGED SlotVars
  <2>1. run[w].key \in Keys
    BY <1>0, <1>6 DEF Stall
  <2>2. bull[run[w].key].lock = w /\ bull[run[w].key].stalls = 0
          => SlotMove(bull[run[w].key],
                      [Leave(bull[run[w].key], "waiting") EXCEPT !.stalls = 1])
    BY <1>0, <2>1 DEF JobFine, SlotMove, SlotOf, UsedOf, Leave, Job
  <2> QED
    BY <1>0, <1>4, <1>6, <2>1, <2>2, PutMovesSlot DEF Stall
<1>7. ASSUME NEW k \in Keys, Promote(k) PROVE Slot!Next \/ UNCHANGED SlotVars
  <2>1. SlotMove(bull[k], [bull[k] EXCEPT !.st = "waiting"])
    BY <1>0, <1>7 DEF SlotMove, SlotOf, UsedOf, Job, Promote
  <2> QED
    BY <1>0, <1>7, <2>1, PutMovesSlot DEF Promote
<1>8. ASSUME NEW k \in Keys, Evict(k) PROVE Slot!Next \/ UNCHANGED SlotVars
  <2>1. SlotMove(bull[k], Absent)
    BY <1>8, FreshSlots DEF SlotMove, SlotOf, UsedOf, Evict
  <2> QED
    BY <1>0, <1>8, <2>1, PutMovesSlot DEF Evict
<1> QED
  BY <1>1, <1>2, <1>3, <1>5, <1>6, <1>7, <1>8
  DEF Next, vars, StartCall, StartEnqueue, StartCancel, StartRetry, BridgeWrite,
      RestartApi

\* The queue implements the one-slot-per-key abstraction for all constants.
THEOREM QueueImplementsSlot == Spec => ImplementsSlot
<1>1. Init => Slot!Init
  BY FreshSlots DEF Init, Slot!Init
<1>2. [Slot!Next]_SlotVars
        => [Slot!Next]_(<<[k \in Keys |-> SlotOf(bull[k])], [k \in Keys |-> UsedOf(bull[k])]>>)
  BY DEF SlotVars
<1> QED
  BY <1>1, <1>2, InitTypeInv, NextTypeInv, InitJobInv, NextJobInv, NextMovesSlot, PTL
  DEF Spec, ImplementsSlot, Slot!Spec

-----------------------------------------------------------------------------
(***************************************************************************)
(* Every job in Redis has a document, or its writer is on the way, until   *)
(* the API restarts.  A retry adds a job too, so the strengthening says    *)
(* that a retry past its first step works on a key that has a document.    *)
(***************************************************************************)
RetryHasRecord ==
  \A c \in Callers :
    call[c].pc \in {"rGet", "rRemove", "rAdd", "rSave"} => rec[call[c].key].status # "none"

OrphanInv ==
  NoOrphanJob /\ RetryHasRecord /\ left["restarts"] <= MaxRestarts

\* A document never disappears.
LEMMA RecordStays ==
  ASSUME TypeInv, Next
  PROVE  \A k \in Keys : rec[k].status # "none" => rec'[k].status # "none"
<1>0. rec \in [Keys -> Record]
  BY DEF TypeInv, TypeOK
<1>1. CASE UNCHANGED rec
  BY <1>1
<1>2. ASSUME NEW c \in Callers, EnqueueMirror(c) \/ CancelSave(c) \/ RetrySave(c)
      PROVE  \A k \in Keys : rec[k].status # "none" => rec'[k].status # "none"
  BY <1>0, <1>2 DEF EnqueueMirror, CancelSave, RetrySave, SavePath, Record
<1>3. ASSUME NEW k \in Keys, NEW e \in Event, BridgeWrite(k, e)
      PROVE  \A l \in Keys : rec[l].status # "none" => rec'[l].status # "none"
  <2>1. rec[k].status # "none" => Written(rec[k], e).status # "none"
    BY <1>0 DEF Written, Event, Record
  <2> QED
    BY <1>0, <1>3, <2>1 DEF BridgeWrite
<1> QED
  BY <1>1, <1>2, <1>3
  DEF Next, StartCall, StartEnqueue, StartCancel, StartRetry, CallStep, EnqueueGet,
      EnqueueState, EnqueueRemove, EnqueueAdd, CancelFind, CancelGet, CancelState,
      CancelFlag, CancelRemove, RetryFind, RetryGet, RetryRemove, RetryAdd, Pick,
      RunStep, CheckCancelled, Progress, Complete, FailAttempt, Stall, Promote,
      Evict, RestartApi

\* The handler that owes a document keeps owing it until it has written it.
LEMMA MirrorStays ==
  ASSUME TypeInv, Next, ~RestartApi, NEW c \in Callers, call[c].pc = "mirror"
  PROVE  \/ call'[c].pc = "mirror" /\ call'[c].key = call[c].key
         \/ rec'[call[c].key].status # "none"
<1>0. /\ call \in [Callers -> Call] /\ rec \in [Keys -> Record]
      /\ call[c].key \in Keys
  BY DEF TypeInv, TypeOK, CallsHaveKeys
<1>1. CASE UNCHANGED call
  BY <1>1
<1>2. ASSUME NEW d \in Callers, NEW k \in Keys, StartCall(d, k)
      PROVE  call'[c] = call[c]
  BY <1>0, <1>2 DEF StartCall, StartEnqueue, StartCancel, StartRetry
<1>3. CASE EnqueueMirror(c)
  BY <1>0, <1>3 DEF EnqueueMirror, Record
<1>4. ASSUME NEW d \in Callers, CallStep(d), ~EnqueueMirror(c)
      PROVE  call'[c] = call[c]
  <2>1. d # c
    BY <1>4
    DEF CallStep, EnqueueGet, EnqueueState, EnqueueRemove, EnqueueAdd, CancelFind,
        CancelGet, CancelState, CancelFlag, CancelRemove, CancelSave, RetryFind,
        RetryGet, RetryRemove, RetryAdd, RetrySave
  <2> QED
    BY <1>0, <1>4, <2>1
    DEF CallStep, EnqueueGet, EnqueueState, EnqueueRemove, EnqueueAdd, EnqueueMirror,
        CancelFind, CancelGet, CancelState, CancelFlag, CancelRemove, CancelSave,
        RetryFind, RetryGet, RetryRemove, RetryAdd, RetrySave, Goto, Return
<1> QED
  BY <1>1, <1>2, <1>3, <1>4
  DEF Next, Pick, RunStep, CheckCancelled, Progress, Complete, FailAttempt, Stall,
      Promote, Evict, BridgeWrite

\* A job that is new in Redis was added by an enqueue that now owes the document,
\* or by a retry of a key that has one.
LEMMA NewJobsHaveWriters ==
  ASSUME TypeInv, JobInv, RetryHasRecord, Next, NEW k \in Keys, ~Exists(k), Exists(k)'
  PROVE  \/ rec[k].status # "none"
         \/ \E c \in Callers : call'[c].pc = "mirror" /\ call'[c].key = k
<1>0. /\ call \in [Callers -> Call] /\ bull \in [Keys -> Job]
      /\ bull[k].st = "none" /\ bull'[k].st # "none"
      /\ \A w \in Workers : w # Nobody
      /\ \A c \in Callers : call[c].pc # "idle" => call[c].key \in Keys
      /\ \A w \in Workers : run[w].key # Nobody => run[w].key \in Keys
  BY JobQueueAssumption DEF TypeInv, TypeOK, CallsHaveKeys, Exists, Run
<1>1. ASSUME NEW c \in Callers, EnqueueAdd(c)
      PROVE  \E d \in Callers : call'[d].pc = "mirror" /\ call'[d].key = k
  <2>1. call[c].key = k
    BY <1>0, <1>1 DEF EnqueueAdd, Put
  <2> QED
    BY <1>0, <1>1, <2>1 DEF EnqueueAdd, Goto, Call
<1>2. ASSUME NEW c \in Callers, RetryAdd(c) PROVE rec[k].status # "none"
  <2>1. call[c].key = k
    BY <1>0, <1>2 DEF RetryAdd, Put
  <2> QED
    BY <1>2, <2>1 DEF RetryAdd, RetryHasRecord
<1>3. ASSUME NEW l \in Keys, NEW j, Put(l, j), Exists(l) \/ j = Absent PROVE FALSE
  BY <1>0, <1>3 DEF Put, Absent, Exists
<1>4. bull' # bull
  BY <1>0
<1>5. ASSUME NEW c \in Callers, CallStep(c), ~EnqueueAdd(c), ~RetryAdd(c) PROVE FALSE
  BY <1>0, <1>3, <1>4, <1>5
  DEF CallStep, EnqueueGet, EnqueueState, EnqueueRemove, EnqueueMirror, CancelFind,
      CancelGet, CancelState, CancelFlag, CancelRemove, CancelSave, RetryFind,
      RetryGet, RetryRemove, RetrySave
<1>6. \A l \in Keys : bull[l].lock # Nobody => Exists(l)
  BY DEF JobInv, ActiveIsLocked, Exists
<1>7. ASSUME NEW w \in Workers, RunStep(w) \/ \E dead \in BOOLEAN : Stall(w, dead) PROVE FALSE
  BY <1>0, <1>3, <1>4, <1>6, <1>7
  DEF RunStep, CheckCancelled, Progress, Complete, FailAttempt, Stall
<1>8. ASSUME NEW l \in Keys, Promote(l) \/ Evict(l) \/ \E w \in Workers : Pick(w, l)
      PROVE  FALSE
  BY <1>3, <1>8 DEF Promote, Evict, Pick, Exists
<1> QED
  BY <1>1, <1>2, <1>4, <1>5, <1>7, <1>8
  DEF Next, StartCall, StartEnqueue, StartCancel, StartRetry, BridgeWrite, RestartApi

\* The restart budget bounds NoOrphanJob: it is full until the first restart.
LEMMA RestartBudget ==
  ASSUME TypeInv, Next
  PROVE  \/ left'["restarts"] = left["restarts"] /\ ~RestartApi
         \/ left'["restarts"] = left["restarts"] - 1 /\ left["restarts"] > 0
<1>0. left \in [Bound -> Nat] /\ "restarts" \in Bound
  BY DEF TypeInv, TypeOK, Bound
<1>1. CASE RestartApi
  BY <1>0, <1>1 DEF RestartApi, Spend
<1>2. CASE UNCHANGED left
  BY <1>0, <1>1, <1>2
<1>3. ASSUME NEW c \in Callers, NEW k \in Keys, StartCall(c, k)
      PROVE  left'["restarts"] = left["restarts"]
  BY <1>0, <1>3 DEF StartCall, StartEnqueue, StartCancel, StartRetry, Spend, Bound
<1>4. ASSUME NEW w \in Workers, NEW dead \in BOOLEAN, Stall(w, dead)
      PROVE  left'["restarts"] = left["restarts"]
  BY <1>0, <1>4 DEF Stall, Spend, Bound
<1>5. ASSUME NEW k \in Keys, Evict(k)
      PROVE  left'["restarts"] = left["restarts"]
  BY <1>0, <1>5 DEF Evict, Spend, Bound
<1> QED
  BY <1>1, <1>2, <1>3, <1>4, <1>5
  DEF Next, CallStep, EnqueueGet, EnqueueState, EnqueueRemove, EnqueueAdd,
      EnqueueMirror, CancelFind, CancelGet, CancelState, CancelFlag, CancelRemove,
      CancelSave, RetryFind, RetryGet, RetryRemove, RetryAdd, RetrySave, Pick, RunStep,
      CheckCancelled, Progress, Complete, FailAttempt, Promote, BridgeWrite

LEMMA NextRetryHasRecord ==
  ASSUME TypeInv, RetryHasRecord, Next PROVE RetryHasRecord'
<1>0. /\ call \in [Callers -> Call]
      /\ \A c \in Callers : call[c].pc # "idle" => call[c].key \in Keys
  BY DEF TypeInv, TypeOK, CallsHaveKeys
<1>1. \A k \in Keys : rec[k].status # "none" => rec'[k].status # "none"
  BY RecordStays
<1>2. SUFFICES ASSUME NEW c \in Callers,
                      call'[c].pc \in {"rGet", "rRemove", "rAdd", "rSave"}
               PROVE  \/ call'[c].key = call[c].key /\ call[c].pc # "idle"
                         /\ rec[call[c].key].status # "none"
  BY <1>0, <1>1 DEF RetryHasRecord
<1>3. CASE call'[c] = call[c]
  BY <1>2, <1>3 DEF RetryHasRecord
<1>4. ASSUME NEW d \in Callers, NEW k \in Keys, StartCall(d, k) PROVE call'[c] = call[c]
  BY <1>0, <1>2, <1>4 DEF StartCall, StartEnqueue, StartCancel, StartRetry, NoCall
<1>5. CASE RetryFind(c)
  BY <1>0, <1>2, <1>5 DEF RetryFind, Return, NoCall, Call
<1>6. CASE RetryGet(c) \/ RetryRemove(c) \/ RetryAdd(c) \/ RetrySave(c)
  BY <1>0, <1>2, <1>6
  DEF RetryGet, RetryRemove, RetryAdd, RetrySave, RetryHasRecord, Goto, Return, NoCall, Call
<1>7. ASSUME NEW d \in Callers, CallStep(d), ~RetryFind(c), ~RetryGet(c), ~RetryRemove(c),
             ~RetryAdd(c), ~RetrySave(c)
      PROVE  call'[c] = call[c]
  <2>1. CASE d # c
    BY <1>0, <1>7, <2>1
    DEF CallStep, EnqueueGet, EnqueueState, EnqueueRemove, EnqueueAdd, EnqueueMirror,
        CancelFind, CancelGet, CancelState, CancelFlag, CancelRemove, CancelSave,
        RetryFind, RetryGet, RetryRemove, RetryAdd, RetrySave, Goto, Return
  <2>2. CASE d = c
    BY <1>0, <1>2, <1>7, <2>2
    DEF CallStep, EnqueueGet, EnqueueState, EnqueueRemove, EnqueueAdd, EnqueueMirror,
        CancelFind, CancelGet, CancelState, CancelFlag, CancelRemove, CancelSave,
        Goto, Return, NoCall, Call
  <2> QED
    BY <2>1, <2>2
<1>8. CASE RestartApi
  BY <1>2, <1>8 DEF RestartApi, NoCall
<1> QED
  BY <1>2, <1>3, <1>4, <1>5, <1>6, <1>7, <1>8
  DEF Next, Pick, RunStep, CheckCancelled, Progress, Complete, FailAttempt, Stall,
      Promote, Evict, BridgeWrite

LEMMA NextOrphanInv == TypeInv /\ JobInv /\ OrphanInv /\ [Next]_vars => OrphanInv'
<1> SUFFICES ASSUME TypeInv, JobInv, OrphanInv, [Next]_vars PROVE OrphanInv'
  OBVIOUS
<1>1. CASE UNCHANGED vars
  BY <1>1 DEF vars, OrphanInv, NoOrphanJob, RetryHasRecord, Exists
<1>2. ASSUME Next PROVE OrphanInv'
  <2>0. left["restarts"] \in Nat /\ MaxRestarts \in Nat
    BY JobQueueAssumption DEF TypeInv, TypeOK, Bound
  <2>1. RetryHasRecord' /\ left'["restarts"] <= MaxRestarts
    BY <1>2, <2>0, NextRetryHasRecord, RestartBudget DEF OrphanInv
  <2>2. SUFFICES ASSUME left'["restarts"] = MaxRestarts, NEW k \in Keys, Exists(k)'
                 PROVE  \/ rec'[k].status # "none"
                        \/ \E c \in Callers : call'[c].pc = "mirror" /\ call'[c].key = k
    BY <2>1 DEF OrphanInv, NoOrphanJob
  <2>3. left["restarts"] = MaxRestarts /\ ~RestartApi
    BY <1>2, <2>0, <2>2, RestartBudget DEF OrphanInv
  <2>4. CASE rec[k].status # "none"
    BY <1>2, <2>4, RecordStays
  <2>5. CASE ~Exists(k)
    BY <1>2, <2>2, <2>4, <2>5, NewJobsHaveWriters DEF OrphanInv
  <2>6. CASE Exists(k) /\ rec[k].status = "none"
    <3>1. PICK c \in Callers : call[c].pc = "mirror" /\ call[c].key = k
      BY <2>3, <2>6 DEF OrphanInv, NoOrphanJob
    <3> QED
      BY <1>2, <2>3, <3>1, MirrorStays
  <2> QED
    BY <2>4, <2>5, <2>6
<1> QED
  BY <1>1, <1>2

\* Until the API restarts, a job in Redis has a document in `jobs`, or the
\* enqueue that added it is about to write it.
THEOREM NoOrphans == Spec => []NoOrphanJob
<1>1. Init => OrphanInv
  BY JobQueueAssumption
  DEF Init, OrphanInv, NoOrphanJob, RetryHasRecord, Exists, Absent, NoCall, Bound
<1>2. OrphanInv => NoOrphanJob
  BY DEF OrphanInv
<1> QED
  BY <1>1, <1>2, InitTypeInv, NextTypeInv, InitJobInv, NextJobInv, NextOrphanInv, PTL
  DEF Spec

-----------------------------------------------------------------------------
(***************************************************************************)
(* Flagged attempts.  What makes FlaggedRunDoesNothing inductive is where  *)
(* an attempt can be: before its check it has no stage behind it, and past *)
(* the check a flagged one is on its way out.                              *)
(***************************************************************************)
StageInv ==
  \A w \in Workers :
    /\ run[w].at = "check" => run[w].stage = 0
    /\ run[w].key \in Cooperative /\ run[w].flag => run[w].at # "work" /\ run[w].stage = 0

\* What Pick makes of the slots.
LEMMA PickTakes ==
  ASSUME run \in [Workers -> Run], NEW w \in Workers, NEW k \in Keys, Pick(w, k)
  PROVE  /\ run'[w].key = k /\ run'[w].stage = 0
         /\ k \in Cooperative => run'[w].at = "check"
         /\ \A v \in Workers \ {w} : run'[v] = run[v]
<1> DEFINE taken == [NoRun EXCEPT !.key = k, !.flag = bull[k].cancelled,
                                  !.at = IF k \in Cooperative THEN "check" ELSE "work"]
<1>1. run' = [run EXCEPT ![w] = taken]
  BY DEF Pick
<1>2. taken.key = k /\ taken.stage = 0 /\ (k \in Cooperative => taken.at = "check")
  BY DEF NoRun
<1> HIDE DEF taken
<1> QED
  BY <1>1, <1>2

\* A step of a slot keeps this for every slot.
LEMMA SlotStageInv ==
  ASSUME TypeInv, StageInv, NEW w \in Workers,
         \/ \E k \in Keys : Pick(w, k)
         \/ RunStep(w)
         \/ \E dead \in BOOLEAN : Stall(w, dead)
  PROVE  StageInv'
<1>0. run \in [Workers -> Run] /\ Nobody \notin Cooperative
  BY JobQueueAssumption DEF TypeInv, TypeOK
<1>1. SUFFICES ASSUME NEW v \in Workers
               PROVE  /\ run'[v].at = "check" => run'[v].stage = 0
                      /\ run'[v].key \in Cooperative /\ run'[v].flag
                           => run'[v].at # "work" /\ run'[v].stage = 0
  BY DEF StageInv
<1>2. CASE v # w
  <2>1. ASSUME NEW k \in Keys, Pick(w, k) PROVE run'[v] = run[v]
    BY <1>0, <1>2, <2>1, PickTakes
  <2>2. CASE CheckCancelled(w) \/ Progress(w)
    BY <1>0, <1>2, <2>2 DEF StageInv, CheckCancelled, Progress
  <2>3. CASE Complete(w) \/ FailAttempt(w)
    BY <1>0, <1>2, <2>3 DEF StageInv, Complete, FailAttempt
  <2>4. ASSUME NEW dead \in BOOLEAN, Stall(w, dead) PROVE run'[v] = run[v]
    BY <1>0, <1>2, <2>4 DEF Stall
  <2> QED
    BY <2>1, <2>2, <2>3, <2>4 DEF StageInv, RunStep
<1>3. CASE v = w
  <2>1. ASSUME NEW k \in Keys, Pick(w, k)
        PROVE  /\ run'[w].stage = 0 /\ run'[w].key = k
               /\ k \in Cooperative => run'[w].at = "check"
    BY <1>0, <2>1, PickTakes
  <2>2. CASE CheckCancelled(w)
    BY <1>0, <1>3, <2>2 DEF CheckCancelled, StageInv, Run
  <2>3. CASE Progress(w)
    BY <1>0, <1>3, <2>3 DEF Progress, StageInv, Run, NoRun
  <2>4. CASE Complete(w) \/ FailAttempt(w)
    BY <1>0, <1>3, <2>4 DEF Complete, FailAttempt, NoRun
  <2>5. ASSUME NEW dead \in BOOLEAN, Stall(w, dead) PROVE StageInv'
    BY <1>0, <2>5 DEF Stall, StageInv, Run, NoRun
  <2> QED
    BY <1>3, <2>1, <2>2, <2>3, <2>4, <2>5 DEF RunStep, StageInv
<1> QED
  BY <1>2, <1>3

LEMMA NextStageInv == TypeInv /\ StageInv /\ [Next]_vars => StageInv'
<1> SUFFICES ASSUME TypeInv, StageInv, [Next]_vars PROVE StageInv'
  OBVIOUS
<1>1. CASE UNCHANGED run
  BY <1>1 DEF StageInv
<1>2. CASE UNCHANGED vars
  BY <1>1, <1>2 DEF vars
<1>3. ASSUME NEW w \in Workers,
             (\E k \in Keys : Pick(w, k)) \/ RunStep(w) \/ (\E dead \in BOOLEAN : Stall(w, dead))
      PROVE  StageInv'
  BY <1>3, SlotStageInv
<1>4. CASE Next /\ ~UNCHANGED run
  <2>1. ASSUME NEW c \in Callers, CallStep(c) PROVE UNCHANGED run
    BY <2>1
    DEF CallStep, EnqueueGet, EnqueueState, EnqueueRemove, EnqueueAdd, EnqueueMirror,
        CancelFind, CancelGet, CancelState, CancelFlag, CancelRemove, CancelSave,
        RetryFind, RetryGet, RetryRemove, RetryAdd, RetrySave
  <2>2. ASSUME NEW c \in Callers, NEW k \in Keys, StartCall(c, k) PROVE UNCHANGED run
    BY <2>2 DEF StartCall, StartEnqueue, StartCancel, StartRetry
  <2>3. ASSUME NEW k \in Keys, Promote(k) \/ Evict(k) PROVE UNCHANGED run
    BY <2>3 DEF Promote, Evict
  <2>4. ASSUME NEW k \in Keys, NEW e \in Event, BridgeWrite(k, e) PROVE UNCHANGED run
    BY <2>4 DEF BridgeWrite
  <2>5. CASE RestartApi
    BY <1>1, <2>5 DEF RestartApi
  <2> QED
    BY <1>3, <1>4, <2>1, <2>2, <2>3, <2>4, <2>5 DEF Next
<1> QED
  BY <1>1, <1>2, <1>3, <1>4

\* processIngest: an attempt that starts after its job was cancelled returns before its
\* first stage, whatever else is enqueued, retried or stalled meanwhile.
THEOREM FlaggedRunCorrect == Spec => []FlaggedRunDoesNothing
<1>1. Init => StageInv
  BY DEF Init, StageInv, NoRun
<1>2. StageInv => FlaggedRunDoesNothing
  BY DEF StageInv, FlaggedRunDoesNothing
<1> QED
  BY <1>1, <1>2, InitTypeInv, NextTypeInv, NextStageInv, PTL DEF Spec

=============================================================================
