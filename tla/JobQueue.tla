------------------------------ MODULE JobQueue ------------------------------
(***************************************************************************)
(* The job queue of VARUNA: apps/api/src/queue (producer), the BullMQ      *)
(* queue in Redis (external), the processors of apps/worker, the bridge of *)
(* apps/api/src/realtime that copies BullMQ events into the MongoDB `jobs` *)
(* collection, and that collection.                                        *)
(*                                                                         *)
(* One step of this module is the code between two `await`s.  A handler of *)
(* the API is a `call`, an execution of a processor a `run`; any number of *)
(* them interleave.                                                        *)
(***************************************************************************)
EXTENDS Naturals, FiniteSets

CONSTANTS
  Keys,         \* jobKeys, which are also the BullMQ job ids
  Callers,      \* handlers of the API, and processors that enqueue
  Workers,      \* slots of the worker processes ("concurrency" of a queue)
  Cooperative,  \* the jobKeys of the ingest queue
  Nobody,       \* no caller, no worker, no key
  MaxAttempts,  \* `attempts` of the queue: retries + 1
  MaxStage,     \* progress reports of one execution
  MaxCalls,     \* bound: enqueue, cancel and retry calls of a behaviour
  MaxCancels,   \* bound: how many of them are cancels
  MaxRetries,   \* bound: how many of them are retries
  MaxStalls,    \* bound: locks lost by a worker
  MaxEvictions, \* bound: finished jobs BullMQ removes by age
  MaxRestarts   \* bound: restarts of the API process

ASSUME JobQueueAssumption ==
  /\ Cooperative \subseteq Keys
  /\ Nobody \notin Keys \cup Workers \cup Callers
  /\ MaxAttempts \in Nat \ {0}
  /\ MaxStage \in Nat
  /\ {MaxCalls, MaxCancels, MaxRetries, MaxStalls, MaxEvictions, MaxRestarts}
       \subseteq Nat

VARIABLES
  bull,     \* per key: the job BullMQ holds under that id
  run,      \* per worker slot: the execution it is busy with
  rec,      \* per key: the document of the `jobs` collection
  pending,  \* per key and event: bridge handlers that have not written yet
  call,     \* per caller: the operation it is in the middle of
  left,     \* what remains of the bounds of a behaviour
  owed      \* history: keys whose work was asked for and has not finished since

vars == <<bull, run, rec, pending, call, left, owed>>

-----------------------------------------------------------------------------
(* Values *)

JobState  == {"none", "waiting", "active", "delayed", "completed", "failed"}
Payload   == {"given", "result"}
Status    == {"none", "QUEUED", "RUNNING", "COMPLETED", "FAILED", "CANCELLED"}
Event     == {"active", "progress", "completed", "failed"}
Pc        == {"idle", "get", "state", "remove", "add", "mirror",
              "cFind", "cGet", "cState", "cFlag", "cRemove", "cSave",
              "rFind", "rGet", "rRemove", "rAdd", "rSave"}
Bound     == {"calls", "cancels", "retries", "stalls", "evictions", "restarts"}

Job    == [st : JobState, tries : Nat, stalls : Nat, lock : Workers \cup {Nobody},
           cancelled : BOOLEAN, payload : Payload]
Record == [status : Status, attempts : Nat, result : BOOLEAN]
Call   == [pc : Pc, key : Keys \cup {Nobody}, seen : Record, data : Payload]
Run    == [key : Keys \cup {Nobody}, stage : 0..MaxStage,
           at : {"check", "work", "return"}, flag : BOOLEAN, zombie : BOOLEAN]

Absent    == [st |-> "none", tries |-> 0, stalls |-> 0, lock |-> Nobody,
              cancelled |-> FALSE, payload |-> "given"]
Fresh(p)  == [Absent EXCEPT !.st = "waiting", !.payload = p]
NoRecord  == [status |-> "none", attempts |-> 0, result |-> FALSE]
NoCall    == [pc |-> "idle", key |-> Nobody, seen |-> NoRecord, data |-> "given"]
NoRun     == [key |-> Nobody, stage |-> 0, at |-> "check", flag |-> FALSE,
              zombie |-> FALSE]

\* Whether some worker holds the lock of the job, which makes remove() throw.
LockedNever(k) == FALSE
Locked(k) == bull[k].lock # Nobody

\* The states of a job that a second enqueue replaces instead of ignoring.
FinishedOk(st) == st = "completed"
Finished(st) == st \in {"completed", "failed"}

Exists(k) == bull[k].st # "none"

\* The record update of a Mongoose `save`: a path is sent only when the value
\* assigned differs from the one that was read.
SavePath(seen, current, new) == IF seen = new THEN current ELSE new

Put(k, job) == bull' = [bull EXCEPT ![k] = job]

\* The job leaves its worker, whose lock is released.
Leave(job, st) == [job EXCEPT !.st = st, !.lock = Nobody]

Spend(b)   == left[b] > 0 /\ left' = [left EXCEPT ![b] = @ - 1]
Emit(k, e) == pending' = [pending EXCEPT ![k][e] = @ + 1]
Goto(c, p) == call' = [call EXCEPT ![c].pc = p]
Return(c)  == call' = [call EXCEPT ![c] = NoCall]

-----------------------------------------------------------------------------
Init ==
  /\ bull = [k \in Keys |-> Absent]
  /\ run = [w \in Workers |-> NoRun]
  /\ rec = [k \in Keys |-> NoRecord]
  /\ pending = [k \in Keys |-> [e \in Event |-> 0]]
  /\ call = [c \in Callers |-> NoCall]
  /\ left = [b \in Bound |->
               CASE b = "calls"     -> MaxCalls
                 [] b = "cancels"   -> MaxCancels
                 [] b = "retries"   -> MaxRetries
                 [] b = "stalls"    -> MaxStalls
                 [] b = "evictions" -> MaxEvictions
                 [] b = "restarts"  -> MaxRestarts]
  /\ owed = {}

-----------------------------------------------------------------------------
(* producer.ts: enqueue *)

StartEnqueue(c, k) ==
  /\ call[c].pc = "idle"
  /\ Spend("calls")
  /\ call' = [call EXCEPT ![c] = [NoCall EXCEPT !.pc = "get", !.key = k]]
  /\ owed' = owed \cup {k}
  /\ UNCHANGED <<bull, run, rec, pending>>

\* const existing = await queue.getJob(jobKey)
EnqueueGet(c) ==
  /\ call[c].pc = "get"
  /\ Goto(c, IF Exists(call[c].key) THEN "state" ELSE "add")
  /\ UNCHANGED <<bull, run, rec, pending, left, owed>>

\* const state = await existing.getState(): a job that has been removed since
\* it was fetched reads "unknown", which is neither finished state.
EnqueueState(c) ==
  /\ call[c].pc = "state"
  /\ IF Finished(bull[call[c].key].st) THEN Goto(c, "remove") ELSE Return(c)
  /\ UNCHANGED <<bull, run, rec, pending, left, owed>>

\* await existing.remove(): throws out of enqueue when the job is locked.
EnqueueRemove(c) ==
  LET k == call[c].key IN
  /\ call[c].pc = "remove"
  /\ IF Locked(k) THEN Return(c) /\ UNCHANGED bull
                  ELSE Goto(c, "add") /\ Put(k, Absent)
  /\ UNCHANGED <<run, rec, pending, left, owed>>

\* await queue.add(kind, payload, { jobId }): no effect when the id exists.
EnqueueAddUnmirrored(c) ==
  LET k == call[c].key IN
  /\ call[c].pc = "add"
  /\ IF Exists(k) THEN UNCHANGED bull ELSE Put(k, Fresh("given"))
  /\ Return(c)
  /\ UNCHANGED <<run, rec, pending, left, owed>>
EnqueueAdd(c) ==
  LET k == call[c].key IN
  /\ call[c].pc = "add"
  /\ IF Exists(k) THEN UNCHANGED bull ELSE Put(k, Fresh("given"))
  /\ Goto(c, "mirror")
  /\ UNCHANGED <<run, rec, pending, left, owed>>

\* await JobModel.findOneAndUpdate({ jobKey }, { $set ... }, { upsert: true })
EnqueueMirror(c) ==
  /\ call[c].pc = "mirror"
  /\ rec' = [rec EXCEPT ![call[c].key].status = "QUEUED", ![call[c].key].attempts = 0]
  /\ Return(c)
  /\ UNCHANGED <<bull, run, pending, left, owed>>

-----------------------------------------------------------------------------
(* producer.ts: cancelJob *)

StartCancel(c, k) ==
  /\ call[c].pc = "idle"
  /\ left["calls"] > 0 /\ left["cancels"] > 0
  /\ left' = [left EXCEPT !["calls"] = @ - 1, !["cancels"] = @ - 1]
  /\ call' = [call EXCEPT ![c] = [NoCall EXCEPT !.pc = "cFind", !.key = k]]
  /\ UNCHANGED <<bull, run, rec, pending, owed>>

\* const record = await JobModel.findOne({ jobKey }); absent: the router's 404
CancelFind(c) ==
  LET k == call[c].key IN
  /\ call[c].pc = "cFind"
  /\ IF rec[k].status = "none"
       THEN Return(c)
       ELSE call' = [call EXCEPT ![c].pc = "cGet", ![c].seen = rec[k]]
  /\ UNCHANGED <<bull, run, rec, pending, left, owed>>

CancelGet(c) ==
  LET k == call[c].key IN
  /\ call[c].pc = "cGet"
  /\ IF Exists(k)
       THEN call' = [call EXCEPT ![c].pc = "cState", ![c].data = bull[k].payload]
       ELSE Goto(c, "cSave")
  /\ UNCHANGED <<bull, run, rec, pending, left, owed>>

CancelState(c) ==
  /\ call[c].pc = "cState"
  /\ Goto(c, IF bull[call[c].key].st = "active" THEN "cFlag" ELSE "cRemove")
  /\ UNCHANGED <<bull, run, rec, pending, left, owed>>

\* await job.updateData({ ...job.data, __cancelled: true }): throws when the
\* job no longer exists, and writes back the data that was fetched.
CancelFlag(c) ==
  LET k == call[c].key IN
  /\ call[c].pc = "cFlag"
  /\ IF Exists(k)
       THEN /\ Put(k, [bull[k] EXCEPT !.cancelled = TRUE, !.payload = call[c].data])
            /\ Goto(c, "cSave")
       ELSE Return(c) /\ UNCHANGED bull
  /\ UNCHANGED <<run, rec, pending, left, owed>>

\* await job.remove(): throws when the job has been picked up since getState.
CancelRemove(c) ==
  LET k == call[c].key IN
  /\ call[c].pc = "cRemove"
  /\ IF Locked(k)
       THEN Return(c) /\ UNCHANGED <<bull, owed>>
       ELSE /\ Put(k, Absent)
            /\ owed' = IF Exists(k) THEN owed \ {k} ELSE owed
            /\ Goto(c, "cSave")
  /\ UNCHANGED <<run, rec, pending, left>>

\* record.status = 'CANCELLED'; await record.save()
CancelSave(c) ==
  LET k == call[c].key IN
  /\ call[c].pc = "cSave"
  /\ rec' = [rec EXCEPT ![k].status =
               SavePath(call[c].seen.status, @, "CANCELLED")]
  /\ Return(c)
  /\ UNCHANGED <<bull, run, pending, left, owed>>

-----------------------------------------------------------------------------
(* producer.ts: retryJob *)

StartRetry(c, k) ==
  /\ call[c].pc = "idle"
  /\ left["calls"] > 0 /\ left["retries"] > 0
  /\ left' = [left EXCEPT !["calls"] = @ - 1, !["retries"] = @ - 1]
  /\ call' = [call EXCEPT ![c] = [NoCall EXCEPT !.pc = "rFind", !.key = k]]
  /\ UNCHANGED <<bull, run, rec, pending, owed>>

RetryFind(c) ==
  LET k == call[c].key IN
  /\ call[c].pc = "rFind"
  /\ IF rec[k].status = "none"
       THEN Return(c) /\ UNCHANGED owed
       ELSE /\ call' = [call EXCEPT ![c].pc = "rGet", ![c].seen = rec[k]]
            /\ owed' = owed \cup {k}
  /\ UNCHANGED <<bull, run, rec, pending, left>>

RetryGet(c) ==
  /\ call[c].pc = "rGet"
  /\ Goto(c, IF Exists(call[c].key) THEN "rRemove" ELSE "rAdd")
  /\ UNCHANGED <<bull, run, rec, pending, left, owed>>

RetryRemove(c) ==
  LET k == call[c].key IN
  /\ call[c].pc = "rRemove"
  /\ IF Locked(k) THEN Return(c) /\ UNCHANGED bull
                  ELSE Goto(c, "rAdd") /\ Put(k, Absent)
  /\ UNCHANGED <<run, rec, pending, left, owed>>

\* await queue.add(record.kind, record.result ?? {}, { jobId: jobKey }): the
\* payload of the new job is the stored RESULT of the old one.
RetryAdd(c) ==
  LET k == call[c].key IN
  /\ call[c].pc = "rAdd"
  /\ IF Exists(k) THEN UNCHANGED bull ELSE Put(k, Fresh("result"))
  /\ Goto(c, "rSave")
  /\ UNCHANGED <<run, rec, pending, left, owed>>

RetrySave(c) ==
  LET k == call[c].key
      seen == call[c].seen IN
  /\ call[c].pc = "rSave"
  /\ rec' = [rec EXCEPT ![k].status = SavePath(seen.status, @, "QUEUED"),
                        ![k].attempts = SavePath(seen.attempts, @, 0)]
  /\ Return(c)
  /\ UNCHANGED <<bull, run, pending, left, owed>>

-----------------------------------------------------------------------------
(* BullMQ and the processors of apps/worker *)

\* A slot takes a waiting job: it gets the lock and a copy of the job's data.
Pick(w, k) ==
  /\ run[w].key = Nobody
  /\ bull[k].st = "waiting"
  /\ Put(k, [bull[k] EXCEPT !.st = "active", !.lock = w])
  /\ run' = [run EXCEPT ![w] = [NoRun EXCEPT !.key = k, !.flag = bull[k].cancelled,
                                  !.at = IF k \in Cooperative THEN "check" ELSE "work"]]
  /\ Emit(k, "active")
  /\ UNCHANGED <<rec, call, left, owed>>

\* processIngest: `cancelled()` looks at the state of the job and at the copy of
\* its data, once, before the first stage.
CheckStateOnly(w) ==
  LET k == run[w].key IN
  /\ k # Nobody
  /\ run[w].at = "check"
  /\ run' = [run EXCEPT ![w].at = IF bull[k].st = "failed" THEN "return" ELSE "work"]
  /\ UNCHANGED <<bull, rec, pending, call, left, owed>>
CheckCancelled(w) ==
  LET k == run[w].key IN
  /\ k # Nobody
  /\ run[w].at = "check"
  /\ run' = [run EXCEPT ![w].at =
               IF run[w].flag \/ bull[k].st = "failed" THEN "return" ELSE "work"]
  /\ UNCHANGED <<bull, rec, pending, call, left, owed>>

\* job.updateProgress: throws when the job is gone, needs no lock otherwise.
Progress(w) ==
  LET k == run[w].key IN
  /\ k # Nobody
  /\ run[w].at = "work"
  /\ run[w].stage < MaxStage
  /\ IF Exists(k)
       THEN run' = [run EXCEPT ![w].stage = @ + 1] /\ Emit(k, "progress")
       ELSE run' = [run EXCEPT ![w] = NoRun] /\ UNCHANGED pending
  /\ UNCHANGED <<bull, rec, call, left, owed>>

\* The processor returned.  BullMQ refuses the result of a slot without the lock.
Complete(w) ==
  LET k == run[w].key IN
  /\ k # Nobody
  /\ run[w].at = "return" \/ (run[w].at = "work" /\ run[w].stage = MaxStage)
  /\ run' = [run EXCEPT ![w] = NoRun]
  /\ IF bull[k].lock = w
       THEN /\ Put(k, Leave(bull[k], "completed"))
            /\ Emit(k, "completed")
            /\ owed' = owed \ {k}
       ELSE UNCHANGED <<bull, pending, owed>>
  /\ UNCHANGED <<rec, call, left>>

\* The attempts that are left after one more failure.
ExhaustedLate(k) == bull[k].tries + 1 > MaxAttempts
Exhausted(k) == bull[k].tries + 1 >= MaxAttempts

\* The processor threw: back-off and another attempt, or failed for good.
FailAttempt(w) ==
  LET k == run[w].key IN
  /\ k # Nobody
  /\ run[w].at = "work"
  /\ run' = [run EXCEPT ![w] = NoRun]
  /\ IF bull[k].lock # w
       THEN UNCHANGED <<bull, pending, owed>>
       ELSE IF Exhausted(k)
              THEN /\ Put(k, Leave(bull[k], "failed"))
                   /\ Emit(k, "failed")
                   /\ owed' = owed \ {k}
              ELSE /\ Put(k, [Leave(bull[k], "delayed") EXCEPT !.tries = @ + 1])
                   /\ UNCHANGED <<pending, owed>>
  /\ UNCHANGED <<rec, call, left>>

\* The back-off of a failed attempt has elapsed.
Promote(k) ==
  /\ bull[k].st = "delayed"
  /\ Put(k, [bull[k] EXCEPT !.st = "waiting"])
  /\ UNCHANGED <<run, rec, pending, call, left, owed>>

\* The lock of an active job expires, because its worker crashed (`dead`) or
\* because it could not renew it; the stalled job is queued again once.
Stall(w, dead) ==
  LET k == run[w].key IN
  /\ k # Nobody
  /\ bull[k].lock = w
  /\ Spend("stalls")
  /\ run' = [run EXCEPT ![w] = IF dead THEN NoRun ELSE [@ EXCEPT !.zombie = TRUE]]
  /\ IF bull[k].stalls = 0
       THEN /\ Put(k, [Leave(bull[k], "waiting") EXCEPT !.stalls = 1])
            /\ UNCHANGED <<pending, owed>>
       ELSE /\ Put(k, Leave(bull[k], "failed"))
            /\ Emit(k, "failed")
            /\ owed' = owed \ {k}
  /\ UNCHANGED <<rec, call>>

\* removeOnComplete: { age: 24 h }
Evict(k) ==
  /\ bull[k].st = "completed"
  /\ Spend("evictions")
  /\ Put(k, Absent)
  /\ UNCHANGED <<run, rec, pending, call, owed>>

-----------------------------------------------------------------------------
(* realtime/bridge.ts *)

\* What a handler of the bridge writes into an existing document.
Written(r, e) ==
  CASE e \in {"active", "progress"} -> [r EXCEPT !.status = "RUNNING"]
    [] e = "completed" -> [r EXCEPT !.status = "COMPLETED", !.result = TRUE]
    [] e = "failed"    -> [r EXCEPT !.status = "FAILED", !.attempts = @ + 1]

\* The handlers are async and nobody awaits them, so their writes land in any
\* order.  They do not upsert: without a document the event leaves no trace.
BridgeWriteAgain(k, e) ==
  /\ pending' = [pending EXCEPT ![k][e] = @ - 1]
  /\ rec' = IF rec[k].status = "none" THEN rec ELSE [rec EXCEPT ![k] = Written(@, e)]
  /\ UNCHANGED <<bull, run, call, left, owed>>
BridgeWrite(k, e) ==
  /\ pending[k][e] > 0
  /\ pending' = [pending EXCEPT ![k][e] = @ - 1]
  /\ rec' = IF rec[k].status = "none" THEN rec ELSE [rec EXCEPT ![k] = Written(@, e)]
  /\ UNCHANGED <<bull, run, call, left, owed>>

\* The API process restarts: its calls end where they are, and the events it
\* has not handled are never read again.
RestartApi ==
  /\ Spend("restarts")
  /\ call' = [c \in Callers |-> NoCall]
  /\ pending' = [k \in Keys |-> [e \in Event |-> 0]]
  /\ UNCHANGED <<bull, run, rec, owed>>

-----------------------------------------------------------------------------
CallStep(c) ==
  \/ EnqueueGet(c) \/ EnqueueState(c) \/ EnqueueRemove(c) \/ EnqueueAdd(c)
  \/ EnqueueMirror(c)
  \/ CancelFind(c) \/ CancelGet(c) \/ CancelState(c) \/ CancelFlag(c)
  \/ CancelRemove(c) \/ CancelSave(c)
  \/ RetryFind(c) \/ RetryGet(c) \/ RetryRemove(c) \/ RetryAdd(c) \/ RetrySave(c)

StartCall(c, k) == StartEnqueue(c, k) \/ StartCancel(c, k) \/ StartRetry(c, k)

RunStep(w) == CheckCancelled(w) \/ Progress(w) \/ Complete(w) \/ FailAttempt(w)

Next ==
  \/ \E c \in Callers, k \in Keys : StartCall(c, k)
  \/ \E c \in Callers : CallStep(c)
  \/ \E w \in Workers, k \in Keys : Pick(w, k)
  \/ \E w \in Workers : RunStep(w)
  \/ \E w \in Workers, dead \in BOOLEAN : Stall(w, dead)
  \/ \E k \in Keys : Promote(k) \/ Evict(k)
  \/ \E k \in Keys, e \in Event : BridgeWrite(k, e)
  \/ RestartApi

Spec == Init /\ [][Next]_vars

\* A started handler keeps running, a free slot takes waiting jobs, a started
\* execution ends, a back-off elapses, and the bridge's writes are done.  Nobody
\* has to call the API, and stalls, evictions and restarts need never happen.
Fairness ==
  /\ \A c \in Callers : WF_vars(CallStep(c))
  /\ \A k \in Keys : WF_vars(\E w \in Workers : Pick(w, k))
  /\ \A w \in Workers : WF_vars(RunStep(w))
  /\ \A k \in Keys : WF_vars(Promote(k))
  /\ \A k \in Keys, e \in Event : WF_vars(BridgeWrite(k, e))

FairSpec == Spec /\ Fairness

-----------------------------------------------------------------------------
(* Properties *)

TypeOK ==
  /\ bull \in [Keys -> Job]
  /\ run \in [Workers -> Run]
  /\ rec \in [Keys -> Record]
  /\ pending \in [Keys -> [Event -> Nat]]
  /\ call \in [Callers -> Call]
  /\ left \in [Bound -> Nat]
  /\ owed \in SUBSET Keys

\* However many enqueues, cancels and retries of one jobKey interleave, its work
\* is executed by at most one worker slot that has not lost its lock: "a
\* duplicate enqueue is a no-op rather than a second 1 GB download".  It follows from
\* LockHolder, which the runs check, and is a theorem (SingleExecution).
NoParallelRuns ==
  \A w, v \in Workers :
    (w # v /\ run[w].key = run[v].key /\ run[w].key # Nobody)
      => run[w].zombie \/ run[v].zombie

\* An execution that has not lost its lock works for a job that is still there,
\* active and locked by it: no cancel, retry or re-enqueue, whatever it read
\* before, removes or replaces the job under the feet of its worker.
LockHolder ==
  \A w \in Workers :
    run[w].key # Nobody /\ ~run[w].zombie
      => bull[run[w].key].st = "active" /\ bull[run[w].key].lock = w

\* No execution begins once the attempts of the job are used up, counting the
\* ones that failed and the single requeue of a stalled job.
AttemptsBounded ==
  \A k \in Keys : bull[k].tries < MaxAttempts /\ bull[k].stalls <= 1

\* As long as the API does not restart in the middle of an enqueue, a job in
\* Redis has its document in `jobs` or the handler that added it is about to
\* write it: such a job can be listed, cancelled and retried.
NoOrphanJob ==
  left["restarts"] = MaxRestarts =>
    \A k \in Keys : Exists(k) =>
      \/ rec[k].status # "none"
      \/ \E c \in Callers : call[c].pc = "mirror" /\ call[c].key = k

\* A cancelled ingest does no work in an attempt that starts after the flag is
\* set: the attempt returns before its first stage.
FlaggedRunDoesNothing ==
  \A w \in Workers :
    run[w].key \in Cooperative /\ run[w].flag => run[w].stage = 0

\* Work that was asked for (by an enqueue, also one that is told it is a
\* duplicate, or by a retry) is eventually executed to an end, completed or
\* failed for good, or withdrawn by a cancel, in every interleaving.
OwedWorkSettles == \A k \in Keys : k \in owed ~> k \notin owed

\* What the queue promises for one jobKey, see JobSlot: a job BullMQ will start
\* is queued, an active one runs, one that completed or failed has ended.
SlotOf(job) ==
  CASE job.st \in {"waiting", "delayed"} -> "queued"
    [] job.st = "active" -> "running"
    [] job.st \in {"completed", "failed"} -> "ended"
    [] OTHER -> "idle"
UsedOf(job) ==
  IF SlotOf(job) \in {"queued", "running"} THEN job.tries + job.stalls ELSE 0

Slot == INSTANCE JobSlot WITH
  MaxUses <- MaxAttempts + 1,
  slot <- [k \in Keys |-> SlotOf(bull[k])],
  used <- [k \in Keys |-> UsedOf(bull[k])]

\* Running work is never withdrawn, only queued work is, and one submission is
\* executed at most MaxAttempts + 1 times.
ImplementsSlot == Slot!Spec

-----------------------------------------------------------------------------
(* Statements of the documentation that the code does not keep *)

\* doc/08_APP_FLOW.md draws COMPLETED as a final state: a document that says so
\* never goes back to RUNNING without having been queued again.
CompletedIsFinal ==
  [][\A k \in Keys : rec[k].status = "COMPLETED" => rec'[k].status # "RUNNING"]_rec

\* doc/08_APP_FLOW.md, FAILED --> QUEUED "manual retry": the work that is queued
\* again is the work that failed.
RetryRepeatsTheWork ==
  \A w \in Workers :
    run[w].key # Nobody /\ ~run[w].zombie => bull[run[w].key].payload = "given"

=============================================================================
