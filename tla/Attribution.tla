----------------------------- MODULE Attribution -----------------------------
(***************************************************************************)
(* From a detection to its ranking of vessels: the drift jobs that estimate*)
(* where a slick came from (origin/service.ts, processors/drift.ts), the   *)
(* scoring jobs that rank vessels against an origin (processors/           *)
(* correlate.ts, candidates/service.ts), the routes and the ingest that    *)
(* queue them, and reweighting of a ranking by an analyst.                 *)
(*                                                                         *)
(* The queue is used through what JobSlot promises of a jobKey: a second   *)
(* enqueue of queued or running work has no effect, an attempt may fail or *)
(* lose its lock at any point, and it is then given back or given up.      *)
(* One step is the code between two `await`s that touch shared documents.  *)
(***************************************************************************)
EXTENDS Integers, FiniteSets

CONSTANTS
  Detections,    \* oil-spill detections
  Cases,         \* investigations that queue work about them
  Containers,    \* those of them into which scenes are ingested
  Workers,       \* slots of the drift and scoring workers
  Analysts,      \* requests that reweight a ranking
  Nobody,        \* no job
  MaxRank,       \* vessels a ranking may hold
  MaxAttempts,   \* `attempts` of the two queues
  MaxPrecomputes,\* bound: drift jobs queued by the ingest (two for a detection)
  MaxRequests,   \* bound: back-tracks and correlations analysts ask for
  MaxCancels,    \* bound: queued jobs that are cancelled
  MaxCrashes,    \* bound: workers that die in the middle of an attempt
  MaxStalls,     \* bound: workers that lose their lock and go on
  MaxTrouble,    \* bound: both together
  MaxReweights   \* bound: reweightings

\* A detection as a case sees it.  A jobKey names both and no route checks that the one
\* belongs to the other: a swept scene is precomputed under its container and analysed
\* again in the case that adopted it.
Slicks == Cases \X Detections
Ingested == Containers \X Detections
Keys   == {"drift", "scoring"} \X Slicks

ASSUME AttributionAssumption ==
  /\ Nobody \notin Keys
  /\ Containers \subseteq Cases
  /\ Slicks # {}
  /\ MaxAttempts \in Nat \ {0}
  /\ {MaxRank, MaxPrecomputes, MaxRequests, MaxCancels, MaxCrashes, MaxStalls,
    MaxTrouble, MaxReweights} \subseteq Nat

VARIABLES
  job,      \* per jobKey: the job in the queue
  run,      \* per worker slot: the attempt it is busy with
  origins,  \* documents of origin_estimates
  ranking,  \* per slick: its documents of candidate_vessels
  edit,     \* per analyst: the reweighting in progress
  newest,   \* the last id given to an origin estimate or to a ranking
  left,     \* what remains of the bounds
  promise,  \* history, per slick: what its precompute is waiting for
  torn      \* history: slicks whose ranking a reweighting left half rearranged

vars == <<job, run, origins, ranking, edit, newest, left, promise, torn>>

-----------------------------------------------------------------------------
Pc      == {"compute", "create", "chain", "load", "query", "replace", "write", "return"}
Job     == [st : {"idle", "queued", "running", "ended"}, tries : Nat, stalled : BOOLEAN,
            chain : BOOLEAN, origin : Nat]
Run     == [key : Keys \cup {Nobody}, pc : Pc, chain : BOOLEAN, origin : Nat,
            batch : Nat, todo : 0..MaxRank, done : 0..MaxRank, zombie : BOOLEAN]
Origin  == [id : Nat, slick : Slicks]
Vessel  == [batch : Nat, nr : 1..MaxRank, rank : 1..MaxRank, origin : Nat,
            custom : BOOLEAN, separation : BOOLEAN]
Edit    == [slick : Slicks, todo : SUBSET [doc : Vessel, rank : 1..MaxRank]]
Stage   == {"none", "drift", "scoring"}
Bound   == {"precomputes", "requests", "cancels", "crashes", "stalls", "reweights"}

NoJob == [st |-> "idle", tries |-> 0, stalled |-> FALSE, chain |-> FALSE, origin |-> 0]
Done  == [NoJob EXCEPT !.st = "ended"]
Free  == [key |-> Nobody, pc |-> "return", chain |-> FALSE, origin |-> 0, batch |-> 0,
          todo |-> 0, done |-> 0, zombie |-> FALSE]

Kind(w)  == run[w].key[1]
Slick(w)   == run[w].key[2]
At(w, p) == run[w].key # Nobody /\ run[w].pc = p
Holds(w) == ~run[w].zombie

Spend(b)   == left[b] > 0 /\ left' = [left EXCEPT ![b] = @ - 1]
Become(w, r) == run' = [run EXCEPT ![w] = r]
Goto(w, p) == Become(w, [run[w] EXCEPT !.pc = p])
Leave(w)   == Become(w, Free)
Put(k, j)  == job' = [job EXCEPT ![k] = j]
Live(k)    == job[k].st \in {"queued", "running"}

\* enqueue: queued or running work makes it a duplicate, which changes nothing.
EnqueueUnlessQueued(k, chain, origin) ==
  IF job[k].st # "queued"
    THEN Put(k, [NoJob EXCEPT !.st = "queued", !.chain = chain, !.origin = origin])
    ELSE UNCHANGED job
Enqueue(k, chain, origin) ==
  IF Live(k)
    THEN UNCHANGED job
    ELSE Put(k, [NoJob EXCEPT !.st = "queued", !.chain = chain, !.origin = origin])

Init ==
  /\ job = [k \in Keys |-> NoJob]
  /\ run = [w \in Workers |-> Free]
  /\ origins = {}
  /\ ranking = [d \in Slicks |-> {}]
  /\ edit = [a \in Analysts |-> [slick |-> CHOOSE d \in Slicks : TRUE, todo |-> {}]]
  /\ newest = 0
  /\ left = [b \in Bound |->
               CASE b = "precomputes" -> MaxPrecomputes
                 [] b = "requests"    -> MaxRequests
                 [] b = "cancels"     -> MaxCancels
                 [] b = "crashes"     -> MaxCrashes
                 [] b = "stalls"      -> MaxStalls
                 [] b = "reweights"   -> MaxReweights]
  /\ promise = [d \in Slicks |-> "none"]
  /\ torn = {}

-----------------------------------------------------------------------------
(* Who queues jobs *)

\* The ingest queues the drift of a detection when it is confirmed automatically,
\* and again when triage selects it; both ask for a chained correlation.
Precompute(d) ==
  /\ Spend("precomputes")
  /\ Enqueue(<<"drift", d>>, TRUE, 0)
  /\ promise' = IF Live(<<"drift", d>>)
                  THEN promise ELSE [promise EXCEPT ![d] = "drift"]
  /\ UNCHANGED <<run, origins, ranking, edit, torn, newest>>

\* POST /:id/origin/run
RequestDrift(d) ==
  /\ Spend("requests")
  /\ Enqueue(<<"drift", d>>, FALSE, 0)
  /\ UNCHANGED <<run, origins, ranking, edit, torn, newest, promise>>

\* POST /:id/candidates/correlate with the origin the caller names, or the latest of
\* the investigation: nothing is checked, so it may be gone or of another detection.
RequestCorrelate(d, o) ==
  /\ Spend("requests")
  /\ Enqueue(<<"scoring", d>>, FALSE, o)
  /\ UNCHANGED <<run, origins, ranking, edit, torn, newest, promise>>

\* What the end of a job, in success or not, settles.
Ended(k) ==
  promise' = [promise EXCEPT ![k[2]] = IF @ = k[1] THEN "none" ELSE @]

Cancel(k) ==
  /\ job[k].st = "queued"
  /\ Spend("cancels")
  /\ Put(k, NoJob)
  /\ Ended(k)
  /\ UNCHANGED <<run, origins, ranking, edit, torn, newest>>

-----------------------------------------------------------------------------
(* Attempts *)

Pick(w, k) ==
  /\ run[w].key = Nobody
  /\ job[k].st = "queued"
  /\ Put(k, [job[k] EXCEPT !.st = "running"])
  /\ Become(w, [Free EXCEPT !.key = k, !.chain = job[k].chain, !.origin = job[k].origin,
                            !.pc = IF k[1] = "drift" THEN "compute" ELSE "load"])
  /\ UNCHANGED <<origins, ranking, edit, torn, newest, left, promise>>

\* runOrigin, up to OriginEstimateModel.deleteMany({ detectionId }): it deletes what the
\* detection has in every case, where the job's own creation is of its case.
Accumulate(w) ==
  /\ At(w, "compute")
  /\ Goto(w, "create")
  /\ UNCHANGED <<job, origins, ranking, edit, torn, newest, left, promise>>
Supersede(w) ==
  /\ At(w, "compute")
  /\ origins' = {o \in origins : o.slick[2] # Slick(w)[2]}
  /\ Goto(w, "create")
  /\ UNCHANGED <<job, ranking, edit, torn, newest, left, promise>>

\* OriginEstimateModel.create
CreateOrigin(w) ==
  /\ At(w, "create")
  /\ newest' = newest + 1
  /\ origins' = origins \cup {[id |-> newest + 1, slick |-> Slick(w)]}
  /\ Become(w, [run[w] EXCEPT !.origin = newest + 1, !.pc = "chain"])
  /\ UNCHANGED <<job, ranking, edit, torn, left, promise>>

\* processDrift queues the correlation; that the queue fails is only logged.
ChainDropped(w) ==
  /\ At(w, "chain")
  /\ run[w].chain
  /\ Goto(w, "return")
  /\ promise' = [promise EXCEPT ![Slick(w)] = "scoring"]
  /\ UNCHANGED <<job, origins, ranking, edit, torn, newest, left>>
Chain(w) ==
  /\ At(w, "chain")
  /\ run[w].chain
  /\ Goto(w, "return")
  /\ \/ /\ Enqueue(<<"scoring", Slick(w)>>, FALSE, run[w].origin)
        /\ promise' = [promise EXCEPT ![Slick(w)] = "scoring"]
     \/ /\ promise' = [promise EXCEPT ![Slick(w)] = "none"]
        /\ UNCHANGED job
  /\ UNCHANGED <<origins, ranking, edit, torn, newest, left>>

\* processCorrelate: getOrigin(originEstimateId), which throws when it is gone
LoadOrigin(w) ==
  /\ At(w, "load")
  /\ \E o \in origins : o.id = run[w].origin
  /\ Goto(w, "query")
  /\ UNCHANGED <<job, origins, ranking, edit, torn, newest, left, promise>>

\* correlate: without AIS coverage it returns, and leaves what is stored alone.
QueryAis(w) ==
  /\ At(w, "query")
  /\ Goto(w, "replace") \/ Goto(w, "return")
  /\ UNCHANGED <<job, origins, ranking, edit, torn, newest, left, promise>>

\* CandidateVesselModel.deleteMany({ investigationId, detectionId })
AddRanking(w) ==
  /\ At(w, "replace")
  /\ newest' = newest + 1
  /\ \E n \in 0..MaxRank :
       Become(w, [run[w] EXCEPT !.batch = newest + 1, !.todo = n, !.pc = "write"])
  /\ UNCHANGED <<job, origins, ranking, edit, torn, left, promise>>
ReplaceRanking(w) ==
  /\ At(w, "replace")
  /\ ranking' = [ranking EXCEPT ![Slick(w)] = {}]
  /\ torn' = torn \ {Slick(w)}
  /\ newest' = newest + 1
  /\ \E n \in 0..MaxRank :
       Become(w, [run[w] EXCEPT !.batch = newest + 1, !.todo = n, !.pc = "write"])
  /\ UNCHANGED <<job, origins, edit, left, promise>>

\* CandidateVesselModel.create, once per vessel in the order of the ranking; the
\* first of several carries the verdict on the separation of the ranking.
VesselOf(r, n) ==
  [batch |-> r.batch, nr |-> n, rank |-> n, origin |-> r.origin, custom |-> FALSE,
   separation |-> n = 1 /\ r.todo > 1]
Write(w) ==
  LET n == run[w].done + 1 IN
  /\ Become(w, [run[w] EXCEPT !.done = n])
  /\ ranking' = [ranking EXCEPT ![Slick(w)] = @ \cup {VesselOf(run[w], n)}]
  /\ UNCHANGED <<job, origins, edit, torn, newest, left, promise>>
WriteOneMore(w) == At(w, "write") /\ run[w].done <= run[w].todo /\ Write(w)
WriteVessel(w) == At(w, "write") /\ run[w].done < run[w].todo /\ Write(w)

WroteAll(w) ==
  /\ At(w, "write")
  /\ run[w].done = run[w].todo
  /\ Goto(w, "return")
  /\ UNCHANGED <<job, origins, ranking, edit, torn, newest, left, promise>>

\* The processor returned; without the lock BullMQ ignores it.
Complete(w) ==
  /\ At(w, "return") \/ (At(w, "chain") /\ ~run[w].chain)
  /\ Leave(w)
  /\ IF Holds(w)
       THEN /\ Put(run[w].key, Done)
            /\ IF Kind(w) = "scoring" THEN Ended(run[w].key) ELSE UNCHANGED promise
       ELSE UNCHANGED <<job, promise>>
  /\ UNCHANGED <<origins, ranking, edit, torn, newest, left>>

\* An attempt ends with an error, of the code or because its worker is gone.
GiveBack(k, lost) ==
  LET tries == IF lost THEN job[k].tries ELSE job[k].tries + 1 IN
  IF tries >= MaxAttempts \/ (lost /\ job[k].stalled)
    THEN Put(k, Done) /\ Ended(k)
    ELSE /\ Put(k, [job[k] EXCEPT !.st = "queued", !.tries = tries,
                                  !.stalled = @ \/ lost])
         /\ UNCHANGED promise

Fail(w) ==
  /\ run[w].key # Nobody
  /\ run[w].pc # "return"
  /\ Leave(w)
  /\ IF Holds(w) THEN GiveBack(run[w].key, FALSE) ELSE UNCHANGED <<job, promise>>
  /\ UNCHANGED <<origins, ranking, edit, torn, newest, left>>

\* The lock expires, with its worker (`dead`) or under it.
Stall(w, dead) ==
  /\ run[w].key # Nobody
  /\ Holds(w)
  /\ (MaxCrashes - left["crashes"]) + (MaxStalls - left["stalls"]) < MaxTrouble
  /\ Spend(IF dead THEN "crashes" ELSE "stalls")
  /\ Become(w, IF dead THEN Free ELSE [run[w] EXCEPT !.zombie = TRUE])
  /\ GiveBack(run[w].key, TRUE)
  /\ UNCHANGED <<origins, ranking, edit, torn, newest>>

-----------------------------------------------------------------------------
(* Reweighting *)

\* reweight: the documents as they were read, each with its place in the new order.
StartReweight(a, d) ==
  /\ edit[a].todo = {}
  /\ ranking[d] # {}
  /\ Spend("reweights")
  /\ \E place \in [ranking[d] -> 1..MaxRank] :
       /\ \A u, v \in ranking[d] : u # v => place[u] # place[v]
       /\ \A v \in ranking[d] : place[v] <= Cardinality(ranking[d])
       /\ edit' = [edit EXCEPT ![a] =
            [slick |-> d, todo |-> {[doc |-> v, rank |-> place[v]] : v \in ranking[d]}]]
  /\ torn' = torn \ {d}
  /\ UNCHANGED <<job, run, origins, ranking, newest, promise>>

SameDoc(u, v) == u.batch = v.batch /\ u.nr = v.nr

\* What a save makes of the document that is stored now: a rank equal to the one
\* that was read is not sent.
KeepSeparation(v, read, rank) ==
  [v EXCEPT !.custom = TRUE, !.rank = IF rank = read.rank THEN @ ELSE rank]
Reweighted(v, read, rank) ==
  [v EXCEPT !.custom = TRUE, !.separation = FALSE,
            !.rank = IF rank = read.rank THEN @ ELSE rank]

\* As if a save stored a document that is gone again.
SaveOrRestore(a, e) ==
  LET d   == edit[a].slick
      now == {v \in ranking[d] : SameDoc(v, e.doc)} IN
  /\ e \in edit[a].todo
  /\ \A f \in edit[a].todo : e.rank <= f.rank
  /\ edit' = [edit EXCEPT ![a] = [slick |-> d, todo |-> edit[a].todo \ {e}]]
  /\ ranking' = [ranking EXCEPT ![d] = (@ \ now) \cup {Reweighted(e.doc, e.doc, e.rank)}]
  /\ UNCHANGED <<job, run, origins, newest, left, promise, torn>>

\* doc.save(), in the new order; it throws when the document has been deleted.
SaveReweighted(a, e) ==
  LET d   == edit[a].slick
      now == {v \in ranking[d] : SameDoc(v, e.doc)} IN
  /\ e \in edit[a].todo
  /\ \A f \in edit[a].todo : e.rank <= f.rank
  /\ edit' = [edit EXCEPT ![a] =
       [slick |-> d, todo |-> IF now = {} THEN {} ELSE edit[a].todo \ {e}]]
  /\ ranking' = [ranking EXCEPT ![d] =
       (@ \ now) \cup {Reweighted(v, e.doc, e.rank) : v \in now}]
  /\ UNCHANGED <<job, run, origins, newest, left, promise, torn>>

\* The next save fails for any other reason, or the API stops before it: nothing takes
\* back or finishes what was saved until the slick is reweighted or ranked again.
BreakOff(a) ==
  /\ edit[a].todo # {}
  /\ edit' = [edit EXCEPT ![a].todo = {}]
  /\ torn' = torn \cup {edit[a].slick}
  /\ UNCHANGED <<job, run, origins, ranking, newest, left, promise>>

-----------------------------------------------------------------------------
RunStep(w) ==
  \/ Supersede(w) \/ CreateOrigin(w) \/ Chain(w)
  \/ LoadOrigin(w) \/ QueryAis(w) \/ ReplaceRanking(w) \/ WriteVessel(w) \/ WroteAll(w)
  \/ Complete(w) \/ Fail(w)

Next ==
  \/ \E d \in Ingested : Precompute(d)
  \/ \E d \in Slicks : RequestDrift(d)
  \/ \E d \in Slicks, o \in 1..newest : RequestCorrelate(d, o)
  \/ \E k \in Keys : Cancel(k)
  \/ \E w \in Workers, k \in Keys : Pick(w, k)
  \/ \E w \in Workers : RunStep(w)
  \/ \E w \in Workers, dead \in BOOLEAN : Stall(w, dead)
  \/ \E a \in Analysts, d \in Slicks : StartReweight(a, d)
  \/ \E a \in Analysts : \E e \in edit[a].todo : SaveReweighted(a, e)
  \/ \E a \in Analysts : BreakOff(a)

Spec == Init /\ [][Next]_vars

\* Queued jobs are taken by free slots, and attempts go on to an end.  Requests,
\* cancels and stalls are never forced.
Fairness ==
  /\ \A k \in Keys : WF_vars(\E w \in Workers : Pick(w, k))
  /\ \A w \in Workers : WF_vars(RunStep(w))

FairSpec == Spec /\ Fairness

-----------------------------------------------------------------------------
(* Properties *)

TypeOK ==
  /\ job \in [Keys -> Job]
  /\ run \in [Workers -> Run]
  /\ origins \subseteq Origin
  /\ ranking \in [Slicks -> SUBSET Vessel]
  /\ edit \in [Analysts -> Edit]
  /\ newest \in Nat
  /\ left \in [Bound -> Nat]
  /\ promise \in [Slicks -> Stage]
  /\ torn \subseteq Slicks

NoStallYet == left["stalls"] = MaxStalls

\* origin/service.ts, "a re-run supersedes: two origin estimates for one detection
\* would let the UI show contradictory release zones at once".  As long as no worker
\* goes on without its lock, whatever attempts fail, crash and are repeated, and
\* whatever other cases do with the detection, a case has at most one estimate of it.
\* (Two cases may have one each: their jobs have different keys.)
SingleOrigin ==
  NoStallYet => \A o, p \in origins : o.slick = p.slick => o = p

\* candidates/service.ts, "a re-run supersedes rather than accumulates, so the UI
\* cannot show two contradictory rankings at once": the same for rankings, also
\* while an analyst reweights one that is being replaced.
SingleRanking ==
  NoStallYet =>
    \A d \in Slicks : \A u, v \in ranking[d] : u.batch = v.batch

\* The ranking is not half rearranged: no analyst is in the middle of its saves, and none
\* was broken off in the middle since it was last written or read to be reweighted.
Arranged(d) ==
  d \notin torn /\ \A a \in Analysts : edit[a].slick # d \/ edit[a].todo = {}

\* No two vessels of an arranged ranking share a rank, though the saves of a reweighting
\* are steps of their own between the writes of a job and are not always sent.
RanksDistinct ==
  NoStallYet =>
    \A d \in Slicks : Arranged(d) =>
      \A u, v \in ranking[d] : u.rank = v.rank => u = v

\* candidates/service.ts: a verdict on the separation of a ranking "sitting above a
\* top two the analyst has just rearranged would be the most misleading thing on the
\* screen".  In an arranged ranking no verdict stands over reweighted vessels.
SeparationIsOfThisOrder ==
  NoStallYet =>
    \A d \in Slicks : Arranged(d) =>
      \A u, v \in ranking[d] : u.separation => ~v.custom

\* scenes/ingest.ts, "chain correlation once an origin exists, so the dossier is
\* complete on arrival": when the ingest has queued a drift job, its correlation
\* comes to an end, or one of the two jobs fails, is cancelled or is not queued with
\* an error logged.  No other job or request makes the chain break silently.
PromiseSettles == \A d \in Slicks : promise[d] # "none" ~> promise[d] = "none"

\* What is used of the queue is what it promises: a job is taken back only while it
\* is queued, and given back a bounded number of times (see JobSlot, which JobQueue
\* implements).
UsedOf(j) == j.tries + (IF j.stalled THEN 1 ELSE 0)
Slot == INSTANCE JobSlot WITH
  MaxUses <- MaxAttempts + 1,
  slot <- [k \in Keys |-> job[k].st],
  used <- [k \in Keys |-> UsedOf(job[k])]
KeepsQueuePromise == Slot!Spec

\* processors/correlate.ts, "the scoring always uses the CURRENT origin": vessels are
\* ranked against an estimate that is stored.
ScoresCurrentOrigin ==
  [][\A d \in Slicks :
       \A v \in ranking'[d] :
         (\A u \in ranking[d] : ~SameDoc(u, v)) => \E o \in origins : o.id = v.origin]_ranking

=============================================================================
