-------------------------- MODULE AttributionProofs --------------------------
(***************************************************************************)
(* What holds of Attribution for all detections, worker slots, analysts    *)
(* and bounds: its types; the two "a re-run supersedes" of the source; the *)
(* separation stored with an order is that order's; and, where at most one *)
(* analyst reweights, the ranks of an order are distinct.                  *)
(***************************************************************************)
EXTENDS Attribution, FiniteSetTheorems, FunctionTheorems, TLAPS

-----------------------------------------------------------------------------
(* Types *)

LEMMA KeyParts ==
  ASSUME NEW k \in Keys
  PROVE  k[1] \in {"drift", "scoring"} /\ k[2] \in Slicks /\ k # Nobody
         /\ k = <<k[1], k[2]>>
  BY AttributionAssumption DEF Keys

LEMMA KeyMade ==
  ASSUME NEW d \in Slicks
  PROVE  <<"drift", d>> \in Keys /\ <<"scoring", d>> \in Keys
  BY DEF Keys

LEMMA RunTyped ==
  ASSUME TypeOK, NEW w \in Workers
  PROVE  /\ run[w] \in Run
         /\ run[w].key # Nobody => run[w].key \in Keys /\ Slick(w) \in Slicks
  BY KeyParts DEF TypeOK, Run, Slick

LEMMA Values == NoJob \in Job /\ Done \in Job /\ Free \in Run
<1>1. NoJob \in Job
  BY DEF NoJob, Job
<1>2. Done \in Job
  BY <1>1 DEF Done, Job
<1>3. Free \in Run
  BY AttributionAssumption DEF Free, Run, Pc
<1>4. QED
  BY <1>1, <1>2, <1>3

LEMMA PutTypes ==
  ASSUME TypeOK, NEW k \in Keys, NEW j \in Job, Put(k, j)
  PROVE  job' \in [Keys -> Job]
  BY DEF TypeOK, Put

LEMMA BecomeTypes ==
  ASSUME TypeOK, NEW w \in Workers, NEW r \in Run, Become(w, r)
  PROVE  run' \in [Workers -> Run]
  BY DEF TypeOK, Become

LEMMA GotoTypes ==
  ASSUME TypeOK, NEW w \in Workers, NEW p \in Pc, Goto(w, p)
  PROVE  run' \in [Workers -> Run]
<1>1. [run[w] EXCEPT !.pc = p] \in Run
  BY RunTyped DEF Run
<1>2. QED
  BY <1>1, BecomeTypes DEF Goto

LEMMA LeaveTypes ==
  ASSUME TypeOK, NEW w \in Workers, Leave(w)
  PROVE  run' \in [Workers -> Run]
  BY BecomeTypes, Values DEF Leave

LEMMA EnqueueTypes ==
  ASSUME TypeOK, NEW k \in Keys, NEW chain \in BOOLEAN, NEW o \in Nat,
         Enqueue(k, chain, o)
  PROVE  job' \in [Keys -> Job]
<1>1. [NoJob EXCEPT !.st = "queued", !.chain = chain, !.origin = o] \in Job
  BY Values DEF Job
<1>2. CASE ~Live(k)
  BY <1>1, <1>2, PutTypes DEF Enqueue
<1>3. CASE Live(k)
  BY <1>3 DEF Enqueue, TypeOK
<1>4. QED
  BY <1>2, <1>3

LEMMA EndedTypes ==
  ASSUME TypeOK, NEW k \in Keys, Ended(k)
  PROVE  promise' \in [Slicks -> Stage]
  BY KeyParts DEF TypeOK, Ended, Stage

LEMMA GiveBackTypes ==
  ASSUME TypeOK, NEW k \in Keys, NEW lost \in BOOLEAN, GiveBack(k, lost)
  PROVE  job' \in [Keys -> Job] /\ promise' \in [Slicks -> Stage]
<1> DEFINE tries == IF lost THEN job[k].tries ELSE job[k].tries + 1
<1>1. job[k] \in Job /\ tries \in Nat
  BY DEF TypeOK, Job
<1>2. [job[k] EXCEPT !.st = "queued", !.tries = tries, !.stalled = @ \/ lost] \in Job
  <2> HIDE DEF tries
  <2>1. (job[k].stalled \/ lost) \in BOOLEAN
    OBVIOUS
  <2>2. ASSUME NEW b \in BOOLEAN
        PROVE  [job[k] EXCEPT !.st = "queued", !.tries = tries, !.stalled = b] \in Job
    BY <1>1 DEF Job
  <2>3. QED
    BY <2>1, <2>2
<1>3. CASE tries >= MaxAttempts \/ (lost /\ job[k].stalled)
  BY <1>3, PutTypes, EndedTypes, Values DEF GiveBack
<1>4. CASE ~(tries >= MaxAttempts \/ (lost /\ job[k].stalled))
  BY <1>2, <1>4, PutTypes DEF GiveBack, TypeOK
<1>5. QED
  BY <1>3, <1>4

LEMMA SpendTypes ==
  ASSUME TypeOK, NEW b \in Bound, Spend(b)
  PROVE  left' \in [Bound -> Nat]
  BY DEF TypeOK, Spend

LEMMA IngestedSlicks == Ingested \subseteq Slicks
  BY AttributionAssumption DEF Ingested, Slicks

LEMMA InitTypes == Init => TypeOK
<1> SUFFICES ASSUME Init PROVE TypeOK
  OBVIOUS
<1>1. left \in [Bound -> Nat]
  <2>1. ASSUME NEW b \in Bound PROVE left[b] \in Nat
    BY AttributionAssumption DEF Init, Bound
  <2>2. QED
    BY <2>1 DEF Init
<1>2. edit \in [Analysts -> Edit]
  <2>1. (CHOOSE d \in Slicks : TRUE) \in Slicks
    BY AttributionAssumption
  <2>2. QED
    BY <2>1 DEF Init, Edit
<1>3. QED
  BY <1>1, <1>2, Values DEF Init, TypeOK, Stage

LEMMA CreatedTyped ==
  ASSUME TypeOK, NEW w \in Workers, NEW n \in Nat
  PROVE  [run[w] EXCEPT !.origin = n, !.pc = "chain"] \in Run
  BY RunTyped DEF Run, Pc

LEMMA ReplacedTyped ==
  ASSUME TypeOK, NEW w \in Workers, NEW b \in Nat, NEW n \in 0..MaxRank
  PROVE  [run[w] EXCEPT !.batch = b, !.todo = n, !.pc = "write"] \in Run
  BY RunTyped DEF Run, Pc

LEMMA WriteTypes ==
  ASSUME TypeOK, NEW w \in Workers, WriteVessel(w)
  PROVE  /\ run' \in [Workers -> Run]
         /\ ranking' \in [Slicks -> SUBSET Vessel]
         /\ Slick(w) \in Slicks
<1>1. run[w] \in Run /\ Slick(w) \in Slicks
  BY RunTyped DEF WriteVessel, At
<1> DEFINE n == run[w].done + 1
<1>2. n \in 1..MaxRank
  <2>1. run[w].done \in 0..MaxRank /\ run[w].todo \in 0..MaxRank /\ run[w].done < run[w].todo
    BY <1>1 DEF WriteVessel, Run
  <2>2. MaxRank \in Nat
    BY AttributionAssumption
  <2>3. QED
    BY <2>1, <2>2
<1>3. [run[w] EXCEPT !.done = n] \in Run
  <2> HIDE DEF n
  <2>1. n \in 0..MaxRank
    BY <1>2, AttributionAssumption
  <2>2. QED
    BY <1>1, <2>1 DEF Run
<1>4. VesselOf(run[w], n) \in Vessel
  <2> HIDE DEF n
  <2>1. run[w].batch \in Nat /\ run[w].origin \in Nat
    BY <1>1 DEF Run
  <2>2. (n = 1 /\ run[w].todo > 1) \in BOOLEAN
    OBVIOUS
  <2>3. QED
    BY <1>2, <2>1, <2>2 DEF VesselOf, Vessel
<1>5. Become(w, [run[w] EXCEPT !.done = n])
      /\ ranking' = [ranking EXCEPT ![Slick(w)] = @ \cup {VesselOf(run[w], n)}]
  BY DEF WriteVessel, Write
<1> HIDE DEF n
<1>6. run' \in [Workers -> Run]
  BY <1>3, <1>5, BecomeTypes
<1>7. ranking' \in [Slicks -> SUBSET Vessel]
  BY <1>1, <1>4, <1>5 DEF TypeOK
<1>8. QED
  BY <1>1, <1>6, <1>7

LEMMA ReweightedTyped ==
  ASSUME NEW v \in Vessel, NEW read \in Vessel, NEW rank \in 1..MaxRank
  PROVE  Reweighted(v, read, rank) \in Vessel
<1>1. CASE rank = read.rank
  BY <1>1 DEF Reweighted, Vessel
<1>2. CASE rank # read.rank
  BY <1>2 DEF Reweighted, Vessel
<1>3. QED
  BY <1>1, <1>2

LEMMA StartReweightTypes ==
  ASSUME TypeOK, NEW a \in Analysts, NEW d \in Slicks, StartReweight(a, d)
  PROVE  edit' \in [Analysts -> Edit]
<1>1. PICK place \in [ranking[d] -> 1..MaxRank] :
        edit' = [edit EXCEPT ![a] =
          [slick |-> d, todo |-> {[doc |-> v, rank |-> place[v]] : v \in ranking[d]}]]
  BY DEF StartReweight
<1> DEFINE todo == {[doc |-> v, rank |-> place[v]] : v \in ranking[d]}
<1>2. ranking[d] \subseteq Vessel
  BY DEF TypeOK
<1>3. todo \in SUBSET [doc : Vessel, rank : 1..MaxRank]
  BY <1>2
<1>4. [slick |-> d, todo |-> todo] \in Edit
  <2> HIDE DEF todo
  <2>1. QED
    BY <1>3 DEF Edit
<1>5. edit' = [edit EXCEPT ![a] = [slick |-> d, todo |-> todo]]
  BY <1>1
<1> HIDE DEF todo
<1>6. QED
  BY <1>4, <1>5 DEF TypeOK

LEMMA SaveTypes ==
  ASSUME TypeOK, NEW a \in Analysts, NEW e \in edit[a].todo, SaveReweighted(a, e)
  PROVE  /\ edit' \in [Analysts -> Edit]
         /\ ranking' \in [Slicks -> SUBSET Vessel]
         /\ edit[a].slick \in Slicks
<1> DEFINE d == edit[a].slick
           now == {v \in ranking[d] : SameDoc(v, e.doc)}
           todo == IF now = {} THEN {} ELSE edit[a].todo \ {e}
           saved == {Reweighted(v, e.doc, e.rank) : v \in now}
<1>1. edit[a] \in Edit
  BY DEF TypeOK
<1>2. d \in Slicks /\ e \in [doc : Vessel, rank : 1..MaxRank]
      /\ edit[a].todo \in SUBSET [doc : Vessel, rank : 1..MaxRank]
  BY <1>1 DEF Edit
<1>3. ranking[d] \subseteq Vessel
  BY <1>2 DEF TypeOK
<1>4. saved \subseteq Vessel
  <2>1. e.doc \in Vessel /\ e.rank \in 1..MaxRank
    BY <1>2
  <2>2. QED
    BY <1>3, <2>1, ReweightedTyped
<1>5. edit' = [edit EXCEPT ![a] = [slick |-> d, todo |-> todo]]
      /\ ranking' = [ranking EXCEPT ![d] = (ranking[d] \ now) \cup saved]
  BY <1>1, <1>2 DEF SaveReweighted, TypeOK
<1> HIDE DEF saved, now
<1>6. todo \subseteq edit[a].todo
  <2>1. CASE now = {}
    BY <2>1
  <2>2. CASE now # {}
    BY <2>2
  <2>3. QED
    BY <2>1, <2>2
<1> HIDE DEF todo
<1>7. [slick |-> d, todo |-> todo] \in Edit
  BY <1>2, <1>6 DEF Edit
<1>8. QED
  BY <1>2, <1>3, <1>4, <1>5, <1>7 DEF TypeOK

\* What breaking off a reweighting changes.
LEMMA BrokenOff ==
  ASSUME TypeOK, NEW a \in Analysts, BreakOff(a)
  PROVE  /\ edit' \in [Analysts -> Edit]
         /\ edit[a].slick \in Slicks
         /\ edit'[a].slick = edit[a].slick /\ edit'[a].todo = {}
         /\ \A b \in Analysts : b # a => edit'[b] = edit[b]
         /\ \A b \in Analysts : /\ edit'[b].slick = edit[b].slick
                               /\ edit'[b].todo \subseteq edit[b].todo
         /\ torn' = torn \cup {edit[a].slick}
         /\ run' = run /\ ranking' = ranking /\ origins' = origins
         /\ newest' = newest /\ job' = job /\ left' = left
<1>1. edit[a] \in Edit /\ edit \in [Analysts -> Edit]
  BY DEF TypeOK
<1>2. edit' = [edit EXCEPT ![a] = [edit[a] EXCEPT !.todo = {}]]
  BY DEF BreakOff
<1>3. /\ [edit[a] EXCEPT !.todo = {}] \in Edit
      /\ [edit[a] EXCEPT !.todo = {}].slick = edit[a].slick
      /\ [edit[a] EXCEPT !.todo = {}].todo = {}
      /\ edit[a].slick \in Slicks
  BY <1>1 DEF Edit
<1>4. QED
  BY <1>1, <1>2, <1>3 DEF BreakOff

LEMMA StepTypes == TypeOK /\ [Next]_vars => TypeOK'
<1> SUFFICES ASSUME TypeOK, [Next]_vars PROVE TypeOK'
  OBVIOUS
<1> USE DEF TypeOK
<1>1. ASSUME NEW d \in Slicks, Precompute(d) PROVE TypeOK'
  <2>1. job' \in [Keys -> Job] /\ left' \in [Bound -> Nat]
    BY <1>1, KeyMade, EnqueueTypes, SpendTypes DEF Precompute, Bound
  <2>2. promise' \in [Slicks -> Stage]
    BY <1>1 DEF Precompute, Stage
  <2>3. QED
    BY <1>1, <2>1, <2>2 DEF Precompute
<1>2. ASSUME NEW d \in Slicks, RequestDrift(d) PROVE TypeOK'
  BY <1>2, KeyMade, EnqueueTypes, SpendTypes DEF RequestDrift, Bound
<1>3. ASSUME NEW d \in Slicks, NEW o \in 1..newest, RequestCorrelate(d, o) PROVE TypeOK'
  <2>1. o \in Nat
    OBVIOUS
  <2>2. QED
    BY <1>3, <2>1, KeyMade, EnqueueTypes, SpendTypes DEF RequestCorrelate, Bound
<1>4. ASSUME NEW k \in Keys, Cancel(k) PROVE TypeOK'
  BY <1>4, PutTypes, Values, EndedTypes, SpendTypes DEF Cancel, Bound
<1>5. ASSUME NEW w \in Workers, NEW k \in Keys, Pick(w, k) PROVE TypeOK'
  <2>1. job[k] \in Job
    OBVIOUS
  <2>2. [job[k] EXCEPT !.st = "running"] \in Job
    BY <2>1 DEF Job
  <2>3. ASSUME NEW p \in Pc
        PROVE  [Free EXCEPT !.key = k, !.chain = job[k].chain, !.origin = job[k].origin,
                            !.pc = p] \in Run
    BY <2>1, Values DEF Job, Run
  <2>4. (IF k[1] = "drift" THEN "compute" ELSE "load") \in Pc
    BY DEF Pc
  <2>5. QED
    BY <1>5, <2>2, <2>3, <2>4, PutTypes, BecomeTypes DEF Pick
<1>6. ASSUME NEW w \in Workers, Supersede(w) PROVE TypeOK'
  BY <1>6, GotoTypes DEF Supersede, Pc
<1>7. ASSUME NEW w \in Workers, CreateOrigin(w) PROVE TypeOK'
  <2>1. newest + 1 \in Nat
    OBVIOUS
  <2>2. run' \in [Workers -> Run]
    BY <1>7, <2>1, CreatedTyped, BecomeTypes DEF CreateOrigin
  <2>3. [id |-> newest + 1, slick |-> Slick(w)] \in Origin
    BY <1>7, <2>1, RunTyped DEF CreateOrigin, At, Origin
  <2>4. QED
    BY <1>7, <2>1, <2>2, <2>3 DEF CreateOrigin
<1>8. ASSUME NEW w \in Workers, Chain(w) PROVE TypeOK'
  <2>1. run[w].origin \in Nat /\ Slick(w) \in Slicks
    BY <1>8, RunTyped DEF Chain, At, Run
  <2>2. job' \in [Keys -> Job]
    BY <1>8, <2>1, KeyMade, EnqueueTypes DEF Chain
  <2>3. run' \in [Workers -> Run]
    BY <1>8, GotoTypes DEF Chain, Pc
  <2>4. promise' \in [Slicks -> Stage]
    BY <1>8 DEF Chain, Stage
  <2>5. QED
    BY <1>8, <2>2, <2>3, <2>4 DEF Chain
<1>9. ASSUME NEW w \in Workers, LoadOrigin(w) PROVE TypeOK'
  BY <1>9, GotoTypes DEF LoadOrigin, Pc
<1>10. ASSUME NEW w \in Workers, QueryAis(w) PROVE TypeOK'
  BY <1>10, GotoTypes DEF QueryAis, Pc
<1>11. ASSUME NEW w \in Workers, ReplaceRanking(w) PROVE TypeOK'
  <2>1. newest + 1 \in Nat
    OBVIOUS
  <2>2. run' \in [Workers -> Run]
    BY <1>11, <2>1, ReplacedTyped, BecomeTypes DEF ReplaceRanking
  <2>3. QED
    BY <1>11, <2>1, <2>2 DEF ReplaceRanking
<1>12. ASSUME NEW w \in Workers, WriteVessel(w) PROVE TypeOK'
  BY <1>12, WriteTypes DEF WriteVessel, Write
<1>13. ASSUME NEW w \in Workers, WroteAll(w) PROVE TypeOK'
  BY <1>13, GotoTypes DEF WroteAll, Pc
<1>14. ASSUME NEW w \in Workers, Complete(w) PROVE TypeOK'
  <2>1. run[w].key \in Keys
    BY <1>14, RunTyped DEF Complete, At
  <2>2. job' \in [Keys -> Job] /\ promise' \in [Slicks -> Stage]
    BY <1>14, <2>1, PutTypes, Values, EndedTypes DEF Complete
  <2>3. QED
    BY <1>14, <2>2, LeaveTypes DEF Complete
<1>15. ASSUME NEW w \in Workers, Fail(w) PROVE TypeOK'
  <2>1. run[w].key \in Keys
    BY <1>15, RunTyped DEF Fail
  <2>2. job' \in [Keys -> Job] /\ promise' \in [Slicks -> Stage]
    BY <1>15, <2>1, GiveBackTypes DEF Fail
  <2>3. QED
    BY <1>15, <2>2, LeaveTypes DEF Fail
<1>16. ASSUME NEW w \in Workers, NEW dead \in BOOLEAN, Stall(w, dead) PROVE TypeOK'
  <2>1. run[w].key \in Keys /\ run[w] \in Run
    BY <1>16, RunTyped DEF Stall
  <2>2. job' \in [Keys -> Job] /\ promise' \in [Slicks -> Stage]
    BY <1>16, <2>1, GiveBackTypes DEF Stall
  <2>3. [run[w] EXCEPT !.zombie = TRUE] \in Run
    BY <2>1 DEF Run
  <2>4. run' \in [Workers -> Run]
    BY <1>16, <2>3, Values, BecomeTypes DEF Stall
  <2>5. left' \in [Bound -> Nat]
    BY <1>16, SpendTypes DEF Stall, Bound
  <2>6. QED
    BY <1>16, <2>2, <2>4, <2>5 DEF Stall
<1>17. ASSUME NEW a \in Analysts, NEW d \in Slicks, StartReweight(a, d) PROVE TypeOK'
  BY <1>17, StartReweightTypes, SpendTypes DEF StartReweight, Bound
<1>18. ASSUME NEW a \in Analysts, NEW e \in edit[a].todo, SaveReweighted(a, e) PROVE TypeOK'
  BY <1>18, SaveTypes DEF SaveReweighted
<1>19. ASSUME NEW a \in Analysts, BreakOff(a) PROVE TypeOK'
  BY <1>19, BrokenOff DEF BreakOff
<1>20. CASE UNCHANGED vars
  BY <1>20 DEF vars
<1>21. QED
  BY <1>1, <1>2, <1>3, <1>4, <1>5, <1>6, <1>7, <1>8, <1>9, <1>10, <1>11, <1>12, <1>13,
     <1>14, <1>15, <1>16, <1>17, <1>18, <1>19, <1>20, IngestedSlicks DEF Next, RunStep

\* Jobs, attempts, stored estimates and rankings keep their types.
THEOREM TypeCorrect == Spec => []TypeOK
  BY InitTypes, StepTypes, PTL DEF Spec

-----------------------------------------------------------------------------
(* One attempt of a job at a time, apart from those that lost their lock *)

DriftPc   == {"compute", "create", "chain"}
ScoringPc == {"load", "query", "replace", "write"}

KindOK(r) ==
  r.key # Nobody =>
    /\ r.pc \in DriftPc => r.key[1] = "drift"
    /\ r.pc \in ScoringPc => r.key[1] = "scoring"
PcOfKind == \A w \in Workers : KindOK(run[w])

Exclusive ==
  /\ left["stalls"] <= MaxStalls
  /\ NoStallYet => \A w \in Workers : run[w].key # Nobody => ~run[w].zombie
  /\ \A w \in Workers :
       run[w].key # Nobody /\ ~run[w].zombie => job[run[w].key].st = "running"
  /\ \A w, v \in Workers :
       run[w].key # Nobody /\ ~run[w].zombie /\ ~run[v].zombie /\ run[w].key = run[v].key
         => w = v

JobsKeep == \A k \in Keys : job[k].st = "running" => job'[k].st = "running"
JobsKeepBut(j) == \A k \in Keys : k # j => job'[k] = job[k]

LEMMA EnqueueKeeps ==
  ASSUME TypeOK, NEW k \in Keys, NEW chain, NEW o, Enqueue(k, chain, o)
  PROVE  JobsKeep
<1>1. CASE ~Live(k)
  BY <1>1 DEF Enqueue, Live, Put, JobsKeep, TypeOK
<1>2. CASE Live(k)
  BY <1>2 DEF Enqueue, JobsKeep
<1>3. QED
  BY <1>1, <1>2

LEMMA PutKeepsOthers ==
  ASSUME TypeOK, NEW k \in Keys, NEW j, Put(k, j)
  PROVE  JobsKeepBut(k)
  BY DEF Put, JobsKeepBut, TypeOK

LEMMA GiveBackKeepsOthers ==
  ASSUME TypeOK, NEW k \in Keys, NEW lost, GiveBack(k, lost)
  PROVE  JobsKeepBut(k)
  BY PutKeepsOthers DEF GiveBack

\* What a step may do to the slots and to the jobs they work for.
AdvancesRun == \E w \in Workers, r \in Run :
  /\ Become(w, r)
  /\ run[w].key # Nobody /\ r.key = run[w].key /\ r.zombie = run[w].zombie
  /\ KindOK(r)
  /\ JobsKeep
KeepsRuns == run' = run /\ JobsKeep
PicksJob  == \E w \in Workers, k \in Keys : Pick(w, k)
EndsRun   == \E w \in Workers :
  /\ Leave(w)
  /\ run[w].key # Nobody
  /\ JobsKeepBut(run[w].key)
  /\ run[w].zombie => JobsKeep
LosesLock == \E w \in Workers :
  /\ Become(w, [run[w] EXCEPT !.zombie = TRUE])
  /\ Spend("stalls")
  /\ run[w].key # Nobody /\ ~run[w].zombie
  /\ JobsKeepBut(run[w].key)

LEMMA GotoAdvances ==
  ASSUME TypeOK, PcOfKind, NEW w \in Workers, NEW p \in Pc, NEW q \in Pc,
         At(w, p), Goto(w, q), JobsKeep,
         q = "return" \/ (p \in DriftPc /\ q \in DriftPc) \/ (p \in ScoringPc /\ q \in ScoringPc)
  PROVE  AdvancesRun
<1> DEFINE r == [run[w] EXCEPT !.pc = q]
<1>1. run[w] \in Run /\ run[w].pc = p /\ run[w].key # Nobody
  BY RunTyped DEF At
<1>2. r \in Run /\ r.key = run[w].key /\ r.zombie = run[w].zombie /\ r.pc = q
  BY <1>1 DEF Run
<1>3. KindOK(run[w])
  BY DEF PcOfKind
<1>4. KindOK(r)
  <2> HIDE DEF r
  <2>1. QED
    BY <1>1, <1>2, <1>3 DEF KindOK, DriftPc, ScoringPc
<1>5. Become(w, r)
  BY DEF Goto
<1> HIDE DEF r
<1>6. QED
  BY <1>1, <1>2, <1>4, <1>5 DEF AdvancesRun

LEMMA SameJobsKeep == ASSUME job' = job PROVE JobsKeep
  BY DEF JobsKeep

LEMMA Moves ==
  ASSUME TypeOK, PcOfKind, [Next]_vars
  PROVE  AdvancesRun \/ KeepsRuns \/ PicksJob \/ EndsRun \/ LosesLock
<1>1. ASSUME NEW d \in Slicks, Precompute(d) PROVE KeepsRuns
  BY <1>1, KeyMade, EnqueueKeeps DEF Precompute, KeepsRuns
<1>2. ASSUME NEW d \in Slicks, RequestDrift(d) PROVE KeepsRuns
  BY <1>2, KeyMade, EnqueueKeeps DEF RequestDrift, KeepsRuns
<1>3. ASSUME NEW d \in Slicks, NEW o \in 1..newest, RequestCorrelate(d, o)
      PROVE  KeepsRuns
  BY <1>3, KeyMade, EnqueueKeeps DEF RequestCorrelate, KeepsRuns
<1>4. ASSUME NEW k \in Keys, Cancel(k) PROVE KeepsRuns
  BY <1>4 DEF Cancel, KeepsRuns, Put, JobsKeep, TypeOK
<1>5. ASSUME NEW w \in Workers, Supersede(w) PROVE AdvancesRun
  BY <1>5, SameJobsKeep, GotoAdvances DEF Supersede, Pc, DriftPc
<1>6. ASSUME NEW w \in Workers, CreateOrigin(w) PROVE AdvancesRun
  <2> DEFINE r == [run[w] EXCEPT !.origin = newest + 1, !.pc = "chain"]
  <2>1. r \in Run
    <3>1. newest + 1 \in Nat
      BY DEF TypeOK
    <3>2. QED
      BY <3>1, CreatedTyped
  <2>2. run[w] \in Run /\ run[w].pc = "create" /\ run[w].key # Nobody
    BY <1>6, RunTyped DEF CreateOrigin, At
  <2>3. r.key = run[w].key /\ r.zombie = run[w].zombie /\ r.pc = "chain"
    BY <2>2 DEF Run
  <2>4. KindOK(run[w])
    BY DEF PcOfKind
  <2>5. Become(w, r) /\ JobsKeep
    BY <1>6, SameJobsKeep DEF CreateOrigin
  <2> HIDE DEF r
  <2>6. KindOK(r)
    BY <2>2, <2>3, <2>4 DEF KindOK, DriftPc, ScoringPc
  <2>7. QED
    BY <2>1, <2>2, <2>3, <2>5, <2>6 DEF AdvancesRun
<1>7. ASSUME NEW w \in Workers, Chain(w) PROVE AdvancesRun
  <2>1. JobsKeep
    <3>1. Slick(w) \in Slicks
      BY <1>7, RunTyped DEF Chain, At
    <3>2. QED
      BY <1>7, <3>1, KeyMade, EnqueueKeeps, SameJobsKeep DEF Chain
  <2>2. QED
    BY <1>7, <2>1, GotoAdvances DEF Chain, Pc, DriftPc
<1>8. ASSUME NEW w \in Workers, LoadOrigin(w) PROVE AdvancesRun
  BY <1>8, SameJobsKeep, GotoAdvances DEF LoadOrigin, Pc, ScoringPc
<1>9. ASSUME NEW w \in Workers, QueryAis(w) PROVE AdvancesRun
  BY <1>9, SameJobsKeep, GotoAdvances DEF QueryAis, Pc, ScoringPc
<1>10. ASSUME NEW w \in Workers, ReplaceRanking(w) PROVE AdvancesRun
  <2>1. PICK n \in 0..MaxRank :
          Become(w, [run[w] EXCEPT !.batch = newest + 1, !.todo = n, !.pc = "write"])
    BY <1>10 DEF ReplaceRanking
  <2> DEFINE r == [run[w] EXCEPT !.batch = newest + 1, !.todo = n, !.pc = "write"]
  <2>2. r \in Run
    <3>1. newest + 1 \in Nat
      BY DEF TypeOK
    <3>2. QED
      BY <3>1, ReplacedTyped
  <2>3. run[w] \in Run /\ run[w].pc = "replace" /\ run[w].key # Nobody
    BY <1>10, RunTyped DEF ReplaceRanking, At
  <2>4. r.key = run[w].key /\ r.zombie = run[w].zombie /\ r.pc = "write"
    BY <2>3 DEF Run
  <2>5. KindOK(run[w])
    BY DEF PcOfKind
  <2>6. Become(w, r) /\ JobsKeep
    BY <1>10, <2>1, SameJobsKeep DEF ReplaceRanking
  <2> HIDE DEF r
  <2>7. KindOK(r)
    BY <2>3, <2>4, <2>5 DEF KindOK, DriftPc, ScoringPc
  <2>8. QED
    BY <2>2, <2>3, <2>4, <2>6, <2>7 DEF AdvancesRun
<1>11. ASSUME NEW w \in Workers, WriteVessel(w) PROVE AdvancesRun
  <2> DEFINE r == [run[w] EXCEPT !.done = run[w].done + 1]
  <2>1. run[w] \in Run /\ run[w].pc = "write" /\ run[w].key # Nobody
    BY <1>11, RunTyped DEF WriteVessel, At
  <2>2. r.key = run[w].key /\ r.zombie = run[w].zombie /\ r.pc = run[w].pc
    BY <2>1 DEF Run
  <2>3. Become(w, r) /\ JobsKeep
    BY <1>11, SameJobsKeep DEF WriteVessel, Write
  <2>4. r \in Run
    <3>1. run' \in [Workers -> Run] /\ run' = [run EXCEPT ![w] = r]
      BY <1>11, <2>3, WriteTypes DEF Become
    <3> HIDE DEF r
    <3>2. run'[w] = r
      BY <3>1 DEF TypeOK
    <3>3. QED
      BY <3>1, <3>2
  <2>5. KindOK(run[w])
    BY DEF PcOfKind
  <2> HIDE DEF r
  <2>6. KindOK(r)
    BY <2>2, <2>5 DEF KindOK
  <2>7. QED
    BY <2>1, <2>2, <2>3, <2>4, <2>6 DEF AdvancesRun
<1>12. ASSUME NEW w \in Workers, WroteAll(w) PROVE AdvancesRun
  BY <1>12, SameJobsKeep, GotoAdvances DEF WroteAll, Pc, ScoringPc
<1>13. ASSUME NEW w \in Workers, Complete(w) PROVE EndsRun
  <2>1. run[w].key \in Keys /\ run[w].key # Nobody
    BY <1>13, RunTyped DEF Complete, At
  <2>2. JobsKeepBut(run[w].key) /\ (run[w].zombie => JobsKeep)
    BY <1>13, <2>1, PutKeepsOthers, SameJobsKeep DEF Complete, Holds, JobsKeepBut
  <2>3. QED
    BY <1>13, <2>1, <2>2 DEF Complete, EndsRun
<1>14. ASSUME NEW w \in Workers, Fail(w) PROVE EndsRun
  <2>1. run[w].key \in Keys /\ run[w].key # Nobody
    BY <1>14, RunTyped DEF Fail
  <2>2. JobsKeepBut(run[w].key) /\ (run[w].zombie => JobsKeep)
    BY <1>14, <2>1, GiveBackKeepsOthers, SameJobsKeep DEF Fail, Holds, JobsKeepBut
  <2>3. QED
    BY <1>14, <2>1, <2>2 DEF Fail, EndsRun
<1>15. ASSUME NEW w \in Workers, NEW dead \in BOOLEAN, Stall(w, dead)
       PROVE  EndsRun \/ LosesLock
  <2>1. run[w].key \in Keys /\ run[w].key # Nobody /\ ~run[w].zombie
    BY <1>15, RunTyped DEF Stall, Holds
  <2>2. JobsKeepBut(run[w].key)
    BY <1>15, <2>1, GiveBackKeepsOthers DEF Stall
  <2>3. CASE dead
    BY <1>15, <2>1, <2>2, <2>3 DEF Stall, EndsRun, Leave
  <2>4. CASE ~dead
    BY <1>15, <2>1, <2>2, <2>4 DEF Stall, LosesLock
  <2>5. QED
    BY <2>3, <2>4
<1>16. ASSUME NEW a \in Analysts, NEW d \in Slicks, StartReweight(a, d) PROVE KeepsRuns
  BY <1>16 DEF StartReweight, KeepsRuns, JobsKeep
<1>17. ASSUME NEW a \in Analysts, NEW e \in edit[a].todo, SaveReweighted(a, e)
       PROVE  KeepsRuns
  BY <1>17 DEF SaveReweighted, KeepsRuns, JobsKeep
<1>18. ASSUME NEW a \in Analysts, BreakOff(a) PROVE KeepsRuns
  BY <1>18 DEF BreakOff, KeepsRuns, JobsKeep
<1>19. CASE UNCHANGED vars
  BY <1>19 DEF vars, KeepsRuns, JobsKeep
<1>20. QED
  BY <1>1, <1>2, <1>3, <1>4, <1>5, <1>6, <1>7, <1>8, <1>9, <1>10, <1>11, <1>12, <1>13,
     <1>14, <1>15, <1>16, <1>17, <1>18, <1>19, IngestedSlicks DEF Next, RunStep, PicksJob

\* The attempts under way that hold their lock are of different jobs, which the queue
\* holds as running; as long as no lock is lost, these are all attempts.
LEMMA ExclusiveInit == Init => Exclusive /\ PcOfKind
  BY AttributionAssumption DEF Init, Exclusive, PcOfKind, KindOK, Bound, Free

LEMMA StallsDecrease ==
  ASSUME TypeOK, [Next]_vars
  PROVE  left'["stalls"] <= left["stalls"]
<1>1. \A b \in Bound : left[b] \in Nat
  BY DEF TypeOK
<1>2. ASSUME NEW b \in Bound, Spend(b) PROVE left'["stalls"] <= left["stalls"]
  BY <1>1, <1>2 DEF Spend, Bound, TypeOK
<1>3. CASE left' = left
  BY <1>1, <1>3 DEF Bound
<1>4. QED
  <2>1. \/ left' = left
        \/ \E b \in Bound : Spend(b)
    BY DEF Next, RunStep, vars, Bound, Precompute, RequestDrift, RequestCorrelate, Cancel,
       Pick, Supersede, CreateOrigin, Chain, LoadOrigin, QueryAis, ReplaceRanking,
       WriteVessel, Write, WroteAll, Complete, Fail, Stall, StartReweight, SaveReweighted,
       BreakOff
  <2>2. QED
    BY <1>2, <1>3, <2>1

LEMMA ExclusiveStep ==
  ASSUME TypeOK, PcOfKind, Exclusive, [Next]_vars
  PROVE  PcOfKind' /\ Exclusive'
<1>1. /\ left["stalls"] \in Nat /\ left'["stalls"] \in Nat /\ MaxStalls \in Nat
      /\ left'["stalls"] <= left["stalls"] /\ left["stalls"] <= MaxStalls
  BY StallsDecrease, StepTypes, AttributionAssumption DEF TypeOK, Bound, Exclusive
<1>2. left'["stalls"] <= MaxStalls /\ (NoStallYet' => NoStallYet)
  BY <1>1 DEF NoStallYet
<1>3. \A w \in Workers : run[w].key # Nobody => run[w].key \in Keys
  BY RunTyped
<1>4. CASE AdvancesRun
  <2>1. PICK w \in Workers, r \in Run :
          /\ Become(w, r)
          /\ run[w].key # Nobody /\ r.key = run[w].key /\ r.zombie = run[w].zombie
          /\ KindOK(r)
          /\ JobsKeep
    BY <1>4 DEF AdvancesRun
  <2>2. \A v \in Workers : run'[v] = IF v = w THEN r ELSE run[v]
    BY <2>1 DEF Become, TypeOK
  <2>3. \A v \in Workers : run'[v].key = run[v].key /\ run'[v].zombie = run[v].zombie
    BY <2>1, <2>2
  <2>4. \A v \in Workers : KindOK(run'[v])
    BY <2>1, <2>2 DEF PcOfKind
  <2>5. QED
    BY <1>2, <1>3, <2>1, <2>3, <2>4 DEF PcOfKind, KindOK, Exclusive, JobsKeep
<1>5. CASE KeepsRuns
  BY <1>2, <1>3, <1>5 DEF KeepsRuns, PcOfKind, KindOK, Exclusive, JobsKeep
<1>6. CASE PicksJob
  <2>1. PICK w \in Workers, k \in Keys : Pick(w, k)
    BY <1>6 DEF PicksJob
  <2> DEFINE r == [Free EXCEPT !.key = k, !.chain = job[k].chain, !.origin = job[k].origin,
                               !.pc = IF k[1] = "drift" THEN "compute" ELSE "load"]
  <2>2. r.key = k /\ r.zombie = FALSE
        /\ r.pc = (IF k[1] = "drift" THEN "compute" ELSE "load")
    BY DEF Free
  <2>3. \A v \in Workers : run'[v] = IF v = w THEN r ELSE run[v]
    BY <2>1 DEF Pick, Become, TypeOK
  <2>4. job' = [job EXCEPT ![k] = [job[k] EXCEPT !.st = "running"]] /\ job[k].st = "queued"
        /\ job[k] \in Job
    BY <2>1 DEF Pick, Put, TypeOK
  <2>5. \A j \in Keys : job'[j] = IF j = k THEN [job[k] EXCEPT !.st = "running"] ELSE job[j]
    BY <2>4 DEF TypeOK
  <2>6. job'[k].st = "running"
    BY <2>4, <2>5 DEF Job
  <2> HIDE DEF r
  <2>7. KindOK(r)
    BY <2>2, KeyParts DEF KindOK, DriftPc, ScoringPc
  <2>8. \A v \in Workers : KindOK(run'[v])
    BY <2>3, <2>7 DEF PcOfKind
  <2>9. \A v \in Workers : run[v].key = k => run[v].zombie
    BY <2>4, KeyParts DEF Exclusive
  <2>10. QED
    BY <1>2, <1>3, <2>2, <2>3, <2>5, <2>6, <2>8, <2>9 DEF PcOfKind, KindOK, Exclusive
<1>7. CASE EndsRun
  <2>1. PICK w \in Workers :
          /\ Leave(w) /\ run[w].key # Nobody /\ JobsKeepBut(run[w].key)
          /\ run[w].zombie => JobsKeep
    BY <1>7 DEF EndsRun
  <2>2. \A v \in Workers : run'[v] = IF v = w THEN Free ELSE run[v]
    BY <2>1 DEF Leave, Become, TypeOK
  <2>3. Free.key = Nobody
    BY DEF Free
  <2>4. \A v \in Workers : KindOK(run'[v])
    BY <2>2, <2>3 DEF PcOfKind, KindOK
  <2>5. ASSUME NEW v \in Workers, run'[v].key # Nobody
        PROVE  /\ run'[v] = run[v]
               /\ ~run[v].zombie => job'[run[v].key].st = "running"
    <3>1. v # w /\ run'[v] = run[v]
      BY <2>2, <2>3, <2>5
    <3>2. ASSUME ~run[v].zombie PROVE job'[run[v].key].st = "running"
      BY <1>3, <2>1, <2>5, <3>1, <3>2 DEF Exclusive, JobsKeepBut, JobsKeep
    <3>3. QED
      BY <3>1, <3>2
  <2>6. QED
    BY <1>2, <2>4, <2>5 DEF PcOfKind, KindOK, Exclusive
<1>8. CASE LosesLock
  <2>1. PICK w \in Workers :
          /\ Become(w, [run[w] EXCEPT !.zombie = TRUE]) /\ Spend("stalls")
          /\ run[w].key # Nobody /\ ~run[w].zombie /\ JobsKeepBut(run[w].key)
    BY <1>8 DEF LosesLock
  <2>2. ~NoStallYet'
    BY <1>1, <2>1 DEF Spend, NoStallYet, TypeOK, Bound
  <2>3. \A v \in Workers : run'[v].key = run[v].key /\ run'[v].pc = run[v].pc
    BY <2>1 DEF Become, TypeOK, Run
  <2>4. run'[w].zombie /\ \A v \in Workers : v # w => run'[v] = run[v]
    BY <2>1 DEF Become, TypeOK, Run
  <2>5. ASSUME NEW v \in Workers, run'[v].key # Nobody, ~run'[v].zombie
        PROVE  run'[v] = run[v] /\ job'[run[v].key].st = "running"
    BY <1>3, <2>1, <2>4, <2>5 DEF Exclusive, JobsKeepBut
  <2>6. PcOfKind'
    BY <2>3 DEF PcOfKind, KindOK
  <2>7. QED
    BY <1>2, <2>2, <2>5, <2>6 DEF Exclusive
<1>9. QED
  BY <1>4, <1>5, <1>6, <1>7, <1>8, Moves

-----------------------------------------------------------------------------
(* The jobs do what JobSlot promises of the queue *)

TriesInv == \A k \in Keys : Live(k) => job[k].tries < MaxAttempts

\* What may become of the job of a key.
JobMove(i, j) ==
  /\ j.tries < MaxAttempts
  /\ \/ i.st \in {"idle", "ended"} /\ j.st = "queued" /\ UsedOf(j) = 0
     \/ i.st = "queued" /\ j.st = "idle" /\ UsedOf(j) = 0
     \/ /\ i.st = "queued" /\ j.st = "running"
        /\ UsedOf(i) < MaxAttempts + 1 /\ UsedOf(j) = UsedOf(i)
     \/ i.st = "running" /\ j.st = "queued" /\ UsedOf(j) = UsedOf(i) + 1
     \/ i.st = "running" /\ j.st = "ended" /\ UsedOf(j) = 0
JobStep == \/ job' = job
           \/ \E k \in Keys, j \in Job : Put(k, j) /\ JobMove(job[k], j)

LEMMA EnqueueMoves ==
  ASSUME TypeOK, NEW k \in Keys, NEW chain \in BOOLEAN, NEW o \in Nat,
         Enqueue(k, chain, o)
  PROVE  JobStep
<1> DEFINE j == [NoJob EXCEPT !.st = "queued", !.chain = chain, !.origin = o]
<1>1. j \in Job /\ j.st = "queued" /\ j.tries = 0 /\ j.stalled = FALSE
  BY Values DEF Job, NoJob
<1>2. CASE ~Live(k)
  <2>1. Put(k, j)
    BY <1>2 DEF Enqueue
  <2> HIDE DEF j
  <2>2. job[k].st \in {"idle", "ended"}
    BY <1>2 DEF Live, TypeOK, Job
  <2>3. JobMove(job[k], j)
    BY <1>1, <2>2, AttributionAssumption DEF JobMove, UsedOf
  <2>4. QED
    BY <1>1, <2>1, <2>3 DEF JobStep
<1>3. CASE Live(k)
  BY <1>3 DEF Enqueue, JobStep
<1>4. QED
  BY <1>2, <1>3

LEMMA CancelMoves ==
  ASSUME TypeOK, NEW k \in Keys, job[k].st = "queued", Put(k, NoJob)
  PROVE  JobStep
<1>1. NoJob \in Job /\ NoJob.st = "idle" /\ NoJob.tries = 0 /\ UsedOf(NoJob) = 0
  BY Values DEF NoJob, UsedOf
<1>2. JobMove(job[k], NoJob)
  BY <1>1, AttributionAssumption DEF JobMove
<1>3. QED
  BY <1>1, <1>2 DEF JobStep

LEMMA EndMoves ==
  ASSUME TypeOK, NEW k \in Keys, job[k].st = "running", Put(k, Done)
  PROVE  JobStep
<1>1. Done \in Job /\ Done.st = "ended" /\ Done.tries = 0 /\ UsedOf(Done) = 0
  BY Values DEF Done, NoJob, UsedOf
<1>2. JobMove(job[k], Done)
  BY <1>1, AttributionAssumption DEF JobMove
<1>3. QED
  BY <1>1, <1>2 DEF JobStep

LEMMA GiveBackMoves ==
  ASSUME TypeOK, TriesInv, NEW k \in Keys, NEW lost \in BOOLEAN,
         job[k].st = "running", GiveBack(k, lost)
  PROVE  JobStep
<1> DEFINE tries == IF lost THEN job[k].tries ELSE job[k].tries + 1
           j == [job[k] EXCEPT !.st = "queued", !.tries = tries, !.stalled = @ \/ lost]
<1>1. CASE tries >= MaxAttempts \/ (lost /\ job[k].stalled)
  BY <1>1, EndMoves DEF GiveBack
<1>2. CASE ~(tries >= MaxAttempts \/ (lost /\ job[k].stalled))
  <2>1. job[k] \in Job /\ tries \in Nat /\ MaxAttempts \in Nat
    BY AttributionAssumption DEF TypeOK, Job
  <2>2. tries < MaxAttempts
    BY <1>2, <2>1
  <2>3. Put(k, j)
    BY <1>2 DEF GiveBack
  <2>4. CASE lost
    <3>1. j = [job[k] EXCEPT !.st = "queued", !.tries = tries, !.stalled = TRUE]
          /\ ~job[k].stalled
      BY <1>2, <2>1, <2>4 DEF Job
    <3> HIDE DEF j
    <3>2. j \in Job /\ j.st = "queued" /\ j.tries = job[k].tries /\ j.stalled = TRUE
      BY <2>1, <2>4, <3>1 DEF Job
    <3>3. UsedOf(j) = UsedOf(job[k]) + 1
      BY <2>1, <3>1, <3>2 DEF UsedOf, Job
    <3>4. QED
      BY <2>2, <2>3, <2>4, <3>2, <3>3 DEF JobStep, JobMove
  <2>5. CASE ~lost
    <3>1. j = [job[k] EXCEPT !.st = "queued", !.tries = tries]
      BY <2>1, <2>5 DEF Job
    <3> HIDE DEF j
    <3>2. j \in Job /\ j.st = "queued" /\ j.tries = job[k].tries + 1
          /\ j.stalled = job[k].stalled
      BY <2>1, <2>5, <3>1 DEF Job
    <3>3. UsedOf(j) = UsedOf(job[k]) + 1
      BY <2>1, <3>2 DEF UsedOf, Job
    <3>4. QED
      BY <2>2, <2>3, <2>5, <3>2, <3>3 DEF JobStep, JobMove
  <2>6. QED
    BY <2>4, <2>5
<1>3. QED
  BY <1>1, <1>2

LEMMA JobSteps ==
  ASSUME TypeOK, Exclusive, TriesInv, [Next]_vars
  PROVE  JobStep
<1>1. ASSUME NEW d \in Slicks, Precompute(d) \/ RequestDrift(d) PROVE JobStep
  BY <1>1, KeyMade, EnqueueMoves DEF Precompute, RequestDrift
<1>2. ASSUME NEW d \in Slicks, NEW o \in 1..newest, RequestCorrelate(d, o) PROVE JobStep
  <2>1. o \in Nat
    BY DEF TypeOK
  <2>2. QED
    BY <1>2, <2>1, KeyMade, EnqueueMoves DEF RequestCorrelate
<1>3. ASSUME NEW k \in Keys, Cancel(k) PROVE JobStep
  BY <1>3, CancelMoves DEF Cancel
<1>4. ASSUME NEW w \in Workers, NEW k \in Keys, Pick(w, k) PROVE JobStep
  <2> DEFINE j == [job[k] EXCEPT !.st = "running"]
  <2>1. job[k] \in Job /\ job[k].st = "queued" /\ job[k].tries < MaxAttempts /\ Put(k, j)
    BY <1>4 DEF Pick, TypeOK, TriesInv, Live
  <2>2. j \in Job /\ j.st = "running" /\ j.tries = job[k].tries /\ j.stalled = job[k].stalled
    BY <2>1 DEF Job
  <2> HIDE DEF j
  <2>3. UsedOf(job[k]) < MaxAttempts + 1 /\ UsedOf(j) = UsedOf(job[k])
    BY <2>1, <2>2, AttributionAssumption DEF UsedOf, Job
  <2>4. QED
    BY <2>1, <2>2, <2>3 DEF JobStep, JobMove
<1>5. ASSUME NEW w \in Workers, Chain(w) PROVE JobStep
  <2>1. run[w].origin \in Nat /\ Slick(w) \in Slicks
    BY <1>5, RunTyped DEF Chain, At, Run
  <2>2. QED
    BY <1>5, <2>1, KeyMade, EnqueueMoves DEF Chain, JobStep
<1>6. ASSUME NEW w \in Workers, run[w].key # Nobody, ~run[w].zombie
      PROVE  run[w].key \in Keys /\ job[run[w].key].st = "running"
  BY <1>6, RunTyped DEF Exclusive
<1>7. ASSUME NEW w \in Workers, Complete(w) PROVE JobStep
  BY <1>6, <1>7, EndMoves DEF Complete, At, Holds, JobStep
<1>8. ASSUME NEW w \in Workers, Fail(w) PROVE JobStep
  BY <1>6, <1>8, GiveBackMoves DEF Fail, Holds, JobStep
<1>9. ASSUME NEW w \in Workers, NEW dead \in BOOLEAN, Stall(w, dead) PROVE JobStep
  BY <1>6, <1>9, GiveBackMoves DEF Stall, Holds
<1>10. CASE UNCHANGED job
  BY <1>10 DEF JobStep
<1>11. QED
  BY <1>1, <1>2, <1>3, <1>4, <1>5, <1>7, <1>8, <1>9, <1>10, IngestedSlicks
  DEF Next, RunStep, vars, Supersede, CreateOrigin, LoadOrigin, QueryAis, ReplaceRanking,
      WriteVessel, Write, WroteAll, StartReweight, SaveReweighted, BreakOff

LEMMA TriesInit == Init => TriesInv
  BY DEF Init, TriesInv, Live, NoJob

LEMMA TriesStep ==
  ASSUME TypeOK, TriesInv, JobStep
  PROVE  TriesInv'
<1>1. CASE job' = job
  BY <1>1 DEF TriesInv, Live
<1>2. ASSUME NEW k \in Keys, NEW j \in Job, Put(k, j), JobMove(job[k], j)
      PROVE  TriesInv'
  <2>1. \A l \in Keys : job'[l] = IF l = k THEN j ELSE job[l]
    BY <1>2 DEF Put, TypeOK
  <2>2. QED
    BY <1>2, <2>1 DEF TriesInv, Live, JobMove
<1>3. QED
  BY <1>1, <1>2 DEF JobStep

SlotVars == <<[k \in Keys |-> job[k].st], [k \in Keys |-> UsedOf(job[k])]>>

LEMMA JobStepIsSlotStep ==
  ASSUME TypeOK, JobStep
  PROVE  [Slot!Next]_SlotVars
<1>1. CASE job' = job
  BY <1>1 DEF SlotVars
<1>2. ASSUME NEW k \in Keys, NEW j \in Job, Put(k, j), JobMove(job[k], j)
      PROVE  Slot!Next
  <2> DEFINE S == [l \in Keys |-> job[l].st]
             U == [l \in Keys |-> UsedOf(job[l])]
  <2>1. \A l \in Keys : job'[l] = IF l = k THEN j ELSE job[l]
    BY <1>2 DEF Put, TypeOK
  <2>2. S' = [S EXCEPT ![k] = j.st]
    BY <2>1
  <2>3. U' = [U EXCEPT ![k] = UsedOf(j)]
    BY <2>1
  <2>4. S[k] = job[k].st /\ U[k] = UsedOf(job[k])
    OBVIOUS
  <2>5. \/ Slot!Submit(k) \/ Slot!Withdraw(k) \/ Slot!Start(k) \/ Slot!GiveBack(k)
        \/ Slot!Finish(k) \/ Slot!Forget(k)
    <3> HIDE DEF S, U
    <3>1. QED
      BY <1>2, <2>2, <2>3, <2>4
      DEF JobMove, Slot!Submit, Slot!Withdraw, Slot!Start, Slot!GiveBack, Slot!Finish,
          Slot!Forget, Slot!Move, S, U
  <2>6. QED
    BY <2>5 DEF Slot!Next
<1>3. QED
  BY <1>1, <1>2 DEF JobStep

-----------------------------------------------------------------------------
(* A re-run supersedes *)

\* The attempts at a point of the program after a step were there before it.
NothingNew(p) ==
  \A v \in Workers :
    run'[v].key # Nobody /\ run'[v].pc = p =>
      run[v].key = run'[v].key /\ run[v].pc = p /\ run[v].batch = run'[v].batch

LEMMA BecomeNothingNew ==
  ASSUME TypeOK, NEW w \in Workers, NEW r \in Run, NEW p, Become(w, r), r.pc # p
  PROVE  NothingNew(p)
  BY DEF Become, NothingNew, TypeOK

LEMMA GotoNothingNew ==
  ASSUME TypeOK, NEW w \in Workers, NEW q \in Pc, NEW p, Goto(w, q), q # p
  PROVE  NothingNew(p)
<1>1. [run[w] EXCEPT !.pc = q] \in Run /\ [run[w] EXCEPT !.pc = q].pc = q
  BY RunTyped DEF Run
<1>2. QED
  BY <1>1, BecomeNothingNew DEF Goto

LEMMA LeaveNothingNew ==
  ASSUME TypeOK, NEW w \in Workers, NEW p, Leave(w)
  PROVE  NothingNew(p)
<1>1. Free.key = Nobody
  BY DEF Free
<1>2. \A v \in Workers : run'[v] = IF v = w THEN Free ELSE run[v]
  BY DEF Leave, Become, TypeOK
<1>3. QED
  BY <1>1, <1>2 DEF NothingNew

LEMMA SameRunNothingNew ==
  ASSUME NEW p, run' = run
  PROVE  NothingNew(p)
  BY DEF NothingNew

\* The steps that write estimates or rankings, and all the others.
LEMMA OtherSteps ==
  ASSUME TypeOK, [Next]_vars
  PROVE  \/ \E w \in Workers :
              Supersede(w) \/ CreateOrigin(w) \/ ReplaceRanking(w) \/ WriteVessel(w)
         \/ \E a \in Analysts : \E e \in edit[a].todo : SaveReweighted(a, e)
         \/ /\ origins' = origins /\ ranking' = ranking
            /\ NothingNew("create") /\ NothingNew("write")
<1> DEFINE Other == /\ origins' = origins /\ ranking' = ranking
                    /\ NothingNew("create") /\ NothingNew("write")
<1>1. ASSUME NEW d \in Slicks,
             Precompute(d) \/ RequestDrift(d) \/ (\E o \in 1..newest : RequestCorrelate(d, o))
      PROVE  Other
  BY <1>1, SameRunNothingNew DEF Precompute, RequestDrift, RequestCorrelate
<1>2. ASSUME NEW k \in Keys, Cancel(k) PROVE Other
  BY <1>2, SameRunNothingNew DEF Cancel
<1>3. ASSUME NEW w \in Workers, NEW k \in Keys, Pick(w, k) PROVE Other
  <2> DEFINE r == [Free EXCEPT !.key = k, !.chain = job[k].chain, !.origin = job[k].origin,
                               !.pc = IF k[1] = "drift" THEN "compute" ELSE "load"]
  <2>1. r.pc \in {"compute", "load"}
    BY DEF Free
  <2>2. \A v \in Workers : run'[v] = IF v = w THEN r ELSE run[v]
    BY <1>3 DEF Pick, Become, TypeOK
  <2> HIDE DEF r
  <2>3. QED
    BY <1>3, <2>1, <2>2 DEF Pick, NothingNew
<1>4. ASSUME NEW w \in Workers, Chain(w) \/ LoadOrigin(w) \/ QueryAis(w) \/ WroteAll(w)
      PROVE  Other
  <2>1. PICK q \in {"return", "query", "replace"} : Goto(w, q)
    BY <1>4 DEF Chain, LoadOrigin, QueryAis, WroteAll
  <2>2. q \in Pc /\ q # "create" /\ q # "write"
    BY <2>1 DEF Pc
  <2>3. NothingNew("create") /\ NothingNew("write")
    BY <2>1, <2>2, GotoNothingNew
  <2>4. QED
    BY <1>4, <2>3 DEF Chain, LoadOrigin, QueryAis, WroteAll
<1>5. ASSUME NEW w \in Workers, Complete(w) \/ Fail(w) PROVE Other
  BY <1>5, LeaveNothingNew DEF Complete, Fail
<1>6. ASSUME NEW w \in Workers, NEW dead \in BOOLEAN, Stall(w, dead) PROVE Other
  <2>1. CASE dead
    BY <1>6, <2>1, LeaveNothingNew DEF Stall, Leave
  <2>2. CASE ~dead
    <3>1. run' = [run EXCEPT ![w] = [run[w] EXCEPT !.zombie = TRUE]] /\ run[w] \in Run
      BY <1>6, <2>2 DEF Stall, Become, TypeOK
    <3>2. \A v \in Workers : run'[v].key = run[v].key /\ run'[v].pc = run[v].pc
                              /\ run'[v].batch = run[v].batch
      BY <3>1 DEF TypeOK, Run
    <3>3. QED
      BY <1>6, <3>2 DEF Stall, NothingNew
  <2>3. QED
    BY <2>1, <2>2
<1>7. ASSUME NEW a \in Analysts, NEW d \in Slicks, StartReweight(a, d) PROVE Other
  BY <1>7, SameRunNothingNew DEF StartReweight
<1>8. ASSUME NEW a \in Analysts, BreakOff(a) PROVE Other
  BY <1>8, SameRunNothingNew DEF BreakOff
<1>9. CASE UNCHANGED vars
  BY <1>9, SameRunNothingNew DEF vars
<1>10. QED
  BY <1>1, <1>2, <1>3, <1>4, <1>5, <1>6, <1>7, <1>8, <1>9, IngestedSlicks DEF Next, RunStep

OriginInv ==
  NoStallYet =>
    /\ \A o, p \in origins : o.slick = p.slick => o = p
    /\ \A w \in Workers : At(w, "create") => \A o \in origins : o.slick # Slick(w)

RankingInv ==
  NoStallYet =>
    /\ \A d \in Slicks : \A u, v \in ranking[d] : u.batch = v.batch
    /\ \A w \in Workers : At(w, "write") => \A v \in ranking[Slick(w)] : v.batch = run[w].batch

\* A stall that has happened is never forgotten.
LEMMA NoStallBefore ==
  ASSUME TypeOK, Exclusive, [Next]_vars, NoStallYet'
  PROVE  NoStallYet
<1>1. left["stalls"] \in Nat /\ left'["stalls"] \in Nat /\ MaxStalls \in Nat
  BY StepTypes, AttributionAssumption DEF TypeOK, Bound
<1>2. QED
  BY <1>1, StallsDecrease DEF Exclusive, NoStallYet

LEMMA OriginStep ==
  ASSUME TypeOK, PcOfKind, Exclusive, OriginInv, [Next]_vars
  PROVE  OriginInv'
<1> SUFFICES ASSUME NoStallYet'
             PROVE  /\ \A o, p \in origins' : o.slick = p.slick => o = p
                    /\ \A w \in Workers :
                         run'[w].key # Nobody /\ run'[w].pc = "create" =>
                           \A o \in origins' : o.slick # run'[w].key[2]
  BY DEF OriginInv, At, Slick
<1>1. /\ NoStallYet
      /\ \A o, p \in origins : o.slick = p.slick => o = p
      /\ \A w \in Workers : run[w].key # Nobody /\ run[w].pc = "create" =>
           \A o \in origins : o.slick # run[w].key[2]
  BY NoStallBefore DEF OriginInv, At, Slick
<1>2. ASSUME NEW w \in Workers, Supersede(w)
      PROVE  /\ \A o, p \in origins' : o.slick = p.slick => o = p
             /\ \A v \in Workers : run'[v].key # Nobody /\ run'[v].pc = "create" =>
                  \A o \in origins' : o.slick # run'[v].key[2]
  <2>1. \A v \in Workers : run'[v] = IF v = w THEN [run[w] EXCEPT !.pc = "create"] ELSE run[v]
    BY <1>2 DEF Supersede, Goto, Become, TypeOK
  <2>2. run'[w].key = run[w].key
    BY <2>1 DEF TypeOK, Run
  <2>3. \A o \in origins' : o \in origins /\ o.slick # run[w].key[2]
    BY <1>2 DEF Supersede, Slick
  <2>4. QED
    BY <1>1, <2>1, <2>2, <2>3
<1>3. ASSUME NEW w \in Workers, CreateOrigin(w)
      PROVE  /\ \A o, p \in origins' : o.slick = p.slick => o = p
             /\ \A v \in Workers : run'[v].key # Nobody /\ run'[v].pc = "create" =>
                  \A o \in origins' : o.slick # run'[v].key[2]
  <2> DEFINE r == [run[w] EXCEPT !.origin = newest + 1, !.pc = "chain"]
             new == [id |-> newest + 1, slick |-> run[w].key[2]]
  <2>1. run[w] \in Run /\ run[w].key # Nobody /\ run[w].pc = "create"
    BY <1>3 DEF CreateOrigin, At, TypeOK
  <2>2. r.pc = "chain"
    BY <2>1 DEF Run
  <2>3. \A v \in Workers : run'[v] = IF v = w THEN r ELSE run[v]
    BY <1>3 DEF CreateOrigin, Become, TypeOK
  <2>4. origins' = origins \cup {new} /\ new.slick = run[w].key[2]
    BY <1>3 DEF CreateOrigin, Slick
  <2> HIDE DEF r, new
  <2>5. ASSUME NEW v \in Workers, run'[v].key # Nobody, run'[v].pc = "create"
        PROVE  run'[v] = run[v] /\ run[v].key[2] # run[w].key[2]
    <3>1. v # w /\ run'[v] = run[v]
      BY <2>2, <2>3, <2>5
    <3>2. run[v].key \in Keys /\ run[w].key \in Keys
      BY <2>1, <2>5, <3>1, RunTyped
    <3>3. run[v].key[1] = "drift" /\ run[w].key[1] = "drift"
      BY <2>1, <2>5, <3>1 DEF PcOfKind, KindOK, DriftPc
    <3>4. run[v].key # run[w].key
      BY <1>1, <2>1, <3>1 DEF Exclusive
    <3>5. QED
      BY <3>1, <3>2, <3>3, <3>4, KeyParts
  <2>6. QED
    BY <1>1, <2>1, <2>4, <2>5
<1>4. ASSUME NEW w \in Workers, ReplaceRanking(w)
      PROVE  origins' = origins /\ NothingNew("create")
  <2>1. PICK n \in 0..MaxRank :
          Become(w, [run[w] EXCEPT !.batch = newest + 1, !.todo = n, !.pc = "write"])
    BY <1>4 DEF ReplaceRanking
  <2> DEFINE r == [run[w] EXCEPT !.batch = newest + 1, !.todo = n, !.pc = "write"]
  <2>2. newest + 1 \in Nat
    BY DEF TypeOK
  <2>3. r \in Run
    BY <2>2, ReplacedTyped
  <2>4. r.pc = "write"
    BY DEF TypeOK, Run
  <2>5. Become(w, r)
    BY <2>1
  <2> HIDE DEF r
  <2>6. QED
    BY <1>4, <2>3, <2>4, <2>5, BecomeNothingNew DEF ReplaceRanking
<1>5. ASSUME NEW w \in Workers, WriteVessel(w)
      PROVE  origins' = origins /\ NothingNew("create")
  <2>1. \A v \in Workers : run'[v].key = run[v].key /\ run'[v].pc = run[v].pc
                            /\ run'[v].batch = run[v].batch
    BY <1>5 DEF WriteVessel, Write, Become, TypeOK, Run
  <2>2. QED
    BY <1>5, <2>1 DEF WriteVessel, Write, NothingNew
<1>6. ASSUME NEW a \in Analysts, NEW e \in edit[a].todo, SaveReweighted(a, e)
      PROVE  origins' = origins /\ NothingNew("create")
  BY <1>6, SameRunNothingNew DEF SaveReweighted
<1>7. CASE origins' = origins /\ NothingNew("create")
  BY <1>1, <1>7 DEF NothingNew
<1>8. QED
  BY <1>2, <1>3, <1>4, <1>5, <1>6, <1>7, OtherSteps

LEMMA OriginInit == Init => OriginInv
  BY DEF Init, OriginInv, At, Free

\* Attempts that change the stored ranking of a detection at once are of one job.
LEMMA OthersElsewhere ==
  ASSUME TypeOK, PcOfKind, Exclusive, NoStallYet,
         NEW v \in Workers, NEW w \in Workers, v # w,
         run[v].key # Nobody, run[v].pc \in {"replace", "write"},
         run[w].key # Nobody, run[w].pc \in {"replace", "write"}
  PROVE  run[v].key[2] # run[w].key[2]
<1>1. run[v].key \in Keys /\ run[w].key \in Keys
  BY RunTyped
<1>2. run[v].key[1] = "scoring" /\ run[w].key[1] = "scoring"
  BY DEF PcOfKind, KindOK, ScoringPc
<1>3. run[v].key # run[w].key
  BY DEF Exclusive
<1>4. QED
  BY <1>1, <1>2, <1>3, KeyParts

\* What a saved reweighting leaves of the ranking: the vessels of the same batches.
LEMMA SaveKeepsBatches ==
  ASSUME TypeOK, NEW a \in Analysts, NEW e \in edit[a].todo, SaveReweighted(a, e),
         NEW d \in Slicks, NEW u \in ranking'[d]
  PROVE  \E v \in ranking[d] : v.batch = u.batch
<1> DEFINE now == {v \in ranking[edit[a].slick] : SameDoc(v, e.doc)}
<1>1. CASE d # edit[a].slick
  BY <1>1 DEF SaveReweighted, TypeOK
<1>2. CASE d = edit[a].slick
  <2>1. ranking[d] \subseteq Vessel
    BY DEF TypeOK
  <2>2. ranking'[d] = (ranking[d] \ now) \cup {Reweighted(v, e.doc, e.rank) : v \in now}
    BY <1>2 DEF SaveReweighted, TypeOK
  <2>3. ASSUME NEW v \in Vessel PROVE Reweighted(v, e.doc, e.rank).batch = v.batch
    BY DEF Reweighted, Vessel
  <2>4. QED
    BY <1>2, <2>1, <2>2, <2>3
<1>3. QED
  BY <1>1, <1>2

LEMMA RankingInit == Init => RankingInv
  BY DEF Init, RankingInv, At, Free

LEMMA RankingStep ==
  ASSUME TypeOK, PcOfKind, Exclusive, RankingInv, [Next]_vars
  PROVE  RankingInv'
<1> DEFINE OneBatch == \A d \in Slicks : \A u, v \in ranking'[d] : u.batch = v.batch
           TheirBatch == \A w \in Workers :
                           run'[w].key # Nobody /\ run'[w].pc = "write" =>
                             \A v \in ranking'[run'[w].key[2]] : v.batch = run'[w].batch
<1> SUFFICES ASSUME NoStallYet' PROVE OneBatch /\ TheirBatch
  BY DEF RankingInv, At, Slick
<1>1. /\ NoStallYet
      /\ \A d \in Slicks : \A u, v \in ranking[d] : u.batch = v.batch
      /\ \A w \in Workers : run[w].key # Nobody /\ run[w].pc = "write" =>
           \A v \in ranking[run[w].key[2]] : v.batch = run[w].batch
  BY NoStallBefore DEF RankingInv, At, Slick
<1>2. \A w \in Workers : run[w].key # Nobody => run[w].key[2] \in Slicks
  BY RunTyped DEF Slick
<1>3. CASE ranking' = ranking /\ NothingNew("write")
  BY <1>1, <1>3 DEF NothingNew
<1>4. ASSUME NEW w \in Workers, Supersede(w) \/ CreateOrigin(w)
      PROVE  ranking' = ranking /\ NothingNew("write")
  <2>1. CASE Supersede(w)
    BY <2>1, GotoNothingNew DEF Supersede, Pc
  <2>2. CASE CreateOrigin(w)
    <3> DEFINE r == [run[w] EXCEPT !.origin = newest + 1, !.pc = "chain"]
    <3>1. newest + 1 \in Nat
      BY DEF TypeOK
    <3>2. r \in Run
      BY <3>1, CreatedTyped
    <3>3. r.pc = "chain"
      BY DEF TypeOK, Run
    <3>4. Become(w, r)
      BY <2>2 DEF CreateOrigin
    <3> HIDE DEF r
    <3>5. QED
      BY <2>2, <3>2, <3>3, <3>4, BecomeNothingNew DEF CreateOrigin
  <2>3. QED
    BY <1>4, <2>1, <2>2
<1>5. ASSUME NEW w \in Workers, ReplaceRanking(w) PROVE OneBatch /\ TheirBatch
  <2>1. PICK n \in 0..MaxRank :
          Become(w, [run[w] EXCEPT !.batch = newest + 1, !.todo = n, !.pc = "write"])
    BY <1>5 DEF ReplaceRanking
  <2> DEFINE r == [run[w] EXCEPT !.batch = newest + 1, !.todo = n, !.pc = "write"]
  <2>2. run[w] \in Run /\ run[w].key # Nobody /\ run[w].pc = "replace"
    BY <1>5 DEF ReplaceRanking, At, TypeOK
  <2>3. r.key = run[w].key
    BY <2>2 DEF Run
  <2>4. \A v \in Workers : run'[v] = IF v = w THEN r ELSE run[v]
    BY <2>1 DEF Become, TypeOK
  <2> HIDE DEF r
  <2>5. \A d \in Slicks : ranking'[d] = IF d = run[w].key[2] THEN {} ELSE ranking[d]
    BY <1>5 DEF ReplaceRanking, Slick, TypeOK
  <2>6. OneBatch
    BY <1>1, <2>5
  <2>7. ASSUME NEW v \in Workers, run'[v].key # Nobody, run'[v].pc = "write", v # w
        PROVE  run'[v] = run[v] /\ ranking'[run[v].key[2]] = ranking[run[v].key[2]]
    BY <1>1, <1>2, <2>2, <2>4, <2>5, <2>7, OthersElsewhere
  <2>8. ranking'[run'[w].key[2]] = {}
    BY <1>2, <2>2, <2>3, <2>4, <2>5
  <2>9. QED
    BY <1>1, <2>6, <2>7, <2>8
<1>6. ASSUME NEW w \in Workers, WriteVessel(w) PROVE OneBatch /\ TheirBatch
  <2> DEFINE new == VesselOf(run[w], run[w].done + 1)
  <2>1. run[w] \in Run /\ run[w].key # Nobody /\ run[w].pc = "write"
    BY <1>6 DEF WriteVessel, At, TypeOK
  <2>2. new.batch = run[w].batch
    BY DEF VesselOf
  <2>3. \A d \in Slicks :
          ranking'[d] = IF d = run[w].key[2] THEN ranking[d] \cup {new} ELSE ranking[d]
    BY <1>6 DEF WriteVessel, Write, Slick, TypeOK
  <2> HIDE DEF new
  <2>4. \A v \in Workers : run'[v].key = run[v].key /\ run'[v].pc = run[v].pc
                            /\ run'[v].batch = run[v].batch
    BY <1>6 DEF WriteVessel, Write, Become, TypeOK, Run
  <2>5. \A u \in ranking'[run[w].key[2]] : u.batch = run[w].batch
    <3>1. ranking'[run[w].key[2]] = ranking[run[w].key[2]] \cup {new}
      BY <1>2, <2>1, <2>3
    <3>2. \A u \in ranking[run[w].key[2]] : u.batch = run[w].batch
      BY <1>1, <2>1
    <3>3. QED
      BY <2>2, <3>1, <3>2
  <2>6. ASSUME NEW d \in Slicks, NEW u \in ranking'[d], NEW v \in ranking'[d]
        PROVE  u.batch = v.batch
    <3>1. CASE d = run[w].key[2]
      BY <2>5, <3>1
    <3>2. CASE d # run[w].key[2]
      <4>1. ranking'[d] = ranking[d]
        BY <2>3, <3>2
      <4>2. u \in ranking[d] /\ v \in ranking[d]
        BY <4>1
      <4>3. \A e \in Slicks : \A x, y \in ranking[e] : x.batch = y.batch
        BY <1>1
      <4>4. QED
        BY <4>2, <4>3
    <3>3. QED
      BY <3>1, <3>2
  <2>7. ASSUME NEW v \in Workers, run[v].key # Nobody, run[v].pc = "write", v # w
        PROVE  ranking'[run[v].key[2]] = ranking[run[v].key[2]]
    BY <1>1, <1>2, <2>1, <2>3, <2>7, OthersElsewhere
  <2>8. QED
    BY <1>1, <2>4, <2>5, <2>6, <2>7
<1>7. ASSUME NEW a \in Analysts, NEW e \in edit[a].todo, SaveReweighted(a, e)
      PROVE  OneBatch /\ TheirBatch
  <2>1. run' = run
    BY <1>7 DEF SaveReweighted
  <2>2. ASSUME NEW d \in Slicks, NEW u \in ranking'[d]
        PROVE  \E v \in ranking[d] : v.batch = u.batch
    BY <1>7, <2>2, SaveKeepsBatches
  <2>3. OneBatch
    BY <1>1, <2>2
  <2>4. TheirBatch
    BY <1>1, <1>2, <2>1, <2>2
  <2>5. QED
    BY <2>3, <2>4
<1>8. QED
  BY <1>3, <1>4, <1>5, <1>6, <1>7, OtherSteps

-----------------------------------------------------------------------------
(* Reweighting: what analysts have read, while the ranking is replaced *)

\* An attempt that writes the ranking of a detection.
Writing(w, d) == run[w].key # Nobody /\ run[w].pc = "write" /\ run[w].key[2] = d

\* Attempts start to write with the first vessel.
FreshInv == \A w \in Workers : run[w].pc \in {"write", "return"} \/ run[w].done = 0

BatchesInv ==
  /\ \A d \in Slicks : \A v \in ranking[d] : v.batch <= newest
  /\ \A w \in Workers, d \in Slicks : Writing(w, d) => run[w].batch <= newest
  /\ \A a \in Analysts : \A e \in edit[a].todo : e.doc.batch <= newest

\* A read is of one batch, and as long as a vessel of that batch is stored all that
\* remains to be saved is: a ranking is replaced as a whole.
ReadsInv ==
  NoStallYet =>
    /\ \A a \in Analysts : \A e, f \in edit[a].todo : e.doc.batch = f.doc.batch
    /\ \A d \in Slicks, w \in Workers :
         Writing(w, d) => (run[w].done = 0 <=> ranking[d] = {})
    /\ \A w \in Workers, a \in Analysts : Writing(w, edit[a].slick) /\ run[w].done = 0 =>
         \A e \in edit[a].todo : e.doc.batch # run[w].batch
    /\ \A a \in Analysts : \A e \in edit[a].todo, v \in ranking[edit[a].slick] :
         v.batch = e.doc.batch => \E u \in ranking[edit[a].slick] : SameDoc(u, e.doc)

\* The attempts that write are the same before and after.
WritersStay ==
  \A v \in Workers : run'[v].key # Nobody /\ run'[v].pc = "write" =>
    /\ run[v].key = run'[v].key /\ run[v].pc = "write"
    /\ run[v].batch = run'[v].batch /\ run[v].done = run'[v].done

Fresh(r) == r.pc \in {"write", "return"} \/ r.done = 0

LEMMA BecomeStays ==
  ASSUME TypeOK, NEW w \in Workers, NEW r \in Run, Become(w, r), r.pc # "write"
  PROVE  WritersStay
  BY DEF Become, WritersStay, TypeOK

LEMMA GotoStays ==
  ASSUME TypeOK, NEW w \in Workers, NEW q \in Pc, Goto(w, q), q # "write"
  PROVE  WritersStay
<1>1. [run[w] EXCEPT !.pc = q] \in Run /\ [run[w] EXCEPT !.pc = q].pc = q
  BY RunTyped DEF Run
<1>2. QED
  BY <1>1, BecomeStays DEF Goto

LEMMA LeaveStays ==
  ASSUME TypeOK, NEW w \in Workers, Leave(w)
  PROVE  WritersStay
<1>1. Free \in Run /\ Free.pc # "write"
  BY Values DEF Free
<1>2. QED
  BY <1>1, BecomeStays DEF Leave

LEMMA SameRunStays ==
  ASSUME run' = run
  PROVE  WritersStay
  BY DEF WritersStay

LEMMA PickedRun ==
  ASSUME TypeOK, NEW w \in Workers, NEW k \in Keys, Pick(w, k)
  PROVE  \E r \in Run : Become(w, r) /\ r.pc \in {"compute", "load"} /\ r.done = 0
<1> DEFINE r == [Free EXCEPT !.key = k, !.chain = job[k].chain, !.origin = job[k].origin,
                             !.pc = IF k[1] = "drift" THEN "compute" ELSE "load"]
<1>1. r.pc \in {"compute", "load"} /\ r.done = 0
  BY DEF Free
<1>2. r \in Run
  <2>1. job[k] \in Job
    BY DEF TypeOK
  <2>2. ASSUME NEW p \in Pc
        PROVE  [Free EXCEPT !.key = k, !.chain = job[k].chain, !.origin = job[k].origin,
                            !.pc = p] \in Run
    BY <2>1, Values DEF Job, Run
  <2>3. (IF k[1] = "drift" THEN "compute" ELSE "load") \in Pc
    BY DEF Pc
  <2>4. QED
    BY <2>2, <2>3
<1>3. Become(w, r)
  BY DEF Pick
<1> HIDE DEF r
<1>4. QED
  BY <1>1, <1>2, <1>3

LEMMA CreatedRun ==
  ASSUME TypeOK, NEW w \in Workers, CreateOrigin(w)
  PROVE  \E r \in Run : Become(w, r) /\ r.pc = "chain" /\ r.done = run[w].done
<1> DEFINE r == [run[w] EXCEPT !.origin = newest + 1, !.pc = "chain"]
<1>1. newest + 1 \in Nat /\ run[w] \in Run
  BY DEF TypeOK
<1>2. r \in Run
  BY <1>1, CreatedTyped
<1>3. r.pc = "chain" /\ r.done = run[w].done
  BY <1>1 DEF Run
<1>4. Become(w, r)
  BY DEF CreateOrigin
<1> HIDE DEF r
<1>5. QED
  BY <1>2, <1>3, <1>4

\* The attempt that has deleted the ranking of its detection.
LEMMA ReplacedRun ==
  ASSUME TypeOK, FreshInv, NEW w \in Workers, ReplaceRanking(w)
  PROVE  /\ run[w].key \in Keys /\ run[w].key # Nobody /\ run[w].pc = "replace"
         /\ run[w].key[2] \in Slicks
         /\ newest' = newest + 1 /\ edit' = edit
         /\ \E r \in Run :
              /\ Become(w, r)
              /\ r.key = run[w].key /\ r.pc = "write" /\ r.batch = newest + 1 /\ r.done = 0
         /\ \A d \in Slicks :
              ranking'[d] = IF d = run[w].key[2] THEN {} ELSE ranking[d]
<1>1. PICK n \in 0..MaxRank :
        Become(w, [run[w] EXCEPT !.batch = newest + 1, !.todo = n, !.pc = "write"])
  BY DEF ReplaceRanking
<1> DEFINE r == [run[w] EXCEPT !.batch = newest + 1, !.todo = n, !.pc = "write"]
<1>2. run[w] \in Run /\ run[w].key \in Keys /\ run[w].key # Nobody /\ run[w].pc = "replace"
      /\ run[w].key[2] \in Slicks
  BY RunTyped DEF ReplaceRanking, At, Slick
<1>3. newest + 1 \in Nat
  BY DEF TypeOK
<1>4. r \in Run
  BY <1>3, ReplacedTyped
<1>5. run[w].done = 0
  BY <1>2 DEF FreshInv
<1>6. r.key = run[w].key /\ r.pc = "write" /\ r.batch = newest + 1 /\ r.done = 0
  BY <1>2, <1>5 DEF Run
<1>7. Become(w, r)
  BY <1>1
<1> HIDE DEF r
<1>8. newest' = newest + 1 /\ edit' = edit
  BY DEF ReplaceRanking
<1>9. \A d \in Slicks : ranking'[d] = IF d = run[w].key[2] THEN {} ELSE ranking[d]
  BY DEF ReplaceRanking, Slick, TypeOK
<1>10. QED
  BY <1>2, <1>4, <1>6, <1>7, <1>8, <1>9

\* The attempt that has stored one more vessel.
LEMMA WrittenRun ==
  ASSUME TypeOK, NEW w \in Workers, WriteVessel(w)
  PROVE  /\ run[w].key \in Keys /\ Writing(w, run[w].key[2]) /\ run[w].done \in Nat
         /\ run[w].key[2] \in Slicks
         /\ newest' = newest /\ edit' = edit
         /\ \A v \in Workers : /\ run'[v].key = run[v].key /\ run'[v].pc = run[v].pc
                               /\ run'[v].batch = run[v].batch
         /\ run'[w].done = run[w].done + 1
         /\ \A v \in Workers : v # w => run'[v] = run[v]
         /\ \E u \in Vessel :
              /\ u.batch = run[w].batch /\ u.nr = run[w].done + 1 /\ u.rank = run[w].done + 1
              /\ ~u.custom /\ (u.separation => run[w].done = 0)
              /\ \A d \in Slicks :
                   ranking'[d] = IF d = run[w].key[2] THEN ranking[d] \cup {u} ELSE ranking[d]
<1> DEFINE u == VesselOf(run[w], run[w].done + 1)
<1>1. run[w] \in Run /\ run[w].key \in Keys /\ run[w].key # Nobody /\ run[w].pc = "write"
      /\ run[w].key[2] \in Slicks
  BY RunTyped DEF WriteVessel, At, Slick
<1>2. run[w].done \in Nat
  BY <1>1 DEF Run
<1>3. run' = [run EXCEPT ![w] = [run[w] EXCEPT !.done = run[w].done + 1]]
  BY DEF WriteVessel, Write, Become
<1>4. /\ \A v \in Workers : /\ run'[v].key = run[v].key /\ run'[v].pc = run[v].pc
                            /\ run'[v].batch = run[v].batch
      /\ run'[w].done = run[w].done + 1
      /\ \A v \in Workers : v # w => run'[v] = run[v]
  BY <1>1, <1>3 DEF TypeOK, Run
<1>5. /\ u.batch = run[w].batch /\ u.nr = run[w].done + 1 /\ u.rank = run[w].done + 1
      /\ ~u.custom /\ (u.separation => run[w].done = 0)
  <2>1. /\ u.batch = run[w].batch /\ u.nr = run[w].done + 1 /\ u.rank = run[w].done + 1
        /\ u.custom = FALSE /\ u.separation = (run[w].done + 1 = 1 /\ run[w].todo > 1)
    BY DEF VesselOf
  <2>2. run[w].done + 1 = 1 => run[w].done = 0
    BY <1>2
  <2> HIDE DEF u
  <2>3. QED
    BY <2>1, <2>2
<1>6. \A d \in Slicks :
        ranking'[d] = IF d = run[w].key[2] THEN ranking[d] \cup {u} ELSE ranking[d]
  BY DEF WriteVessel, Write, Slick, TypeOK
<1>7. newest' = newest /\ edit' = edit
  BY DEF WriteVessel, Write
<1> HIDE DEF u
<1>8. u \in Vessel
  <2>1. ranking' \in [Slicks -> SUBSET Vessel]
    BY WriteTypes
  <2>2. u \in ranking'[run[w].key[2]]
    BY <1>1, <1>6
  <2>3. QED
    BY <1>1, <2>1, <2>2
<1>9. QED
  BY <1>1, <1>2, <1>4, <1>5, <1>6, <1>7, <1>8 DEF Writing

LEMMA FreshInit == Init => FreshInv
  BY DEF Init, FreshInv, Free

LEMMA BecomeFresh ==
  ASSUME TypeOK, FreshInv, NEW w \in Workers, NEW r \in Run, Become(w, r), Fresh(r)
  PROVE  FreshInv'
<1>1. \A v \in Workers : run'[v] = IF v = w THEN r ELSE run[v]
  BY DEF Become, TypeOK
<1>2. QED
  BY <1>1 DEF FreshInv, Fresh

LEMMA GotoFresh ==
  ASSUME TypeOK, FreshInv, NEW w \in Workers, NEW p \in Pc, NEW q \in Pc,
         At(w, p), Goto(w, q), q = "return" \/ p \notin {"write", "return"}
  PROVE  FreshInv'
<1> DEFINE r == [run[w] EXCEPT !.pc = q]
<1>1. run[w] \in Run /\ run[w].pc = p
  BY RunTyped DEF At
<1>2. r \in Run /\ r.pc = q /\ r.done = run[w].done
  BY <1>1 DEF Run
<1>3. Become(w, r)
  BY DEF Goto
<1> HIDE DEF r
<1>4. Fresh(r)
  BY <1>1, <1>2 DEF Fresh, FreshInv
<1>5. QED
  BY <1>2, <1>3, <1>4, BecomeFresh

LEMMA FreshStep ==
  ASSUME TypeOK, FreshInv, [Next]_vars
  PROVE  FreshInv'
<1>1. CASE run' = run
  BY <1>1 DEF FreshInv
<1>2. ASSUME NEW w \in Workers, NEW k \in Keys, Pick(w, k) PROVE FreshInv'
  BY <1>2, PickedRun, BecomeFresh DEF Fresh
<1>3. ASSUME NEW w \in Workers, Supersede(w) PROVE FreshInv'
  BY <1>3, GotoFresh DEF Supersede, Pc
<1>4. ASSUME NEW w \in Workers, CreateOrigin(w) PROVE FreshInv'
  <2>1. PICK r \in Run : Become(w, r) /\ r.pc = "chain" /\ r.done = run[w].done
    BY <1>4, CreatedRun
  <2>2. run[w].done = 0
    BY <1>4 DEF CreateOrigin, At, FreshInv
  <2>3. QED
    BY <2>1, <2>2, BecomeFresh DEF Fresh
<1>5. ASSUME NEW w \in Workers, Chain(w) PROVE FreshInv'
  BY <1>5, GotoFresh DEF Chain, Pc
<1>6. ASSUME NEW w \in Workers, LoadOrigin(w) PROVE FreshInv'
  BY <1>6, GotoFresh DEF LoadOrigin, Pc
<1>7. ASSUME NEW w \in Workers, QueryAis(w) PROVE FreshInv'
  BY <1>7, GotoFresh DEF QueryAis, Pc
<1>8. ASSUME NEW w \in Workers, ReplaceRanking(w) PROVE FreshInv'
  BY <1>8, ReplacedRun, BecomeFresh DEF Fresh
<1>9. ASSUME NEW w \in Workers, WriteVessel(w) PROVE FreshInv'
  BY <1>9, WrittenRun DEF FreshInv, Writing
<1>10. ASSUME NEW w \in Workers, WroteAll(w) PROVE FreshInv'
  BY <1>10, GotoFresh DEF WroteAll, Pc
<1>11. ASSUME NEW w \in Workers, Leave(w) PROVE FreshInv'
  <2>1. Free \in Run /\ Fresh(Free)
    BY Values DEF Free, Fresh
  <2>2. QED
    BY <1>11, <2>1, BecomeFresh DEF Leave
<1>12. ASSUME NEW w \in Workers, NEW dead \in BOOLEAN, Stall(w, dead) PROVE FreshInv'
  <2>1. CASE dead
    BY <1>11, <1>12, <2>1 DEF Stall, Leave
  <2>2. CASE ~dead
    <3> DEFINE r == [run[w] EXCEPT !.zombie = TRUE]
    <3>1. run[w] \in Run
      BY DEF TypeOK
    <3>2. r \in Run /\ r.pc = run[w].pc /\ r.done = run[w].done
      BY <3>1 DEF Run
    <3>3. Become(w, r)
      BY <1>12, <2>2 DEF Stall
    <3> HIDE DEF r
    <3>4. QED
      BY <3>2, <3>3, BecomeFresh DEF Fresh, FreshInv
  <2>3. QED
    BY <2>1, <2>2
<1>13. QED
  BY <1>1, <1>2, <1>3, <1>4, <1>5, <1>6, <1>7, <1>8, <1>9, <1>10, <1>11, <1>12
  DEF Next, RunStep, vars, Precompute, RequestDrift, RequestCorrelate, Cancel, Complete,
      Fail, StartReweight, SaveReweighted, BreakOff

\* The steps that change rankings, reads or what attempts have written, and the others.
Quiet == /\ ranking' = ranking /\ edit' = edit /\ newest <= newest' /\ torn' = torn
         /\ WritersStay

LEMMA ReadSteps ==
  ASSUME TypeOK, [Next]_vars
  PROVE  \/ \E w \in Workers : ReplaceRanking(w) \/ WriteVessel(w)
         \/ \E a \in Analysts, d \in Slicks : StartReweight(a, d)
         \/ \E a \in Analysts : \E e \in edit[a].todo : SaveReweighted(a, e)
         \/ \E a \in Analysts : BreakOff(a)
         \/ Quiet
<1>0. newest \in Nat /\ newest <= newest /\ newest <= newest + 1
  BY DEF TypeOK
<1>1. ASSUME NEW d \in Slicks,
             Precompute(d) \/ RequestDrift(d) \/ (\E o \in 1..newest : RequestCorrelate(d, o))
      PROVE  Quiet
  BY <1>0, <1>1, SameRunStays DEF Precompute, RequestDrift, RequestCorrelate, Quiet
<1>2. ASSUME NEW k \in Keys, Cancel(k) PROVE Quiet
  BY <1>0, <1>2, SameRunStays DEF Cancel, Quiet
<1>3. ASSUME NEW w \in Workers, NEW k \in Keys, Pick(w, k) PROVE Quiet
  <2>1. WritersStay
    BY <1>3, PickedRun, BecomeStays
  <2>2. QED
    BY <1>0, <1>3, <2>1 DEF Pick, Quiet
<1>4. ASSUME NEW w \in Workers,
             Supersede(w) \/ Chain(w) \/ LoadOrigin(w) \/ QueryAis(w) \/ WroteAll(w)
      PROVE  Quiet
  <2>1. PICK q \in {"create", "return", "query", "replace"} : Goto(w, q)
    BY <1>4 DEF Supersede, Chain, LoadOrigin, QueryAis, WroteAll
  <2>2. q \in Pc /\ q # "write"
    BY <2>1 DEF Pc
  <2>3. WritersStay
    BY <2>1, <2>2, GotoStays
  <2>4. QED
    BY <1>0, <1>4, <2>3 DEF Supersede, Chain, LoadOrigin, QueryAis, WroteAll, Quiet
<1>5. ASSUME NEW w \in Workers, CreateOrigin(w) PROVE Quiet
  <2>1. WritersStay
    BY <1>5, CreatedRun, BecomeStays
  <2>2. QED
    BY <1>0, <1>5, <2>1 DEF CreateOrigin, Quiet
<1>6. ASSUME NEW w \in Workers, Complete(w) \/ Fail(w) PROVE Quiet
  BY <1>0, <1>6, LeaveStays DEF Complete, Fail, Quiet
<1>7. ASSUME NEW w \in Workers, NEW dead \in BOOLEAN, Stall(w, dead) PROVE Quiet
  <2>1. CASE dead
    BY <1>0, <1>7, <2>1, LeaveStays DEF Stall, Leave, Quiet
  <2>2. CASE ~dead
    <3>1. run' = [run EXCEPT ![w] = [run[w] EXCEPT !.zombie = TRUE]] /\ run[w] \in Run
      BY <1>7, <2>2 DEF Stall, Become, TypeOK
    <3>2. \A v \in Workers : /\ run'[v].key = run[v].key /\ run'[v].pc = run[v].pc
                             /\ run'[v].batch = run[v].batch /\ run'[v].done = run[v].done
      BY <3>1 DEF TypeOK, Run
    <3>3. WritersStay
      BY <3>2 DEF WritersStay
    <3>4. QED
      BY <1>0, <1>7, <3>3 DEF Stall, Quiet
  <2>3. QED
    BY <2>1, <2>2
<1>8. CASE UNCHANGED vars
  BY <1>0, <1>8, SameRunStays DEF vars, Quiet
<1>9. QED
  BY <1>1, <1>2, <1>3, <1>4, <1>5, <1>6, <1>7, <1>8, IngestedSlicks DEF Next, RunStep

LEMMA BatchesInit == Init => BatchesInv /\ ReadsInv
  BY DEF Init, BatchesInv, ReadsInv, Writing, Free

\* What an analyst reads: every vessel of the ranking, each with a place of its own.
LEMMA ReadTaken ==
  ASSUME TypeOK, NEW a \in Analysts, NEW d \in Slicks, StartReweight(a, d)
  PROVE  /\ run' = run /\ ranking' = ranking /\ newest' = newest
         /\ edit[a].todo = {} /\ ranking[d] # {}
         /\ edit'[a].slick = d
         /\ \A b \in Analysts : b # a => edit'[b] = edit[b]
         /\ \E place \in [ranking[d] -> 1..MaxRank] :
              /\ \A u, v \in ranking[d] : u # v => place[u] # place[v]
              /\ \A v \in ranking[d] : place[v] <= Cardinality(ranking[d])
              /\ edit'[a].todo = {[doc |-> v, rank |-> place[v]] : v \in ranking[d]}
<1>1. PICK place \in [ranking[d] -> 1..MaxRank] :
        /\ \A u, v \in ranking[d] : u # v => place[u] # place[v]
        /\ \A v \in ranking[d] : place[v] <= Cardinality(ranking[d])
        /\ edit' = [edit EXCEPT ![a] =
             [slick |-> d, todo |-> {[doc |-> v, rank |-> place[v]] : v \in ranking[d]}]]
  BY DEF StartReweight
<1> DEFINE todo == {[doc |-> v, rank |-> place[v]] : v \in ranking[d]}
<1>2. edit' = [edit EXCEPT ![a] = [slick |-> d, todo |-> todo]]
  BY <1>1
<1> HIDE DEF todo
<1>3. /\ edit'[a].slick = d /\ edit'[a].todo = todo
      /\ \A b \in Analysts : b # a => edit'[b] = edit[b]
  BY <1>2 DEF TypeOK
<1>4. run' = run /\ ranking' = ranking /\ newest' = newest
      /\ edit[a].todo = {} /\ ranking[d] # {}
  BY DEF StartReweight
<1>5. QED
  BY <1>1, <1>3, <1>4 DEF todo

\* What one save changes: the vessel that was read, if it is still stored; if not,
\* the save throws and the rest of the read is dropped.
LEMMA ReadSaved ==
  ASSUME TypeOK, NEW a \in Analysts, NEW e \in edit[a].todo, SaveReweighted(a, e),
         NEW d, d = edit[a].slick
  PROVE  /\ d \in Slicks
         /\ run' = run /\ newest' = newest
         /\ \A c \in Slicks : c # d => ranking'[c] = ranking[c]
         /\ \A b \in Analysts : b # a => edit'[b] = edit[b]
         /\ edit'[a].slick = d
         /\ IF \E v \in ranking[d] : SameDoc(v, e.doc)
              THEN edit'[a].todo = edit[a].todo \ {e}
              ELSE edit'[a].todo = {} /\ ranking'[d] = ranking[d]
         /\ \A u \in ranking'[d] :
              \/ u \in ranking[d] /\ ~SameDoc(u, e.doc)
              \/ \E v \in ranking[d] : SameDoc(v, e.doc) /\ u = Reweighted(v, e.doc, e.rank)
         /\ \A v \in ranking[d] :
              IF SameDoc(v, e.doc) THEN Reweighted(v, e.doc, e.rank) \in ranking'[d]
                                   ELSE v \in ranking'[d]
<1> DEFINE now == {v \in ranking[d] : SameDoc(v, e.doc)}
           todo == IF now = {} THEN {} ELSE edit[a].todo \ {e}
           saved == {Reweighted(v, e.doc, e.rank) : v \in now}
<1>1. d \in Slicks
  BY SaveTypes
<1>2. edit' = [edit EXCEPT ![a] = [slick |-> d, todo |-> todo]]
      /\ ranking' = [ranking EXCEPT ![d] = (ranking[d] \ now) \cup saved]
  BY <1>1 DEF SaveReweighted, TypeOK
<1>3. run' = run /\ newest' = newest
  BY DEF SaveReweighted
<1>4. ranking'[d] = (ranking[d] \ now) \cup saved
      /\ \A c \in Slicks : c # d => ranking'[c] = ranking[c]
  <2> HIDE DEF now, saved
  <2>1. QED
    BY <1>1, <1>2 DEF TypeOK
<1>5. /\ edit'[a].slick = d /\ edit'[a].todo = todo
      /\ \A b \in Analysts : b # a => edit'[b] = edit[b]
  <2> HIDE DEF todo
  <2>1. QED
    BY <1>2 DEF TypeOK
<1>6. /\ \A u \in ranking'[d] :
           \/ u \in ranking[d] /\ ~SameDoc(u, e.doc)
           \/ \E v \in ranking[d] : SameDoc(v, e.doc) /\ u = Reweighted(v, e.doc, e.rank)
      /\ \A v \in ranking[d] :
           IF SameDoc(v, e.doc) THEN Reweighted(v, e.doc, e.rank) \in ranking'[d]
                                ELSE v \in ranking'[d]
  BY <1>4
<1>7. IF \E v \in ranking[d] : SameDoc(v, e.doc)
        THEN edit'[a].todo = edit[a].todo \ {e}
        ELSE edit'[a].todo = {} /\ ranking'[d] = ranking[d]
  <2>1. CASE \E v \in ranking[d] : SameDoc(v, e.doc)
    <3>1. now # {}
      BY <2>1
    <3>2. QED
      BY <1>5, <2>1, <3>1
  <2>2. CASE ~\E v \in ranking[d] : SameDoc(v, e.doc)
    <3>1. now = {}
      BY <2>2
    <3>2. saved = {}
      BY <3>1
    <3>3. QED
      BY <1>4, <1>5, <2>2, <3>1, <3>2
  <2>3. QED
    BY <2>1, <2>2
<1>8. QED
  BY <1>1, <1>3, <1>4, <1>5, <1>6, <1>7

LEMMA ReweightedDoc ==
  ASSUME NEW v \in Vessel, NEW read, NEW rank
  PROVE  /\ SameDoc(Reweighted(v, read, rank), v)
         /\ Reweighted(v, read, rank).separation = FALSE
         /\ Reweighted(v, read, rank).rank = IF rank = read.rank THEN v.rank ELSE rank
  BY DEF Reweighted, Vessel, SameDoc

LEMMA StoredTyped ==
  ASSUME TypeOK
  PROVE  /\ \A d \in Slicks : ranking[d] \subseteq Vessel
         /\ \A a \in Analysts : edit[a].slick \in Slicks
         /\ \A a \in Analysts : \A e \in edit[a].todo : e.doc \in Vessel /\ e.rank \in 1..MaxRank
<1>1. ASSUME NEW a \in Analysts
      PROVE  edit[a].slick \in Slicks
             /\ edit[a].todo \subseteq [doc : Vessel, rank : 1..MaxRank]
  BY DEF TypeOK, Edit
<1>2. QED
  BY <1>1 DEF TypeOK

LEMMA BatchesStep ==
  ASSUME TypeOK, FreshInv, BatchesInv, [Next]_vars
  PROVE  BatchesInv'
<1>0. newest \in Nat
  BY DEF TypeOK
<1>1. ASSUME NEW w \in Workers, ReplaceRanking(w) PROVE BatchesInv'
  <2>1. PICK r \in Run :
          /\ Become(w, r)
          /\ r.key = run[w].key /\ r.pc = "write" /\ r.batch = newest + 1 /\ r.done = 0
    BY <1>1, ReplacedRun
  <2>2. \A v \in Workers : run'[v] = IF v = w THEN r ELSE run[v]
    BY <2>1 DEF Become, TypeOK
  <2>3. newest' = newest + 1 /\ edit' = edit
        /\ \A d \in Slicks : ranking'[d] = {} \/ ranking'[d] = ranking[d]
    BY <1>1, ReplacedRun
  <2>4. ASSUME NEW n \in Nat, n <= newest PROVE n <= newest'
    BY <1>0, <2>3, <2>4
  <2>5. /\ \A d \in Slicks : \A v \in ranking[d] : v.batch \in Nat
        /\ \A v \in Workers : run[v].batch \in Nat
        /\ \A a \in Analysts : \A e \in edit[a].todo : e.doc.batch \in Nat
    BY StoredTyped, RunTyped DEF Vessel, Run
  <2>6. \A d \in Slicks : \A v \in ranking'[d] : v.batch <= newest'
    BY <2>3, <2>4, <2>5 DEF BatchesInv
  <2>7. \A a \in Analysts : \A e \in edit'[a].todo : e.doc.batch <= newest'
    BY <2>3, <2>4, <2>5 DEF BatchesInv
  <2>8. ASSUME NEW v \in Workers, NEW d \in Slicks, Writing(v, d)'
        PROVE  run'[v].batch <= newest'
    <3>1. CASE v = w
      BY <1>0, <2>1, <2>2, <2>3, <3>1
    <3>2. CASE v # w
      BY <2>2, <2>4, <2>5, <2>8, <3>2 DEF BatchesInv, Writing
    <3>3. QED
      BY <3>1, <3>2
  <2>9. QED
    BY <2>6, <2>7, <2>8 DEF BatchesInv
<1>2. ASSUME NEW w \in Workers, WriteVessel(w) PROVE BatchesInv'
  <2>1. PICK u \in Vessel :
          /\ u.batch = run[w].batch
          /\ \A d \in Slicks :
               ranking'[d] = IF d = run[w].key[2] THEN ranking[d] \cup {u} ELSE ranking[d]
    BY <1>2, WrittenRun
  <2>2. /\ Writing(w, run[w].key[2]) /\ run[w].key[2] \in Slicks
        /\ newest' = newest /\ edit' = edit
        /\ \A v \in Workers : /\ run'[v].key = run[v].key /\ run'[v].pc = run[v].pc
                              /\ run'[v].batch = run[v].batch
    BY <1>2, WrittenRun
  <2>3. run[w].batch <= newest
    BY <2>2 DEF BatchesInv
  <2>4. ASSUME NEW d \in Slicks, NEW v \in ranking'[d] PROVE v.batch <= newest
    BY <2>1, <2>3, <2>4 DEF BatchesInv
  <2>5. ASSUME NEW v \in Workers, NEW d \in Slicks, Writing(v, d)'
        PROVE  run'[v].batch <= newest
    <3>1. Writing(v, d) /\ run'[v].batch = run[v].batch
      BY <2>2, <2>5 DEF Writing
    <3>2. QED
      BY <3>1 DEF BatchesInv
  <2>6. QED
    BY <2>2, <2>4, <2>5 DEF BatchesInv
<1>3. ASSUME NEW a \in Analysts, NEW d \in Slicks, StartReweight(a, d) PROVE BatchesInv'
  <2>1. PICK place \in [ranking[d] -> 1..MaxRank] :
          edit'[a].todo = {[doc |-> v, rank |-> place[v]] : v \in ranking[d]}
    BY <1>3, ReadTaken
  <2>2. \A e \in edit'[a].todo : e.doc \in ranking[d]
    BY <2>1
  <2>3. run' = run /\ ranking' = ranking /\ newest' = newest
        /\ \A b \in Analysts : b # a => edit'[b] = edit[b]
    BY <1>3, ReadTaken
  <2>4. QED
    BY <2>2, <2>3 DEF BatchesInv, Writing
<1>4. ASSUME NEW a \in Analysts, NEW e \in edit[a].todo, SaveReweighted(a, e)
      PROVE  BatchesInv'
  <2>1. run' = run /\ newest' = newest
    BY <1>4, ReadSaved
  <2>2. \A b \in Analysts : edit'[b].todo \subseteq edit[b].todo
    BY <1>4, ReadSaved
  <2>3. \A d \in Slicks : \A u \in ranking'[d] : \E v \in ranking[d] : v.batch = u.batch
    BY <1>4, SaveKeepsBatches
  <2>4. \A d \in Slicks : \A u \in ranking'[d] : u.batch <= newest
    BY <2>3 DEF BatchesInv
  <2>5. \A b \in Analysts : \A f \in edit'[b].todo : f.doc.batch <= newest
    BY <2>2 DEF BatchesInv
  <2>6. QED
    BY <2>1, <2>4, <2>5 DEF BatchesInv, Writing
<1>5. CASE Quiet
  <2>1. newest <= newest' /\ newest' \in Nat
    BY <1>5, StepTypes DEF Quiet, TypeOK
  <2>2. ASSUME NEW n \in Nat, n <= newest PROVE n <= newest'
    BY <1>0, <2>1, <2>2
  <2>3. /\ \A d \in Slicks : \A v \in ranking[d] : v.batch \in Nat
        /\ \A v \in Workers : run[v].batch \in Nat
        /\ \A a \in Analysts : \A e \in edit[a].todo : e.doc.batch \in Nat
    BY StoredTyped, RunTyped DEF Vessel, Run
  <2>4. QED
    BY <1>5, <2>2, <2>3 DEF BatchesInv, Writing, Quiet, WritersStay
<1>6. ASSUME NEW a \in Analysts, BreakOff(a) PROVE BatchesInv'
  BY <1>6, BrokenOff DEF BatchesInv, Writing
<1>7. QED
  BY <1>1, <1>2, <1>3, <1>4, <1>5, <1>6, ReadSteps

\* The ranking of a detection that is being written is of the batch being written.
LEMMA WritersBatch ==
  ASSUME RankingInv, NoStallYet, NEW w \in Workers, NEW d \in Slicks, Writing(w, d),
         NEW v \in ranking[d]
  PROVE  v.batch = run[w].batch
  BY DEF RankingInv, At, Slick, Writing

LEMMA OneWriter ==
  ASSUME TypeOK, PcOfKind, Exclusive, NoStallYet,
         NEW v \in Workers, NEW w \in Workers, NEW d \in Slicks,
         run[v].key # Nobody, run[v].pc \in {"replace", "write"}, run[v].key[2] = d,
         Writing(w, d)
  PROVE  v = w
  BY OthersElsewhere DEF Writing

LEMMA ReadsStep ==
  ASSUME TypeOK, PcOfKind, Exclusive, RankingInv, FreshInv, BatchesInv, ReadsInv,
         [Next]_vars
  PROVE  ReadsInv'
<1> DEFINE Together == \A a \in Analysts : \A e, f \in edit[a].todo :
                         e.doc.batch = f.doc.batch
           Started == \A d \in Slicks, w \in Workers :
                        Writing(w, d) => (run[w].done = 0 <=> ranking[d] = {})
           Unread == \A w \in Workers, a \in Analysts :
                       Writing(w, edit[a].slick) /\ run[w].done = 0 =>
                         \A e \in edit[a].todo : e.doc.batch # run[w].batch
           Whole == \A a \in Analysts : \A e \in edit[a].todo, v \in ranking[edit[a].slick] :
                      v.batch = e.doc.batch =>
                        \E u \in ranking[edit[a].slick] : SameDoc(u, e.doc)
<1> SUFFICES ASSUME NoStallYet' PROVE Together' /\ Started' /\ Unread' /\ Whole'
  BY DEF ReadsInv
<1>1. NoStallYet
  BY NoStallBefore
<1>2. Together /\ Started /\ Unread /\ Whole
  BY <1>1 DEF ReadsInv
<1>3. /\ \A d \in Slicks : ranking[d] \subseteq Vessel
      /\ \A a \in Analysts : edit[a].slick \in Slicks
      /\ \A a \in Analysts : \A e \in edit[a].todo : e.doc \in Vessel /\ e.rank \in 1..MaxRank
  BY StoredTyped
<1>4. newest \in Nat
  BY DEF TypeOK
<1>5. CASE Quiet
  <2>1. ranking' = ranking /\ edit' = edit
    BY <1>5 DEF Quiet
  <2>2. ASSUME NEW w \in Workers, NEW d, Writing(w, d)'
        PROVE  Writing(w, d) /\ run'[w].done = run[w].done /\ run'[w].batch = run[w].batch
    BY <1>5, <2>2 DEF Quiet, WritersStay, Writing
  <2>3. Together' /\ Whole'
    BY <1>2, <2>1
  <2>4. Started'
    BY <1>2, <2>1, <2>2
  <2>5. Unread'
    BY <1>2, <1>3, <2>1, <2>2
  <2>6. QED
    BY <2>3, <2>4, <2>5
<1>6. ASSUME NEW w \in Workers, ReplaceRanking(w)
      PROVE  Together' /\ Started' /\ Unread' /\ Whole'
  <2>1. PICK r \in Run :
          /\ Become(w, r)
          /\ r.key = run[w].key /\ r.pc = "write" /\ r.batch = newest + 1 /\ r.done = 0
    BY <1>6, ReplacedRun
  <2>2. \A v \in Workers : run'[v] = IF v = w THEN r ELSE run[v]
    BY <2>1 DEF Become, TypeOK
  <2>3. /\ edit' = edit
        /\ run[w].key # Nobody /\ run[w].pc = "replace" /\ run[w].key[2] \in Slicks
        /\ \A d \in Slicks : ranking'[d] = IF d = run[w].key[2] THEN {} ELSE ranking[d]
    BY <1>6, ReplacedRun
  <2>4. Together'
    BY <1>2, <2>3
  <2>5. ASSUME NEW v \in Workers, NEW d \in Slicks, Writing(v, d)', v # w
        PROVE  Writing(v, d) /\ run'[v] = run[v] /\ d # run[w].key[2]
    <3>1. Writing(v, d) /\ run'[v] = run[v]
      BY <2>2, <2>5 DEF Writing
    <3>2. QED
      BY <1>1, <2>3, <2>5, <3>1, OneWriter
  <2>6. Started'
    BY <1>2, <2>1, <2>2, <2>3, <2>5 DEF Writing
  <2>7. Unread'
    <3>1. ASSUME NEW a \in Analysts, NEW e \in edit[a].todo
          PROVE  e.doc.batch # newest + 1
      <4>1. e.doc.batch \in Nat /\ e.doc.batch <= newest
        BY <1>3 DEF BatchesInv, Vessel
      <4>2. QED
        BY <1>4, <4>1
    <3>2. QED
      BY <1>2, <1>3, <2>1, <2>2, <2>3, <2>5, <3>1
  <2>8. Whole'
    BY <1>2, <1>3, <2>3
  <2>9. QED
    BY <2>4, <2>6, <2>7, <2>8
<1>7. ASSUME NEW w \in Workers, WriteVessel(w)
      PROVE  Together' /\ Started' /\ Unread' /\ Whole'
  <2> DEFINE c == run[w].key[2]
  <2>1. PICK u \in Vessel :
          /\ u.batch = run[w].batch
          /\ \A d \in Slicks :
               ranking'[d] = IF d = c THEN ranking[d] \cup {u} ELSE ranking[d]
    BY <1>7, WrittenRun
  <2>2. /\ Writing(w, c) /\ c \in Slicks /\ run[w].done \in Nat
        /\ edit' = edit
        /\ \A v \in Workers : /\ run'[v].key = run[v].key /\ run'[v].pc = run[v].pc
                              /\ run'[v].batch = run[v].batch
        /\ run'[w].done = run[w].done + 1
        /\ \A v \in Workers : v # w => run'[v] = run[v]
    BY <1>7, WrittenRun
  <2> HIDE DEF c
  <2>3. run'[w].done # 0
    BY <2>2
  <2>4. Together'
    BY <1>2, <2>2
  <2>5. \A v \in Workers, d \in Slicks : Writing(v, d)' => Writing(v, d)
    BY <2>2 DEF Writing
  <2>6. ASSUME NEW v \in Workers, Writing(v, c) PROVE v = w
    <3>1. run[v].key # Nobody /\ run[v].pc \in {"replace", "write"} /\ run[v].key[2] = c
      BY <2>6 DEF Writing
    <3>2. QED
      BY <1>1, <2>2, <3>1, OneWriter
  <2>7. Started'
    <3>1. ASSUME NEW d \in Slicks, NEW v \in Workers, Writing(v, d)'
          PROVE  run'[v].done = 0 <=> ranking'[d] = {}
      <4>1. CASE d = c
        BY <2>1, <2>3, <2>5, <2>6, <3>1, <4>1
      <4>2. CASE d # c
        <5>1. v # w
          BY <2>2, <2>5, <3>1, <4>2 DEF Writing
        <5>2. run'[v].done = run[v].done /\ ranking'[d] = ranking[d] /\ Writing(v, d)
          BY <2>1, <2>2, <2>5, <3>1, <4>2, <5>1
        <5>3. QED
          BY <1>2, <5>2
      <4>3. QED
        BY <4>1, <4>2
    <3>2. QED
      BY <3>1
  <2>8. Unread'
    BY <1>2, <1>3, <2>2, <2>3, <2>5
  <2>9. ASSUME NEW a \in Analysts, NEW e \in edit'[a].todo, NEW v \in ranking'[edit'[a].slick],
               v.batch = e.doc.batch
        PROVE  \E x \in ranking'[edit'[a].slick] : SameDoc(x, e.doc)
    <3>1. edit'[a] = edit[a] /\ edit[a].slick \in Slicks
          /\ ranking[edit[a].slick] \subseteq ranking'[edit[a].slick]
      BY <1>3, <2>1, <2>2
    <3>2. CASE v \in ranking[edit[a].slick]
      BY <1>2, <2>9, <3>1, <3>2
    <3>3. CASE v \notin ranking[edit[a].slick]
      <4>1. edit[a].slick = c /\ v = u
        BY <2>1, <3>1, <3>3
      <4>2. run[w].done # 0
        BY <1>2, <2>1, <2>2, <2>9, <3>1, <4>1
      <4>3. PICK x \in ranking[c] : TRUE
        BY <1>2, <2>2, <4>2
      <4>4. x.batch = e.doc.batch
        BY <1>1, <2>1, <2>2, <2>9, <4>1, WritersBatch
      <4>5. QED
        BY <1>2, <3>1, <4>1, <4>4
    <3>4. QED
      BY <3>2, <3>3
  <2>10. QED
    BY <2>4, <2>7, <2>8, <2>9
<1>8. ASSUME NEW a \in Analysts, NEW d \in Slicks, StartReweight(a, d)
      PROVE  Together' /\ Started' /\ Unread' /\ Whole'
  <2>1. /\ run' = run /\ ranking' = ranking /\ ranking[d] # {}
        /\ edit'[a].slick = d
        /\ \A b \in Analysts : b # a => edit'[b] = edit[b]
    BY <1>8, ReadTaken
  <2>2. PICK place \in [ranking[d] -> 1..MaxRank] :
          edit'[a].todo = {[doc |-> v, rank |-> place[v]] : v \in ranking[d]}
    BY <1>8, ReadTaken
  <2>3. \A e \in edit'[a].todo : e.doc \in ranking[d]
    BY <2>2
  <2>4. \A u, v \in ranking[d] : u.batch = v.batch
    BY <1>1 DEF RankingInv
  <2>5. Together'
    BY <1>2, <2>1, <2>3, <2>4
  <2>6. Started'
    BY <1>2, <2>1 DEF Writing
  <2>7. ASSUME NEW w \in Workers, NEW b \in Analysts, Writing(w, edit[b].slick)',
               run'[w].done = 0, NEW e \in edit'[b].todo
        PROVE  e.doc.batch # run'[w].batch
    <3>1. CASE b = a
      <4>1. Writing(w, d) /\ run[w].done = 0
        BY <2>1, <2>7, <3>1 DEF Writing
      <4>2. QED
        BY <1>2, <2>1, <4>1
    <3>2. CASE b # a
      <4>1. edit'[b] = edit[b] /\ Writing(w, edit[b].slick) /\ run[w].done = 0
        BY <2>1, <2>7, <3>2 DEF Writing
      <4>2. QED
        BY <1>2, <2>1, <2>7, <4>1
    <3>3. QED
      BY <3>1, <3>2
  <2>8. Whole'
    BY <1>2, <2>1, <2>3 DEF SameDoc
  <2>9. QED
    BY <2>5, <2>6, <2>7, <2>8
<1>9. ASSUME NEW a \in Analysts, NEW e \in edit[a].todo, SaveReweighted(a, e)
      PROVE  Together' /\ Started' /\ Unread' /\ Whole'
  <2> DEFINE d == edit[a].slick
  <2>1. /\ d \in Slicks /\ run' = run
        /\ \A c \in Slicks : c # d => ranking'[c] = ranking[c]
        /\ \A b \in Analysts : b # a => edit'[b] = edit[b]
        /\ edit'[a].slick = d
    BY <1>9, ReadSaved
  <2>2. \A v \in ranking[d] :
          IF SameDoc(v, e.doc) THEN Reweighted(v, e.doc, e.rank) \in ranking'[d]
                               ELSE v \in ranking'[d]
    BY <1>9, ReadSaved
  <2>3. edit'[a].todo \subseteq edit[a].todo
    BY <1>9, ReadSaved
  <2>4. \A c \in Slicks : \A u \in ranking'[c] : \E v \in ranking[c] : v.batch = u.batch
    BY <1>9, SaveKeepsBatches
  <2> HIDE DEF d
  <2>5. \A c \in Slicks : \A v \in ranking[c] : \E u \in ranking'[c] : SameDoc(u, v)
    <3>1. ASSUME NEW v \in ranking[d] PROVE \E u \in ranking'[d] : SameDoc(u, v)
      <4>1. CASE SameDoc(v, e.doc)
        <5>1. v \in Vessel
          BY <1>3, <2>1
        <5>2. Reweighted(v, e.doc, e.rank) \in ranking'[d]
          BY <2>2, <4>1
        <5>3. QED
          BY <5>1, <5>2, ReweightedDoc
      <4>2. CASE ~SameDoc(v, e.doc)
        BY <2>2, <4>2 DEF SameDoc
      <4>3. QED
        BY <4>1, <4>2
    <3>2. QED
      BY <2>1, <3>1 DEF SameDoc
  <2>6. \A b \in Analysts : edit'[b].slick = edit[b].slick /\ edit'[b].todo \subseteq edit[b].todo
    BY <2>1, <2>3 DEF d
  <2>7. Together'
    BY <1>2, <2>6
  <2>8. Started'
    <3>1. \A c \in Slicks : ranking'[c] = {} <=> ranking[c] = {}
      BY <2>4, <2>5
    <3>2. QED
      BY <1>2, <2>1, <3>1 DEF Writing
  <2>9. Unread'
    BY <1>2, <2>1, <2>6 DEF Writing
  <2>10. ASSUME NEW b \in Analysts, NEW f \in edit'[b].todo, NEW v \in ranking'[edit'[b].slick],
                v.batch = f.doc.batch
         PROVE  \E x \in ranking'[edit'[b].slick] : SameDoc(x, f.doc)
    <3>1. edit'[b].slick = edit[b].slick /\ f \in edit[b].todo /\ edit[b].slick \in Slicks
      BY <1>3, <2>6
    <3>2. PICK y \in ranking[edit[b].slick] : y.batch = v.batch
      BY <2>4, <3>1
    <3>3. PICK z \in ranking[edit[b].slick] : SameDoc(z, f.doc)
      BY <1>2, <2>10, <3>1, <3>2
    <3>4. PICK x \in ranking'[edit[b].slick] : SameDoc(x, z)
      BY <2>5, <3>1
    <3>5. QED
      BY <3>1, <3>3, <3>4 DEF SameDoc
  <2>11. QED
    BY <2>7, <2>8, <2>9, <2>10
<1>10. ASSUME NEW a \in Analysts, BreakOff(a) PROVE Together' /\ Started' /\ Unread' /\ Whole'
  <2>1. /\ run' = run /\ ranking' = ranking
        /\ \A b \in Analysts : edit'[b].slick = edit[b].slick /\ edit'[b].todo \subseteq edit[b].todo
    BY <1>10, BrokenOff
  <2>2. Together' /\ Started' /\ Whole'
    BY <1>2, <2>1 DEF Writing
  <2>3. Unread'
    BY <1>2, <2>1 DEF Writing
  <2>4. QED
    BY <2>2, <2>3
<1>11. QED
  BY <1>5, <1>6, <1>7, <1>8, <1>9, <1>10, ReadSteps

\* A verdict over vessels that have been reweighted is one that a save under way is
\* still to remove, or was when the reweighting was broken off.
VerdictInv ==
  NoStallYet =>
    /\ \A d \in Slicks : \A u, v \in ranking[d] : d \notin torn /\ v.separation /\ u.custom =>
         \E a \in Analysts : edit[a].slick = d /\ \E e \in edit[a].todo : SameDoc(v, e.doc)
    /\ \A a \in Analysts : \A e \in edit[a].todo, v \in ranking[edit[a].slick] :
         v.separation /\ v.batch = e.doc.batch => \E f \in edit[a].todo : SameDoc(v, f.doc)

LEMMA VerdictInit == Init => VerdictInv
  BY DEF Init, VerdictInv

LEMMA VerdictStep ==
  ASSUME TypeOK, PcOfKind, Exclusive, RankingInv, FreshInv, BatchesInv, ReadsInv, VerdictInv,
         [Next]_vars
  PROVE  VerdictInv'
<1> DEFINE Pending == \A d \in Slicks : \A u, v \in ranking[d] :
             d \notin torn /\ v.separation /\ u.custom =>
               \E a \in Analysts :
                 edit[a].slick = d /\ \E e \in edit[a].todo : SameDoc(v, e.doc)
           Read == \A a \in Analysts : \A e \in edit[a].todo, v \in ranking[edit[a].slick] :
             v.separation /\ v.batch = e.doc.batch =>
               \E f \in edit[a].todo : SameDoc(v, f.doc)
<1> SUFFICES ASSUME NoStallYet' PROVE Pending' /\ Read'
  BY DEF VerdictInv
<1>1. NoStallYet /\ Pending /\ Read
  BY NoStallBefore DEF VerdictInv
<1>2. /\ \A d \in Slicks : ranking[d] \subseteq Vessel
      /\ \A a \in Analysts : edit[a].slick \in Slicks
      /\ \A a \in Analysts : \A e \in edit[a].todo : e.doc \in Vessel /\ e.rank \in 1..MaxRank
  BY StoredTyped
<1>3. CASE Quiet
  BY <1>1, <1>3 DEF Quiet
<1>4. ASSUME NEW w \in Workers, ReplaceRanking(w) PROVE Pending' /\ Read'
  <2>1. /\ edit' = edit /\ torn' = torn \ {run[w].key[2]}
        /\ \A d \in Slicks : ranking'[d] = IF d = run[w].key[2] THEN {} ELSE ranking[d]
    BY <1>4, ReplacedRun DEF ReplaceRanking, Slick
  <2>2. Pending'
    BY <1>1, <2>1
  <2>3. Read'
    BY <1>1, <1>2, <2>1
  <2>4. QED
    BY <2>2, <2>3
<1>5. ASSUME NEW w \in Workers, WriteVessel(w) PROVE Pending' /\ Read'
  <2> DEFINE c == run[w].key[2]
  <2>1. PICK x \in Vessel :
          /\ x.batch = run[w].batch /\ ~x.custom /\ (x.separation => run[w].done = 0)
          /\ \A d \in Slicks :
               ranking'[d] = IF d = c THEN ranking[d] \cup {x} ELSE ranking[d]
    BY <1>5, WrittenRun
  <2>2. edit' = edit /\ torn' = torn /\ Writing(w, c) /\ c \in Slicks
    BY <1>5, WrittenRun DEF WriteVessel, Write
  <2> HIDE DEF c
  <2>3. x.separation => ranking[c] = {} /\ \A a \in Analysts : edit[a].slick = c =>
                           \A e \in edit[a].todo : e.doc.batch # x.batch
    BY <1>1, <2>1, <2>2 DEF ReadsInv
  <2>4. ASSUME NEW d \in Slicks, NEW u \in ranking'[d], NEW v \in ranking'[d],
               d \notin torn, v.separation, u.custom
        PROVE  \E a \in Analysts :
                 edit'[a].slick = d /\ \E e \in edit'[a].todo : SameDoc(v, e.doc)
    <3>1. u \in ranking[d]
      BY <2>1, <2>4
    <3>2. v \in ranking[d]
      BY <2>1, <2>3, <2>4, <3>1
    <3>3. QED
      BY <1>1, <2>2, <2>4, <3>1, <3>2
  <2>5. ASSUME NEW a \in Analysts, NEW e \in edit'[a].todo, NEW v \in ranking'[edit'[a].slick],
               v.separation, v.batch = e.doc.batch
        PROVE  \E f \in edit'[a].todo : SameDoc(v, f.doc)
    <3>1. e \in edit[a].todo /\ edit'[a] = edit[a] /\ edit[a].slick \in Slicks
      BY <1>2, <2>2, <2>5
    <3>2. v \in ranking[edit[a].slick]
      BY <2>1, <2>3, <2>5, <3>1
    <3>3. QED
      BY <1>1, <2>5, <3>1, <3>2
  <2>6. QED
    BY <2>2, <2>4, <2>5
<1>6. ASSUME NEW a \in Analysts, NEW d \in Slicks, StartReweight(a, d)
      PROVE  Pending' /\ Read'
  <2>1. /\ ranking' = ranking /\ edit[a].todo = {}
        /\ edit'[a].slick = d
        /\ \A b \in Analysts : b # a => edit'[b] = edit[b]
    BY <1>6, ReadTaken
  <2>0. torn' = torn \ {d}
    BY <1>6 DEF StartReweight
  <2>2. PICK place \in [ranking[d] -> 1..MaxRank] :
          edit'[a].todo = {[doc |-> v, rank |-> place[v]] : v \in ranking[d]}
    BY <1>6, ReadTaken
  <2>3. \A v \in ranking[d] : \E f \in edit'[a].todo : SameDoc(v, f.doc)
    <3>1. ASSUME NEW v \in ranking[d]
          PROVE  [doc |-> v, rank |-> place[v]] \in edit'[a].todo
      BY <2>2
    <3>2. QED
      BY <3>1 DEF SameDoc
  <2>4. ASSUME NEW c \in Slicks, NEW u \in ranking[c], NEW v \in ranking[c],
               c \notin torn', v.separation, u.custom
        PROVE  \E b \in Analysts :
                 edit'[b].slick = c /\ \E f \in edit'[b].todo : SameDoc(v, f.doc)
    <3>1. CASE c = d
      BY <2>1, <2>3, <3>1
    <3>2. CASE c # d
      <4>1. PICK b \in Analysts : edit[b].slick = c /\ \E f \in edit[b].todo : SameDoc(v, f.doc)
        BY <1>1, <2>0, <2>4, <3>2
      <4>2. QED
        BY <2>1, <4>1
    <3>3. QED
      BY <3>1, <3>2
  <2>5. Read'
    BY <1>1, <2>1, <2>3
  <2>6. QED
    BY <2>1, <2>4, <2>5
<1>7. ASSUME NEW a \in Analysts, NEW e \in edit[a].todo, SaveReweighted(a, e)
      PROVE  Pending' /\ Read'
  <2> DEFINE d == edit[a].slick
  <2>1. /\ d \in Slicks
        /\ \A c \in Slicks : c # d => ranking'[c] = ranking[c]
        /\ \A b \in Analysts : b # a => edit'[b] = edit[b]
        /\ edit'[a].slick = d
    BY <1>7, ReadSaved
  <2>2. IF \E v \in ranking[d] : SameDoc(v, e.doc)
          THEN edit'[a].todo = edit[a].todo \ {e}
          ELSE edit'[a].todo = {} /\ ranking'[d] = ranking[d]
    BY <1>7, ReadSaved
  <2>3. \A u \in ranking'[d] :
          \/ u \in ranking[d] /\ ~SameDoc(u, e.doc)
          \/ \E v \in ranking[d] : SameDoc(v, e.doc) /\ u = Reweighted(v, e.doc, e.rank)
    BY <1>7, ReadSaved
  <2> HIDE DEF d
  <2>4. edit[a].slick = d
    BY DEF d
  \* A verdict that is left was stored before, and is not of the vessel just saved.
  <2>5. ASSUME NEW v \in ranking'[d], v.separation
        PROVE  v \in ranking[d] /\ ~SameDoc(v, e.doc)
    <3>1. ASSUME NEW x \in ranking[d], v = Reweighted(x, e.doc, e.rank) PROVE FALSE
      <4>1. x \in Vessel
        BY <1>2, <2>1
      <4>2. v.separation = FALSE
        BY <3>1, <4>1, ReweightedDoc
      <4>3. QED
        BY <2>5, <4>2
    <3>2. QED
      BY <2>3, <3>1
  <2>6. ASSUME NEW c \in Slicks, NEW v \in ranking'[c], v.separation
        PROVE  v \in ranking[c]
    BY <2>1, <2>5, <2>6
  \* If the vessel to be saved is gone, so is everything that was read.
  <2>7. ASSUME NEW f \in edit[a].todo, NEW x \in ranking[d], SameDoc(x, f.doc)
        PROVE  \E y \in ranking[d] : SameDoc(y, e.doc)
    <3>1. x.batch = e.doc.batch
      BY <1>1, <2>7 DEF ReadsInv, SameDoc
    <3>2. QED
      BY <1>1, <2>4, <3>1 DEF ReadsInv
  <2>8. ASSUME NEW v \in ranking'[d], v.separation,
               \E f \in edit[a].todo : SameDoc(v, f.doc)
        PROVE  \E f \in edit'[a].todo : SameDoc(v, f.doc)
    <3>1. v \in ranking[d] /\ ~SameDoc(v, e.doc)
      BY <2>5, <2>8
    <3>2. \E y \in ranking[d] : SameDoc(y, e.doc)
      BY <2>7, <2>8, <3>1
    <3>3. edit'[a].todo = edit[a].todo \ {e}
      BY <2>2, <3>2
    <3>4. QED
      BY <2>8, <3>1, <3>3
  <2>9. ASSUME NEW c \in Slicks, NEW u \in ranking'[c], NEW v \in ranking'[c],
               c \notin torn, v.separation, u.custom
        PROVE  \E b \in Analysts :
                 edit'[b].slick = c /\ \E f \in edit'[b].todo : SameDoc(v, f.doc)
    <3>1. v \in ranking[c]
      BY <2>6, <2>9
    <3>2. CASE u \in ranking[c]
      <4>1. PICK b \in Analysts : edit[b].slick = c /\ \E f \in edit[b].todo : SameDoc(v, f.doc)
        BY <1>1, <2>9, <3>1, <3>2
      <4>2. CASE b # a
        BY <2>1, <4>1, <4>2
      <4>3. CASE b = a
        BY <2>1, <2>4, <2>8, <2>9, <4>1, <4>3
      <4>4. QED
        BY <4>2, <4>3
    <3>3. CASE u \notin ranking[c]
      <4>1. c = d
        BY <2>1, <2>9, <3>3
      <4>2. PICK x \in ranking[d] : SameDoc(x, e.doc) /\ u = Reweighted(x, e.doc, e.rank)
        BY <2>3, <2>9, <3>3, <4>1
      <4>3. v.batch = e.doc.batch
        BY <1>1, <2>1, <3>1, <4>1, <4>2 DEF RankingInv, SameDoc
      <4>4. \E f \in edit[a].todo : SameDoc(v, f.doc)
        BY <1>1, <2>4, <2>9, <3>1, <4>1, <4>3
      <4>5. QED
        BY <2>1, <2>8, <2>9, <4>1, <4>4
    <3>4. QED
      BY <3>2, <3>3
  <2>10. ASSUME NEW b \in Analysts, NEW f \in edit'[b].todo, NEW v \in ranking'[edit'[b].slick],
                v.separation, v.batch = f.doc.batch
         PROVE  \E g \in edit'[b].todo : SameDoc(v, g.doc)
    <3>1. edit'[b].slick = edit[b].slick /\ edit[b].slick \in Slicks /\ f \in edit[b].todo
      BY <1>2, <2>1, <2>2, <2>4, <2>10
    <3>2. v \in ranking[edit[b].slick]
      BY <2>6, <2>10, <3>1
    <3>3. \E g \in edit[b].todo : SameDoc(v, g.doc)
      BY <1>1, <2>10, <3>1, <3>2
    <3>4. QED
      BY <2>1, <2>4, <2>8, <2>10, <3>1, <3>3
  <2>11. torn' = torn
    BY <1>7 DEF SaveReweighted
  <2>12. QED
    BY <2>9, <2>10, <2>11
<1>8. ASSUME NEW a \in Analysts, BreakOff(a) PROVE Pending' /\ Read'
  <2>1. /\ edit'[a].todo = {} /\ ranking' = ranking
        /\ torn' = torn \cup {edit[a].slick}
        /\ \A b \in Analysts : b # a => edit'[b] = edit[b]
    BY <1>8, BrokenOff
  <2>2. Pending'
    BY <1>1, <2>1
  <2>3. Read'
    BY <1>1, <2>1
  <2>4. QED
    BY <2>2, <2>3
<1>9. QED
  BY <1>3, <1>4, <1>5, <1>6, <1>7, <1>8, ReadSteps

\* The vessel is not one that a reweighting under way is still to save.
Settled(v, d) ==
  \A a \in Analysts : edit[a].slick = d => \A e \in edit[a].todo : ~SameDoc(v, e.doc)

\* Every vessel is stored once.  If no reweighting was broken off, the ranks of the
\* vessels that are settled differ from each other, and from those that the others of their batch are still to be given; what
\* is stored of those others is what was read.  A ranking that is being written holds
\* no rank above the number of vessels written, nor will a save bring one there.
StoredInv ==
  NoStallYet =>
    /\ \A d \in Slicks : \A u, v \in ranking[d] : SameDoc(u, v) => u = v
    /\ \A d \in Slicks, w \in Workers : Writing(w, d) =>
         \A v \in ranking[d] : v.nr <= run[w].done
RanksInv ==
  NoStallYet =>
    /\ \A d \in Slicks : \A u, v \in ranking[d] :
         d \notin torn /\ Settled(u, d) /\ Settled(v, d) /\ u.rank = v.rank => u = v
    /\ \A d \in Slicks, w \in Workers : Writing(w, d) =>
         \A v \in ranking[d] : v.rank <= run[w].done
    /\ \A a \in Analysts, w \in Workers : Writing(w, edit[a].slick) =>
         \A e \in edit[a].todo : e.doc.batch = run[w].batch => e.rank <= run[w].done
    /\ \A a \in Analysts : \A e, f \in edit[a].todo :
         SameDoc(e.doc, f.doc) \/ e.rank = f.rank => e = f
    /\ \A a \in Analysts : \A e \in edit[a].todo, v \in ranking[edit[a].slick] :
         SameDoc(v, e.doc) => v.rank = e.doc.rank
    /\ \A a \in Analysts : \A e \in edit[a].todo, v \in ranking[edit[a].slick] :
         edit[a].slick \notin torn /\ Settled(v, edit[a].slick) /\ v.batch = e.doc.batch
           => v.rank # e.rank

LEMMA StoredInit == Init => StoredInv /\ RanksInv
  BY DEF Init, StoredInv, RanksInv, Writing, Free

LEMMA StoredStep ==
  ASSUME TypeOK, PcOfKind, Exclusive, RankingInv, FreshInv, BatchesInv, ReadsInv, StoredInv,
         [Next]_vars
  PROVE  StoredInv'
<1> DEFINE Once == \A d \in Slicks : \A u, v \in ranking[d] : SameDoc(u, v) => u = v
           Below == \A d \in Slicks, w \in Workers : Writing(w, d) =>
                      \A v \in ranking[d] : v.nr <= run[w].done
<1> SUFFICES ASSUME NoStallYet' PROVE Once' /\ Below'
  BY DEF StoredInv
<1>1. NoStallYet /\ Once /\ Below
  BY NoStallBefore DEF StoredInv
<1>2. \A d \in Slicks : ranking[d] \subseteq Vessel
  BY StoredTyped
<1>3. CASE Quiet
  <2>1. ranking' = ranking
    BY <1>3 DEF Quiet
  <2>2. \A w \in Workers, d \in Slicks :
          Writing(w, d)' => Writing(w, d) /\ run'[w].done = run[w].done
    BY <1>3 DEF Quiet, WritersStay, Writing
  <2>3. QED
    BY <1>1, <2>1, <2>2
<1>4. ASSUME NEW w \in Workers, ReplaceRanking(w) PROVE Once' /\ Below'
  <2>1. PICK r \in Run : Become(w, r) /\ r.key = run[w].key
    BY <1>4, ReplacedRun
  <2>2. \A v \in Workers : run'[v] = IF v = w THEN r ELSE run[v]
    BY <2>1 DEF Become, TypeOK
  <2>3. \A d \in Slicks : ranking'[d] = IF d = run[w].key[2] THEN {} ELSE ranking[d]
    BY <1>4, ReplacedRun
  <2>4. Once'
    BY <1>1, <2>3
  <2>5. ASSUME NEW d \in Slicks, NEW v \in Workers, Writing(v, d)', NEW u \in ranking'[d]
        PROVE  u.nr <= run'[v].done
    <3>1. d # run[w].key[2] /\ u \in ranking[d]
      BY <2>3, <2>5
    <3>2. v # w /\ run'[v] = run[v]
      BY <2>1, <2>2, <2>5, <3>1 DEF Writing
    <3>3. Writing(v, d)
      BY <2>5, <3>2 DEF Writing
    <3>4. QED
      BY <1>1, <3>1, <3>2, <3>3
  <2>6. QED
    BY <2>4, <2>5
<1>5. ASSUME NEW w \in Workers, WriteVessel(w) PROVE Once' /\ Below'
  <2> DEFINE c == run[w].key[2]
  <2>1. PICK x \in Vessel :
          /\ x.batch = run[w].batch /\ x.nr = run[w].done + 1
          /\ \A d \in Slicks :
               ranking'[d] = IF d = c THEN ranking[d] \cup {x} ELSE ranking[d]
    BY <1>5, WrittenRun
  <2>2. /\ Writing(w, c) /\ c \in Slicks /\ run[w].done \in Nat
        /\ \A v \in Workers : run'[v].key = run[v].key /\ run'[v].pc = run[v].pc
        /\ run'[w].done = run[w].done + 1
        /\ \A v \in Workers : v # w => run'[v] = run[v]
    BY <1>5, WrittenRun
  <2> HIDE DEF c
  <2>3. \A v \in ranking[c] : v.nr \in Nat /\ v.nr <= run[w].done
    BY <1>1, <1>2, <2>2 DEF Vessel
  <2>4. \A v \in ranking[c] : ~SameDoc(v, x) /\ ~SameDoc(x, v)
    BY <2>1, <2>2, <2>3 DEF SameDoc
  <2>5. ASSUME NEW d \in Slicks, NEW u \in ranking'[d], NEW v \in ranking'[d],
               SameDoc(u, v)
        PROVE  u = v
    <3>1. CASE d # c
      BY <1>1, <2>1, <2>5, <3>1
    <3>2. CASE d = c
      <4>1. u \in ranking[c] \cup {x} /\ v \in ranking[c] \cup {x}
        BY <2>1, <2>5, <3>2
      <4>2. CASE u \in ranking[c] /\ v \in ranking[c]
        BY <1>1, <2>2, <2>5, <4>2
      <4>3. CASE u = x \/ v = x
        BY <2>4, <2>5, <4>1, <4>3
      <4>4. QED
        BY <4>1, <4>2, <4>3
    <3>3. QED
      BY <3>1, <3>2
  <2>6. ASSUME NEW d \in Slicks, NEW v \in Workers, Writing(v, d)', NEW u \in ranking'[d]
        PROVE  u.nr <= run'[v].done
    <3>1. Writing(v, d)
      BY <2>2, <2>6 DEF Writing
    <3>2. CASE v = w
      <4>1. d = c
        BY <2>2, <3>1, <3>2 DEF Writing
      <4>2. CASE u = x
        BY <2>1, <2>2, <3>2, <4>2
      <4>3. CASE u \in ranking[c]
        BY <2>2, <2>3, <3>2, <4>3
      <4>4. QED
        BY <2>1, <2>6, <4>1, <4>2, <4>3
    <3>3. CASE v # w
      <4>1. d # c
        <5>1. run[v].key # Nobody /\ run[v].pc \in {"replace", "write"} /\ run[v].key[2] = d
          BY <3>1 DEF Writing
        <5>2. QED
          BY <1>1, <2>2, <3>3, <5>1, OneWriter
      <4>2. QED
        BY <1>1, <2>1, <2>2, <2>6, <3>1, <3>3, <4>1
    <3>4. QED
      BY <3>2, <3>3
  <2>7. QED
    BY <2>5, <2>6
<1>6. ASSUME NEW a \in Analysts, NEW d \in Slicks, StartReweight(a, d)
      PROVE  Once' /\ Below'
  <2>1. run' = run /\ ranking' = ranking
    BY <1>6, ReadTaken
  <2>2. QED
    BY <1>1, <2>1 DEF Writing
<1>7. ASSUME NEW a \in Analysts, NEW e \in edit[a].todo, SaveReweighted(a, e)
      PROVE  Once' /\ Below'
  <2> DEFINE d == edit[a].slick
  <2>1. /\ d \in Slicks /\ run' = run
        /\ \A c \in Slicks : c # d => ranking'[c] = ranking[c]
        /\ \A u \in ranking'[d] :
             \/ u \in ranking[d] /\ ~SameDoc(u, e.doc)
             \/ \E v \in ranking[d] : SameDoc(v, e.doc) /\ u = Reweighted(v, e.doc, e.rank)
    BY <1>7, ReadSaved
  <2> HIDE DEF d
  <2>2. ASSUME NEW v \in ranking[d]
        PROVE  SameDoc(Reweighted(v, e.doc, e.rank), v)
    BY <1>2, <2>1, ReweightedDoc
  <2>3. ASSUME NEW u \in ranking'[d], NEW v \in ranking'[d], SameDoc(u, v) PROVE u = v
    <3>1. CASE ~SameDoc(u, e.doc)
      <4>1. ~SameDoc(v, e.doc)
        BY <2>3, <3>1 DEF SameDoc
      <4>2. u \in ranking[d] /\ v \in ranking[d]
        BY <2>1, <2>2, <3>1, <4>1 DEF SameDoc
      <4>3. QED
        BY <1>1, <2>1, <2>3, <4>2
    <3>2. CASE SameDoc(u, e.doc)
      <4>1. SameDoc(v, e.doc)
        BY <2>3, <3>2 DEF SameDoc
      <4>2. PICK x \in ranking[d] : SameDoc(x, e.doc) /\ u = Reweighted(x, e.doc, e.rank)
        BY <2>1, <3>2
      <4>3. PICK y \in ranking[d] : SameDoc(y, e.doc) /\ v = Reweighted(y, e.doc, e.rank)
        BY <2>1, <4>1
      <4>4. x = y
        BY <1>1, <2>1, <4>2, <4>3 DEF SameDoc
      <4>5. QED
        BY <4>2, <4>3, <4>4
    <3>3. QED
      BY <3>1, <3>2
  <2>4. Once'
    BY <1>1, <2>1, <2>3
  <2>5. ASSUME NEW u \in ranking'[d] PROVE \E v \in ranking[d] : v.nr = u.nr
    BY <2>1, <2>2 DEF SameDoc
  <2>6. Below'
    BY <1>1, <2>1, <2>5 DEF Writing
  <2>7. QED
    BY <2>4, <2>6
<1>8. ASSUME NEW a \in Analysts, BreakOff(a) PROVE Once' /\ Below'
  BY <1>1, <1>8, BrokenOff DEF Writing
<1>9. QED
  BY <1>3, <1>4, <1>5, <1>6, <1>7, <1>8, ReadSteps

\* A ranking that is being written has as many vessels as were written, at most.
LEMMA FewVessels ==
  ASSUME TypeOK, RankingInv, StoredInv, NoStallYet, NEW w \in Workers, NEW d \in Slicks,
         Writing(w, d)
  PROVE  IsFiniteSet(ranking[d]) /\ Cardinality(ranking[d]) <= run[w].done
<1>1. run[w].done \in Nat
  BY RunTyped DEF Run
<1>2. IsFiniteSet(1..run[w].done) /\ Cardinality(1..run[w].done) = run[w].done
  <2>1. 1 \in Int /\ run[w].done \in Int
    BY <1>1
  <2>2. /\ IsFiniteSet(1..run[w].done)
        /\ Cardinality(1..run[w].done) = IF 1 > run[w].done THEN 0 ELSE run[w].done - 1 + 1
    BY <2>1, FS_Interval
  <2>3. (IF 1 > run[w].done THEN 0 ELSE run[w].done - 1 + 1) = run[w].done
    BY <1>1
  <2>4. QED
    BY <2>2, <2>3
<1> DEFINE nr == [v \in ranking[d] |-> v.nr]
<1>3. ASSUME NEW v \in ranking[d] PROVE v.nr \in 1..run[w].done
  <2>1. v.nr \in Nat \ {0}
    BY StoredTyped DEF Vessel
  <2>2. v.nr <= run[w].done
    BY DEF StoredInv
  <2>3. QED
    BY <1>1, <2>1, <2>2
<1>4. \A u, v \in ranking[d] : u.nr = v.nr => u = v
  BY DEF StoredInv, RankingInv, SameDoc
<1>5. nr \in Injection(ranking[d], 1..run[w].done)
  BY <1>3, <1>4, Fun_IsInj
<1>6. QED
  BY <1>2, <1>5, FS_Injection

\* At most one analyst reweights: a second one at the same time may end with two vessels
\* of one rank, as a rank that is the one read is not written.
OneAnalystAtMost == \A a, b \in Analysts : a = b

LEMMA RanksStep ==
  ASSUME OneAnalystAtMost,
         TypeOK, PcOfKind, Exclusive, RankingInv, FreshInv, BatchesInv, ReadsInv, StoredInv,
         RanksInv, [Next]_vars
  PROVE  RanksInv'
<1> DEFINE Differ == \A d \in Slicks : \A u, v \in ranking[d] :
                       d \notin torn /\ Settled(u, d) /\ Settled(v, d) /\ u.rank = v.rank
                         => u = v
           Below == \A d \in Slicks, w \in Workers : Writing(w, d) =>
                      \A v \in ranking[d] : v.rank <= run[w].done
           PlacesBelow == \A a \in Analysts, w \in Workers : Writing(w, edit[a].slick) =>
                            \A e \in edit[a].todo :
                              e.doc.batch = run[w].batch => e.rank <= run[w].done
           Places == \A a \in Analysts : \A e, f \in edit[a].todo :
                       SameDoc(e.doc, f.doc) \/ e.rank = f.rank => e = f
           AsRead == \A a \in Analysts : \A e \in edit[a].todo, v \in ranking[edit[a].slick] :
                       SameDoc(v, e.doc) => v.rank = e.doc.rank
           PlaceFree == \A a \in Analysts :
                          \A e \in edit[a].todo, v \in ranking[edit[a].slick] :
                            edit[a].slick \notin torn /\ Settled(v, edit[a].slick)
                              /\ v.batch = e.doc.batch => v.rank # e.rank
           All == Differ /\ Below /\ PlacesBelow /\ Places /\ AsRead /\ PlaceFree
<1> SUFFICES ASSUME NoStallYet' PROVE All'
  BY DEF RanksInv
<1>1. NoStallYet /\ All
  BY NoStallBefore DEF RanksInv
<1>2. /\ \A d \in Slicks : ranking[d] \subseteq Vessel
      /\ \A a \in Analysts : edit[a].slick \in Slicks
      /\ \A a \in Analysts : \A e \in edit[a].todo : e.doc \in Vessel /\ e.rank \in 1..MaxRank
  BY StoredTyped
<1>3. CASE Quiet
  <2>1. ranking' = ranking /\ edit' = edit /\ torn' = torn
    BY <1>3 DEF Quiet
  <2>2. \A w \in Workers : \A d : Writing(w, d)' =>
          Writing(w, d) /\ run'[w].done = run[w].done /\ run'[w].batch = run[w].batch
    BY <1>3 DEF Quiet, WritersStay, Writing
  <2>3. \A v, d : Settled(v, d)' <=> Settled(v, d)
    BY <2>1 DEF Settled
  <2>4. Differ' /\ AsRead' /\ PlaceFree' /\ Places'
    BY <1>1, <2>1, <2>3
  <2>5. Below'
    BY <1>1, <2>1, <2>2
  <2>6. PlacesBelow'
    BY <1>1, <2>1, <2>2
  <2>7. QED
    BY <2>4, <2>5, <2>6
<1>4. ASSUME NEW w \in Workers, ReplaceRanking(w) PROVE All'
  <2> DEFINE c == run[w].key[2]
  <2>1. PICK r \in Run : Become(w, r) /\ r.key = run[w].key /\ r.batch = newest + 1
    BY <1>4, ReplacedRun
  <2>2. \A v \in Workers : run'[v] = IF v = w THEN r ELSE run[v]
    BY <2>1 DEF Become, TypeOK
  <2>3. /\ edit' = edit /\ torn' = torn \ {c}
        /\ \A d \in Slicks : ranking'[d] = IF d = c THEN {} ELSE ranking[d]
    BY <1>4, ReplacedRun DEF ReplaceRanking, Slick
  <2>4. \A v, d : Settled(v, d)' <=> Settled(v, d)
    BY <2>3 DEF Settled
  <2>5. \A v \in Workers : \A d : Writing(v, d)' /\ d # c => v # w
    BY <2>1, <2>2 DEF Writing
  <2> HIDE DEF c
  <2>6. Differ' /\ Places'
    BY <1>1, <2>3, <2>4
  <2>7. AsRead' /\ PlaceFree'
    BY <1>1, <1>2, <2>3, <2>4
  <2>8. ASSUME NEW d \in Slicks, NEW v \in Workers, Writing(v, d)', NEW u \in ranking'[d]
        PROVE  u.rank <= run'[v].done
    <3>1. d # c /\ u \in ranking[d]
      BY <2>3, <2>8
    <3>2. run'[v] = run[v]
      BY <2>2, <2>5, <2>8, <3>1
    <3>3. Writing(v, d)
      BY <2>8, <3>2 DEF Writing
    <3>4. QED
      BY <1>1, <3>1, <3>2, <3>3
  <2>9. ASSUME NEW a \in Analysts, NEW v \in Workers, Writing(v, edit[a].slick)',
               NEW e \in edit'[a].todo, e.doc.batch = run'[v].batch
        PROVE  e.rank <= run'[v].done
    <3>1. e \in edit[a].todo
      BY <2>3
    <3>2. e.doc.batch \in Nat /\ e.doc.batch <= newest /\ newest \in Nat
      BY <1>2, <3>1 DEF BatchesInv, Vessel, TypeOK
    <3>3. v # w
      BY <2>1, <2>2, <2>9, <3>2
    <3>4. run'[v] = run[v] /\ Writing(v, edit[a].slick)
      BY <2>2, <2>3, <2>9, <3>3 DEF Writing
    <3>5. QED
      BY <1>1, <2>9, <3>1, <3>4
  <2>10. QED
    BY <2>6, <2>7, <2>8, <2>9
<1>5. ASSUME NEW w \in Workers, WriteVessel(w) PROVE All'
  <2> DEFINE c == run[w].key[2]
             n == run[w].done
  <2>1. PICK x \in Vessel :
          /\ x.batch = run[w].batch /\ x.nr = n + 1 /\ x.rank = n + 1
          /\ \A d \in Slicks :
               ranking'[d] = IF d = c THEN ranking[d] \cup {x} ELSE ranking[d]
    BY <1>5, WrittenRun
  <2>2. /\ Writing(w, c) /\ c \in Slicks /\ n \in Nat
        /\ edit' = edit /\ torn' = torn
        /\ \A v \in Workers : /\ run'[v].key = run[v].key /\ run'[v].pc = run[v].pc
                              /\ run'[v].batch = run[v].batch
        /\ run'[w].done = n + 1
        /\ \A v \in Workers : v # w => run'[v] = run[v]
    BY <1>5, WrittenRun DEF WriteVessel, Write
  <2>3. /\ \A v \in ranking[c] : v.nr <= n /\ v.rank <= n /\ v.batch = run[w].batch
        /\ \A a \in Analysts : edit[a].slick = c => \A e \in edit[a].todo :
             e.doc.batch = run[w].batch => e.rank <= n
    BY <1>1, <2>2, WritersBatch DEF StoredInv
  <2>4. n = 0 => \A a \in Analysts : edit[a].slick = c => \A e \in edit[a].todo :
                   e.doc.batch # run[w].batch
    BY <1>1, <2>2 DEF ReadsInv
  <2>5. n # 0 => ranking[c] # {}
    BY <1>1, <2>2 DEF ReadsInv
  <2> HIDE DEF c, n
  <2>6. \A v \in ranking[c] : v.nr \in Nat /\ v.rank \in Nat
    BY <1>2, <2>2 DEF Vessel
  \* What is still to be saved of this batch was stored when it was read.
  <2>7. Settled(x, c)
    <3>1. SUFFICES ASSUME NEW a \in Analysts, edit[a].slick = c,
                          NEW e \in edit[a].todo, SameDoc(x, e.doc)
                   PROVE  FALSE
      BY DEF Settled
    <3>2. e.doc.batch = run[w].batch
      BY <2>1, <3>1 DEF SameDoc
    <3>3. PICK v \in ranking[c] : TRUE
      BY <2>4, <2>5, <3>1, <3>2
    <3>4. PICK u \in ranking[c] : SameDoc(u, e.doc)
      BY <1>1, <2>3, <3>1, <3>2 DEF ReadsInv
    <3>5. u.nr = n + 1
      BY <2>1, <3>1, <3>4 DEF SameDoc
    <3>6. QED
      BY <2>2, <2>3, <2>6, <3>5
  <2>8. \A v, d : Settled(v, d)' <=> Settled(v, d)
    BY <2>2 DEF Settled
  <2>9. \A v \in ranking[c] : v.rank # x.rank
    BY <2>1, <2>2, <2>3, <2>6
  <2>10. ASSUME NEW d \in Slicks, NEW u \in ranking'[d], NEW v \in ranking'[d],
                d \notin torn, Settled(u, d)', Settled(v, d)', u.rank = v.rank
         PROVE  u = v
    <3>1. CASE d # c
      BY <1>1, <2>1, <2>8, <2>10, <3>1
    <3>2. CASE d = c
      <4>1. u \in ranking[c] \cup {x} /\ v \in ranking[c] \cup {x}
        BY <2>1, <2>10, <3>2
      <4>2. CASE u \in ranking[c] /\ v \in ranking[c]
        BY <1>1, <2>2, <2>8, <2>10, <3>2, <4>2
      <4>3. CASE u = x \/ v = x
        BY <2>9, <2>10, <4>1, <4>3
      <4>4. QED
        BY <4>1, <4>2, <4>3
    <3>3. QED
      BY <3>1, <3>2
  <2>11. ASSUME NEW v \in Workers, NEW d, Writing(v, d)'
         PROVE  Writing(v, d) /\ run'[v].batch = run[v].batch
                /\ IF v = w THEN d = c /\ run'[v].done = n + 1
                            ELSE run'[v].done = run[v].done /\ d # c
    <3>1. Writing(v, d) /\ run'[v].batch = run[v].batch
      BY <2>2, <2>11 DEF Writing
    <3>2. CASE v = w
      BY <2>2, <3>1, <3>2 DEF Writing
    <3>3. CASE v # w
      <4>1. run[v].key # Nobody /\ run[v].pc \in {"replace", "write"} /\ run[v].key[2] = d
        BY <3>1 DEF Writing
      <4>2. d # c
        BY <1>1, <2>2, <3>3, <4>1, OneWriter
      <4>3. QED
        BY <2>2, <3>1, <3>3, <4>2
    <3>4. QED
      BY <3>2, <3>3
  <2>12. ASSUME NEW d \in Slicks, NEW v \in Workers, Writing(v, d)', NEW u \in ranking'[d]
         PROVE  u.rank <= run'[v].done
    <3>1. CASE v # w
      <4>1. Writing(v, d) /\ run'[v].done = run[v].done /\ u \in ranking[d]
        BY <2>1, <2>11, <2>12, <3>1
      <4>2. QED
        BY <1>1, <4>1
    <3>2. CASE v = w
      <4>1. run'[v].done = n + 1 /\ u \in ranking[c] \cup {x}
        BY <2>1, <2>2, <2>11, <2>12, <3>2
      <4>2. CASE u = x
        BY <2>1, <2>2, <4>1, <4>2
      <4>3. CASE u \in ranking[c]
        BY <2>2, <2>3, <2>6, <4>1, <4>3
      <4>4. QED
        BY <4>1, <4>2, <4>3
    <3>3. QED
      BY <3>1, <3>2
  <2>13. ASSUME NEW a \in Analysts, NEW v \in Workers, Writing(v, edit[a].slick)',
                NEW e \in edit'[a].todo, e.doc.batch = run'[v].batch
         PROVE  e.rank <= run'[v].done
    <3>1. /\ edit'[a] = edit[a] /\ e \in edit[a].todo /\ e.rank \in Nat
          /\ Writing(v, edit[a].slick) /\ e.doc.batch = run[v].batch
      BY <1>2, <2>2, <2>11, <2>13
    <3>2. CASE v # w
      BY <1>1, <2>11, <2>13, <3>1, <3>2
    <3>3. CASE v = w
      <4>1. edit[a].slick = c /\ run'[v].done = n + 1
        BY <2>11, <2>13, <3>1, <3>3
      <4>2. e.rank <= n
        BY <2>3, <3>1, <3>3, <4>1
      <4>3. QED
        BY <2>2, <3>1, <4>1, <4>2
    <3>4. QED
      BY <3>2, <3>3
  <2>14. ASSUME NEW a \in Analysts, NEW e \in edit'[a].todo, NEW v \in ranking'[edit'[a].slick]
         PROVE  /\ SameDoc(v, e.doc) => v.rank = e.doc.rank
                /\ edit[a].slick \notin torn /\ Settled(v, edit[a].slick)'
                     /\ v.batch = e.doc.batch => v.rank # e.rank
    <3>1. edit'[a] = edit[a] /\ e \in edit[a].todo /\ edit[a].slick \in Slicks
          /\ e.rank \in Nat
      BY <1>2, <2>2
    <3>2. CASE v \in ranking[edit[a].slick]
      BY <1>1, <2>8, <3>1, <3>2
    <3>3. CASE v \notin ranking[edit[a].slick]
      <4>1. edit[a].slick = c /\ v = x
        BY <2>1, <3>1, <3>3
      <4>2. ~SameDoc(v, e.doc)
        BY <2>7, <3>1, <4>1 DEF Settled
      <4>3. v.batch = e.doc.batch => e.rank <= n
        BY <2>1, <2>3, <3>1, <4>1
      <4>4. QED
        BY <2>1, <2>2, <3>1, <4>1, <4>2, <4>3
    <3>4. QED
      BY <3>2, <3>3
  <2>15. Places'
    BY <1>1, <2>2
  <2>16. Differ'
    BY <2>2, <2>10
  <2>17. QED
    BY <2>2, <2>12, <2>13, <2>14, <2>15, <2>16
<1>6. ASSUME NEW a \in Analysts, NEW d \in Slicks, StartReweight(a, d) PROVE All'
  <2>1. /\ run' = run /\ ranking' = ranking /\ ranking[d] # {}
        /\ edit[a].todo = {} /\ edit'[a].slick = d /\ torn' = torn \ {d}
    BY <1>6, ReadTaken DEF StartReweight
  <2>2. PICK place \in [ranking[d] -> 1..MaxRank] :
          /\ \A u, v \in ranking[d] : u # v => place[u] # place[v]
          /\ \A v \in ranking[d] : place[v] <= Cardinality(ranking[d])
          /\ edit'[a].todo = {[doc |-> v, rank |-> place[v]] : v \in ranking[d]}
    BY <1>6, ReadTaken
  <2>3. \A e \in edit'[a].todo : e.doc \in ranking[d] /\ e.rank = place[e.doc]
                                 /\ e = [doc |-> e.doc, rank |-> place[e.doc]]
    BY <2>2
  <2>4. \A v \in ranking[d] : [doc |-> v, rank |-> place[v]] \in edit'[a].todo
    BY <2>2
  <2>5. \A b \in Analysts : b = a
    BY DEF OneAnalystAtMost
  <2>6. \A u, v \in ranking[d] : SameDoc(u, v) => u = v
    BY <1>1 DEF StoredInv
  <2>7. \A v \in ranking[d] : ~Settled(v, d)'
    <3>1. ASSUME NEW v \in ranking[d] PROVE SameDoc(v, [doc |-> v, rank |-> place[v]].doc)
      BY DEF SameDoc
    <3>2. QED
      BY <2>1, <2>4, <3>1 DEF Settled
  <2>8. \A v, c : Settled(v, c)
    BY <2>1, <2>5 DEF Settled
  <2>9. Differ'
    BY <1>1, <2>1, <2>7, <2>8
  <2>10. Below'
    BY <1>1, <2>1 DEF Writing
  <2>11. ASSUME NEW w \in Workers, Writing(w, d), NEW e \in edit'[a].todo
         PROVE  e.rank <= run[w].done
    <3>1. Cardinality(ranking[d]) <= run[w].done
      BY <1>1, <2>11, FewVessels
    <3>2. e.rank <= Cardinality(ranking[d])
      BY <2>2, <2>3
    <3>3. Cardinality(ranking[d]) \in Nat /\ run[w].done \in Nat /\ e.rank \in Nat
      <4>1. IsFiniteSet(ranking[d])
        BY <1>1, <2>11, FewVessels
      <4>2. place[e.doc] \in 1..MaxRank
        BY <2>3
      <4>3. QED
        BY <2>3, <4>1, <4>2, RunTyped, FS_CardinalityType DEF Run
    <3>4. QED
      BY <3>1, <3>2, <3>3
  <2>12. PlacesBelow'
    BY <2>1, <2>5, <2>11 DEF Writing
  <2>13. ASSUME NEW e \in edit'[a].todo, NEW f \in edit'[a].todo,
                SameDoc(e.doc, f.doc) \/ e.rank = f.rank
         PROVE  e = f
    <3>1. e.doc = f.doc
      BY <2>2, <2>3, <2>6, <2>13
    <3>2. QED
      BY <2>3, <3>1
  <2>14. AsRead'
    BY <2>1, <2>3, <2>5, <2>6
  <2>15. PlaceFree'
    BY <2>1, <2>5, <2>7
  <2>16. QED
    BY <2>5, <2>9, <2>10, <2>12, <2>13, <2>14, <2>15
<1>7. ASSUME NEW a \in Analysts, NEW e \in edit[a].todo, SaveReweighted(a, e) PROVE All'
  <2>0. PICK d : d = edit[a].slick
    OBVIOUS
  <2>1. /\ d \in Slicks /\ run' = run
        /\ \A c \in Slicks : c # d => ranking'[c] = ranking[c]
        /\ edit'[a].slick = d
    BY <1>7, <2>0, ReadSaved
  <2>21. torn' = torn
    BY <1>7 DEF SaveReweighted
  <2>2. IF \E v \in ranking[d] : SameDoc(v, e.doc)
          THEN edit'[a].todo = edit[a].todo \ {e}
          ELSE edit'[a].todo = {} /\ ranking'[d] = ranking[d]
    BY <1>7, <2>0, ReadSaved
  <2>3. \A u \in ranking'[d] :
          \/ u \in ranking[d] /\ ~SameDoc(u, e.doc)
          \/ \E v \in ranking[d] : SameDoc(v, e.doc) /\ u = Reweighted(v, e.doc, e.rank)
    BY <1>7, <2>0, ReadSaved
  <2>4. edit[a].slick = d
    BY <2>0
  <2>5. \A b \in Analysts : b = a
    BY DEF OneAnalystAtMost
  <2>6. edit'[a].todo \subseteq edit[a].todo
    BY <2>2
  <2>7. /\ \A f \in edit[a].todo : f.doc.batch = e.doc.batch
        /\ \A f \in edit[a].todo : SameDoc(e.doc, f.doc) \/ e.rank = f.rank => e = f
    BY <1>1 DEF ReadsInv
  \* A vessel just saved has its place; the others are as they were.
  <2>8. ASSUME NEW u \in ranking'[d]
        PROVE  \/ u \in ranking[d] /\ ~SameDoc(u, e.doc)
               \/ /\ \E v \in ranking[d] : SameDoc(v, e.doc)
                  /\ SameDoc(u, e.doc) /\ u.rank = e.rank
    <3>1. CASE u \in ranking[d] /\ ~SameDoc(u, e.doc)
      BY <3>1
    <3>2. ASSUME NEW v \in ranking[d], SameDoc(v, e.doc), u = Reweighted(v, e.doc, e.rank)
          PROVE  SameDoc(u, e.doc) /\ u.rank = e.rank
      <4>1. v \in Vessel /\ v.rank = e.doc.rank
        BY <1>1, <1>2, <2>1, <2>4, <3>2
      <4>2. SameDoc(u, v) /\ u.rank = IF e.rank = e.doc.rank THEN v.rank ELSE e.rank
        BY <3>2, <4>1 DEF Reweighted, Vessel, SameDoc
      <4>3. QED
        BY <3>2, <4>1, <4>2 DEF SameDoc
    <3>3. QED
      BY <2>3, <3>1, <3>2
  \* What is settled after the save, and not saved by it, was so before.
  <2>9. ASSUME NEW u \in ranking[d], Settled(u, d)', ~SameDoc(u, e.doc)
        PROVE  Settled(u, d)
    <3>1. SUFFICES ASSUME NEW f \in edit[a].todo, SameDoc(u, f.doc) PROVE FALSE
      BY <2>5 DEF Settled
    <3>2. f \notin edit'[a].todo
      BY <2>1, <2>9, <3>1 DEF Settled
    <3>3. f # e
      BY <2>9, <3>1
    <3>4. ~\E v \in ranking[d] : SameDoc(v, e.doc)
      BY <2>2, <3>2, <3>3
    <3>5. u.batch = e.doc.batch
      BY <2>7, <3>1 DEF SameDoc
    <3>6. QED
      BY <1>1, <2>4, <3>4, <3>5 DEF ReadsInv
  <2>10. \A v, c : c # d => Settled(v, c)
    BY <2>4, <2>5 DEF Settled
  <2>11. ASSUME NEW u \in ranking'[d], NEW v \in ranking'[d],
                d \notin torn, Settled(u, d)', Settled(v, d)', u.rank = v.rank
         PROVE  SameDoc(u, v)
    <3>1. CASE ~SameDoc(u, e.doc) /\ ~SameDoc(v, e.doc)
      <4>1. u \in ranking[d] /\ v \in ranking[d] /\ Settled(u, d) /\ Settled(v, d)
        BY <2>8, <2>9, <2>11, <3>1
      <4>2. u = v
        BY <1>1, <2>1, <2>11, <4>1
      <4>3. QED
        BY <4>2 DEF SameDoc
    <3>2. CASE SameDoc(u, e.doc) /\ SameDoc(v, e.doc)
      BY <3>2 DEF SameDoc
    <3>3. ASSUME NEW x \in ranking'[d], NEW y \in ranking'[d], Settled(x, d)',
                 ~SameDoc(x, e.doc), SameDoc(y, e.doc)
          PROVE  x.rank # y.rank
      <4>1. x \in ranking[d] /\ Settled(x, d)
        BY <2>8, <2>9, <3>3
      <4>2. y.rank = e.rank /\ \E v1 \in ranking[d] : SameDoc(v1, e.doc)
        BY <2>8, <3>3
      <4>3. x.batch = e.doc.batch
        BY <1>1, <2>1, <4>1, <4>2 DEF RankingInv, SameDoc
      <4>4. QED
        BY <1>1, <2>4, <2>11, <4>1, <4>2, <4>3
    <3>4. QED
      BY <2>11, <3>1, <3>2, <3>3
  <2>12. Differ'
    <3>1. ASSUME NEW u \in ranking'[d], NEW v \in ranking'[d], d \notin torn,
                 Settled(u, d)', Settled(v, d)', u.rank = v.rank
          PROVE  u = v
      <4>1. StoredInv'
        BY StoredStep
      <4>2. QED
        BY <2>1, <2>11, <3>1, <4>1 DEF StoredInv
    <3>2. ASSUME NEW c \in Slicks, c # d, NEW u \in ranking'[c], NEW v \in ranking'[c],
                 c \notin torn, u.rank = v.rank
          PROVE  u = v
      BY <1>1, <2>1, <2>10, <3>2
    <3>3. QED
      BY <2>21, <3>1, <3>2
  <2>13. ASSUME NEW w \in Workers, Writing(w, d), NEW u \in ranking'[d]
         PROVE  u.rank <= run[w].done
    <3>1. CASE u \in ranking[d]
      BY <1>1, <2>1, <2>13, <3>1
    <3>2. CASE u \notin ranking[d]
      <4>1. u.rank = e.rank /\ \E v \in ranking[d] : SameDoc(v, e.doc)
        BY <2>8, <3>2
      <4>2. e.doc.batch = run[w].batch
        BY <1>1, <2>1, <2>13, <4>1, WritersBatch DEF SameDoc
      <4>3. QED
        BY <1>1, <2>4, <2>13, <4>1, <4>2
    <3>3. QED
      BY <3>1, <3>2
  <2>14. Below'
    <3>1. ASSUME NEW c \in Slicks, NEW w \in Workers, Writing(w, c)', NEW u \in ranking'[c]
          PROVE  u.rank <= run'[w].done
      <4>1. Writing(w, c) /\ run'[w] = run[w]
        BY <2>1, <3>1 DEF Writing
      <4>2. CASE c = d
        BY <2>13, <3>1, <4>1, <4>2
      <4>3. CASE c # d
        BY <1>1, <2>1, <3>1, <4>1, <4>3
      <4>4. QED
        BY <4>2, <4>3
    <3>2. QED
      BY <3>1
  <2>15. PlacesBelow'
    BY <1>1, <2>1, <2>4, <2>5, <2>6 DEF Writing
  <2>16. Places'
    BY <1>1, <2>5, <2>6
  <2>17. ASSUME NEW f \in edit'[a].todo, NEW v \in ranking'[d]
         PROVE  /\ SameDoc(v, f.doc) => v.rank = f.doc.rank
                /\ d \notin torn /\ Settled(v, d)' /\ v.batch = f.doc.batch
                     => v.rank # f.rank
    <3>1. f \in edit[a].todo /\ f # e
      BY <2>2, <2>6
    <3>2. CASE v \in ranking[d] /\ ~SameDoc(v, e.doc)
      <4>1. SameDoc(v, f.doc) => v.rank = f.doc.rank
        BY <1>1, <2>4, <3>1, <3>2
      <4>2. Settled(v, d)' => Settled(v, d)
        BY <2>9, <3>2
      <4>3. QED
        BY <1>1, <2>4, <3>1, <3>2, <4>1, <4>2
    <3>3. CASE SameDoc(v, e.doc) /\ v.rank = e.rank
      <4>1. ~SameDoc(v, f.doc)
        BY <2>7, <3>1, <3>3 DEF SameDoc
      <4>2. e.rank # f.rank
        BY <2>7, <3>1
      <4>3. QED
        BY <3>3, <4>1, <4>2
    <3>4. QED
      BY <2>8, <3>2, <3>3
  <2>18. AsRead'
    BY <2>1, <2>5, <2>17
  <2>19. PlaceFree'
    BY <2>1, <2>5, <2>17, <2>21
  <2>20. QED
    BY <2>12, <2>14, <2>15, <2>16, <2>18, <2>19
<1>8. ASSUME NEW a \in Analysts, BreakOff(a) PROVE All'
  <2>1. /\ edit'[a].todo = {} /\ edit'[a].slick = edit[a].slick
        /\ ranking' = ranking /\ run' = run
        /\ torn' = torn \cup {edit[a].slick}
    BY <1>8, BrokenOff
  <2>2. \A b \in Analysts : b = a
    BY DEF OneAnalystAtMost
  <2>3. \A v, c : c # edit[a].slick => Settled(v, c)
    BY <2>2 DEF Settled
  <2>4. Differ'
    BY <1>1, <2>1, <2>3
  <2>5. Below'
    BY <1>1, <2>1 DEF Writing
  <2>6. PlacesBelow' /\ Places' /\ AsRead' /\ PlaceFree'
    BY <2>1, <2>2
  <2>7. QED
    BY <2>4, <2>5, <2>6
<1>9. QED
  BY <1>3, <1>4, <1>5, <1>6, <1>7, <1>8, ReadSteps

-----------------------------------------------------------------------------
(* The theorems *)

\* With any number of cases, detections, slots, requests, cancels and crashes, a case
\* never has two origin estimates of one detection, as long as no worker that goes on
\* has lost its lock: runOrigin deletes and creates in two steps that the jobs of other
\* cases, which delete the detection's estimates of every case, may separate.
THEOREM SingleOriginCorrect == Spec => []SingleOrigin
<1> DEFINE I == TypeOK /\ PcOfKind /\ Exclusive /\ OriginInv
<1>1. Init => I
  BY InitTypes, ExclusiveInit, OriginInit
<1>2. I /\ [Next]_vars => I'
  BY StepTypes, ExclusiveStep, OriginStep
<1>3. I => SingleOrigin
  BY DEF OriginInv, SingleOrigin
<1>4. QED
  BY <1>1, <1>2, <1>3, PTL DEF Spec

\* Under the same condition the vessels stored for a detection are of one run of
\* correlate, though every vessel is written in a step of its own and analysts
\* reweight in between: the deletion before, and the queue's promise, see to it.
THEOREM SingleRankingCorrect == Spec => []SingleRanking
<1> DEFINE I == TypeOK /\ PcOfKind /\ Exclusive /\ RankingInv
<1>1. Init => I
  BY InitTypes, ExclusiveInit, RankingInit
<1>2. I /\ [Next]_vars => I'
  BY StepTypes, ExclusiveStep, RankingStep
<1>3. I => SingleRanking
  BY DEF RankingInv, SingleRanking
<1>4. QED
  BY <1>1, <1>2, <1>3, PTL DEF Spec

\* Whatever analysts reweight, at once or while the ranking is written anew: when no
\* reweighting of a ranking is under way or was broken off since, no verdict on its
\* separation stands over vessels that were reweighted.  The save that removes it comes
\* last at worst, and a document that is gone is gone with the whole ranking.
THEOREM SeparationCorrect == Spec => []SeparationIsOfThisOrder
<1> DEFINE I == /\ TypeOK /\ PcOfKind /\ Exclusive /\ RankingInv /\ FreshInv /\ BatchesInv
                /\ ReadsInv /\ VerdictInv
<1>1. Init => I
  BY InitTypes, ExclusiveInit, RankingInit, FreshInit, BatchesInit, VerdictInit
<1>2. I /\ [Next]_vars => I'
  BY StepTypes, ExclusiveStep, RankingStep, FreshStep, BatchesStep, ReadsStep, VerdictStep
<1>3. I => SeparationIsOfThisOrder
  BY DEF VerdictInv, SeparationIsOfThisOrder, Arranged
<1>4. QED
  BY <1>1, <1>2, <1>3, PTL DEF Spec

\* Where one analyst reweights at a time, two vessels of a ranking never share a rank
\* when no reweighting of it is under way or was broken off since it was written or last
\* reweighted, however the saves met the writing of the ranking: they are separate steps,
\* vessels may be added between them, and a whole reweighting mends what a broken one left.
THEOREM RanksDistinctCorrect == OneAnalystAtMost => (Spec => []RanksDistinct)
<1> SUFFICES ASSUME OneAnalystAtMost PROVE Spec => []RanksDistinct
  OBVIOUS
<1> DEFINE I == /\ TypeOK /\ PcOfKind /\ Exclusive /\ RankingInv /\ FreshInv /\ BatchesInv
                /\ ReadsInv /\ StoredInv /\ RanksInv
<1>1. Init => I
  BY InitTypes, ExclusiveInit, RankingInit, FreshInit, BatchesInit, StoredInit
<1>2. I /\ [Next]_vars => I'
  BY StepTypes, ExclusiveStep, RankingStep, FreshStep, BatchesStep, ReadsStep, StoredStep,
     RanksStep
<1>3. I => RanksDistinct
  <2> SUFFICES ASSUME I, NoStallYet, NEW d \in Slicks,
                      Arranged(d), NEW u \in ranking[d], NEW v \in ranking[d], u.rank = v.rank
               PROVE  u = v
    BY DEF RanksDistinct
  <2>1. d \notin torn /\ Settled(u, d) /\ Settled(v, d)
    BY DEF Settled, Arranged
  <2>2. QED
    BY <2>1 DEF RanksInv
<1>4. QED
  BY <1>1, <1>2, <1>3, PTL DEF Spec

\* Jobs are taken back only while they wait and given back a bounded number of times:
\* the queue these handlers are modelled over is the one JobQueue implements.
THEOREM QueuePromiseKept == Spec => KeepsQueuePromise
<1> DEFINE I == TypeOK /\ PcOfKind /\ Exclusive /\ TriesInv
<1>1. Init => I
  BY InitTypes, ExclusiveInit, TriesInit
<1>2. I /\ [Next]_vars => I' /\ [Slot!Next]_SlotVars
  BY StepTypes, ExclusiveStep, JobSteps, TriesStep, JobStepIsSlotStep
<1>3. Init => Slot!Init
  BY DEF Init, Slot!Init, NoJob, UsedOf
<1>4. [Slot!Next]_SlotVars
        => [Slot!Next]_(<<[k \in Keys |-> job[k].st], [k \in Keys |-> UsedOf(job[k])]>>)
  BY DEF SlotVars
<1>5. QED
  BY <1>1, <1>2, <1>3, <1>4, PTL DEF Spec, KeepsQueuePromise, Slot!Spec

=============================================================================
