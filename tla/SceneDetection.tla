--------------------------- MODULE SceneDetection ---------------------------
(***************************************************************************)
(* The detections of one scene: the jobs that create them (scenes/ingest.ts*)
(* ingestAndDetect and runDetectionForScene), the automatic review and the *)
(* precompute that go with an ingest, and the analysts who review them     *)
(* (detections/review.ts) while all that happens.                          *)
(*                                                                         *)
(* The two jobs are composed with JobSlot, which JobQueue implements.  One *)
(* step is the code between two `await`s that touch shared documents.      *)
(* Deletions and documents are numbered by one counter, which tells what   *)
(* came first; `batch` is the deletion a detection run began with.         *)
(***************************************************************************)
EXTENDS Naturals, Sequences, FiniteSets

CONSTANTS
  Workers,      \* slots of the ingest worker
  Analysts,     \* review requests that may be under way at once
  Nobody,       \* no job
  Outlines,     \* outlines a detection may have,
  Model,        \* the one the detector drew,
  NoOutline,    \* and none
  Scenes,       \* what the detector may find in the scene, in its own order
  MinScore,     \* TRIAGE_PRECOMPUTE.minScore
  MaxPerScene,  \* TRIAGE_PRECOMPUTE.maxPerScene
  MaxUses,      \* attempts the queue makes at one submission
  MaxRequests,  \* bound: ingests and detections that are asked for
  MaxFailures,  \* bound: attempts that fail, jobs added without their record
  MaxStalls,    \* bound: workers that lose their lock and go on
  MaxReviews,   \* bound: reviews
  MaxTrouble    \* bound: these three together

Keys       == {"ingest", "detect"}
AutoReview == {"UNREVIEWED", "AUTO_CONFIRMED", "AUTO_REJECTED"}
Verdict    == {"CONFIRMED", "REJECTED", "EDITED"}
Action     == {"CONFIRM", "REJECT", "EDIT", "REOPEN"}

\* What evaluateAutoReview says of a detected feature, and its triage score.
Feature == [auto : AutoReview, score : Nat]

ASSUME SceneDetectionAssumption ==
  /\ Nobody \notin Keys
  /\ Model \in Outlines
  /\ NoOutline \notin Outlines
  /\ Scenes \subseteq Seq(Feature)
  /\ {MinScore, MaxPerScene, MaxUses, MaxRequests, MaxFailures, MaxStalls, MaxReviews,
    MaxTrouble} \subseteq Nat

VARIABLES
  slot, used,  \* per job: where it is in the queue, how often it was given back
  scene,       \* the scene: whether it is stored, is an upload, and what is in it
  run,         \* per worker slot: the attempt it is busy with
  docs,        \* documents of spill_detections, by id
  call,        \* per analyst: the review that has read its detection
  newest,      \* the last number given to a deletion or to a document
  left         \* what remains of the bounds

queue == <<slot, used>>
vars  == <<slot, used, scene, run, docs, call, newest, left>>

Slot == INSTANCE JobSlot

-----------------------------------------------------------------------------
Pc     == {"scene", "clear", "create", "enqueue", "flag", "throw", "return"}
Entry  == [action : Action, before : Outlines \cup {NoOutline}]
Scene  == [stored : BOOLEAN, upload : BOOLEAN, found : Scenes]
Run    == [key : Keys \cup {Nobody}, pc : Pc, batch : Nat, ids : Seq(Nat),
           picked : SUBSET Nat, zombie : BOOLEAN]
\* The last four are history: whether the ingest has queued its drift, whether the
\* precompute took a drift that was queued for one that was not, the outline after each
\* save, and whether a review was ever saved that had not seen the one saved before it.
Detection == [nr : Nat, by : Keys, batch : Nat, status : AutoReview \cup Verdict,
              outline : Outlines, flagged : BOOLEAN, history : Seq(Entry),
              drift : BOOLEAN, torn : BOOLEAN, after : Seq(Outlines), raced : BOOLEAN]
Review == [id : Nat, action : Action, drawn : Outlines \cup {NoOutline},
           status : AutoReview \cup Verdict, outline : Outlines, entries : Nat]
Bound  == {"requests", "failures", "stalls", "reviews", "trouble"}

Free == [key |-> Nobody, pc |-> "return", batch |-> 0, ids |-> <<>>, picked |-> {},
         zombie |-> FALSE]
Idle == [id |-> 0, action |-> "REOPEN", drawn |-> NoOutline, status |-> "UNREVIEWED",
         outline |-> Model, entries |-> 0]

At(w, p) == run[w].key # Nobody /\ run[w].pc = p
Holds(w) == ~run[w].zombie
Last(w)  == run[w].ids[Len(run[w].ids)]
AllMade(w) == Len(run[w].ids) >= Len(scene.found)

Spend(b)     == left[b] > 0 /\ left' = [left EXCEPT ![b] = @ - 1]
Trouble(b)   ==
  /\ left[b] > 0
  /\ left["trouble"] > 0
  /\ left' = [left EXCEPT ![b] = @ - 1, !["trouble"] = @ - 1]
Become(w, r) == run' = [run EXCEPT ![w] = r]
Goto(w, p)   == Become(w, [run[w] EXCEPT !.pc = p])
Put(i, d)    == docs' = [j \in DOMAIN docs \cup {i} |-> IF j = i THEN d ELSE docs[j]]

Init ==
  /\ Slot!Init
  /\ scene \in [stored : {FALSE}, upload : BOOLEAN, found : Scenes]
  /\ run = [w \in Workers |-> Free]
  /\ docs = [i \in {} |-> {}]
  /\ call = [a \in Analysts |-> Idle]
  /\ newest = 0
  /\ left = [b \in Bound |->
               CASE b = "requests" -> MaxRequests
                 [] b = "failures" -> MaxFailures
                 [] b = "stalls"   -> MaxStalls
                 [] b = "reviews"  -> MaxReviews
                 [] b = "trouble"  -> MaxTrouble]

-----------------------------------------------------------------------------
(* The queue *)

\* POST /:id/scenes/ingest, and POST /:id/scenes/:sceneId/detect, which looks for the
\* scene; a request for queued or running work changes nothing.
Request(k) ==
  /\ k = "detect" => scene.stored
  /\ Spend("requests")
  /\ Slot!Submit(k)
  /\ UNCHANGED <<scene, run, docs, call, newest>>

Cancel(k) ==
  /\ Slot!Withdraw(k)
  /\ UNCHANGED <<scene, run, docs, call, newest, left>>

\* processIngest, which returns at once when a cancel has reached the attempt before.
Pick(w, k) ==
  /\ run[w].key = Nobody
  /\ Slot!Start(k)
  /\ \E p \in {IF k = "ingest" THEN "scene" ELSE "clear"}
              \cup {q \in {"return"} : used[k] > 0} :
       Become(w, [Free EXCEPT !.key = k, !.pc = p])
  /\ UNCHANGED <<scene, docs, call, newest, left>>

-----------------------------------------------------------------------------
(* Attempts *)

\* SatelliteSceneModel.findOneAndUpdate with upsert; an upload is not searched.
StoreScene(w) ==
  /\ At(w, "scene")
  /\ scene' = [scene EXCEPT !.stored = TRUE]
  /\ Goto(w, IF scene.upload THEN "return" ELSE "create")
  /\ UNCHANGED <<queue, docs, call, newest, left>>

\* runDetectionForScene: SpillDetectionModel.deleteMany({ sceneId })
ClearUnreviewed(w) ==
  /\ At(w, "clear")
  /\ docs' = [i \in {j \in DOMAIN docs : docs[j].history # <<>>} |-> docs[i]]
  /\ newest' = newest + 1
  /\ Become(w, [run[w] EXCEPT !.batch = newest + 1, !.pc = "create"])
  /\ UNCHANGED <<queue, scene, call, left>>
Clear(w) ==
  /\ At(w, "clear")
  /\ docs' = [i \in {} |-> {}]
  /\ newest' = newest + 1
  /\ Become(w, [run[w] EXCEPT !.batch = newest + 1, !.pc = "create"])
  /\ UNCHANGED <<queue, scene, call, left>>

\* A document of spill_detections.  Only an ingest reviews it automatically, and
\* marks it as precomputed before its drift is queued.
NewDetection(r, n) ==
  LET auto == IF r.key = "ingest" THEN scene.found[n].auto ELSE "UNREVIEWED" IN
  [nr |-> n, by |-> r.key, batch |-> r.batch, status |-> auto, outline |-> Model,
   flagged |-> auto = "AUTO_CONFIRMED", history |-> <<>>,
   drift |-> FALSE, torn |-> FALSE, after |-> <<>>, raced |-> FALSE]

Create(w) ==
  LET d == NewDetection(run[w], Len(run[w].ids) + 1) IN
  /\ At(w, "create")
  /\ ~AllMade(w)
  /\ newest' = newest + 1
  /\ Put(newest + 1, d)
  /\ Become(w, [run[w] EXCEPT !.ids = Append(@, newest + 1),
                              !.pc = IF d.flagged THEN "enqueue" ELSE "create"])
  /\ UNCHANGED <<queue, scene, call, left>>

\* enqueue adds the jobs of `ids`; for those in `torn` it throws all the same, as the
\* record in `jobs` fails, and the precompute goes on.
QueueDrift(ids, torn) ==
  docs' = [i \in DOMAIN docs |->
            [docs[i] EXCEPT !.drift = @ \/ i \in ids, !.torn = @ \/ i \in torn]]

\* The drift of a detection that was confirmed automatically; when enqueue throws, before
\* the job is added (Fail) or after, so does the attempt.
EnqueueOrSkip(w) ==
  /\ At(w, "enqueue")
  /\ QueueDrift({Last(w)}, {}) \/ QueueDrift({}, {})
  /\ Goto(w, "create")
  /\ UNCHANGED <<queue, scene, call, newest, left>>
EnqueueDrift(w) ==
  /\ At(w, "enqueue")
  /\ QueueDrift({Last(w)}, {})
  /\ \/ Goto(w, "create") /\ UNCHANGED left
     \/ Goto(w, "throw") /\ Trouble("failures")
  /\ UNCHANGED <<queue, scene, call, newest>>

\* selectForPrecompute: the best MaxPerScene of those that score enough, a tie going
\* to the one the detector ranks first.
Selected ==
  LET Score(n) == scene.found[n].score
      Eligible == {n \in DOMAIN scene.found : Score(n) >= MinScore}
      Better(m, n) == Score(m) > Score(n) \/ (Score(m) = Score(n) /\ m < n)
  IN {n \in Eligible : Cardinality({m \in Eligible : Better(m, n)}) < MaxPerScene}

\* precomputeOrigins queues them; when enqueue throws, that is logged and the detection
\* skipped, whether or not the job had been added.
Precompute(w) ==
  /\ At(w, "create")
  /\ AllMade(w)
  /\ run[w].key = "ingest"
  /\ \E queued, torn \in SUBSET {run[w].ids[n] : n \in Selected} :
       /\ queued \cap torn = {}
       /\ IF torn = {} THEN UNCHANGED left ELSE Trouble("failures")
       /\ QueueDrift(queued \cup torn, torn)
       /\ Become(w, [run[w] EXCEPT !.picked = queued,
                                   !.pc = IF queued = {} THEN "return" ELSE "flag"])
  /\ UNCHANGED <<queue, scene, call, newest>>

\* updateMany: { $set: { 'triage.precomputeRequested': true } }
Flag(w) ==
  /\ At(w, "flag")
  /\ docs' = [i \in DOMAIN docs |->
               [docs[i] EXCEPT !.flagged = @ \/ i \in run[w].picked]]
  /\ Goto(w, "return")
  /\ UNCHANGED <<queue, scene, call, newest, left>>

\* The processor returned; without the lock BullMQ ignores it.
Done(w) ==
  \/ At(w, "return")
  \/ At(w, "create") /\ run[w].key = "detect" /\ AllMade(w)
Complete(w) ==
  /\ Done(w)
  /\ Become(w, Free)
  /\ IF Holds(w) THEN Slot!Finish(run[w].key) ELSE UNCHANGED queue
  /\ UNCHANGED <<scene, docs, call, newest, left>>

\* An attempt that ends without success is repeated, or the last one was made.
GiveBack(k) ==
  IF used[k] + 1 < MaxUses THEN Slot!GiveBack(k) ELSE Slot!Finish(k)

\* The ML service, MongoDB, Redis or a progress report fails, or the worker dies.
Fail(w) ==
  /\ run[w].key # Nobody
  /\ Trouble("failures") \/ (At(w, "throw") /\ UNCHANGED left)
  /\ Become(w, Free)
  /\ IF Holds(w) THEN GiveBack(run[w].key) ELSE UNCHANGED queue
  /\ UNCHANGED <<scene, docs, call, newest>>

\* The lock expires under a worker that goes on.
Stall(w) ==
  /\ run[w].key # Nobody
  /\ Holds(w)
  /\ Trouble("stalls")
  /\ Become(w, [run[w] EXCEPT !.zombie = TRUE])
  /\ GiveBack(run[w].key)
  /\ UNCHANGED <<scene, docs, call, newest>>

-----------------------------------------------------------------------------
(* Review *)

StatusByName == [CONFIRM |-> "CONFIRMED", REJECT |-> "REJECTED", EDIT |-> "EDITED",
                 REOPEN |-> "REOPENED"]
STATUS_FOR == [CONFIRM |-> "CONFIRMED", REJECT |-> "REJECTED", EDIT |-> "EDITED",
               REOPEN |-> "UNREVIEWED"]

\* reviewDetection: findById.  A review that lacks its reason, its category or its
\* outline is refused here and changes nothing.
StartReview(a, i, action, drawn) ==
  /\ call[a] = Idle
  /\ i \in DOMAIN docs
  /\ (drawn = NoOutline) = (action # "EDIT")
  /\ Trouble("reviews")
  /\ call' = [call EXCEPT ![a] =
       [id |-> i, action |-> action, drawn |-> drawn, status |-> docs[i].status,
        outline |-> docs[i].outline, entries |-> Len(docs[i].history)]]
  /\ UNCHANGED <<queue, scene, run, docs, newest>>

\* What doc.save() makes of the document that is stored now: a status or an outline
\* equal to the one that was read is not sent, and the history is pushed to.
EntryAfterTheFact(c) ==
  [action |-> c.action, before |-> IF c.action = "EDIT" THEN c.drawn ELSE NoOutline]
EntryOf(c) ==
  [action |-> c.action, before |-> IF c.action = "EDIT" THEN c.outline ELSE NoOutline]
OutlineSaved(d, c) ==
  IF c.drawn \in {NoOutline, c.outline} THEN d.outline ELSE c.drawn
StatusSaved(d, c) ==
  IF STATUS_FOR[c.action] = c.status THEN d.status ELSE STATUS_FOR[c.action]
SavedWhole(d, c) ==
  [d EXCEPT !.status = StatusSaved(d, c), !.outline = OutlineSaved(d, c),
            !.history = Append(SubSeq(@, 1, c.entries), EntryOf(c)),
            !.after = Append(SubSeq(@, 1, c.entries), OutlineSaved(d, c)),
            !.raced = @ \/ Len(d.history) # c.entries]
Saved(d, c) ==
  [d EXCEPT !.status = StatusSaved(d, c), !.outline = OutlineSaved(d, c),
            !.history = Append(@, EntryOf(c)), !.after = Append(@, OutlineSaved(d, c)),
            !.raced = @ \/ Len(d.history) # c.entries]

\* doc.save(), which throws when the document has been deleted.
SaveReview(a) ==
  LET c == call[a] IN
  /\ c # Idle
  /\ call' = [call EXCEPT ![a] = Idle]
  /\ IF c.id \in DOMAIN docs THEN Put(c.id, Saved(docs[c.id], c)) ELSE UNCHANGED docs
  /\ UNCHANGED <<queue, scene, run, newest, left>>

-----------------------------------------------------------------------------
RunStep(w) ==
  \/ StoreScene(w) \/ Clear(w) \/ Create(w) \/ EnqueueDrift(w) \/ Precompute(w) \/ Flag(w)
  \/ Complete(w) \/ Fail(w)

Next ==
  \/ \E k \in Keys : Request(k) \/ Cancel(k)
  \/ \E w \in Workers, k \in Keys : Pick(w, k)
  \/ \E w \in Workers : RunStep(w) \/ Stall(w)
  \/ \E a \in Analysts, i \in DOMAIN docs, action \in Action,
        drawn \in Outlines \cup {NoOutline} : StartReview(a, i, action, drawn)
  \/ \E a \in Analysts : SaveReview(a)

Spec == Init /\ [][Next]_vars

-----------------------------------------------------------------------------
(* detectionVersions and the labels *)

\* The outline of version n: what the next edit replaced, or the present one.
EditsFrom(d, n) == {m \in DOMAIN d.history : m >= n /\ d.history[m].action = "EDIT"}
LaterEdits(d, n) == {m \in DOMAIN d.history : m > n /\ d.history[m].action = "EDIT"}
VersionOutline(d, n) ==
  IF LaterEdits(d, n) = {}
    THEN d.outline
    ELSE d.history[CHOOSE m \in LaterEdits(d, n) :
                     \A l \in LaterEdits(d, n) : m <= l].before

\* The statuses that classify takes for a human judgement.
IsLabel(d) == d.status \in Verdict

-----------------------------------------------------------------------------
(* Properties *)

TypeOK ==
  /\ slot \in [Keys -> {"idle", "queued", "running", "ended"}]
  /\ used \in [Keys -> Nat]
  /\ scene \in Scene
  /\ run \in [Workers -> Run]
  /\ DOMAIN docs \subseteq Nat
  /\ docs \in [DOMAIN docs -> Detection]
  /\ call \in [Analysts -> Review]
  /\ newest \in Nat
  /\ left \in [Bound -> Nat]

NoStallYet == left["stalls"] = MaxStalls

\* detections/review.ts, "the model's output is immutable": version 0 of a detection
\* is what the detector drew, however many analysts edit it at once.
Version0IsModelOutput ==
  \A i \in DOMAIN docs : VersionOutline(docs[i], 0) = Model

\* detectionVersions reconstructs the outlines from what each edit replaced.  As long
\* as every review had seen the one saved before it, version n is what the n-th
\* review left behind.
VersionsShowWhatWasSaved ==
  \A i \in DOMAIN docs :
    ~docs[i].raced =>
      \A n \in DOMAIN docs[i].history : VersionOutline(docs[i], n) = docs[i].after[n]

\* detections/labels.ts, "no human looked at it" and `geometrySource`: a detection in
\* the labelled set carries the review that gave it its status, and an outline that
\* counts as the model's is the model's, also when reviews overlap.
JudgementIsRecorded ==
  \A i \in DOMAIN docs :
    LET actions == {docs[i].history[n].action : n \in DOMAIN docs[i].history} IN
    /\ IsLabel(docs[i]) => \E action \in actions : STATUS_FOR[action] = docs[i].status
    /\ "EDIT" \notin actions => docs[i].outline = Model

\* When an ingest attempt has done its work, each of its detections that is marked as
\* precomputed has its drift in the queue, and each that is still stored and has its drift
\* in the queue is marked, unless enqueue threw after it had added the job: the queue may
\* refuse some, and analysts review them meanwhile.
PrecomputeIsRecorded ==
  \A w \in Workers :
    At(w, "return") =>
      \A n \in DOMAIN run[w].ids :
        run[w].ids[n] \in DOMAIN docs =>
          LET d == docs[run[w].ids[n]] IN
          /\ d.flagged => d.drift
          /\ d.drift => d.flagged \/ d.torn

\* scenes/ingest.ts, "a re-run supersedes the previous detections for this scene":
\* nothing older than the deletion a detection run started with is stored next to its
\* detections, and, unless a worker goes on without its lock, nothing of another such
\* run; failures and crashes in the middle of a run included.
RerunSupersedes ==
  \A i, j \in DOMAIN docs :
    docs[j].by = "detect" =>
      /\ i > docs[j].batch
      /\ NoStallYet /\ docs[i].by = "detect" => docs[i].batch = docs[j].batch

\* doc/01_PRD, NFR-10: "Re-running a scene ingest produces no duplicates".
NoDuplicates ==
  \A i, j \in DOMAIN docs : docs[i].nr = docs[j].nr => i = j

=============================================================================
