# VARUNA in TLA+

TLA+ specifications of VARUNA (oil-spill detection and vessel attribution). The
concurrent core: the job queue behind every long computation, the client through
which every external data provider is called, the jobs that turn a satellite scene
into detections and the analysts who review them, and the jobs that lead from a
detection to a ranking of vessels. Around it, fourteen parts of the platform: sweeps
and adoption, sessions, cases, uploads, catalogues, the AIS archive, the workspace of
the client, reports and what they say, the detector and how one is measured, the
review desk, the back-track and the evidence against a vessel. TLC checks small
instances. For every value of the constants TLAPS proves the safety of the core, of
sweeps and adoption, sessions, cases and the workspace, of uploads, the AIS archive,
the reports and their text, the review desk and the back-track, and that the score of
a model is of places it has not seen.

## The system

VARUNA is an Express API (`apps/api`), worker processes (`apps/worker`), a React
client (`apps/web`), a Python service for raster and drift computations
(`services/ml`), MongoDB, and Redis for BullMQ, quota counters and cached tokens.

| Component | State it keeps | Operations | Interacts with |
|---|---|---|---|
| Job producer, `apps/api/src/queue` | none of its own | `enqueue`, `cancelJob`, `retryJob` | BullMQ queues, `jobs` collection |
| BullMQ and workers, `apps/worker/src/index.ts` | jobs in Redis, locks, attempts | pick, progress, complete, fail, stall, evict | processors, queue events |
| Queue bridge, `apps/api/src/realtime/bridge.ts` | none | handlers of active, progress, completed, failed | `jobs` collection, Socket.IO |
| Provider client, `apps/api/src/providers` | breaker per process, quota counters and a token in Redis | `request`, `consume`, `search` | external catalogues |
| Catalogue chain, `providers/chain.ts` | none | `searchCatalogue`: query all, merge, deduplicate | provider clients |
| Scene ingest and detection, `modules/scenes`, `modules/detections` | scenes, detections | `ingestAndDetect`, `runDetectionForScene`, triage, automatic review | ML service, drift queue |
| Origin, `modules/origin`, `processors/drift.ts` | origin estimates | `runOrigin`, supersession | ML service, scoring queue |
| Candidates, `modules/candidates`, `processors/correlate.ts` | vessel candidates | correlate, reweight, exclude | AIS archive, origins |
| Detection review, `modules/detections/review.ts` | detections, their versions | confirm, reject, edit | audit, provenance |
| Sweep and Discover, `modules/sweep`, `modules/discover` | watch regions, their containers, the record of passes | sweep tick, adopt, dismiss | catalogue chain, ingest queue |
| Investigations, `modules/investigations` | investigations, members | create, list, update, archive | everything of an investigation |
| Sessions, `modules/auth` | refresh tokens | login, refresh, logout | web client |
| AIS, `modules/ais` | positions, imports, a track cache | import, tracks | archive files |
| Reports, `modules/reports`, `processors/report.ts` | files of a case | generate, assemble, print, serve | report queue, web client |
| Uploads, `modules/scenes`, `modules/uploads` | rasters in the object store | inspect, upload, adopt | web client, ML service |
| ML service, `services/ml` | none | ingest, detect, segment, back-track | scene files, forcing providers |
| Evaluation, `services/ml/varuna_ml/eval`, `models` | split, cache, checkpoint and registry files | split, cache, train, score, sweep, register, promote | the labelled dataset, the detector |
| Web client, `apps/web` | cached answers, layers, dialogs | read, write, follow jobs | API, Socket.IO |

What is hard in it. Every handler is a sequence of `await`s over MongoDB, Redis
and BullMQ with no transaction, so any two handlers interleave at every `await`.
Queue events reach the API on handlers that nobody awaits. Workers crash or lose
their locks and BullMQ runs their jobs again. Redis may be lost and regained, and
its client queues commands while it is. Breakers live in the memory of one
process, quota counters in the Redis all of them share.

What makes each component correct: a jobKey is executed by one worker at a time, work
asked for ends, and the `jobs` collection tells the truth about it; a breaker opens when
its provider fails and finds its way back, quotas hold across replicas; one current
origin per detection and candidates that belong to it; a review that records what was
reviewed; a sweep whose record misses nothing between its marks; one container and one
system user; a refresh token that is used once; a report with its mandatory sections.
`PROJECT.json` lists the hazards of the code at their lines, each with the properties
that would catch it going wrong; hazards the code does meet, so that no property of them
holds, are described under "Outside what is claimed".

## Modules

### JobQueue (with JobSlot, MCJobQueue, JobQueueProofs)

`JobQueue` models `queue/producer.ts`, the BullMQ queue as configured in
`queue/queues.ts`, the worker slots of `apps/worker`, `realtime/bridge.ts` and the
`jobs` collection. One action is the code between two `await`s. A handler of the
API is a record in `call` (program counter, key, the document and the data it
read); an execution is a record in `run`; `bull[k]` is the BullMQ job under the id
`k`, `rec[k]` its MongoDB document, `pending[k][e]` the bridge handlers of event `e`
that have not written. `owed` is a history variable: keys whose work was requested
and has not ended. A worker loses its lock in `Stall`, after which it may be gone
or go on as a `zombie`.

Data is abstracted to what properties tell apart: a payload is the one that was
given or a stored result; a document keeps status, attempts and whether there is a
result; percentages and messages are left out. `SavePath` is Mongoose's `save`,
which sends a path only when the assigned value differs from the one read.
BullMQ's job scripts are atomic in Redis and are one action each. A failing Redis
or MongoDB call in the middle of a handler is covered only by `RestartApi`. `Stall` is
the expiry of a lock and the stalled check that finds it in one step; the time between
them, in which the job is active and unlocked and the `remove` of `retryJob`
(`producer.ts:100`) would succeed, is not modelled.

`JobSlot` is the abstract promise for one key (idle, queued, running, ended; running
work is never withdrawn; a submission is given back a bounded number of times), and
`JobQueue` refines it (without the payload: which data a coalesced call keeps is not
part of the promise) with `slot <- SlotOf(bull[k])` and `used <- tries + stalls` while
there is work. It is also what `Attribution` relies on.

### ProviderClient (with MCProviderClient, ProviderClientProofs)

`ProviderClient` models `ProviderClient.request`, `CircuitBreaker` and
`QuotaTracker.consume`. `breaker[r]` is the breaker of replica `r`; its clock is
abstracted to `gate`: closed (no `openedAt`), open (within `resetMs`), elapsed
(half-open), and `Elapse` may happen any time after opening. `used[w]` is the Redis
counter of window `w`; `late[w]` holds the commands whose deadline passed and which
ioredis keeps in its queue until Redis is back. A search is `Requests` calls of
`request()`: one for ASF and Planetary Computer, two for CDSE, whose first fetches
the token from Redis without a deadline. `Cost` is 0 for ASF. Three history
variables: `granted` (units admitted on the counter's answer), `charged` (units of
admitted requests that reached the counter), `streak` (failed searches in a row).
Latency samples, health snapshots, logging and parsing are left out. Whether an
attempt fails transiently, permanently or succeeds is free.

### Attribution (with MCAttribution, AttributionProofs)

`Attribution` models what happens to a detection, in each of the cases it has been in,
between its confirmation and its ranking: the precompute of `scenes/ingest.ts` and the
routes that queue drift and scoring jobs, `processDrift` with `runOrigin`,
`processCorrelate` with `correlate`, and `reweight`. A *slick* is a detection in one
case: the key of a drift or scoring job holds both (`origin/router.ts:39`), a precompute
queues under the container's, a re-run after the adoption under the case's, while
`runOrigin` deletes the estimates of the detection whatever their case. It uses the
queue as `JobSlot` promises it to be: `job[k]` is idle, queued, running or ended, a
second enqueue of queued or running work has no effect, an attempt fails (`Fail`), dies
with its worker (`Stall(w, TRUE)`) or loses its lock while its worker goes on (`Stall(w,
FALSE)`, a `zombie`), and the job is then given back or given up. One action is the code
between two `await`s that touch shared documents: `runOrigin` deletes (`Supersede`) and
creates (`CreateOrigin`) in two; `correlate` deletes (`ReplaceRanking`) and then writes
vessel by vessel (`WriteVessel`); `reweight` reads a ranking (`StartReweight`) and saves
its documents one at a time (`SaveReweighted`), each save sending what differs from what
was read, and throwing when the document is gone; any save may fail, or the API restart,
between two of them (`BreakOff`), which leaves the order half rearranged.

A back-track, an AIS query and a score are what they may lead to: an estimate, a ranking
of any length up to `MaxRank`, any order. An estimate is an `id` and its slick, a vessel
is its `batch` (the run of `correlate` that wrote it), `nr`, `rank`, the id of the
estimate it was ranked against, and whether it carries the verdict on separation and has
custom weights. `promise[d]` and `torn` are history variables: the job a precompute is
waiting for, and the rankings a reweighting broke off in. That the jobs of this model
are ones the queue can show is a refinement too: `KeepsQueuePromise` maps `job[k]` to
`JobSlot`. Slots serve both queues, which only adds behaviours.

### SceneDetection (with MCSceneDetection, SceneDetectionProofs)

`SceneDetection` models the detections of one scene: `ingestAndDetect` (stores the
scene, creates detections with their automatic review, queues the drift of those it
confirmed, then the precompute of the best), `runDetectionForScene` (deletes all
detections of the scene, then creates), and `reviewDetection`, `detectionVersions`
and the labels of `detections/labels.ts`. The two jobs are composed with `JobSlot`
directly (`Slot == INSTANCE JobSlot` on `slot`, `used`), so an attempt is submitted,
withdrawn, started, given back and ended exactly as the queue promises. An attempt
is a record in `run`: program counter, ids it created, `batch` (the number of its
deletion), `zombie` when it goes on without its lock. A review is two steps,
`StartReview` (findById) and `SaveReview` (save), which sends a status or an outline
only when it differs from the one read, pushes to the history, and throws when the
document is gone.

Outlines are model values, one of them the detector's. A feature the detector finds
is its automatic verdict and its triage score; thresholds and weights are left out,
selection and ties are not. What follows from a drift job is in `Attribution`; here
`drift` remembers that the ingest has queued one. `after` (outlines after each save)
and `raced` (a review was saved that had not seen the one before it) are history
variables of a detection. Deletions and documents are numbered by one counter.

### The parts around the pipeline (MCPlatform)

The parts below share no state with one another, so `MCPlatform` has them side by side
in one specification: `part` says which of them a behaviour is of, that part moves and
the others rest in a first state. Its invariants are bundles of the parts' own, guarded
by `part` where they would cost time elsewhere.

`Discover` (with DiscoverProofs): the sweep tick (`Search`, `RecordOverpasses`,
`MarkSwept`) with its window, the page of the catalogue, what it keeps and for how long,
and breaks at every `await`; the container made on demand; ingests, which analysts ask
for (`AskIngest`), into cases and containers; and adoption, which moves the scene
(`MoveScene`) and then its detections (`MoveDetections`). A sweep queues no ingest: its
search names no platform (`sweep/service.ts:307`), so it is sent to the raw collection
(`planetaryComputer.ts:87`), of which `decideIngestible` accepts nothing. Listings are
functions of the state. `seen` is a history variable: what a search had no room for or
was listed late, since when no window of a region has left a gap before it (`Leaps`),
and the scenes whose moves overlapped or broke off.

`Sessions` (with ClientProofs): the refresh tokens of the server, the cookie jar of
one browser and the fetch wrapper of each of its tabs. A request carries the cookies
of when it was sent; its answer changes them when it arrives, or is lost. `refresh` on
the server is `FindToken`, `UseToken`, `IssueToken` with the reuse check between.
`past` is a history variable: families with a token presented twice, logged out, or
logged out beside a rotation.

`Investigations` (with ClientProofs): the two gates of every route (the role
in the token, the entry on the case), then load, save and audit as three steps between
which other requests run. A save sends the paths that differ from what was read.
`trail` and `unrecorded` are the audit entries that were written and that were lost.

`SceneIntake` (with ScenesProofs): what a file states of its time (name, header items,
TIFF tags), its place and its values, which of that each of the three doors of the
client and the routes behind them take over, and the scene that results. Files are
records of what they state.

`Catalogue`: each provider's query and page, merging and deduplication by preference,
what the panels say of an empty, partial or failed answer, and the two-call opening of
a case, next to the demo scenario and the back-fill that search by themselves.

`AisArchive` (with RecordsProofs): the import of a slice as a deletion and batches, with
deaths, repetitions and overlaps; the reading of rows, the speed gate, tracks, gaps and
dark periods as functions; and the cache of tracks in each process, filled in two steps.
Positions are on a line, and the box of the import and the polygon of the queries differ
at the rim.

`Workspace` (with ClientProofs): react-query's cache as the hooks use it (fetches in
flight, invalidation, staleness), the store of the map's layers with its owner, the
pipeline's next step, and the jobs of a case on the server, of which a repeated
detection, drift or correlation deletes what is there and then stores its own, or dies
between the two.

`Reports`, `ReportText` (with RecordsProofs): report jobs and the two documents a job
prints one after the other, each in three steps (open, create the file, fill it) of a
worker that may die or go on beside its successor, and the file that is served; and what
the dossier, the brief and the exports say of a case, as functions of the parts one
request has read, in parallel with jobs that rewrite them: detections, the estimates of
several slicks, of which the newest is read, and their rankings, read as one list by
rank, also when half stored or half rearranged.

`Detector`, `ReviewDesk` (with ScenesProofs): the dark-spot detector over a small grid,
stage by stage, with the morphology of scikit-image as operators; the arithmetic of
triage and automatic review in integers, the two ways detections come to a case (an
ingest, which scores them, judges them and drifts the best; a detection run on a scene
already there, which does none of it), the dialog in which an analyst reviews, and the
labels made of it.

`Backtracking` (with ScenesProofs), `Evidence`: the chains of forcing providers with
deadlines, retries and the threads they abandon, interpolation beside land, and the
window of release; the fourteen features of a vessel, their renormalised score, tier and
order, and the resampling that asks whether the order is real. Space is a line,
particles do not diffuse, and curves are tables that fall as the code's do.

`Evaluation` (with RecordsProofs): the commands by which a detector is measured, which
share nothing but files. `MakeSplit` deals whole cells to three sides (`SplitOf` is its
greedy assignment), `PrepareCache` and `WriteSide` copy the sides one by one, a
training (`StartFit`, `Epoch`, `EndFit`) replaces the checkpoint whenever an epoch is
best and writes the sheet beside it at the end, `EvaluateUnet` scores the checkpoint on
a side, `Sweep` scores configurations of the classical detector by sums over
components, `Register` and `Promote` are the registry and its gate. They are given in
any order, any of them may be killed, and images and masks arrive in between. An array
remembers the images it was split from (`of`), a checkpoint the arrays it was trained on
and chosen by; what a network predicts and scores is free. Behaviours begin with images
alone or after an earlier training.

## Runs

| Run | Question | Result |
|---|---|---|
| `JobQueueSafety` | two handlers and two slots on one key: any three of calls, stalls, an eviction and a restart | `TypeOK`, `NoOrphanJob`, `FlaggedRunDoesNothing`, `LockHolder`, `AttemptsBounded` hold |
| `JobQueueLiveness` | does requested work end, and does the queue keep to `JobSlot`? | `OwedWorkSettles`, `ImplementsSlot` hold |
| `JobQueueCompletedFinal` | is COMPLETED final? | no: a late RUNNING write |
| `JobQueueRetryPayload` | does a retry repeat the work? | no: it queues the stored result |
| `ProviderQuota` | CDSE: two replicas at the limit of a shared quota, Redis failing | `TypeOK`, `QuotaRespected`, `RefusalJustified` hold |
| `ProviderBreaker` | ASF: three overlapping searches, retries, a restart, Redis perhaps gone for good | `ProbeMarkIsCurrent`, `ProbeMarkHasOwner`, `OpensAfterFailures`, `SearchSettles` hold |
| `ProviderStuckProbe` | is a probe always in flight when its mark is set? | no: a quota refusal leaves the mark |
| `Attribution` | one detection in two cases: precompute, a request, a cancel, failures, a crash or a worker that goes on without its lock, a reweighting; does the correlation a precompute promises end? | `TypeOK`, `SingleOrigin`, `SingleRanking`, `RanksDistinct`, `SeparationIsOfThisOrder`, `PromiseSettles`, `KeepsQueuePromise` hold |
| `AttributionStaleOrigin` | are vessels always ranked against the current estimate? | no: a re-run of the drift deletes it on the way |
| `SceneDetection` | one scene: an ingest and a detection, requested, cancelled, failing and stalling, and two analysts who review | `TypeOK`, `Version0IsModelOutput`, `VersionsShowWhatWasSaved`, `JudgementIsRecorded`, `PrecomputeIsRecorded`, `RerunSupersedes` hold |
| `SceneReingest` | is a repeated ingest free of duplicates? | no: the retry creates the detections again |
| `Platform` | each of the fourteen parts on an instance of its own | the thirteen invariants below hold |

What `Platform` checks, by its invariants. `PlatformTypeOK`: the types of every part.
`DiscoverIsHonest`: every pass acquired before the mark of a region, listed in time and
not of before a gap between two windows, is on its record, unless it is past retention
or a page had no room for it; a scene and its detections end up in one case; a listing
shows and offers what its reader may see and adopt. `NoFalseTheft`, `LogoutEndsSession`:
a session is ended as stolen only when a token was presented twice, and a logout ends
it. `CasesAreKept`: every member and role is explained by the trail, what was withdrawn
or deleted stays so, a list shows what can be opened, to an analyst every case of it,
and the client offers on what opens the deletion the API allows, rooms hold members.
`IntakeIsHonest`: a scene lies in its case, at an instant and place that were stated,
and its pixels are stored before its job. `ArchiveIsExact`: a slice whose import ran
whole and alone is stored once, and a cache never gives what was read before an import
of its process. `WorkspaceIsCurrent`: layers of one case; a next step for which the
server holds what it needs, but where a re-run deleted that and has stored nothing since
(it is under way, or it ended there); the analyst's own writes in the case that is open.
`ReviewIsKept`: labels are the last judgement, with their note and outline; the list
puts what has a score in the order of the scores and what has none behind it, the surer
first; what drifts ahead is the best of an ingest, but for what the queue failed.
`BacktrackIsHonest`: an estimate tells its fallbacks, calls are bounded, the window
agrees with the scenes, drift is of water. `ServedIsCurrent`: the served dossier is of
its kind and of the request. `BriefAgreesWithDossier`: of several slicks, whose rankings
are read as one list, the brief warns of what the dossier does, leads with the best
ranked, and the verdict that vessel carries is told unless it is clear. `FindingsHold`:
what is computed by folding over data is what was read. What a catalogue answered is
told truly and what is queued can be read; spots are dark sea and what is told of them
is of the image; tracks imply no impossible speed and an import counts what it stored; a
score of a vessel is an average of what was measured, a tier is earned, twins are not
told apart; a model is scored on cells it was not trained on or chosen by, the sheet
beside a checkpoint is of it, a sweep's sums are what its masks say, and no promotion
steps back.

### Outside what is claimed

Some invariants hold only for the constants of the run that checks them. With
`Requests = 2` (CDSE) `OpensAfterFailures` fails, because the success of the token
request resets the count before every catalogue request; and `SearchSettles` fails,
because the token is read from Redis with no deadline. With `Cost = 1`
`ProbeMarkHasOwner` fails, which is the run `ProviderStuckProbe`. Behaviours of
`JobQueue` that one might also rule out and the code allows: a cancelled running
job completes and its document becomes COMPLETED; the QUEUED write of `enqueue`
lands after the job has completed; an enqueue that fetched a job just before its
eviction reports a duplicate of nothing; the cancel flag set while an ingest runs
stops none of its later stages.

The invariants of `Attribution` carry the condition `NoStallYet`: a worker that goes on
without its lock may delete and create next to the attempt that replaced it, and nothing
in the processors notices. More is outside what is claimed there. A detection that was
adopted while its precomputed drift was queued, and is run again in its case, has two
drift jobs that run at once: both delete, both create, and two estimates of one
detection are stored (`origin/service.ts:229`), one for each case; so `SingleOrigin`
speaks of one detection in one case. A reweighting that breaks off between two saves
leaves vessels that share a rank, and a verdict on an order that is half of another
(`candidates/service.ts:303`); `RanksDistinct` and `SeparationIsOfThisOrder` speak of
the rankings in which none did (`Arranged`). A drift an analyst has queued swallows the
ingest's request, and no correlation follows it, because its payload has no
`chainScoring`; `PromiseSettles` speaks of the drift the ingest did queue. And two
analysts who reweight the same ranking at once may leave ranks that repeat;
`RanksDistinct` is checked with one.

Outside what is claimed of `SceneDetection`. A detection run deletes every detection
of its scene, reviewed ones with their versions included, although `review.ts:14`
says the original "stays retrievable through `/versions` forever"; the invariants on
versions speak of detections that are stored. Reviews that overlap make intermediate
versions untrue (the second edit's "before" is what it had read), which is why
`VersionsShowWhatWasSaved` has the condition `~raced`; version 0 and the labels need
no such condition. `RerunSupersedes` says nothing of an ingest next to a detection
run: their detections of the same slick are both stored. An ingest confirms and
rejects detections by itself, which `detections/model.ts:125` ("there is no
AUTO_CONFIRMED"), `ingest.ts:570` and the caveat of `triage.ts:175` deny; and the
drift of such a detection is queued outside the `try` of the precompute, so a
failing queue does fail the ingest there. An `enqueue` that throws after it has added
the job (its record in `jobs` failed, `producer.ts:48`) leaves a drift that runs and a
detection that is not marked; `PrecomputeIsRecorded` allows this one disagreement and
no other. The key of a detection job holds the case (`scenes/router.ts:751`): a scene
that is adopted while it is being detected could get a second job, which is not
modelled, here a scene stays where it is.

Of the parts around the pipeline the following would be false, most of it the opposite
of what a comment says; the definitions named here are in the modules and no run checks
them. `Discover`: a sweep ingests what it finds (`SweepIngests`): it never asks for
anything it could ingest, as `verifiedDemo.ts:169` and `backfill-cli.ts:15` say of the
same search; a gap of more than the longest lookback between sweeps is lost; an adoption
that is cut short between its two writes leaves the detections in the container
(`seen.mixed`); an administrator may adopt into a deleted case. The two reads of a
listing are one step. `Sessions`: a logout that a rotation overlaps leaves its new token
alive (`LogoutEndsEverything`); two tabs that present one token end the session.
`Investigations`: two updates of the window cross (`WindowIsOrdered`), an update is not
held to the longest window (`WindowIsBounded`), two requests add one person twice
(`OneEntryEach`), a viewer opens cases that nothing lists to him, and an administrator
the containers of the sweep (`WhatOpensIsListed`). `SceneIntake`: the instant read off a
file is recorded as typed (`LabelTellsWhoStated`), the raster route takes files without
a position (`RastersArePlaced`), a form keeps the window of the file before
(`ScopeIsOfOneFile`), and a late answer dates the wrong file (`TimeIsOfItsFile`).
`AisArchive`: an import in a worker clears the cache of the worker, not of the API; a
failed import leaves its window empty. `Workspace`: a write that returns when another
case is open does not mark that case's fetches; while a repeated detection or drift is
between its deletion and what it stores, or after it died there, the panel goes on
offering the step that needs what was deleted (the plain form of `NextStepIsPossible` is
false, and no query is invalidated by the end of a job). `Reports`: two renders of one
case that overlap are served in the order of their names, and a file that a dead worker
left is served as it is. `ReportText`: of several rankings only the verdict of the first
vessel of the list is told (`EveryOrderIsCautioned`), of several estimates only the
newest is warned of (`EveryOriginIsCautioned`), and after a repeated detection without
finds the brief says that nothing was seen and still names vessels
(`NothingSeenNamesNobody`). `ReviewDesk`: what a detection run records has no score,
although the list takes that for a mark of old documents (`EveryFindIsTriaged`), and so
a large slick of an upload stands below every scored one; automatic confirmations drift
beyond the cap per scene (`CapHolds`), a machine's verdict looks like a person's
(`MachineLooksDistinct`), the trail records the new status as the old
(`TrailTellsBefore`), a set counts as ready without oil (`ReadyHoldsOil`), a
confirmation may be of an outline nobody saw (`ConfirmsWhatWasShown`), and a label may
lack its note (`LabelKeepsItsNote`). `Catalogue`: cards that no catalogue's rule can
read (`ReadableIsListed`), an empty answer of a catalogue that ignored the filter
(`NothingMeansNothing`, `OrbitIsRespected`), a demo that makes two cases
(`OneDemoCase`), a case whose second call was refused (`CaseHasItsScene`). `Detector`:
closing grows a spot over masked land (`NoLandInASpot`), the detailed coastline hides
the global one (`AllLandIsMasked`), outlines cut corners (`OutlineIsTheSpot`).
`Evidence`: a vessel with too little evidence may lead (`InsufficientIsNotFirst`),
recorded fixes are moved in the resampling (`RecordedFixesStay`), a crossing between two
fixes is kilometres away (`CrossingIsNear`). `Evaluation`: `TestIsHeldOut` has the
condition that all sides were split from the same images, because after more images a
cell may change sides, and a model trained on the old split is then scored on what it
has seen; between a checkpoint and the end of its training, and for good if the training
is killed, the sheet beside it is of the model before; and no command reads the dataset
manifest (`models/manifest.py`) whose hash the registry asks for.

Also real and covered by no property: the bridge misses the events of while the API is
down (`bridge.ts:19`), two replicas of it count one failure twice, two upserts may
make two documents of one job (`jobs/model.ts:36`), a request consumes one unit of
quota and may be sent four times (`ProviderClient.ts:106`), a back-track whose
creation fails leaves no estimate (`origin/service.ts:229`), and a re-run of the
correlation brings an excluded vessel back (`candidates/service.ts:366`).

### Bounds

One jobKey is enough: every operation names one key and no state is shared between keys
except callers and slots. Two callers and two slots make every race between two handlers
and between a lock holder and a slot that lost its lock; three calls give enqueue,
cancel and retry in every order (`FewFaults`: each fault takes the place of a call); two
attempts give a back-off and a final failure. Three searches let one of before the
opening, a probe and a refused one overlap; two windows let a refund miss its window;
one outage of Redis at any time. For `Attribution` one detection is enough, because its
jobs touch no document of another one (the id of another detection's estimate is one
that `LoadOrigin` finds or does not); it has been in a container and in a case, and both
may have jobs of it. Two slots let an attempt overlap with the one that repeats it, or a
drift with a scoring; a precompute and a request give a chained and a manual
correlation, in either order; two vessels can change places. One crash or one stall
(`MaxTrouble`) is enough for an attempt and its successor to overlap. A state constraint
(`OneAtMost`) lets a behaviour have one cancel, stall or reweighting, and a reweighting
only where the jobs are of one case: the step into the others is taken, their successors
are not. For `SceneDetection` one scene is enough, because both jobs and every query
name the scene or a detection; two slots give an attempt next to the one that repeats it
and an ingest next to a detection; two reviews give overlapping edits, an edit after a
reopening, a save on a deleted document; two troubles of any kind (failure, stall,
review) let a stall meet a review or a failure. The detector finds two features, so that
an attempt can die between them, one confirmed automatically and outranked for the
precompute, or one that nothing selects. The budgets (`MaxCalls`, `MaxStalls`,
`MaxSearches`, ...) make behaviours end, so the runs do not look for deadlock: when
nobody calls any more the system stops.

For the parts of `Platform`: two tabs with two queries each, so that a tab has calls
that are refused together and another tab to race with; one region, two products, of two
detections each once ingested, a page of one and two ticks that may break, a record kept
for one tick of the clock (a manual sweep looks no time back, so that a window may begin
after the mark and leave a gap; `SweepOrIngest`: time and sweeps go on where nothing is
ingested, as a sweep reads nothing that an ingest or an adoption writes); two requests
and a chief beside two accounts, of which viewers are granted; six files that differ in
what they state; two overlapping slices of a file with a repeated line, an unreadable
one, a jump and a silence; two cases, one of which was begun, and one job at a time
(`FewJobs`: the step to a second is taken, its successors are not); two slicks with up
to two vessels each, and one result stored while a report is read; two sets of sections,
two printers and two attempts; one opened case in the catalogue (what is chosen and
queued is of one case; `OneDemoCase` needs two); grids of four nodes with land and fill
values, images of 4 by 10 pixels that hold corners, islets, absent pixels and too little
sea, fields of up to three ships, and twelve labelled images in five cells, two of which
arrive later and turn a cell over; an ingest and a detection run of two or three finds
each with a cap of two, in either order (`FewFinds` ends a behaviour at the first review
where more than one scene of two finds came in, or a drift was missed, which no review
reads; a detection run only appends, and what a re-run deletes is in `SceneDetection`).
One death, loss or delay of each kind is enough to meet every other step, and the
budgets of steps (`MaxCaseSteps`, `MaxIntakeSteps`, `MaxAisEvents`, ...) are the least
at which every action fires and every mutant is found. Symmetry is over two pairs of
values that serve as products, tabs, cases and the like: a behaviour is of one part,
which treats the two alike.

### Fairness

A handler that runs is continued by the event loop; a free slot takes a
waiting job; an execution ends; a back-off timer fires; a bridge handler writes; a
provider's socket answers or times out; an attempt at a drift or scoring job goes on
or fails (the call to the ML service has a time limit of 90 s). Calls, stalls,
evictions, restarts, outages and the return of Redis are never forced.

## Proofs

Eight modules hold proofs. Each EXTENDS the modules it is about; its theorems hold for
every value of their constants which their assumptions (`...Assumption`, the type of
each constant and little else) allow. Where a part is given records or tables, its
assumption says what they look like: a fix has a vessel, a time and a place, a file
states instants, a grid holds currents, land or fill values, a found slick has numbers,
and an image that is not of oil has an empty mask (`eval/evaluate_unet.py`).

`JobQueueProofs`, for all keys, callers, slots and bounds. `LockHolderCorrect` is
inductive with the types: an execution that has not lost its lock is the lock holder
of an active job, because every removal tests the lock in the same Redis step;
`SingleExecution` follows. `AttemptsCorrect` needs that active and locked are the same
(`JobInv`); `NoOrphans` that a retry holds the document it found (`OrphanInv`);
`FlaggedRunCorrect` where an attempt can be (`StageInv`): before its check it has no
stage behind it, and past the check a flagged one is on its way out.
`QueueImplementsSlot` is the refinement: its step lemma maps every action to a
`JobSlot` step or a stutter.

`ProviderClientProofs`, for all replicas, searches, thresholds, limits and retries.
`ProbeMarkCurrent`; `BreakerOpens` under `Requests = 1`; `ProbeMarkOwned` under
`Cost = 0`: the two conditions are what the violations show to be needed. These rest
on `BreakerMoves`, which lists what a step can do to a breaker. `QuotaKeptByAll` needs
`QuotaInv`: the counter is at least the admitted units, plus the queued refunds, plus
`Cost` for every search that is about to refund, so a refund never takes away a unit
that was admitted. `RefusalsAreJustified`, an action property, needs the opposite
bound (`RoomInv`): as long as an admitted request would still fit, the counter holds
no more than admitted requests have used, whatever refunds were lost.

`AttributionProofs`, for all cases, detections, slots, analysts and bounds. No invariant
here is inductive by itself. They rest on `Exclusive`: attempts under way that hold
their lock are of different jobs, each of which the queue holds as running; `Moves`
reduces the 19 actions to five moves of the attempts, and `ExclusiveStep` goes through
these. For `SingleOriginCorrect`, `OriginInv` adds that an attempt about to create finds
no estimate of its slick; for `SingleRankingCorrect`, `RankingInv` adds that an attempt
that writes finds only its own batch. Two attempts that could disturb this would be of
the same kind and slick, hence of the same job; and a save of a reweighting changes
stored documents but never brings one back (`SaveKeepsBatches`). `SeparationCorrect`
needs `ReadsInv`, that what a reweighting has still to save is stored whole or gone
whole, and `VerdictInv`, that a verdict over reweighted vessels is one some save is
still to remove. `RanksDistinctCorrect` needs `RanksInv`: the ranks stored, those still
to be saved and those of vessels still to be written keep out of each other's way. It
has the hypothesis `OneAnalystAtMost`, because with two the property is false: a save
sends no rank that equals the one that was read, so two reweightings that overlap may
leave two vessels of rank 2. Both speak of the rankings no reweighting broke off in.
`QueuePromiseKept` follows from `Exclusive` and a bound on the failures of a job that is
not idle.

`SceneDetectionProofs`, for all scenes, outlines, slots, analysts and bounds.
`Version0Correct`, `VersionsCorrect` and `JudgementCorrect` rest on `ReviewInv`: every
stored detection is `Good` (its versions and its status are accounted for) and every
review under way has `Seen` it: the outline it read is the present one if nothing was
saved since, and if it is not the model's then an edit is on record. `SavedVersion`
says what a save does to any version; `SavedGood` and `SavedSeen` lift it to the
invariant, and `DocMoves` reduces the actions to five moves of the documents.
`SupersedesCorrect` rests on `Exclusive`, as for `Attribution`, and on `BatchInv`: a
detection run that has deleted is older than everything stored, and while no lock was
lost everything by a detection run is its own. `PrecomputeCorrect` needs no condition
on locks: no two attempts have made the same document (`ApartInv`), so the mark and
the drift of a document depend only on how far the attempt that made it has come
(`MarksInv`): the one confirmed automatically is marked first, those of the precompute
are queued first. A drift whose record failed is queued and stays unmarked (`torn`).

`ClientProofs` is about the three parts that meet the web client. Of `Sessions`, for all
tabs, calls and bounds: `SessionsNoFalseTheft` rests on `TheftInv`: in a family that
nobody doubled, one tab rotates one token, which is the one in the jar, and neither it
nor one just issued has been used. `SessionsLogoutEnds` rests on `LogoutInv`: a rotation
that issues beside a logout of its family has been noted as overlapping. Both need
`FamiliesExist`.

Of `Investigations`, for all people, cases, requests, notes and bounds: every save
is of a document that others may have changed since it was read, so `CasesKept` needs
that what a request has read is an earlier reading (`Later`): deletions stay, the list
of members has only grown. Then a save, which sends the differences, goes forward too.
What explains an entry of the list or a role travels from the saved request to the
trail, or to what the trail lost (`WorkKept`); `NoteInv` and `RoomInv` say the same of
notes and rooms.

Of `Workspace`, for all cases and bounds: `WorkspaceCorrect` needs that no answer
is ahead of the server (`AnswerInv`), that what the server once held of a case it holds,
or a re-run deleted it and is under way or ended before it stored its own (`LackInv`,
with `AheadInv`), that what is being fetched does not count as up
to date (`FetchInv`), and that neither a fetch under way nor an answer that counts as
up to date is behind the analyst's own direct write (`OwnInv`).

`DiscoverProofs`, for all regions, products, people, sweepers, callers and bounds.
`DiscoverCorrect` needs that a region has a container of its own, which two ticks that
both made one claim only once (`RegionInv`, `TickInv`); that what was acquired before
the mark, or before the end of the window of a tick that has searched, is on record,
past retention, had no room, or is in that tick's answer (`CoverInv`, of `Covers`), so
that any tick may set the mark; for which a window reaches back to a mark, or begins
what counts from now on (`WindowCovered`); and that an adoption which has moved its
scene is the only one of it, unless that was noted (`MoveInv`).

`RecordsProofs` is about the records kept of the sea and of the findings. Of
`AisArchive`, for any file, slices, processes, readers and bounds: `ArchiveCorrect`
needs, of an import that has met no overlapping one, that the archive holds once what
its batches have written and nothing else of its slice (`AloneInv`), which is what
`BatchIsNext` and `Inserted` keep; that a slice noted as whole stays stored once and
that nobody works on it (`WholeInv`); and that a query which began before its process
cleared the cache is known to have raced (`ReadInv`). Of `Reports`, for any section
sets, slots, attempts and bounds: `ReportsServeCurrent` needs that two slots which hold
their jobs hold different ones (`SlotsInv`), that what a slot has printed is not older
than the request it works for (`PrintedInv`), and that files of one kind are in the
order of what they say as long as no two renders overlapped (`OrderInv`); so the newest
name is the newest content. Of `ReportText`, for all slicks, rankings and bounds:
`BriefIsDossiers` needs that what a query of vessels finds goes up in rank
(`FoundTyped`), so that the vessel that is looked for by its rank is the first one
(`TopIsFirst`), and compares the conditions of the two texts for every mixture of old
and new results that one request can have read. Of `Evaluation`, for any dataset,
scores, number of epochs and bounds: `HeldOut` needs that every array stored anywhere,
those inside a training, a checkpoint or a score included, is still the side of the
split it claims to be (`SidesInv`), and that two sides of one split share no cell
(`SidesApart`), whatever the greedy assignment does; `SheetTold` needs that the
checkpoint of a training under way is the first best of its epochs so far (`FitInv`,
`BestGrows`).

`ScenesProofs` is about scenes on their way in and out. Of `SceneIntake`, for any files
and bounds: `IntakeCorrect` needs that what a form holds was typed, taken from a card or
stated by a file (`DeskInv`), that a drawn window is around the instant that goes with
the file (`ScopeInv`), and that a queued job and the scene it becomes keep both
(`JobsInv`, `ScenesInv`); it rests on lemmas on the candidates of a file and their
ranking. Of `Backtracking`, for any grids, set-ups and bounds: `BacktrackHonest` needs
`BackInv`: a request has said nothing of the providers it has not come to and why it
left each of the others (`TellsOf`), which is what makes the fallbacks in the estimate
complete; each attempt leaves at most one thread by what it waits for (`LeftBehind`);
the clock stays within the ceiling and one provider's retries (`Timely`); and every move
is of wet corners (`Flowed`). Of `ReviewDesk`, for any detections, categories and
thresholds: `ReviewKept` needs that a status is of the last review or, where there was
none, the machine's (`StatusIsLast`), that reasons, outlines and areas are explained by
the history (`ReasonsAreOf`, `OutlineOf`), that the note in the dialog is of the
detection it shows (`DialogIsOf`), and that what was precomputed ranks first
(`BestFirst`); that a better slick ranks no lower is the arithmetic of
`SignificanceGrows` and its neighbours.

Only model-checked: liveness (`OwedWorkSettles`, `SearchSettles`, `PromiseSettles`;
fairness and ENABLED are out of the prover's reach); `PlatformTypeOK` as a bundle,
although the types of every part with proofs are a theorem of their own; and of
`FindingsHold` all but its parts on held-out cells and on the sheet. What is left of it
is about functions that fold over finite data (rows of a file, pixels, features of a
vessel, components of an image): what such a function computes for every input is an
induction over data, which the prover cannot take. `NoStepBack` needs of a score only
that it is a number, but that is one of those facts.

## Not modelled

The numerical core of the ML service (the segmentation network and its optimiser,
particle drift in two dimensions, density estimates), of which the models keep what is
decided on the results; the OpenAPI document; presentation and styling; the audit and
provenance services beyond the entry they write; the fan-out of Socket.IO beyond who is
in a room; logging, configuration and the vendored data. Redis and MongoDB are modelled
by the guarantees the code relies on: one script or one document at a time.

## Plan

Done: the core with its proofs, and the fourteen parts, eleven of them with theirs. What
is left is what neither tool does well: folds over data for every input, the same parts
on larger instances, and the parts of the client that only show what others decide.
