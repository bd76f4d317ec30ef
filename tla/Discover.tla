------------------------------- MODULE Discover -------------------------------
(***************************************************************************)
(* Discover: the sweep of the watch regions (sweep/service.ts), which      *)
(* keeps a container investigation per region and a record of what passed  *)
(* over it, ingests into containers and cases (scenes/router.ts), and the  *)
(* analysts who see what was found and adopt a scene into a case           *)
(* (discover/service.ts), with the part of investigations/service.ts and   *)
(* middleware/rbac.ts that decides who sees a case.                        *)
(*                                                                         *)
(* A pass is listed raw and, if ingestible, terrain-corrected as well.     *)
(* The search of a sweep names no platform, so it is of the raw products   *)
(* alone, of which selectScenesToIngest keeps none: its loop of enqueues   *)
(* never has an element and is left out.                                   *)
(*                                                                         *)
(* Sweeps run in several worker processes, ingests next to them, and the   *)
(* requests of several users at once; a step is the code between two       *)
(* `await`s on a shared document.  Investigations, scenes and detections   *)
(* are numbered as they are created.  A scene passes over every region.    *)
(***************************************************************************)
EXTENDS Naturals, FiniteSets, Sequences

CONSTANTS
  Regions,         \* WATCH_REGIONS
  Products,        \* acquisitions the provider may list
  Ingestible,      \* those of them it has in the form this pipeline can read
  People, Admin,   \* users, and the one who is an administrator
  Sweepers,        \* worker processes with a sweep queue (concurrency 1 each)
  Callers,         \* adopt requests that may be under way at once
  NoOne,           \* no region, no investigation, nobody
  SearchLimit,     \* items a search returns at most
  Retention,       \* OVERPASS_RETENTION_DAYS
  FirstLookback,   \* how far back the first scheduled tick searches
  ManualLookback,  \* how far back a manual one does
  DetsPerScene,    \* detections the detector finds in a scene
  MaxNow,          \* bound: the clock
  MaxTicks,        \* bound: ticks
  MaxAdopts,       \* bound: adopt and ingest requests, and changes to cases
  MaxBreaks,       \* bound: ticks and adopts that are cut short
  MaxEvents        \* bound: these three together

ASSUME DiscoverAssumption ==
  /\ Ingestible \subseteq Products
  /\ Admin \in People
  /\ NoOne \notin Regions \cup People \cup Nat
  /\ {SearchLimit, Retention, FirstLookback, ManualLookback, DetsPerScene,
      MaxNow, MaxTicks, MaxAdopts, MaxBreaks, MaxEvents} \subseteq Nat

VARIABLES
  now,        \* the clock
  listed,     \* the provider's listing: products, by the time they were acquired
  regionDoc,  \* sweep_states and sweep_overpasses, by region
  invs,       \* investigations
  scenes,     \* satellite_scenes
  dets,       \* spill_detections
  tick,       \* per sweeper: the tick it is busy with
  ingests,    \* ingest jobs queued or running
  adopt,      \* per caller: the request it is busy with
  seen,       \* history: what a search had no room for, or was listed too late for one, and by
              \* region, since when no window left a gap; scenes whose moves overlapped
  cuts        \* what remains of the bounds

caseVars     == <<invs, scenes, dets>>
discoverVars == <<now, listed, regionDoc, caseVars, tick, ingests, adopt, seen, cuts>>

-----------------------------------------------------------------------------
Swept == {r \in Regions : regionDoc[r].container # NoOne}
Containers == {regionDoc[r].container : r \in Swept}

NoTick  == [pc |-> "idle", todo |-> {}, region |-> NoOne, manual |-> FALSE, container |-> NoOne,
            to |-> 0, items |-> {}]
NoAdopt == [pc |-> "idle", by |-> NoOne, scene |-> 0, target |-> NoOne]

\* canAccessInvestigation: administrators always; who created it, and its members.
MayOpen(u, i) ==
  \/ u = Admin
  \/ i \in DOMAIN invs /\ ~invs[i].deleted /\ (invs[i].owner = u \/ u \in invs[i].members)

NewId(docs) == Len(docs) + 1
Cut(b) ==
  /\ cuts[b] > 0
  /\ cuts["all"] > 0
  /\ cuts' = [cuts EXCEPT ![b] = @ - 1, !["all"] = @ - 1]

DiscoverInit ==
  /\ now = 1
  /\ listed = << >>
  /\ regionDoc = [r \in Regions |-> [container |-> NoOne, last |-> 0, passes |-> {}]]
  /\ invs = << >> /\ scenes = << >> /\ dets = << >>
  /\ tick = [s \in Sweepers |-> NoTick]
  /\ ingests = {}
  /\ adopt = [c \in Callers |-> NoAdopt]
  /\ seen = [over |-> {}, late |-> {}, mixed |-> {},
             since |-> [r \in Regions |-> 0]]
  /\ cuts = [ticks |-> MaxTicks, adopts |-> MaxAdopts, breaks |-> MaxBreaks,
             all |-> MaxEvents]

Pass ==
  /\ now < MaxNow
  /\ now' = now + 1
  /\ UNCHANGED <<listed, regionDoc, caseVars, tick, ingests, adopt, seen, cuts>>

\* The provider lists a product that was acquired now, or only now one of earlier.
Publish(p, at) ==
  /\ p \notin DOMAIN listed
  /\ listed' = [o \in DOMAIN listed \cup {p} |-> IF o = p THEN at ELSE listed[o]]
  /\ seen' = [seen EXCEPT !.late = IF at < now THEN @ \cup {p} ELSE @]
  /\ UNCHANGED <<now, regionDoc, caseVars, tick, ingests, adopt, cuts>>

-----------------------------------------------------------------------------
(* The sweep *)

\* processSweep: one region or all of them, one after the other.
StartTick(s, rs, manual) ==
  /\ tick[s].pc = "idle"
  /\ Cut("ticks")
  /\ tick' = [tick EXCEPT ![s] = [NoTick EXCEPT !.pc = "next", !.todo = rs, !.manual = manual]]
  /\ UNCHANGED <<now, listed, regionDoc, caseVars, ingests, adopt, seen>>

\* runSweepTick goes on with another region, or is done with all of them.
NextRegion(t) == [t EXCEPT !.pc = IF t.todo = {} THEN "idle" ELSE "next"]

\* ensureContainer finds the region's container, or starts one.
FindContainer(s, r) ==
  /\ tick[s].pc = "next"
  /\ r \in tick[s].todo
  /\ LET t == [tick[s] EXCEPT !.todo = @ \ {r}, !.region = r] IN
     IF r \in Swept
       THEN /\ tick' = [tick EXCEPT ![s] = [t EXCEPT !.pc = "search",
                                                     !.container = regionDoc[r].container]]
            /\ UNCHANGED invs
       ELSE /\ tick' = [tick EXCEPT ![s] = [t EXCEPT !.pc = "claim", !.container = NewId(invs)]]
            /\ invs' = Append(invs, [kind |-> "SWEEP_CONTAINER", owner |-> NoOne,
                                      members |-> {}, deleted |-> FALSE])
  /\ UNCHANGED <<now, listed, regionDoc, scenes, dets, ingests, adopt, seen, cuts>>

\* SweepStateModel.create, whose unique index refuses a second one.
ClaimRegion(s) ==
  LET t == tick[s] IN
  /\ t.pc = "claim"
  /\ IF t.region \in Swept
       THEN /\ tick' = [tick EXCEPT ![s] = NextRegion(t)]
            /\ UNCHANGED regionDoc
       ELSE /\ tick' = [tick EXCEPT ![s].pc = "search"]
            /\ regionDoc' = [regionDoc EXCEPT ![t.region].container = t.container]
  /\ UNCHANGED <<now, listed, caseVars, ingests, adopt, seen, cuts>>

\* The window of a tick: since the last one, unless it is the first or a manual one.
Back(n) == IF now > n THEN now - n ELSE 0
From(t) ==
  IF ~t.manual /\ regionDoc[t.region].last > 0
    THEN regionDoc[t.region].last
    ELSE Back(IF t.manual THEN ManualLookback ELSE FirstLookback)

\* A window that begins after the mark leaves a gap: that of a first tick, and that of a
\* manual one after more time than ManualLookback.
Leaps(t) == From(t) > regionDoc[t.region].last /\ From(t) > seen.since[t.region]

\* The provider's answer: what it lists of the window, as far as there is room for it.
Window(from) == {p \in DOMAIN listed : listed[p] >= from /\ listed[p] <= now}
Unlimited(ps) == {ps}
Returned(ps) ==
  {q \in SUBSET ps :
     Cardinality(q) = IF Cardinality(ps) < SearchLimit THEN Cardinality(ps) ELSE SearchLimit}

\* sweepRegionTick up to its search: state, window, answer.  A search that fails leaves
\* the state as it was.
Search(s) ==
  LET t == tick[s] IN
  /\ t.pc = "search"
  /\ \/ \E q \in Returned(Window(From(t))) :
          /\ tick' = [tick EXCEPT ![s] = [t EXCEPT !.pc = "record", !.to = now, !.items = q]]
          /\ seen' = [seen EXCEPT !.over = @ \cup {<<t.region, p>> : p \in Window(From(t)) \ q},
                                  !.since = IF Leaps(t) THEN [@ EXCEPT ![t.region] = From(t)] ELSE @]
          /\ UNCHANGED cuts
     \/ /\ Cut("breaks")
        /\ tick' = [tick EXCEPT ![s] = NextRegion(t)]
        /\ UNCHANGED seen
  /\ UNCHANGED <<now, listed, regionDoc, caseVars, ingests, adopt>>

\* recordOverpasses: bulkWrite, then deleteMany of what is too old; or some of the upserts,
\* and no more of this tick.
TooOld(p) == listed[p] + Retention < now
RecordOverpasses(s) ==
  LET t == tick[s] IN
  /\ t.pc = "record"
  /\ \/ /\ regionDoc' = [regionDoc EXCEPT ![t.region].passes = {p \in @ \cup t.items : ~TooOld(p)}]
        /\ tick' = [tick EXCEPT ![s] = [t EXCEPT !.pc = "mark", !.items = {}]]
        /\ UNCHANGED cuts
     \/ /\ Cut("breaks")
        /\ \E some \in SUBSET t.items : regionDoc' = [regionDoc EXCEPT ![t.region].passes = @ \cup some]
        /\ tick' = [tick EXCEPT ![s] = NextRegion(t)]
  /\ UNCHANGED <<now, listed, caseVars, ingests, adopt, seen>>

\* SweepStateModel.updateOne: the end of the window that was searched.
MarkNow(s) ==
  LET t == tick[s] IN
  /\ t.pc = "mark"
  /\ regionDoc' = [regionDoc EXCEPT ![t.region].last = now]
  /\ tick' = [tick EXCEPT ![s] = NextRegion(t)]
  /\ UNCHANGED <<now, listed, caseVars, ingests, adopt, seen, cuts>>
MarkSwept(s) ==
  LET t == tick[s] IN
  /\ t.pc = "mark"
  /\ regionDoc' = [regionDoc EXCEPT ![t.region].last = t.to]
  /\ tick' = [tick EXCEPT ![s] = NextRegion(t)]
  /\ UNCHANGED <<now, listed, caseVars, ingests, adopt, seen, cuts>>

-----------------------------------------------------------------------------
(* Ingests: POST /scenes/ingest and ingestAndDetect *)

\* An investigation may be a container, which its administrators may open and the backfill
\* of cases without a scene meets; enqueue keeps a queued or running job of the same key.
AskIngest(u, i, p) ==
  /\ MayOpen(u, i)
  /\ i \in DOMAIN invs /\ ~invs[i].deleted
  /\ p \in DOMAIN listed \cap Ingestible
  /\ Cut("adopts")
  /\ ingests' = IF \E j \in ingests : j.inv = i /\ j.product = p
                  THEN ingests
                  ELSE ingests \cup {[inv |-> i, product |-> p, scene |-> 0, made |-> 0]}
  /\ UNCHANGED <<now, listed, regionDoc, caseVars, tick, adopt, seen>>

SceneOf(j) == {i \in DOMAIN scenes : scenes[i].inv = j.inv /\ scenes[i].product = j.product}

\* findOneAndUpdate with upsert, under investigation and product.
IngestScene(j) ==
  /\ j.scene = 0
  /\ IF SceneOf(j) # {}
       THEN /\ UNCHANGED scenes
            /\ ingests' = (ingests \ {j}) \cup {[j EXCEPT !.scene = CHOOSE i \in SceneOf(j) : TRUE]}
       ELSE /\ scenes' = Append(scenes, [product |-> j.product, inv |-> j.inv])
            /\ ingests' = (ingests \ {j}) \cup {[j EXCEPT !.scene = NewId(scenes)]}
  /\ UNCHANGED <<now, listed, regionDoc, invs, dets, tick, adopt, seen, cuts>>

\* SpillDetectionModel.create, with the investigation of the job.
IngestDetection(j, r) ==
  /\ j.scene # 0
  /\ j.made < DetsPerScene
  /\ dets' = Append(dets, [scene |-> j.scene, inv |-> j.inv, at |-> r])
  /\ ingests' = (ingests \ {j}) \cup {[j EXCEPT !.made = @ + 1]}
  /\ seen' = [seen EXCEPT !.mixed = IF scenes[j.scene].inv # j.inv THEN @ \cup {j.scene} ELSE @]
  /\ UNCHANGED <<now, listed, regionDoc, invs, scenes, tick, adopt, cuts>>

IngestDone(j) ==
  /\ j.scene # 0
  /\ j.made = DetsPerScene
  /\ ingests' = ingests \ {j}
  /\ UNCHANGED <<now, listed, regionDoc, caseVars, tick, adopt, seen, cuts>>

-----------------------------------------------------------------------------
(* Investigations *)

RealCases == {i \in DOMAIN invs : invs[i].kind # "SWEEP_CONTAINER"}

\* deleteInvestigation: getInvestigation finds a container too, but only an
\* administrator is let through to one, which is left out.
DeleteCase(u, i) ==
  /\ i \in RealCases
  /\ MayOpen(u, i)
  /\ ~invs[i].deleted
  /\ Cut("adopts")
  /\ invs' = [invs EXCEPT ![i].deleted = TRUE]
  /\ UNCHANGED <<now, listed, regionDoc, scenes, dets, tick, ingests, adopt, seen>>

\* addMember
AddPerson(u, i, v) ==
  /\ i \in RealCases
  /\ MayOpen(u, i)
  /\ ~invs[i].deleted
  /\ v \notin invs[i].members
  /\ Cut("adopts")
  /\ invs' = [invs EXCEPT ![i].members = @ \cup {v}]
  /\ UNCHANGED <<now, listed, regionDoc, scenes, dets, tick, ingests, adopt, seen>>

-----------------------------------------------------------------------------
(* Adoption *)

\* What adoptDetection refuses: a scene outside the containers, and a target that is
\* not the caller's, is a container, or has the product already.
Adoptable(i) == scenes[i].inv \in Containers
TargetAllowed(u, i, target) ==
  target = NoOne \/
  /\ target \in RealCases
  /\ MayOpen(u, target)
  /\ ~ \E k \in DOMAIN scenes : scenes[k].inv = target /\ scenes[k].product = scenes[i].product

StartAdopt(c, u, d, target) ==
  /\ adopt[c].pc = "idle"
  /\ Adoptable(dets[d].scene)
  /\ TargetAllowed(u, dets[d].scene, target)
  /\ Cut("adopts")
  /\ adopt' = [adopt EXCEPT ![c] = [pc |-> "scene", by |-> u, scene |-> dets[d].scene, target |-> target]]
  /\ UNCHANGED <<now, listed, regionDoc, caseVars, tick, ingests, seen>>

\* createInvestigation unless a target was named, then updateOne of the scene, which
\* the unique index refuses when the target has got the product since.
MoveScene(c) ==
  LET a == adopt[c]
      target == IF a.target = NoOne THEN NewId(invs) ELSE a.target
      taken == \E k \in DOMAIN scenes : k # a.scene /\ scenes[k].inv = target
                                          /\ scenes[k].product = scenes[a.scene].product
      others == {k \in Callers \ {c} : adopt[k].pc # "idle" /\ adopt[k].scene = a.scene}
  IN
  /\ a.pc = "scene"
  /\ invs' = IF a.target # NoOne THEN invs
             ELSE Append(invs, [kind |-> "CASE", owner |-> a.by, members |-> {a.by}, deleted |-> FALSE])
  /\ IF taken
       THEN /\ adopt' = [adopt EXCEPT ![c] = NoAdopt]
            /\ UNCHANGED <<scenes, seen>>
       ELSE /\ adopt' = [adopt EXCEPT ![c] = [a EXCEPT !.pc = "dets", !.target = target]]
            /\ scenes' = [scenes EXCEPT ![a.scene].inv = target]
            /\ seen' = [seen EXCEPT !.mixed = IF others = {} THEN @ ELSE @ \cup {a.scene}]
  /\ UNCHANGED <<now, listed, regionDoc, dets, tick, ingests, cuts>>

\* updateMany of the scene's detections.
MoveDetections(c) ==
  LET a == adopt[c] IN
  /\ a.pc = "dets"
  /\ dets' = [k \in DOMAIN dets |-> IF dets[k].scene = a.scene THEN [dets[k] EXCEPT !.inv = a.target]
                                                               ELSE dets[k]]
  /\ adopt' = [adopt EXCEPT ![c] = NoAdopt]
  /\ UNCHANGED <<now, listed, regionDoc, invs, scenes, tick, ingests, seen, cuts>>

\* MongoDB fails, or the API goes down, between the two writes.
AdoptBreaks(c) ==
  /\ adopt[c].pc = "dets"
  /\ Cut("breaks")
  /\ adopt' = [adopt EXCEPT ![c] = NoAdopt]
  /\ seen' = [seen EXCEPT !.mixed = @ \cup {adopt[c].scene}]
  /\ UNCHANGED <<now, listed, regionDoc, caseVars, tick, ingests>>

-----------------------------------------------------------------------------
(* What Discover shows *)

\* visibleInvestigationIds
Visible(u, containers) ==
  IF u = Admin
    THEN {i \in DOMAIN invs : ~invs[i].deleted}
    ELSE containers \cup {i \in DOMAIN invs : ~invs[i].deleted /\ (invs[i].owner = u \/ u \in invs[i].members)}

\* listDetections for a set of regions: detections by their scene's investigation and
\* by place, and whether their scene is outside the containers of those regions.
Listing(u, rs) ==
  LET containers == {regionDoc[r].container : r \in rs \cap Swept}
      shown == {d \in DOMAIN dets : scenes[dets[d].scene].inv \in Visible(u, containers)
                                      /\ dets[d].at \in rs}
  IN {[det |-> d, adopted |-> scenes[dets[d].scene].inv \notin containers] : d \in shown}

-----------------------------------------------------------------------------
SweepStep(s) ==
  \/ \E r \in Regions : FindContainer(s, r)
  \/ ClaimRegion(s) \/ Search(s) \/ RecordOverpasses(s) \/ MarkSwept(s)
IngestStep(j) == IngestScene(j) \/ IngestDone(j) \/ \E r \in Regions : IngestDetection(j, r)

DiscoverNext ==
  \/ Pass
  \/ \E p \in Products, at \in 1 .. now : Publish(p, at)
  \/ \E s \in Sweepers, manual \in BOOLEAN : \E rs \in {{r} : r \in Regions} \cup {Regions} :
       StartTick(s, rs, manual)
  \/ \E s \in Sweepers : SweepStep(s)
  \/ \E u \in People, i \in DOMAIN invs, p \in Products : AskIngest(u, i, p)
  \/ \E j \in ingests : IngestStep(j)
  \/ \E u \in People, i \in DOMAIN invs : DeleteCase(u, i) \/ \E v \in People : AddPerson(u, i, v)
  \/ \E c \in Callers, u \in People, d \in DOMAIN dets, target \in RealCases \cup {NoOne} :
       StartAdopt(c, u, d, target)
  \/ \E c \in Callers : MoveScene(c) \/ MoveDetections(c) \/ AdoptBreaks(c)

DiscoverSpec == DiscoverInit /\ [][DiscoverNext]_discoverVars

-----------------------------------------------------------------------------
(* Properties *)

DiscoverTypeOK ==
  /\ now \in Nat
  /\ DOMAIN listed \subseteq Products /\ \A p \in DOMAIN listed : listed[p] \in Nat
  /\ regionDoc \in [Regions -> [container : DOMAIN invs \cup {NoOne}, last : Nat,
                              passes : SUBSET DOMAIN listed]]
  /\ \A i \in DOMAIN invs :
       invs[i] \in [kind : {"CASE", "SWEEP_CONTAINER"}, owner : People \cup {NoOne},
                    members : SUBSET People, deleted : BOOLEAN]
  /\ \A i \in DOMAIN scenes : scenes[i] \in [product : Products, inv : DOMAIN invs]
  /\ \A d \in DOMAIN dets :
       dets[d] \in [scene : DOMAIN scenes, inv : DOMAIN invs, at : Regions]
  /\ \A s \in Sweepers :
       /\ tick[s].pc \in {"idle", "next", "claim", "search", "record", "mark"}
       /\ tick[s].items \subseteq DOMAIN listed
       /\ Cardinality(tick[s].items) <= SearchLimit
  /\ \A j \in ingests : j.inv \in DOMAIN invs /\ j.scene \in DOMAIN scenes \cup {0}
  /\ \A c \in Callers : adopt[c].pc # "idle" => adopt[c].scene \in DOMAIN scenes

\* sweep/service.ts, lastSweptAt: a scheduled tick searches since the last mark only.
\* recordOverpasses, "keep every acquisition the sweep saw": whatever ticks overlap or break
\* off half way, every pass that was listed in time and acquired before the mark of a region
\* is on record for it, unless it is past retention, a search had no room for it, or it is of
\* before the last gap between the windows.
MarkCoversRecord ==
  \A r \in Swept, p \in DOMAIN listed :
    /\ p \notin seen.late
    /\ listed[p] >= seen.since[r]
    /\ listed[p] < regionDoc[r].last
    => p \in regionDoc[r].passes \/ <<r, p>> \in seen.over \/ TooOld(p)

\* adoptDetection, "siblings are never left orphaned in the sweep container": once no
\* adoption of it is under way, a scene and all its detections are in one
\* investigation, unless two adoptions of it overlapped, one was cut short, or its
\* ingest was still adding detections when it was moved.
SiblingsMoveTogether ==
  \A d \in DOMAIN dets :
    LET i == dets[d].scene IN
    /\ i \notin seen.mixed
    /\ \A c \in Callers : adopt[c].pc = "dets" => adopt[c].scene # i
    => dets[d].inv = scenes[i].inv

\* listDetections: what it shows a user is on a scene of a container or of a case that
\* user may read, and what it offers for adoption is what adoptDetection accepts.
ListingIsPermitted ==
  \A u \in People, rs \in {{r} : r \in Regions} \cup {Regions} :
    \A x \in Listing(u, rs) :
      LET inv == scenes[dets[x.det].scene].inv IN
      /\ inv \in Containers \/ (MayOpen(u, inv) /\ ~invs[inv].deleted)
      /\ ~x.adopted => Adoptable(dets[x.det].scene)

\* What Discover promises: nothing between the marks is missing from the record, scenes and
\* detections move together, and a listing agrees with what its reader may do.
DiscoverIsHonest == MarkCoversRecord /\ SiblingsMoveTogether /\ ListingIsPermitted

\* sweep/service.ts, a container is what "the UNMODIFIED ingest pipeline writes real scenes
\* and detections into": what can be read and was acquired before the mark was asked for.
SweepIngests ==
  \A r \in Swept, p \in DOMAIN listed \cap Ingestible :
    listed[p] >= seen.since[r] /\ listed[p] < regionDoc[r].last
      => \/ \E j \in ingests : j.inv = regionDoc[r].container /\ j.product = p
         \/ \E i \in DOMAIN scenes : scenes[i].product = p

=============================================================================
