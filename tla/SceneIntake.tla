----------------------------- MODULE SceneIntake ------------------------------
(***************************************************************************)
(* How a file becomes a scene: what its header states of when and where it *)
(* was observed (sceneMetadata.ts, tiffTags.ts, geotiff.ts), the three     *)
(* doors of the web client it may come through (SceneUpload, StartFromScene*)
(* with CreateInvestigationPage, UploadSarPanel), the routes behind them   *)
(* (scenes/router.ts, uploads/router.ts) and the reading of its pixels by  *)
(* the ML service (adopt.py, preprocess.py).                               *)
(*                                                                         *)
(* A file is a record of what it states: a timestamp is a number of        *)
(* minutes, zero for none, and a coordinate system is one of the kinds the *)
(* readers tell apart.  The first four megabytes of it are read before the *)
(* whole is: `beyond' says that its tags point past them.                  *)
(***************************************************************************)
EXTENDS Naturals, FiniteSets, FiniteSetsExt

CONSTANTS
  Rasters,          \* files an analyst may hold
  NoRaster,
  Slots,            \* cases: those there are, and those that may be opened for a file
  BegunSlots,            \* the ones there are
  Today,            \* the clock at the start; a stamp past Tomorrow is a broken one
  Tomorrow, FirstSar,
  Lead, Trail,      \* the window drawn around a scene
  Day,
  Agreeing,         \* minutes two statements of one acquisition may be apart: 5
  Typeable,         \* instants an analyst may type
  MaxIntakeSteps,   \* bound: what the analyst does
  MaxDelay          \* bound: days that pass while a job waits

ASSUME IntakeAssumption ==
  /\ NoRaster \notin Rasters /\ BegunSlots \subseteq Slots /\ Typeable \subseteq Nat
  /\ {Today, Tomorrow, Day, Lead, Trail, Agreeing} \subseteq Nat /\ FirstSar \in Nat \ {0}
  /\ Rasters \subseteq
       [name : {"mission", "landsat", "stamp", "plain"}, stamp : Nat, description : Nat, written : Nat,
        items : SUBSET [key : {"acquisition", "production", "both", "time", "other"}, time : Nat],
        beyond : BOOLEAN, format : {"tiff", "bigtiff", "neither"},
        crs : {"geographic", "mercator", "utm", "other", "unresolved", "none"}, placed : BOOLEAN,
        values : {"linear", "decibels", "numbers", "empty"}]

VARIABLES
  desk,      \* the panel the file was picked in, and what it was told
  scope,     \* the fields of the form of a new case: which file each was derived from
  opened,    \* the cases: the window of each, or none yet
  objects,   \* what the object store holds
  intake,    \* jobs of the ingest queue
  adopted,   \* SatelliteScene documents
  today,     \* the clock
  intakeLeft \* what remains of the bounds

intakeVars == <<desk, scope, opened, objects, intake, adopted, today, intakeLeft>>

NoTime == 0

-----------------------------------------------------------------------------
(* What a file states of when it was observed *)

\* toIsoUtc: a stamp before the first radar satellite or in the future is a parse error.
Plausible(t) == t >= FirstSar /\ t <= Tomorrow

Statement(t, confidence) ==
  IF Plausible(t) THEN {[time |-> t, confidence |-> confidence]} ELSE {}

\* readMissionName: the first convention the name follows.
NameStates(f) ==
  CASE f.name = "mission" -> Statement(f.stamp, "HIGH")
    [] f.name = "landsat" -> Statement(f.stamp, "LOW")
    [] f.name = "stamp"   -> Statement(f.stamp, "MEDIUM")
    [] f.name = "plain"   -> {}
PlatformOf(f) == IF f.name \in {"mission", "landsat"} THEN "named" ELSE "operator"

\* gdalCandidates: a key that names the production of the file is never its acquisition,
\* even when it also says acquisition.
ItemStatesAny(i) ==
  CASE i.key \in {"acquisition", "both"} -> Statement(i.time, "HIGH")
    [] i.key = "production"  -> Statement(i.time, "LOW")
    [] i.key = "time"        -> Statement(i.time, "MEDIUM")
    [] i.key = "other"       -> {}
ItemStates(i) ==
  CASE i.key = "acquisition" -> Statement(i.time, "HIGH")
    [] i.key \in {"production", "both"} -> Statement(i.time, "LOW")
    [] i.key = "time"        -> Statement(i.time, "MEDIUM")
    [] i.key = "other"       -> {}

\* readTiffDirectory: nothing but the name is readable of what is no TIFF; a value that
\* lies past the bytes that were sent is not there.
Readable(f)  == f.format \in {"tiff", "bigtiff"}
TagsRead(f, whole) == Readable(f) /\ (whole \/ ~f.beyond)

Candidates(f, whole) ==
  NameStates(f) \cup
    IF ~TagsRead(f, whole) THEN {}
    ELSE (UNION {ItemStates(i) : i \in f.items})
           \cup Statement(f.description, "MEDIUM") \cup Statement(f.written, "LOW")

\* extractSceneMetadata: adopted without asking only when every strong statement is of one
\* acquisition, and then the earliest of them.
Strong(f, whole)    == {c.time : c \in {d \in Candidates(f, whole) : d.confidence = "HIGH"}}
Spread(ts)          == Max(ts) - Min(ts)
AcquiredAt(f, whole) ==
  LET ts == Strong(f, whole)
  IN IF Readable(f) /\ ts # {} /\ Spread(ts) <= Agreeing THEN Min(ts) ELSE NoTime

-----------------------------------------------------------------------------
(* Where it was observed *)

\* inspectGeoTiff: the directory has a GeoKeyDirectory and something that positions it.
\* Whether the keys name a system that exists is not looked at.
Acceptable(f) == Readable(f) /\ f.crs # "none" /\ f.placed

\* reprojectorFor: geographic coordinates, web Mercator and UTM are what this reader inverts.
Inverted(f) == f.crs \in {"geographic", "mercator", "utm"}

\* The extent of the preview: none without a transform, or in any other system.
Previewed(f, whole) == TagsRead(f, whole) /\ f.placed /\ Inverted(f)

\* describeScene, on the head of a file.
Inspected(f) == [acceptable |-> Acceptable(f), acquiredAt |-> AcquiredAt(f, FALSE),
                 candidates |-> {c.time : c \in Candidates(f, FALSE)}]

\* classify in the browser and detectFormat behind it: only the classic marker is known.
ClassifiedTiff(f) == f.format \in {"tiff", "bigtiff"}
TakenAsRaster(f)  == f.format = "tiff"

\* adopt_upload resolves the system and asks for a transform; ingest_upload asks for a system.
Positioned(f)  == f.crs \notin {"none", "unresolved"} /\ f.placed
HasSystem(f)   == f.crs \notin {"none", "unresolved"}

\* probe_radiometry reports; _to_linear_sigma0 converts.
Radiometry(f, door) ==
  IF door = "panel" THEN "linear"
  ELSE CASE f.values = "linear" -> "linear" [] f.values = "decibels" -> "unusable"
         [] f.values = "numbers" -> "unusable" [] f.values = "empty" -> "unusable"

-----------------------------------------------------------------------------
(* The desk *)

Blank  == [file |-> NoRaster, answer |-> NoRaster, time |-> NoTime, by |-> "nobody",
           reading |-> {}, phase |-> "idle"]
NoScope == [area |-> NoRaster, window |-> NoRaster, from |-> NoTime, to |-> NoTime,
            centre |-> NoTime, carried |-> NoRaster]
Doors  == {"case", "new", "panel"}

IntakeInit ==
  /\ desk = [d \in Doors |-> Blank]
  /\ scope = NoScope
  /\ opened = [c \in Slots |-> [open |-> c \in BegunSlots, from |-> NoTime, to |-> NoTime, drawn |-> FALSE]]
  /\ objects = {}
  /\ intake = {}
  /\ adopted = {}
  /\ today = Today
  /\ intakeLeft = [steps |-> MaxIntakeSteps, delay |-> MaxDelay]

Step == intakeLeft.steps > 0 /\ intakeLeft' = [intakeLeft EXCEPT !.steps = @ - 1]
Set(d, r) == desk' = [desk EXCEPT ![d] = r]

\* applyScope, and the scope it is handed: the fields the scope has replace what was there.
Derived(s, f, t) ==
  [s EXCEPT !.area   = IF Previewed(f, FALSE) THEN f ELSE @,
            !.window = IF t # NoTime THEN f ELSE @,
            !.from   = IF t # NoTime THEN (IF t > Lead THEN t - Lead ELSE 1) ELSE @,
            !.to     = IF t # NoTime THEN t + Trail ELSE @,
            !.centre = t]

\* A file is picked: what was known of the one before it is forgotten, and its head is sent.
PickFile(d, f) ==
  /\ d \in {"case", "new"}
  /\ Step
  /\ Set(d, [Blank EXCEPT !.file = f, !.reading = desk[d].reading \cup {f}, !.phase = "reading"])
  /\ scope' = IF d = "new" THEN [scope EXCEPT !.carried = NoRaster, !.centre = NoTime] ELSE scope
  /\ UNCHANGED <<opened, objects, intake, adopted, today>>

\* The answer on a file, whichever was picked since: the time it states is adopted.
FileRead(d, f) ==
  /\ f \in desk[d].reading
  /\ LET t    == Inspected(f).acquiredAt
         time == IF t # NoTime THEN t ELSE desk[d].time
     IN /\ Set(d, [desk[d] EXCEPT !.answer = f, !.time = time, !.phase = "read",
                                  !.by = IF t # NoTime THEN "file" ELSE @,
                                  !.reading = @ \ {f}])
        /\ scope' = IF d = "new"
                      THEN [Derived(scope, f, time) EXCEPT
                              !.carried = IF Inspected(f).acceptable THEN f ELSE NoRaster]
                      ELSE scope
  /\ UNCHANGED <<opened, objects, intake, adopted, today, intakeLeft>>

\* The request failed: the fields stay to be filled in by hand.
FileUnread(d, f) ==
  /\ f \in desk[d].reading
  /\ Step
  /\ Set(d, [desk[d] EXCEPT !.answer = IF d = "case" THEN NoRaster ELSE @, !.phase = "read",
                            !.reading = @ \ {f}])
  /\ UNCHANGED <<scope, opened, objects, intake, adopted, today>>

\* The analyst types an instant, or takes one the answer offered.
Decide(d, t, by) ==
  /\ d \in {"case", "new"}
  /\ desk[d].phase = "read"
  /\ CASE by = "typed"   -> t \in Typeable
       [] by = "offered" -> desk[d].answer # NoRaster
                              /\ t \in Inspected(desk[d].answer).candidates
  /\ (d = "new" => desk[d].answer # NoRaster)
  /\ Step
  /\ Set(d, [desk[d] EXCEPT !.time = t, !.by = by])
  /\ scope' = IF d = "new" THEN Derived(scope, desk[d].answer, t) ELSE scope
  /\ UNCHANGED <<opened, objects, intake, adopted, today>>

-----------------------------------------------------------------------------
(* POST /investigations, /:id/scenes/upload, /uploads/raster, /:id/scenes/ingest *)

Open(c, from, to, drawn) ==
  opened' = [opened EXCEPT ![c] = [open |-> TRUE, from |-> from, to |-> to, drawn |-> drawn]]

\* scenes/upload: an instant that is sent always wins, else the whole file is read for one;
\* without one, or without georeferencing, nothing is stored.
Instant(f, sent) == IF sent # NoTime THEN sent ELSE AcquiredAt(f, TRUE)
Accepted(f, sent) == Instant(f, sent) # NoTime /\ Acceptable(f)
UploadJob(c, d, f, sent, by) ==
  [case |-> c, door |-> d, file |-> f, time |-> Instant(f, sent),
   label |-> IF sent # NoTime THEN "uploader" ELSE "file",
   by |-> IF sent # NoTime THEN by ELSE "server"]
Uploaded(c, d, f, sent, by) ==
  IF Accepted(f, sent)
    THEN /\ objects' = objects \cup {f}
         /\ intake' = IF \E j \in intake : j.case = c /\ j.file = f /\ j.door # "panel"
                        THEN intake ELSE intake \cup {UploadJob(c, d, f, sent, by)}
    ELSE UNCHANGED <<objects, intake>>

\* SceneUpload: submit.
SubmitToCase(c) ==
  LET d == desk["case"] IN
  /\ opened[c].open
  /\ d.file # NoRaster
  /\ d.phase = "read"
  /\ d.answer # NoRaster => Inspected(d.answer).acceptable
  /\ Step
  /\ Uploaded(c, "case", d.file, d.time, d.by)
  /\ Set("case", IF Accepted(d.file, d.time) THEN [Blank EXCEPT !.reading = d.reading] ELSE d)
  /\ UNCHANGED <<scope, opened, adopted, today>>

\* CreateInvestigationPage: the case, then the file with the instant the window was drawn
\* around.  Without a window of its own the analyst fills one in.
SentAgain(s)  == NoTime
SentTime(s)   == s.centre
CreateFrom(c) ==
  LET f == scope.carried IN
  /\ ~opened[c].open
  /\ f # NoRaster
  /\ Step
  /\ \E from \in (IF scope.from # NoTime THEN {scope.from} ELSE Typeable) :
       Open(c, from, IF scope.from # NoTime THEN scope.to ELSE from + Day, scope.centre # NoTime)
  /\ Uploaded(c, "new", f, SentTime(scope), desk["new"].by)
  /\ scope' = NoScope
  /\ Set("new", Blank)
  /\ UNCHANGED <<adopted, today>>

\* UploadSarPanel: process.  The file is stored, a case is opened around the stamp in its
\* name or around now, and the object is ingested; any step may fail and leave the others.
PanelTakes(f) ==
  /\ Step
  /\ Set("panel", [Blank EXCEPT !.file = f, !.phase = IF ClassifiedTiff(f) THEN "ready" ELSE "invalid"])
  /\ UNCHANGED <<scope, opened, objects, intake, adopted, today>>

PanelStamp(f) == IF f.name \in {"mission", "stamp"} THEN f.stamp ELSE NoTime

PanelStores ==
  LET f == desk["panel"].file IN
  /\ desk["panel"].phase \in {"ready", "error"}
  /\ Step
  /\ objects' = IF TakenAsRaster(f) THEN objects \cup {f} ELSE objects
  /\ Set("panel", [desk["panel"] EXCEPT !.phase = IF TakenAsRaster(f) THEN "uploading" ELSE "error"])
  /\ UNCHANGED <<scope, opened, intake, adopted, today>>

PanelOpens(c) ==
  LET f  == desk["panel"].file
      at == IF PanelStamp(f) # NoTime THEN PanelStamp(f) ELSE today
  IN /\ desk["panel"].phase = "uploading"
     /\ ~opened[c].open
     /\ Open(c, IF at > Day THEN at - Day ELSE 1, at + Day, TRUE)
     /\ \/ /\ intake' = intake \cup {[case |-> c, door |-> "panel", file |-> f, time |-> NoTime,
                                      label |-> "none", by |-> "nobody"]}
           /\ Set("panel", [desk["panel"] EXCEPT !.phase = "processing"])
        \/ /\ intake' = intake
           /\ Set("panel", [desk["panel"] EXCEPT !.phase = "error"])
     /\ UNCHANGED <<scope, objects, adopted, today, intakeLeft>>

-----------------------------------------------------------------------------
(* The ingest job *)

Scene(j, t) ==
  [case |-> j.case, file |-> j.file, door |-> j.door, time |-> t, label |-> j.label,
   by |-> j.by, values |-> Radiometry(j.file, j.door),
   platform |-> IF j.door = "panel" THEN "other" ELSE PlatformOf(j.file)]

\* The upsert is by case and product: an upload's product is its content, a raster's its key.
Upsert(s) ==
  {t \in adopted : ~(t.case = s.case /\ t.file = s.file /\ (t.door = "panel") = (s.door = "panel"))}
    \cup {s}

\* /adopt: the first point where the system is resolved.
Adopts(j) ==
  /\ j.door # "panel"
  /\ intake' = intake \ {j}
  /\ adopted' = IF Positioned(j.file) THEN Upsert(Scene(j, j.time)) ELSE adopted
  /\ UNCHANGED <<desk, scope, opened, objects, today, intakeLeft>>

\* /ingest with a source key: the stamp in the name of the object, or the time of reading.
IngestsRaster(j) ==
  /\ j.door = "panel"
  /\ intake' = intake \ {j}
  /\ adopted' = IF HasSystem(j.file)
                  THEN Upsert(Scene(j, IF PanelStamp(j.file) # NoTime THEN PanelStamp(j.file)
                                                                      ELSE today))
                  ELSE adopted
  /\ Set("panel", IF desk["panel"].phase # "processing" THEN desk["panel"]
                  ELSE [desk["panel"] EXCEPT
                          !.phase = IF HasSystem(j.file) THEN "processed" ELSE "error"])
  /\ UNCHANGED <<scope, opened, objects, today, intakeLeft>>

DayPasses ==
  /\ intakeLeft.delay > 0
  /\ intakeLeft' = [intakeLeft EXCEPT !.delay = @ - 1]
  /\ today' = today + Day
  /\ UNCHANGED <<desk, scope, opened, objects, intake, adopted>>

IntakeNext ==
  \/ \E d \in Doors, f \in Rasters :
       \/ PickFile(d, f)
       \/ FileRead(d, f)
       \/ FileUnread(d, f)
  \/ \E d \in Doors, by \in {"typed", "offered"}, t \in Typeable \cup {f.stamp : f \in Rasters} :
       Decide(d, t, by)
  \/ \E c \in Slots : SubmitToCase(c) \/ CreateFrom(c) \/ PanelOpens(c)
  \/ \E f \in Rasters : PanelTakes(f)
  \/ PanelStores
  \/ \E j \in intake : Adopts(j) \/ IngestsRaster(j)
  \/ DayPasses

IntakeSpec == IntakeInit /\ [][IntakeNext]_intakeVars

-----------------------------------------------------------------------------
(* Properties *)

IntakeTypeOK ==
  /\ \A d \in Doors :
       /\ desk[d].file \in Rasters \cup {NoRaster} /\ desk[d].answer \in Rasters \cup {NoRaster}
       /\ desk[d].time \in Nat /\ desk[d].reading \subseteq Rasters
       /\ desk[d].by \in {"nobody", "file", "offered", "typed"}
  /\ {scope.area, scope.window, scope.carried} \subseteq Rasters \cup {NoRaster}
  /\ objects \subseteq Rasters
  /\ \A j \in intake : j.case \in Slots /\ j.file \in Rasters
  /\ \A s \in adopted : s.case \in Slots /\ s.file \in Rasters

\* CreateInvestigationPage.tsx, "the scene cannot end up dated differently from its own
\* case": whatever was picked, typed or taken in between, a scene whose case was drawn
\* around an instant lies in the window of that case.
SceneLiesInItsCase ==
  \A s \in adopted :
    s.door = "new" /\ opened[s.case].drawn
      => s.time >= opened[s.case].from /\ s.time <= opened[s.case].to

\* sceneMetadata.ts, "a value is only ever adopted when the file states it unambiguously":
\* a scene that came through the upload route has an instant somebody typed or took, or one
\* at which some file states it was acquired; never the day the file was made, a date
\* without a time of day, or a stamp nobody explains.
TimesAreStated ==
  \A s \in adopted :
    s.door # "panel" /\ s.by \notin {"typed", "offered"}
      => \E f \in Rasters :
           \/ f.name = "mission" /\ s.time = f.stamp
           \/ \E i \in f.items : i.key = "acquisition" /\ s.time = i.time

\* geotiff.ts, "somewhere in the Gulf of Guinea": no scene of the upload route is without a
\* position, and the pixels of one that is were stored before its job was queued.
UploadsArePlaced ==
  /\ \A s \in adopted : s.door # "panel" => s.file.placed /\ HasSystem(s.file)
  /\ \A j \in intake : j.file \in objects

\* A scene is of the time and place that its file or a person gave, on every route.
IntakeIsHonest == SceneLiesInItsCase /\ TimesAreStated /\ UploadsArePlaced

\* uploads/router.ts, "only real geocoded rasters are accepted here": false of the raster
\* route, where neither the API nor the ML service asks for a transform.
RastersArePlaced == \A s \in adopted : s.file.placed

\* CreateInvestigationPage.tsx, "overwrites rather than merges": the area and the window the
\* form holds came from one file.  False of the code: a file that states no time leaves the
\* window of the file before it.
ScopeIsOfOneFile ==
  scope.area # NoRaster /\ scope.window # NoRaster => scope.area = scope.window

\* scenes/router.ts, "the analyst typed this" and "the product name says this" have to stay
\* distinguishable after the fact: a scene whose instant is recorded as supplied by its
\* uploader has one the analyst typed or took.  False of the code: the panels send the
\* instant they read off the file as if it had been.
LabelTellsWhoStated == \A s \in adopted : s.label = "uploader" => s.by \in {"typed", "offered"}

\* sceneFile.ts and the panels: the time that is held is of the file that is held.  False of
\* the code: a late answer on the file before fills in the time of the one after.
TimeIsOfItsFile ==
  \A d \in {"case", "new"} :
    desk[d].by = "file" => desk[d].time = AcquiredAt(desk[d].file, FALSE)

=============================================================================
