---------------------------- MODULE ScenesProofs ----------------------------
(***************************************************************************)
(* What holds for all rasters, forcings, detections and bounds of what     *)
(* happens around a scene: what the three doors of the intake claim of a   *)
(* file, what an estimate of an origin says it is made of, and what a      *)
(* reviewed detection is labelled.                                         *)
(***************************************************************************)
EXTENDS SceneIntake, Backtracking, ReviewDesk, TLAPS, FiniteSetTheorems, SequenceTheorems, WellFoundedInduction

-----------------------------------------------------------------------------
(* First and last of some numbers *)

\* A set of numbers that is not empty has a first one, which is what Min chooses.
LEMMA FirstOf ==
  ASSUME NEW S \in SUBSET Nat, S # {}
  PROVE  /\ Min(S) \in S
         /\ \A l \in S : Min(S) <= l
<1>1. PICK m \in S : \A l \in S : ~ (<<l, m>> \in OpToRel(<, Nat))
  BY WFMin, NatLessThanWellFounded
<1>2. \A l \in S : ~ (l < m)
  BY <1>1 DEF OpToRel
<1>3. \A l \in S : m =< l
  BY <1>2
<1> QED
  BY <1>3 DEF Min

\* And one that is bounded a last one, which is what Max chooses.
LEMMA LastOf ==
  ASSUME NEW n \in Nat, NEW S \in SUBSET (0 .. n), S # {}
  PROVE  /\ Max(S) \in S
         /\ \A l \in S : l <= Max(S)
<1> DEFINE D == {d \in Nat : n - d \in S}
<1>1. D # {}
  <2>1. PICK k \in S : TRUE
    OBVIOUS
  <2>2. n - k \in Nat /\ n - (n - k) = k
    BY <2>1
  <2> QED
    BY <2>1, <2>2
<1>2. PICK d \in D : \A e \in D : d <= e
  <2> HIDE DEF D
  <2>1. D \in SUBSET Nat
    BY DEF D
  <2> QED
    BY <1>1, <2>1, FirstOf
<1>3. \A l \in S : l <= n - d
  <2> TAKE l \in S
  <2>1. n - l \in D /\ l \in Nat
    BY DEF D
  <2>2. d <= n - l /\ d \in Nat
    BY <1>2, <2>1
  <2> QED
    BY <2>1, <2>2
<1>4. n - d \in S /\ \A y \in S : n - d >= y
  BY <1>2, <1>3
<1>5. Max(S) \in S /\ \A y \in S : Max(S) >= y
  BY <1>4 DEF Max
<1> QED
  BY <1>5

-----------------------------------------------------------------------------
(* Scene intake: its inductive invariant *)

Phases     == {"idle", "reading", "read", "ready", "invalid", "uploading", "error", "processing", "processed"}
Marks      == {"nobody", "file", "offered", "typed"}
DeskType   == [file : Rasters \cup {NoRaster}, answer : Rasters \cup {NoRaster}, time : Nat, by : Marks,
               reading : SUBSET Rasters, phase : Phases]
ScopeType  == [area : Rasters \cup {NoRaster}, window : Rasters \cup {NoRaster}, from : Nat, to : Nat,
               centre : Nat, carried : Rasters \cup {NoRaster}]
CaseType   == [open : BOOLEAN, from : Nat, to : Nat, drawn : BOOLEAN]
IngestType == [case : Slots, door : Doors, file : Rasters, time : Nat,
               label : {"uploader", "file", "none"}, by : Marks \cup {"server"}]

\* An instant that some file states of its acquisition.
Stated(t) ==
  \E f \in Rasters :
    \/ f.name = "mission" /\ t = f.stamp
    \/ \E i \in f.items : i.key = "acquisition" /\ t = i.time
Person(by) == by \in {"typed", "offered"}

IntakeTypes ==
  /\ desk \in [Doors -> DeskType]
  /\ scope \in ScopeType
  /\ opened \in [Slots -> CaseType]
  /\ objects \subseteq Rasters
  /\ intake \subseteq IngestType
  /\ \A s \in adopted : s.case \in Slots /\ s.file \in Rasters /\ s.door \in Doors /\ s.time \in Nat
  /\ today \in Nat

\* What the desk holds was typed, taken, or stated; the raster panel asks nobody.
DeskInv ==
  /\ desk["panel"].reading = {}
  /\ desk["panel"].phase # "idle" => desk["panel"].file # NoRaster
  /\ desk["panel"].phase = "uploading" => desk["panel"].file \in objects
  /\ \A d \in {"case", "new"} : desk[d].time # NoTime => Person(desk[d].by) \/ Stated(desk[d].time)

\* The window of the form is drawn around the instant that will be sent with the file.
ScopeInv ==
  scope.centre # NoTime =>
    /\ scope.centre = desk["new"].time
    /\ scope.from # NoTime /\ scope.from <= scope.centre /\ scope.centre <= scope.to

\* What a job, and the scene it becomes, says of an instant.
Honest(j) ==
  /\ j.door = "new" => opened[j.case].open
  /\ j.door = "new" /\ opened[j.case].drawn => opened[j.case].from <= j.time /\ j.time <= opened[j.case].to
  /\ j.door # "panel" => Person(j.by) \/ Stated(j.time)
JobsInv   == \A j \in intake : Honest(j) /\ j.file \in objects
ScenesInv == \A s \in adopted : Honest(s) /\ (s.door # "panel" => s.file.placed /\ HasSystem(s.file))

IntakeInv == IntakeTypes /\ DeskInv /\ ScopeInv /\ JobsInv /\ ScenesInv

-----------------------------------------------------------------------------
(* What a file states *)

LEMMA RasterTypes ==
  ASSUME NEW f \in Rasters
  PROVE  /\ f.name \in {"mission", "landsat", "stamp", "plain"} /\ f.stamp \in Nat /\ f # NoRaster
         /\ \A i \in f.items : i.time \in Nat /\ i.key \in {"acquisition", "production", "both", "time", "other"}
         /\ f.description \in Nat /\ f.written \in Nat
  BY IntakeAssumption

LEMMA StatementIs ==
  ASSUME NEW t \in Nat, NEW conf, NEW c \in Statement(t, conf)
  PROVE  c.time = t /\ c.confidence = conf /\ t # NoTime /\ c.time \in Nat
  BY IntakeAssumption DEF Statement, Plausible, NoTime

\* Every candidate is an instant, and the strong ones are stated to be of the acquisition.
LEMMA CandidatesAre ==
  ASSUME NEW f \in Rasters, NEW whole \in BOOLEAN, NEW c \in Candidates(f, whole)
  PROVE  /\ c.time \in Nat /\ c.time # NoTime
         /\ c.confidence = "HIGH" => Stated(c.time)
<1>1. CASE c \in NameStates(f)
  <2>1. CASE f.name = "mission"
    <3>1. c \in Statement(f.stamp, "HIGH")
      BY <1>1, <2>1 DEF NameStates
    <3> QED
      BY <2>1, <3>1, RasterTypes, StatementIs DEF Stated
  <2>2. CASE f.name = "landsat"
    <3>1. c \in Statement(f.stamp, "LOW")
      BY <1>1, <2>2 DEF NameStates
    <3> QED
      BY <3>1, RasterTypes, StatementIs
  <2>3. CASE f.name = "stamp"
    <3>1. c \in Statement(f.stamp, "MEDIUM")
      BY <1>1, <2>3 DEF NameStates
    <3> QED
      BY <3>1, RasterTypes, StatementIs
  <2>4. CASE f.name = "plain"
    BY <1>1, <2>4 DEF NameStates
  <2> QED
    BY <2>1, <2>2, <2>3, <2>4, RasterTypes
<1>2. ASSUME NEW i \in f.items, c \in ItemStates(i)
      PROVE  c.time \in Nat /\ c.time # NoTime /\ (c.confidence = "HIGH" => Stated(c.time))
  <2>1. CASE i.key = "acquisition"
    <3>1. c \in Statement(i.time, "HIGH")
      BY <1>2, <2>1 DEF ItemStates
    <3> QED
      BY <2>1, <3>1, RasterTypes, StatementIs DEF Stated
  <2>2. CASE i.key \in {"production", "both"}
    <3>1. c \in Statement(i.time, "LOW")
      BY <1>2, <2>2 DEF ItemStates
    <3> QED
      BY <3>1, RasterTypes, StatementIs
  <2>3. CASE i.key = "time"
    <3>1. c \in Statement(i.time, "MEDIUM")
      BY <1>2, <2>3 DEF ItemStates
    <3> QED
      BY <3>1, RasterTypes, StatementIs
  <2>4. CASE i.key = "other"
    BY <1>2, <2>4 DEF ItemStates
  <2> QED
    BY <2>1, <2>2, <2>3, <2>4, RasterTypes
<1>3. CASE c \in Statement(f.description, "MEDIUM") \/ c \in Statement(f.written, "LOW")
  BY <1>3, RasterTypes, StatementIs
<1>4. c \in NameStates(f) \/ (\E i \in f.items : c \in ItemStates(i))
        \/ c \in Statement(f.description, "MEDIUM") \/ c \in Statement(f.written, "LOW")
  <2>1. CASE TagsRead(f, whole)
    <3> DEFINE U == UNION {ItemStates(i) : i \in f.items}
    <3>1. Candidates(f, whole) =
            NameStates(f) \cup (U \cup Statement(f.description, "MEDIUM") \cup Statement(f.written, "LOW"))
      <4>1. Candidates(f, whole) = NameStates(f) \cup
              IF ~TagsRead(f, whole) THEN {}
              ELSE U \cup Statement(f.description, "MEDIUM") \cup Statement(f.written, "LOW")
        BY DEF Candidates
      <4> HIDE DEF U
      <4> QED
        BY <2>1, <4>1
    <3>2. c \in U => \E i \in f.items : c \in ItemStates(i)
      OBVIOUS
    <3> HIDE DEF U
    <3> QED
      BY <3>1, <3>2
  <2>2. CASE ~TagsRead(f, whole)
    BY <2>2 DEF Candidates
  <2> QED
    BY <2>1, <2>2
<1> QED
  BY <1>1, <1>2, <1>3, <1>4

\* What is adopted of a file without asking is one of its strong statements.
LEMMA AcquiredIsStated ==
  ASSUME NEW f \in Rasters, NEW whole \in BOOLEAN
  PROVE  /\ AcquiredAt(f, whole) \in Nat
         /\ AcquiredAt(f, whole) # NoTime => Stated(AcquiredAt(f, whole))
<1> DEFINE ts == Strong(f, whole)
<1>1. \A t \in ts : t \in Nat /\ Stated(t)
  BY CandidatesAre DEF Strong
<1>2. CASE Readable(f) /\ ts # {} /\ Spread(ts) <= Agreeing
  <2>1. AcquiredAt(f, whole) = Min(ts)
    BY <1>2 DEF AcquiredAt
  <2>2. Min(ts) \in ts
    <3> HIDE DEF ts
    <3> QED
      BY <1>1, <1>2, FirstOf
  <2> QED
    BY <1>1, <2>1, <2>2
<1>3. CASE ~(Readable(f) /\ ts # {} /\ Spread(ts) <= Agreeing)
  BY <1>3 DEF AcquiredAt, NoTime
<1> QED
  BY <1>2, <1>3

\* A window that is drawn around an instant holds it.
LEMMA DerivedIs ==
  ASSUME NEW s \in ScopeType, NEW f \in Rasters, NEW t \in Nat
  PROVE  /\ Derived(s, f, t) \in ScopeType
         /\ Derived(s, f, t).centre = t
         /\ t # NoTime => /\ Derived(s, f, t).from # NoTime
                          /\ Derived(s, f, t).from <= t /\ t <= Derived(s, f, t).to
<1>1. {Lead, Trail} \subseteq Nat
  BY IntakeAssumption
<1>2. CASE t = NoTime
  BY <1>2 DEF Derived, ScopeType
<1>3. CASE t # NoTime
  <2> DEFINE from == IF t > Lead THEN t - Lead ELSE 1
  <2>1. from \in Nat /\ from # NoTime /\ from <= t /\ t + Trail \in Nat /\ t <= t + Trail
    BY <1>1, <1>3 DEF NoTime
  <2>2. Derived(s, f, t) = [s EXCEPT !.area = IF Previewed(f, FALSE) THEN f ELSE @, !.window = f,
                                     !.from = from, !.to = t + Trail, !.centre = t]
    BY <1>3 DEF Derived
  <2> HIDE DEF from
  <2> QED
    BY <2>1, <2>2 DEF ScopeType
<1> QED
  BY <1>2, <1>3

-----------------------------------------------------------------------------
(* The steps *)

LEMMA BlankType ==
  /\ Blank \in DeskType /\ Blank.time = NoTime /\ Blank.reading = {}
  /\ NoScope \in ScopeType /\ NoScope.centre = NoTime
  BY DEF Blank, DeskType, Marks, Phases, NoTime, NoScope, ScopeType

\* What happens at a door of the analyst.
LEMMA DeskStep ==
  ASSUME IntakeInv, NEW d \in {"case", "new"}, NEW r \in DeskType, NEW sc \in ScopeType,
         desk' = [desk EXCEPT ![d] = r], scope' = sc,
         r.time # NoTime => Person(r.by) \/ Stated(r.time),
         sc.centre # NoTime =>
           /\ sc.centre = IF d = "new" THEN r.time ELSE desk["new"].time
           /\ sc.from # NoTime /\ sc.from <= sc.centre /\ sc.centre <= sc.to,
         UNCHANGED <<opened, objects, intake, adopted, today>>
  PROVE  IntakeInv'
<1>1. /\ desk' \in [Doors -> DeskType] /\ desk'["panel"] = desk["panel"] /\ desk'[d] = r
      /\ \A e \in Doors \ {d} : desk'[e] = desk[e]
  BY DEF IntakeInv, IntakeTypes, Doors
<1>2. IntakeTypes'
  BY <1>1 DEF IntakeInv, IntakeTypes
<1>3. DeskInv'
  BY <1>1 DEF IntakeInv, DeskInv, Doors
<1>4. ScopeInv'
  BY <1>1 DEF ScopeInv, Doors
<1>5. JobsInv' /\ ScenesInv'
  BY DEF IntakeInv, JobsInv, ScenesInv, Honest
<1> QED
  BY <1>2, <1>3, <1>4, <1>5 DEF IntakeInv

LEMMA PickFileSteps ==
  ASSUME IntakeInv, NEW d \in Doors, NEW f \in Rasters, PickFile(d, f)
  PROVE  IntakeInv'
<1> DEFINE r  == [Blank EXCEPT !.file = f, !.reading = desk[d].reading \cup {f}, !.phase = "reading"]
           sc == IF d = "new" THEN [scope EXCEPT !.carried = NoRaster, !.centre = NoTime] ELSE scope
<1>1. d \in {"case", "new"} /\ desk' = [desk EXCEPT ![d] = r] /\ scope' = sc
      /\ UNCHANGED <<opened, objects, intake, adopted, today>>
  BY DEF PickFile, Set
<1>2. desk[d].reading \cup {f} \in SUBSET Rasters
  BY DEF IntakeInv, IntakeTypes, DeskType
<1>3. r \in DeskType /\ r.time = NoTime
  <2>1. PICK rs \in SUBSET Rasters : rs = desk[d].reading \cup {f}
    BY <1>2
  <2>2. PICK x \in DeskType : x = Blank /\ x.time = NoTime
    BY BlankType
  <2>3. r = [x EXCEPT !.file = f, !.reading = rs, !.phase = "reading"]
    BY <2>1, <2>2
  <2> QED
    BY <2>2, <2>3 DEF DeskType, Phases
<1>4. sc \in ScopeType /\ (sc.centre # NoTime => d # "new" /\ sc = scope)
  BY DEF IntakeInv, IntakeTypes, ScopeType, NoTime
<1> HIDE DEF r, sc
<1>5. sc.centre # NoTime =>
           /\ sc.centre = IF d = "new" THEN r.time ELSE desk["new"].time
           /\ sc.from # NoTime /\ sc.from <= sc.centre /\ sc.centre <= sc.to
  BY <1>4 DEF IntakeInv, ScopeInv
<1> QED
  BY <1>1, <1>3, <1>4, <1>5, DeskStep

LEMMA ReadSteps ==
  ASSUME IntakeInv, NEW d \in Doors, NEW f \in Rasters, FileRead(d, f)
  PROVE  IntakeInv'
<1> DEFINE t == Inspected(f).acquiredAt
           time == IF t # NoTime THEN t ELSE desk[d].time
           by == IF t # NoTime THEN "file" ELSE desk[d].by
           r == [desk[d] EXCEPT !.answer = f, !.time = time, !.phase = "read", !.by = by,
                                !.reading = desk[d].reading \ {f}]
           c == IF Inspected(f).acceptable THEN f ELSE NoRaster
           sc == IF d = "new" THEN [Derived(scope, f, time) EXCEPT !.carried = c] ELSE scope
<1>1. desk' = [desk EXCEPT ![d] = r] /\ scope' = sc /\ UNCHANGED <<opened, objects, intake, adopted, today>>
  BY DEF FileRead, Set
<1>2. d \in {"case", "new"} /\ desk[d] \in DeskType /\ scope \in ScopeType
  BY DEF FileRead, IntakeInv, DeskInv, IntakeTypes, Doors
<1>3. t = AcquiredAt(f, FALSE)
  BY DEF Inspected
<1>4. t \in Nat /\ (t # NoTime => Stated(t))
  BY <1>3, AcquiredIsStated
<1> HIDE DEF t
<1>5. time \in Nat /\ by \in Marks
  BY <1>2, <1>4 DEF DeskType, Marks
<1>6. time # NoTime => Person(by) \/ Stated(time)
  BY <1>2, <1>4 DEF IntakeInv, DeskInv
<1> HIDE DEF time, by
<1>7. r \in DeskType /\ r.time = time /\ r.by = by
  <2>1. PICK p \in DeskType : p = desk[d]
    BY <1>2
  <2>2. r = [p EXCEPT !.answer = f, !.time = time, !.phase = "read", !.by = by, !.reading = p.reading \ {f}]
    BY <2>1
  <2> QED
    BY <1>5, <2>1, <2>2 DEF DeskType, Phases
<1>8. sc \in ScopeType /\ (sc.centre # NoTime =>
           /\ sc.centre = IF d = "new" THEN time ELSE desk["new"].time
           /\ sc.from # NoTime /\ sc.from <= sc.centre /\ sc.centre <= sc.to)
  <2>1. CASE d = "new"
    <3>1. PICK s \in ScopeType : s = Derived(scope, f, time) /\ s.centre = time
             /\ (time # NoTime => s.from # NoTime /\ s.from <= time /\ time <= s.to)
      BY <1>2, <1>5, DerivedIs
    <3>2. sc = [s EXCEPT !.carried = c] /\ c \in Rasters \cup {NoRaster}
      BY <2>1, <3>1
    <3> HIDE DEF sc, c
    <3> QED
      BY <2>1, <3>1, <3>2 DEF ScopeType
  <2>2. CASE d # "new"
    BY <1>2, <2>2 DEF IntakeInv, ScopeInv
  <2> QED
    BY <2>1, <2>2
<1> HIDE DEF r, sc
<1> QED
  BY <1>1, <1>2, <1>6, <1>7, <1>8, DeskStep

LEMMA UnreadSteps ==
  ASSUME IntakeInv, NEW d \in Doors, NEW f \in Rasters, FileUnread(d, f)
  PROVE  IntakeInv'
<1> DEFINE a == IF d = "case" THEN NoRaster ELSE desk[d].answer
           r == [desk[d] EXCEPT !.answer = a, !.phase = "read", !.reading = desk[d].reading \ {f}]
<1>1. desk' = [desk EXCEPT ![d] = r] /\ UNCHANGED <<scope, opened, objects, intake, adopted, today>>
  BY DEF FileUnread, Set
<1>2. d \in {"case", "new"} /\ desk[d] \in DeskType /\ scope \in ScopeType
  BY DEF FileUnread, IntakeInv, DeskInv, IntakeTypes, Doors
<1>3. r \in DeskType /\ r.time = desk[d].time /\ r.by = desk[d].by
  <2>1. PICK p \in DeskType : p = desk[d]
    BY <1>2
  <2>2. r = [p EXCEPT !.answer = a, !.phase = "read", !.reading = p.reading \ {f}]
    BY <2>1
  <2>3. a \in Rasters \cup {NoRaster}
    BY <1>2 DEF DeskType
  <2> HIDE DEF a
  <2> QED
    BY <2>1, <2>2, <2>3 DEF DeskType, Phases
<1> HIDE DEF r
<1> QED
  BY <1>1, <1>2, <1>3, DeskStep DEF IntakeInv, DeskInv, ScopeInv

LEMMA DecideSteps ==
  ASSUME IntakeInv, NEW d \in Doors, NEW by \in {"typed", "offered"}, NEW t \in Nat, Decide(d, t, by)
  PROVE  IntakeInv'
<1> DEFINE r == [desk[d] EXCEPT !.time = t, !.by = by]
           sc == IF d = "new" THEN Derived(scope, desk[d].answer, t) ELSE scope
<1>1. /\ d \in {"case", "new"} /\ desk' = [desk EXCEPT ![d] = r] /\ scope' = sc
      /\ UNCHANGED <<opened, objects, intake, adopted, today>>
      /\ d = "new" => desk[d].answer # NoRaster
  BY DEF Decide, Set
<1>2. desk[d] \in DeskType /\ scope \in ScopeType
  BY DEF IntakeInv, IntakeTypes
<1>3. r \in DeskType /\ r.time = t /\ r.by = by
  <2>1. PICK p \in DeskType : p = desk[d]
    BY <1>2
  <2>2. r = [p EXCEPT !.time = t, !.by = by]
    BY <2>1
  <2> QED
    BY <2>1, <2>2 DEF DeskType, Marks
<1>4. sc \in ScopeType /\ (sc.centre # NoTime =>
           /\ sc.centre = IF d = "new" THEN t ELSE desk["new"].time
           /\ sc.from # NoTime /\ sc.from <= sc.centre /\ sc.centre <= sc.to)
  <2>1. CASE d = "new"
    <3>1. desk[d].answer \in Rasters
      BY <1>1, <1>2, <2>1 DEF DeskType
    <3>2. PICK s \in ScopeType : s = Derived(scope, desk[d].answer, t) /\ s.centre = t
             /\ (t # NoTime => s.from # NoTime /\ s.from <= t /\ t <= s.to)
      BY <1>2, <3>1, DerivedIs
    <3>3. sc = s
      BY <2>1, <3>2
    <3> HIDE DEF sc
    <3> QED
      BY <2>1, <3>2, <3>3
  <2>2. CASE d # "new"
    BY <1>2, <2>2 DEF IntakeInv, ScopeInv
  <2> QED
    BY <2>1, <2>2
<1> HIDE DEF r, sc
<1>5. Person(r.by)
  BY <1>3 DEF Person
<1> QED
  BY <1>1, <1>3, <1>4, <1>5, DeskStep

\* The upload route stores the pixels of what it queues, and an instant that is sent or stated.
LEMMA UploadedIs ==
  ASSUME IntakeInv, NEW c \in Slots, NEW d \in {"case", "new"}, NEW f \in Rasters, NEW sent \in Nat,
         NEW by \in Marks, Uploaded(c, d, f, sent, by)
  PROVE  /\ objects \subseteq objects' /\ objects' \subseteq Rasters
         /\ intake' \subseteq IngestType
         /\ \A j \in intake' \ intake :
              /\ j.case = c /\ j.door = d /\ j.file \in objects'
              /\ sent # NoTime => j.time = sent /\ j.by = by
              /\ sent = NoTime => Stated(j.time)
         /\ \A j \in intake : j.file \in objects'
<1>1. objects \subseteq Rasters /\ intake \subseteq IngestType /\ \A j \in intake : j.file \in objects
  BY DEF IntakeInv, IntakeTypes, JobsInv
<1>2. CASE ~Accepted(f, sent)
  BY <1>1, <1>2 DEF Uploaded
<1>3. CASE Accepted(f, sent)
  <2> DEFINE j == UploadJob(c, d, f, sent, by)
  <2>1. objects' = objects \cup {f} /\ (intake' = intake \/ intake' = intake \cup {j})
    BY <1>3 DEF Uploaded
  <2>2. Instant(f, sent) \in Nat /\ (sent # NoTime => Instant(f, sent) = sent)
        /\ (sent = NoTime => Stated(Instant(f, sent)))
    BY <1>3, AcquiredIsStated DEF Instant, Accepted
  <2>3. j \in IngestType
    BY <2>2 DEF UploadJob, IngestType, Doors, Marks
  <2>4. /\ j.case = c /\ j.door = d /\ j.file = f /\ j.time = Instant(f, sent)
        /\ sent # NoTime => j.by = by
    BY DEF UploadJob
  <2> HIDE DEF j
  <2> QED
    BY <1>1, <2>1, <2>2, <2>3, <2>4
<1> QED
  BY <1>2, <1>3

LEMMA SubmitSteps ==
  ASSUME IntakeInv, NEW c \in Slots, SubmitToCase(c)
  PROVE  IntakeInv'
<1> DEFINE d == desk["case"]
           r == IF Accepted(d.file, d.time) THEN [Blank EXCEPT !.reading = d.reading] ELSE d
<1>1. /\ desk' = [desk EXCEPT !["case"] = r] /\ UNCHANGED <<scope, opened, adopted, today>>
      /\ Uploaded(c, "case", d.file, d.time, d.by) /\ d.file # NoRaster
  BY DEF SubmitToCase, Set
<1>2. d \in DeskType
  BY DEF IntakeInv, IntakeTypes, Doors
<1>3. r \in DeskType /\ (r.time # NoTime => r = d)
  <2>1. PICK p \in DeskType : p = d
    BY <1>2
  <2>2. PICK x \in DeskType : x = Blank /\ x.time = NoTime
    BY BlankType
  <2>3. [x EXCEPT !.reading = p.reading] \in DeskType /\ [x EXCEPT !.reading = p.reading].time = NoTime
    BY <2>1, <2>2 DEF DeskType
  <2>4. r = IF Accepted(p.file, p.time) THEN [x EXCEPT !.reading = p.reading] ELSE p
    BY <2>1, <2>2
  <2> HIDE DEF r, d
  <2> QED
    BY <2>1, <2>3, <2>4
<1>4. d.file \in Rasters /\ d.time \in Nat /\ d.by \in Marks
  BY <1>1, <1>2 DEF DeskType
<1>5. d.time # NoTime => Person(d.by) \/ Stated(d.time)
  BY DEF IntakeInv, DeskInv
<1> HIDE DEF d, r
<1>6. /\ objects \subseteq objects' /\ objects' \subseteq Rasters
      /\ intake' \subseteq IngestType
      /\ \A j \in intake' \ intake :
              /\ j.case = c /\ j.door = "case" /\ j.file \in objects'
              /\ d.time # NoTime => j.time = d.time /\ j.by = d.by
              /\ d.time = NoTime => Stated(j.time)
      /\ \A j \in intake : j.file \in objects'
  BY <1>1, <1>4, UploadedIs
<1>7. /\ desk' \in [Doors -> DeskType] /\ desk'["case"] = r
      /\ desk'["panel"] = desk["panel"] /\ desk'["new"] = desk["new"]
  BY <1>1, <1>3 DEF IntakeInv, IntakeTypes, Doors
<1>8. IntakeTypes'
  BY <1>1, <1>6, <1>7 DEF IntakeInv, IntakeTypes
<1>9. DeskInv'
  <2>1. r.time # NoTime => Person(r.by) \/ Stated(r.time)
    BY <1>3, <1>5
  <2> QED
    BY <1>6, <1>7, <2>1 DEF IntakeInv, DeskInv
<1>10. ScopeInv'
  BY <1>1, <1>7 DEF IntakeInv, ScopeInv
<1>11. JobsInv'
  <2>1. ASSUME NEW j \in intake' PROVE Honest(j)' /\ j.file \in objects'
    <3>1. CASE j \in intake
      BY <1>1, <1>6, <3>1 DEF IntakeInv, JobsInv, Honest
    <3>2. CASE j \notin intake
      BY <1>5, <1>6, <3>2 DEF Honest
    <3> QED
      BY <3>1, <3>2
  <2> QED
    BY <2>1 DEF JobsInv
<1>12. ScenesInv'
  BY <1>1 DEF IntakeInv, ScenesInv, Honest
<1> QED
  BY <1>8, <1>9, <1>10, <1>11, <1>12 DEF IntakeInv

\* A case that is opened is closed to every job there was.
LEMMA OpenIs ==
  ASSUME IntakeInv, NEW c \in Slots, NEW from \in Nat, NEW to \in Nat, NEW drawn \in BOOLEAN,
         Open(c, from, to, drawn), ~opened[c].open
  PROVE  /\ opened' \in [Slots -> CaseType]
         /\ opened'[c] = [open |-> TRUE, from |-> from, to |-> to, drawn |-> drawn]
         /\ \A j \in intake \cup adopted : j.door = "new" => opened'[j.case] = opened[j.case]
<1>1. /\ opened' \in [Slots -> CaseType]
      /\ opened'[c] = [open |-> TRUE, from |-> from, to |-> to, drawn |-> drawn]
      /\ \A e \in Slots \ {c} : opened'[e] = opened[e]
  BY DEF Open, IntakeInv, IntakeTypes, CaseType
<1>2. \A j \in intake \cup adopted : j.case \in Slots
  BY DEF IntakeInv, IntakeTypes, IngestType
<1>3. \A j \in intake \cup adopted : j.door = "new" => j.case # c
  BY DEF IntakeInv, JobsInv, ScenesInv, Honest
<1> QED
  BY <1>1, <1>2, <1>3

LEMMA CreateSteps ==
  ASSUME IntakeInv, NEW c \in Slots, CreateFrom(c)
  PROVE  IntakeInv'
<1> DEFINE f == scope.carried
           t == scope.centre
           by == desk["new"].by
<1>1. /\ scope' = NoScope /\ desk' = [desk EXCEPT !["new"] = Blank] /\ UNCHANGED <<adopted, today>>
      /\ ~opened[c].open /\ f # NoRaster
      /\ Uploaded(c, "new", f, t, by)
  BY DEF CreateFrom, Set, SentTime
<1>2. scope \in ScopeType /\ desk["new"] \in DeskType
  BY DEF IntakeInv, IntakeTypes, Doors
<1>3. f \in Rasters /\ t \in Nat /\ by \in Marks
  BY <1>1, <1>2 DEF ScopeType, DeskType
<1>4. PICK from \in Nat, to \in Nat :
        /\ Open(c, from, to, t # NoTime)
        /\ t # NoTime => from <= t /\ t <= to
  <2>1. PICK from \in (IF scope.from # NoTime THEN {scope.from} ELSE Typeable) :
          Open(c, from, IF scope.from # NoTime THEN scope.to ELSE from + Day, t # NoTime)
    BY DEF CreateFrom
  <2>2. from \in Nat /\ scope.to \in Nat /\ from + Day \in Nat
    BY <1>2, <2>1, IntakeAssumption DEF ScopeType
  <2>3. t # NoTime => scope.from # NoTime /\ scope.from <= t /\ t <= scope.to
    BY DEF IntakeInv, ScopeInv
  <2>4. CASE scope.from # NoTime
    BY <2>1, <2>2, <2>3, <2>4
  <2>5. CASE scope.from = NoTime
    BY <2>1, <2>2, <2>3, <2>5
  <2> QED
    BY <2>4, <2>5
<1>5. t # NoTime => Person(by) \/ Stated(t)
  BY DEF IntakeInv, DeskInv, ScopeInv
<1> HIDE DEF f, t, by
<1>6. /\ objects \subseteq objects' /\ objects' \subseteq Rasters
      /\ intake' \subseteq IngestType
      /\ \A j \in intake' \ intake :
              /\ j.case = c /\ j.door = "new" /\ j.file \in objects'
              /\ t # NoTime => j.time = t /\ j.by = by
              /\ t = NoTime => Stated(j.time)
      /\ \A j \in intake : j.file \in objects'
  BY <1>1, <1>3, UploadedIs
<1>7. /\ desk' \in [Doors -> DeskType] /\ desk'["new"] = Blank
      /\ desk'["panel"] = desk["panel"] /\ desk'["case"] = desk["case"]
  BY <1>1, BlankType DEF IntakeInv, IntakeTypes, Doors
<1>8. /\ opened' \in [Slots -> CaseType]
      /\ opened'[c] = [open |-> TRUE, from |-> from, to |-> to, drawn |-> t # NoTime]
      /\ \A j \in intake \cup adopted : j.door = "new" => opened'[j.case] = opened[j.case]
  BY <1>1, <1>4, OpenIs
<1>9. IntakeTypes'
  BY <1>1, <1>6, <1>7, <1>8, BlankType DEF IntakeInv, IntakeTypes
<1>10. DeskInv'
  BY <1>6, <1>7, BlankType DEF IntakeInv, DeskInv
<1>11. ScopeInv'
  BY <1>1, BlankType DEF ScopeInv
<1>12. JobsInv'
  <2>1. ASSUME NEW j \in intake' PROVE Honest(j)' /\ j.file \in objects'
    <3>1. CASE j \in intake
      BY <1>6, <1>8, <3>1 DEF IntakeInv, JobsInv, Honest
    <3>2. CASE j \notin intake
      <4>1. /\ opened'[j.case].open /\ (opened'[j.case].drawn => t # NoTime)
            /\ opened'[j.case].from = from /\ opened'[j.case].to = to
        <5>1. j.case = c
          BY <1>6, <3>2
        <5>2. /\ opened'[c].open = TRUE /\ opened'[c].drawn = (t # NoTime)
              /\ opened'[c].from = from /\ opened'[c].to = to
          BY <1>8
        <5> QED
          BY <5>1, <5>2
      <4> QED
        BY <1>4, <1>5, <1>6, <3>2, <4>1 DEF Honest
    <3> QED
      BY <3>1, <3>2
  <2> QED
    BY <2>1 DEF JobsInv
<1>13. ScenesInv'
  BY <1>1, <1>8 DEF IntakeInv, ScenesInv, Honest
<1> QED
  BY <1>9, <1>10, <1>11, <1>12, <1>13 DEF IntakeInv

\* The raster panel, which stores a file, opens a case around it and queues it.
LEMMA PanelSteps ==
  ASSUME IntakeInv, (\E f \in Rasters : PanelTakes(f)) \/ PanelStores
  PROVE  IntakeInv'
<1>0. desk["panel"] \in DeskType /\ desk["panel"].reading = {}
  BY DEF IntakeInv, IntakeTypes, DeskInv, Doors
<1>1. PICK r \in DeskType :
        /\ desk' = [desk EXCEPT !["panel"] = r] /\ r.reading = {} /\ r.file # NoRaster
        /\ r.phase = "uploading" => r.file \in objects'
  <2>1. ASSUME NEW f \in Rasters, PanelTakes(f)
        PROVE  \E r \in DeskType :
                 /\ desk' = [desk EXCEPT !["panel"] = r] /\ r.reading = {} /\ r.file # NoRaster
                 /\ r.phase = "uploading" => r.file \in objects'
    <3>1. PICK p \in {"ready", "invalid"} : desk' = [desk EXCEPT !["panel"] = [Blank EXCEPT !.file = f, !.phase = p]]
      BY <2>1 DEF PanelTakes, Set
    <3>2. PICK x \in DeskType : x = Blank /\ x.reading = {}
      BY BlankType
    <3>3. PICK r : r = [x EXCEPT !.file = f, !.phase = p]
      OBVIOUS
    <3>4. r \in DeskType /\ r.reading = {} /\ r.phase # "uploading" /\ r.file # NoRaster
      BY <3>2, <3>3, RasterTypes DEF DeskType, Phases
    <3> QED
      BY <3>1, <3>2, <3>3, <3>4
  <2>2. CASE PanelStores
    <3>1. PICK x \in DeskType : x = desk["panel"] /\ x.reading = {} /\ x.file # NoRaster
      BY <1>0, <2>2 DEF PanelStores, IntakeInv, DeskInv
    <3>2. PICK p \in {"uploading", "error"} :
            /\ desk' = [desk EXCEPT !["panel"] = [x EXCEPT !.phase = p]]
            /\ p = "uploading" => TakenAsRaster(x.file)
      BY <2>2, <3>1 DEF PanelStores, Set
    <3>3. p = "uploading" => x.file \in objects'
      BY <2>2, <3>1, <3>2 DEF PanelStores
    <3>4. PICK r : r = [x EXCEPT !.phase = p]
      OBVIOUS
    <3>5. r \in DeskType /\ r.reading = {} /\ r.phase = p /\ r.file = x.file
      BY <3>1, <3>4 DEF DeskType, Phases
    <3>6. desk' = [desk EXCEPT !["panel"] = r] /\ r.file # NoRaster
      BY <3>1, <3>2, <3>4, <3>5
    <3>7. r.phase = "uploading" => r.file \in objects'
      BY <3>3, <3>5
    <3> QED
      BY <3>5, <3>6, <3>7
  <2>3. (\E f \in Rasters : PanelTakes(f)) \/ PanelStores
    OBVIOUS
  <2> QED
    BY <2>1, <2>2, <2>3
<1>2. /\ UNCHANGED <<scope, opened, intake, adopted, today>>
      /\ objects \subseteq objects' /\ objects' \subseteq Rasters
  <2>1. desk["panel"].phase \in {"ready", "error"} /\ TakenAsRaster(desk["panel"].file) => desk["panel"].file \in Rasters
    <3>1. desk["panel"].file = NoRaster \/ desk["panel"].file \in Rasters
      BY <1>0 DEF DeskType
    <3>2. desk["panel"].phase \in {"ready", "error"} => desk["panel"].file # NoRaster
      BY DEF IntakeInv, DeskInv
    <3> QED
      BY <3>1, <3>2
  <2> QED
    BY <2>1 DEF PanelTakes, PanelStores, IntakeInv, IntakeTypes
<1>3. /\ desk' \in [Doors -> DeskType] /\ desk'["panel"] = r
      /\ desk'["case"] = desk["case"] /\ desk'["new"] = desk["new"]
  BY <1>1 DEF IntakeInv, IntakeTypes, Doors
<1>4. IntakeTypes'
  BY <1>2, <1>3 DEF IntakeInv, IntakeTypes
<1>5. DeskInv'
  BY <1>1, <1>3 DEF IntakeInv, DeskInv
<1>6. ScopeInv'
  BY <1>2, <1>3 DEF IntakeInv, ScopeInv
<1>7. JobsInv' /\ ScenesInv'
  BY <1>2 DEF IntakeInv, JobsInv, ScenesInv, Honest
<1> QED
  BY <1>4, <1>5, <1>6, <1>7 DEF IntakeInv

LEMMA OpensSteps ==
  ASSUME IntakeInv, NEW c \in Slots, PanelOpens(c)
  PROVE  IntakeInv'
<1> DEFINE f  == desk["panel"].file
           at == IF PanelStamp(f) # NoTime THEN PanelStamp(f) ELSE today
           j  == [case |-> c, door |-> "panel", file |-> f, time |-> NoTime, label |-> "none", by |-> "nobody"]
<1>1. PICK x \in DeskType : x = desk["panel"] /\ x.reading = {}
  BY DEF IntakeInv, IntakeTypes, DeskInv, Doors
<1>2. x.phase = "uploading" /\ f \in objects /\ f \in Rasters /\ ~opened[c].open
  BY <1>1 DEF PanelOpens, IntakeInv, DeskInv, IntakeTypes
<1>3. /\ UNCHANGED <<scope, objects, adopted, today, intakeLeft>>
      /\ Open(c, IF at > Day THEN at - Day ELSE 1, at + Day, TRUE)
      /\ intake' = intake \/ intake' = intake \cup {j}
  BY DEF PanelOpens
<1>4. PICK p \in {"processing", "error"} : desk' = [desk EXCEPT !["panel"] = [x EXCEPT !.phase = p]]
  BY <1>1 DEF PanelOpens, Set
<1>5. at \in Nat /\ Day \in Nat
  BY <1>2, IntakeAssumption, RasterTypes DEF PanelStamp, NoTime, IntakeInv, IntakeTypes
<1>6. j \in IngestType /\ j.door = "panel" /\ j.file = f
  BY <1>2 DEF IngestType, Doors, NoTime, Marks
<1> HIDE DEF f, at, j
<1>7. PICK from \in Nat, to \in Nat : Open(c, from, to, TRUE)
  <2> DEFINE from == IF at > Day THEN at - Day ELSE 1
  <2>1. from \in Nat /\ at + Day \in Nat
    BY <1>5
  <2>2. Open(c, from, at + Day, TRUE)
    BY <1>3
  <2> HIDE DEF from
  <2> QED
    BY <2>1, <2>2
<1>8. /\ opened' \in [Slots -> CaseType]
      /\ \A k \in intake \cup adopted : k.door = "new" => opened'[k.case] = opened[k.case]
  BY <1>2, <1>7, OpenIs
<1>9. PICK r : r = [x EXCEPT !.phase = p]
  OBVIOUS
<1>10. r \in DeskType /\ r.reading = {} /\ r.phase = p /\ r.file = x.file
  BY <1>1, <1>9 DEF DeskType, Phases
<1>11. /\ desk' \in [Doors -> DeskType] /\ desk'["panel"] = r
       /\ desk'["case"] = desk["case"] /\ desk'["new"] = desk["new"]
  BY <1>4, <1>9, <1>10 DEF IntakeInv, IntakeTypes, Doors
<1>12. intake' \subseteq IngestType
  BY <1>3, <1>6 DEF IntakeInv, IntakeTypes
<1>13. IntakeTypes'
  BY <1>3, <1>8, <1>11, <1>12 DEF IntakeInv, IntakeTypes
<1>14. DeskInv'
  <2>1. r.file # NoRaster /\ r.phase # "uploading"
    BY <1>1, <1>2, <1>10 DEF IntakeInv, DeskInv
  <2> QED
    BY <1>10, <1>11, <2>1 DEF IntakeInv, DeskInv
<1>15. ScopeInv'
  BY <1>3, <1>11 DEF IntakeInv, ScopeInv
<1>16. JobsInv'
  <2>1. ASSUME NEW k \in intake' PROVE Honest(k)' /\ k.file \in objects'
    <3>1. CASE k \in intake
      BY <1>3, <1>8, <3>1 DEF IntakeInv, JobsInv, Honest
    <3>2. CASE k \notin intake
      <4>1. k = j
        BY <1>3, <3>2
      <4> QED
        BY <1>2, <1>3, <1>6, <4>1 DEF Honest
    <3> QED
      BY <3>1, <3>2
  <2> QED
    BY <2>1 DEF JobsInv
<1>17. ScenesInv'
  BY <1>3, <1>8 DEF IntakeInv, ScenesInv, Honest
<1> QED
  BY <1>13, <1>14, <1>15, <1>16, <1>17 DEF IntakeInv

\* The ingest job: an upload becomes a scene of the instant it was queued with.
LEMMA IngestSteps ==
  ASSUME IntakeInv, NEW j \in intake, Adopts(j) \/ IngestsRaster(j)
  PROVE  IntakeInv'
<1>1. /\ intake' = intake \ {j} /\ UNCHANGED <<scope, opened, objects, today, intakeLeft>>
      /\ j \in IngestType /\ Honest(j) /\ j.file \in Rasters /\ j.case \in Slots /\ j.door \in Doors
      /\ j.time \in Nat
  BY DEF Adopts, IngestsRaster, IntakeInv, IntakeTypes, JobsInv, IngestType
<1>2. ASSUME NEW s \in adopted' \ adopted
      PROVE  /\ s.case \in Slots /\ s.file \in Rasters /\ s.door \in Doors /\ s.time \in Nat
             /\ Honest(s) /\ (s.door # "panel" => s.file.placed /\ HasSystem(s.file))
  <2>1. CASE Adopts(j)
    <3>1. s = Scene(j, j.time) /\ Positioned(j.file)
      BY <1>2, <2>1 DEF Adopts, Upsert
    <3>2. s.case = j.case /\ s.file = j.file /\ s.door = j.door /\ s.time = j.time /\ s.by = j.by
      BY <3>1 DEF Scene
    <3> QED
      BY <1>1, <3>1, <3>2 DEF Honest, Positioned, HasSystem
  <2>2. CASE IngestsRaster(j)
    <3>1. PICK t \in Nat : s = Scene(j, t)
      <4>1. PanelStamp(j.file) \in Nat /\ today \in Nat
        BY <1>1, RasterTypes DEF PanelStamp, NoTime, IntakeInv, IntakeTypes
      <4> QED
        BY <1>2, <2>2, <4>1 DEF IngestsRaster, Upsert
    <3>2. s.case = j.case /\ s.file = j.file /\ s.door = "panel" /\ s.time = t
      BY <2>2, <3>1 DEF Scene, IngestsRaster
    <3> QED
      BY <1>1, <3>2 DEF Honest, Doors
  <2> QED
    BY <2>1, <2>2
<1>3. PICK r \in DeskType :
        /\ desk' = [desk EXCEPT !["panel"] = r] /\ r.reading = {} /\ (r.phase # "idle" => r.file # NoRaster)
        /\ r.phase = "uploading" => r.file \in objects
  <2>1. PICK x \in DeskType : x = desk["panel"] /\ x.reading = {}
    BY DEF IntakeInv, IntakeTypes, DeskInv, Doors
  <2>2. CASE desk' = [desk EXCEPT !["panel"] = x] \/ desk' = desk
    <3>1. desk' = [desk EXCEPT !["panel"] = x]
      BY <2>1, <2>2 DEF IntakeInv, IntakeTypes
    <3> QED
      BY <2>1, <3>1 DEF IntakeInv, DeskInv
  <2>3. ASSUME NEW p \in {"processed", "error"}, x.phase = "processing",
               desk' = [desk EXCEPT !["panel"] = [x EXCEPT !.phase = p]]
        PROVE  \E r \in DeskType :
                 /\ desk' = [desk EXCEPT !["panel"] = r] /\ r.reading = {} /\ (r.phase # "idle" => r.file # NoRaster)
                 /\ r.phase = "uploading" => r.file \in objects
    <3>1. PICK r : r = [x EXCEPT !.phase = p]
      OBVIOUS
    <3>2. r \in DeskType /\ r.reading = {} /\ r.phase = p /\ r.file = x.file
      BY <2>1, <3>1 DEF DeskType, Phases
    <3>3. r.file # NoRaster /\ r.phase # "uploading" /\ desk' = [desk EXCEPT !["panel"] = r]
      BY <2>1, <2>3, <3>1, <3>2 DEF IntakeInv, DeskInv
    <3> QED
      BY <3>2, <3>3
  <2>4. \/ desk' = [desk EXCEPT !["panel"] = x] \/ desk' = desk
        \/ \E p \in {"processed", "error"} :
             x.phase = "processing" /\ desk' = [desk EXCEPT !["panel"] = [x EXCEPT !.phase = p]]
    BY <2>1 DEF Adopts, IngestsRaster, Set
  <2> QED
    BY <2>2, <2>3, <2>4
<1>4. /\ desk' \in [Doors -> DeskType] /\ desk'["panel"] = r
      /\ desk'["case"] = desk["case"] /\ desk'["new"] = desk["new"]
  BY <1>3 DEF IntakeInv, IntakeTypes, Doors
<1>5. IntakeTypes'
  <2>1. intake' \subseteq IngestType
    BY <1>1 DEF IntakeInv, IntakeTypes
  <2>2. \A s \in adopted' : s.case \in Slots /\ s.file \in Rasters /\ s.door \in Doors /\ s.time \in Nat
    BY <1>2 DEF IntakeInv, IntakeTypes
  <2> QED
    BY <1>1, <1>4, <2>1, <2>2 DEF IntakeInv, IntakeTypes
<1>6. DeskInv'
  BY <1>1, <1>3, <1>4 DEF IntakeInv, DeskInv
<1>7. ScopeInv'
  BY <1>1, <1>4 DEF IntakeInv, ScopeInv
<1>8. JobsInv'
  BY <1>1 DEF IntakeInv, JobsInv, Honest
<1>9. ScenesInv'
  <2>1. \A s : Honest(s)' <=> Honest(s)
    BY <1>1 DEF Honest
  <2> QED
    BY <1>2, <2>1 DEF IntakeInv, ScenesInv
<1> QED
  BY <1>5, <1>6, <1>7, <1>8, <1>9 DEF IntakeInv

LEMMA IntakeInductive == IntakeSpec => []IntakeInv
<1>1. IntakeInit => IntakeInv
  <2> SUFFICES ASSUME IntakeInit PROVE IntakeInv
    OBVIOUS
  <2>1. IntakeTypes
    BY BlankType, IntakeAssumption DEF IntakeInit, IntakeTypes, CaseType, NoTime
  <2>2. DeskInv
    BY BlankType DEF IntakeInit, DeskInv, Doors, Blank
  <2> QED
    BY <2>1, <2>2, BlankType DEF IntakeInit, IntakeInv, ScopeInv, JobsInv, ScenesInv
<1>2. IntakeInv /\ [IntakeNext]_intakeVars => IntakeInv'
  <2> SUFFICES ASSUME IntakeInv, [IntakeNext]_intakeVars PROVE IntakeInv'
    OBVIOUS
  <2>1. CASE UNCHANGED intakeVars
    BY <2>1 DEF IntakeInv, IntakeTypes, DeskInv, ScopeInv, JobsInv, ScenesInv, Honest, intakeVars
  <2>2. CASE DayPasses
    <3>1. today' \in Nat
      BY <2>2, IntakeAssumption DEF DayPasses, IntakeInv, IntakeTypes
    <3> QED
      BY <2>2, <3>1 DEF DayPasses, IntakeInv, IntakeTypes, DeskInv, ScopeInv, JobsInv, ScenesInv, Honest
  <2>3. ASSUME NEW d \in Doors, NEW f \in Rasters, PickFile(d, f) \/ FileRead(d, f) \/ FileUnread(d, f)
        PROVE  IntakeInv'
    BY <2>3, PickFileSteps, ReadSteps, UnreadSteps
  <2>4. ASSUME NEW d \in Doors, NEW by \in {"typed", "offered"},
               NEW t \in Typeable \cup {f.stamp : f \in Rasters}, Decide(d, t, by)
        PROVE  IntakeInv'
    <3>1. t \in Nat
      BY IntakeAssumption, RasterTypes
    <3> QED
      BY <2>4, <3>1, DecideSteps
  <2>5. ASSUME NEW c \in Slots, SubmitToCase(c) \/ CreateFrom(c) \/ PanelOpens(c)
        PROVE  IntakeInv'
    BY <2>5, SubmitSteps, CreateSteps, OpensSteps
  <2> QED
    BY <2>1, <2>2, <2>3, <2>4, <2>5, PanelSteps, IngestSteps DEF IntakeNext
<1> QED
  BY <1>1, <1>2, PTL DEF IntakeSpec

\* A scene of a case that was drawn around an instant lies in its window, one of the upload
\* route has an instant somebody gave or a file states, and a position; and no upload is
\* queued before its pixels are stored.
THEOREM IntakeCorrect == IntakeSpec => []IntakeIsHonest
<1>1. IntakeInv => IntakeIsHonest
  <2> SUFFICES ASSUME IntakeInv PROVE IntakeIsHonest
    OBVIOUS
  <2>1. SceneLiesInItsCase
    BY DEF IntakeInv, ScenesInv, Honest, SceneLiesInItsCase, IntakeTypes, CaseType
  <2>2. TimesAreStated
    BY DEF IntakeInv, ScenesInv, Honest, TimesAreStated, Stated, Person
  <2>3. UploadsArePlaced
    BY DEF IntakeInv, ScenesInv, JobsInv, UploadsArePlaced
  <2> QED
    BY <2>1, <2>2, <2>3 DEF IntakeIsHonest
<1> QED
  BY <1>1, IntakeInductive, PTL

\* The desk, the form, the cases, the store, the queue and the scenes stay what their types say.
THEOREM IntakeTypeCorrect == IntakeSpec => []IntakeTypeOK
<1>1. IntakeInv => IntakeTypeOK
  <2> SUFFICES ASSUME IntakeInv PROVE IntakeTypeOK
    OBVIOUS
  <2>1. \A d \in Doors : desk[d] \in DeskType
    BY DEF IntakeInv, IntakeTypes
  <2>2. \A r \in DeskType : /\ r.file \in Rasters \cup {NoRaster} /\ r.answer \in Rasters \cup {NoRaster}
                            /\ r.time \in Nat /\ r.reading \subseteq Rasters
                            /\ r.by \in {"nobody", "file", "offered", "typed"}
    BY DEF DeskType, Marks
  <2>3. {scope.area, scope.window, scope.carried} \subseteq Rasters \cup {NoRaster}
    BY DEF IntakeInv, IntakeTypes, ScopeType
  <2>4. \A j \in intake : j.case \in Slots /\ j.file \in Rasters
    BY DEF IntakeInv, IntakeTypes, IngestType
  <2> QED
    BY <2>1, <2>2, <2>3, <2>4 DEF IntakeInv, IntakeTypes, IntakeTypeOK
<1> QED
  BY <1>1, IntakeInductive, PTL

-----------------------------------------------------------------------------
(* Backtracking: its inductive invariant *)

Stages    == {"idle", "CMEMS", "HYCOM", "ERA5_LOCAL_FILE", "ERA5_CDS", "proximity", "drift", "drifting"}
Currents  == {"CMEMS", "HYCOM"}
Winds     == {"ERA5_LOCAL_FILE", "ERA5_CDS"}
Asked     == {"CMEMS", "HYCOM", "ERA5_LOCAL_FILE", "ERA5_CDS"}
Failures  == {"NO_DATA", "ERROR", "OUT_OF_COVERAGE", "TIMEOUT", "NOT_FOUND_404"}
Sayable   == Failures \cup {"OK", "NOT_CONFIGURED", "RETENTION_TOO_SHORT"}
Saying    == [provider : Asked \cup {"NOAA_GFS"}, outcome : Sayable]
Leg       == [from : Int, by : Int, wind : {0, 1}]
Speeds    == -MaxCurrent .. MaxCurrent \cup {Land}
Fields    == UNION {[D -> Speeds] : D \in SUBSET Int}
InquiryType == [phase : Stages, asks : Nat, clock : Nat, tries : 0 .. Retries, log : Seq(Saying),
                currents : Currents \cup {None}, winds : Winds \cup {None}, grid : Fields,
                at : Int, moved : Seq(Leg), left : Nat, prior : Nat]
SetupType == [cmems : BOOLEAN, cds : BOOLEAN, gap : BOOLEAN,
              local : {"none", "missing", "short", "mixed", "wind"}]
Waits     == {"CMEMS", "HYCOM", "ERA5_CDS", "request"}

BackTypes ==
  /\ forcingSetup \in SetupType /\ inquiry \in InquiryType /\ strays \in [Waits -> Nat]
  /\ inquiry.asks <= MaxAsks /\ inquiry.tries < Retries
  /\ inquiry.prior < ObservedAt

\* What a record says of a provider, and that it says why it was passed over.
OutsOf(log, p) == {o \in Sayable : \E k \in DOMAIN log : log[k].provider = p /\ log[k].outcome = o}
Passed(log, p, configured) ==
  IF configured THEN OutsOf(log, p) # {} /\ OutsOf(log, p) \cap {"OK", "NOT_CONFIGURED"} = {}
  ELSE OutsOf(log, p) = {"NOT_CONFIGURED"}

\* A request says nothing of the providers it has not come to, and why of those it left.
BeforeWinds == {"CMEMS", "HYCOM"}
OnWinds     == {"ERA5_LOCAL_FILE", "ERA5_CDS"}
OnDrift     == {"drift", "drifting"}
TellsOf(q, c) ==
  /\ q.phase = "CMEMS" => c.cmems /\ OutsOf(q.log, "CMEMS") = {}
  /\ q.phase \in BeforeWinds => OutsOf(q.log, "HYCOM") = {} /\ q.currents = None
  /\ q.phase \in BeforeWinds \cup {"ERA5_LOCAL_FILE"} => OutsOf(q.log, "ERA5_LOCAL_FILE") = {}
  /\ q.phase \in BeforeWinds \cup OnWinds => OutsOf(q.log, "ERA5_CDS") = {} /\ q.winds = None
  /\ q.phase = "ERA5_LOCAL_FILE" => c.local # "none"
  /\ q.phase = "ERA5_CDS" => c.cds
  /\ q.phase \notin {"idle", "CMEMS"} /\ q.currents # "CMEMS" => Passed(q.log, "CMEMS", c.cmems)
  /\ q.phase = "proximity" => q.currents = None /\ q.winds = None /\ Passed(q.log, "HYCOM", TRUE)
  /\ q.phase \in OnWinds \cup OnDrift => q.currents # None
  /\ q.phase \in {"ERA5_CDS"} \cup OnDrift /\ q.winds # "ERA5_LOCAL_FILE" =>
       Passed(q.log, "ERA5_LOCAL_FILE", c.local # "none")
  /\ q.phase \in OnDrift /\ q.winds = None => Passed(q.log, "ERA5_CDS", c.cds)

\* Each attempt leaves one thread at most by what it waits for, and only once it went on.
LeftBehind(q, s) ==
  /\ \A p \in Waits : s[p] <= q.asks
  /\ q.phase # "idle" => s["request"] < q.asks
  /\ q.phase = "CMEMS" => s["CMEMS"] < q.asks
  /\ q.phase \in BeforeWinds => s["HYCOM"] < q.asks
  /\ q.phase \in BeforeWinds \cup OnWinds => s["ERA5_CDS"] < q.asks

\* The water of a move is that of the wet corners around it.
OfWater(g, m) ==
  LET around == {g[i] : i \in IF Inside(g, m.from) THEN Wet(g, m.from) ELSE {}}
  IN /\ m.by - m.wind \in -MaxCurrent .. MaxCurrent
     /\ IF around = {} THEN m.by = m.wind ELSE m.by - m.wind \in Min(around) .. Max(around)
Flowed(q) == /\ q.phase # "drifting" => q.moved = << >>
             /\ \A k \in DOMAIN q.moved : OfWater(q.grid, q.moved[k])

\* What going on to another provider leaves alone.
SameBut(r, q) == /\ r.asks = q.asks /\ r.clock = q.clock /\ r.prior = q.prior
                 /\ r.grid = q.grid /\ r.moved = q.moved
                 /\ q.tries = 0 => r.tries = 0

Timely(q) == q.clock <= Ceiling + Retries * Deadline

\* What the estimate kept of all this.
RecordTells(e, c) == e.method # None =>
  /\ e.log \in Seq(Saying)
  /\ (e.method = "LAGRANGIAN_BACKTRACK") = (e.currents # None)
  /\ (e.status = "OK") = (e.currents # None /\ e.winds # None)
  /\ e.currents # "CMEMS" => Passed(e.log, "CMEMS", c.cmems)
  /\ e.currents = None => Passed(e.log, "HYCOM", TRUE)
  /\ e.windStatus # "NOT_ATTEMPTED" /\ e.winds # "ERA5_LOCAL_FILE" =>
       Passed(e.log, "ERA5_LOCAL_FILE", c.local # "none")
  /\ e.windStatus = "UNKNOWN" => Passed(e.log, "ERA5_CDS", c.cds)
RecordHolds(e) == e.method # None =>
  /\ e.window.from < e.window.to /\ e.window.to <= ObservedAt
  /\ e.prior <= e.window.from /\ (e.window.bounded => e.window.from = e.prior)
  /\ \A k \in DOMAIN e.moved : OfWater(e.grid, e.moved[k])

BackInv ==
  /\ BackTypes
  /\ TellsOf(inquiry, forcingSetup) /\ LeftBehind(inquiry, strays) /\ Flowed(inquiry) /\ Timely(inquiry)
  /\ estimate.method \in {None, "FOOTPRINT_PROXIMITY", "LAGRANGIAN_BACKTRACK"} /\ estimate.clock <= Ceiling
  /\ RecordTells(estimate, forcingSetup) /\ RecordHolds(estimate)

-----------------------------------------------------------------------------
(* The record of what was tried *)

LEMMA NothingSaid == \A p : OutsOf(<< >>, p) = {}
BY DEF OutsOf

\* A line adds its outcome to those of its provider.
LEMMA LineAdded ==
  ASSUME NEW log \in Seq(Saying), NEW e \in Saying
  PROVE  /\ Append(log, e) \in Seq(Saying)
         /\ OutsOf(Append(log, e), e.provider) = OutsOf(log, e.provider) \cup {e.outcome}
         /\ \A other : other # e.provider => OutsOf(Append(log, e), other) = OutsOf(log, other)
<1>0. PICK new : new = Append(log, e)
  OBVIOUS
<1>1. /\ new \in Seq(Saying)
      /\ DOMAIN new = DOMAIN log \cup {Len(log) + 1} /\ new[Len(log) + 1] = e
      /\ \A k \in DOMAIN log : new[k] = log[k]
  BY <1>0
<1>2. e.outcome \in Sayable
  BY DEF Saying
<1>3. \A other : \A x \in Sayable :
        x \in OutsOf(new, other) <=> x \in OutsOf(log, other) \/ (other = e.provider /\ x = e.outcome)
  <2> TAKE other
  <2> TAKE x \in Sayable
  <2>1. x \in OutsOf(new, other) <=> \E k \in DOMAIN new : new[k].provider = other /\ new[k].outcome = x
    BY DEF OutsOf
  <2>2. x \in OutsOf(log, other) <=> \E k \in DOMAIN log : log[k].provider = other /\ log[k].outcome = x
    BY DEF OutsOf
  <2> QED
    BY <1>1, <2>1, <2>2
<1>4. \A l, q : OutsOf(l, q) \subseteq Sayable
  BY DEF OutsOf
<1>5. OutsOf(new, e.provider) = OutsOf(log, e.provider) \cup {e.outcome}
  BY <1>2, <1>3, <1>4
<1>6. \A other : other # e.provider => OutsOf(new, other) = OutsOf(log, other)
  <2> TAKE other
  <2> HAVE other # e.provider
  <2>1. \A x \in Sayable : x \in OutsOf(new, other) <=> x \in OutsOf(log, other)
    BY <1>3
  <2>2. OutsOf(new, other) \subseteq Sayable /\ OutsOf(log, other) \subseteq Sayable
    BY <1>4
  <2> QED
    BY <2>1, <2>2
<1> QED
  BY <1>0, <1>1, <1>5, <1>6

\* A field of the record is what is said of it.
LEMMA ToldOf ==
  ASSUME NEW q \in InquiryType, NEW p \in Asked \cup {"NOAA_GFS"},
         NEW o \in Sayable,
         NEW r, r = Told(q, p, o), BacktrackingAssumption
  PROVE  /\ r \in InquiryType
         /\ OutsOf(r.log, p) = OutsOf(q.log, p) \cup {o}
         /\ \A other : other # p => OutsOf(r.log, other) = OutsOf(q.log, other)
         /\ r.phase = q.phase /\ r.asks = q.asks /\ r.clock = q.clock /\ r.currents = q.currents /\ r.winds = q.winds
         /\ r.grid = q.grid /\ r.moved = q.moved /\ r.prior = q.prior /\ r.tries = 0
<1>0. PICK e : e = [provider |-> p, outcome |-> o]
  OBVIOUS
<1>1. PICK new : new = Append(q.log, e)
  OBVIOUS
<1>a. e \in Saying /\ e.provider = p /\ e.outcome = o
  BY <1>0 DEF Saying
<1>2. q.log \in Seq(Saying)
  BY DEF InquiryType
<1>3. /\ new \in Seq(Saying)
      /\ OutsOf(new, p) = OutsOf(q.log, p) \cup {o}
      /\ \A other : other # p => OutsOf(new, other) = OutsOf(q.log, other)
  <2>1. PICK log \in Seq(Saying) : log = q.log
    BY <1>2
  <2>2. new = Append(log, e)
    BY <1>1, <2>1
  <2>3. /\ Append(log, e) \in Seq(Saying)
        /\ OutsOf(Append(log, e), e.provider) = OutsOf(log, e.provider) \cup {e.outcome}
        /\ \A other : other # e.provider => OutsOf(Append(log, e), other) = OutsOf(log, other)
    BY <1>a, LineAdded, Zenon
  <2> QED
    BY <1>a, <2>1, <2>2, <2>3
<1>4. r = [q EXCEPT !.log = new, !.tries = 0]
  BY <1>0, <1>1 DEF Told
<1>5. 0 \in 0 .. Retries
  BY BacktrackingAssumption
<1>6. r \in InquiryType /\ r.log = new
  BY <1>3, <1>4, <1>5 DEF InquiryType
<1>7. /\ r.phase = q.phase /\ r.asks = q.asks /\ r.clock = q.clock /\ r.currents = q.currents /\ r.winds = q.winds
      /\ r.grid = q.grid /\ r.moved = q.moved /\ r.prior = q.prior /\ r.tries = 0
  BY <1>4 DEF InquiryType
<1> QED
  BY <1>3, <1>6, <1>7

\* Going on changes where the request is, and nothing it says.
LEMMA Moved ==
  ASSUME NEW q \in InquiryType, NEW phase \in Stages, NEW r, r = [q EXCEPT !.phase = phase]
  PROVE  /\ r \in InquiryType /\ r.phase = phase
         /\ r.log = q.log /\ r.asks = q.asks /\ r.clock = q.clock /\ r.currents = q.currents /\ r.winds = q.winds
         /\ r.grid = q.grid /\ r.moved = q.moved /\ r.prior = q.prior /\ r.tries = q.tries
BY DEF InquiryType

LEMMA GfsOf ==
  ASSUME NEW q \in InquiryType, BacktrackingAssumption, NEW r, r = Told(q, "NOAA_GFS", "RETENTION_TOO_SHORT")
  PROVE  /\ r \in InquiryType
         /\ \A other : other # "NOAA_GFS" => OutsOf(r.log, other) = OutsOf(q.log, other)
         /\ SameBut(r, q) /\ r.currents = q.currents /\ r.winds = q.winds
BY ToldOf DEF Asked, Sayable, SameBut

LEMMA UnconfiguredOf ==
  ASSUME NEW q \in InquiryType, BacktrackingAssumption, NEW r, r = Told(q, "CMEMS", "NOT_CONFIGURED")
  PROVE  /\ r \in InquiryType
         /\ OutsOf(r.log, "CMEMS") = OutsOf(q.log, "CMEMS") \cup {"NOT_CONFIGURED"}
         /\ \A other : other # "CMEMS" => OutsOf(r.log, other) = OutsOf(q.log, other)
         /\ SameBut(r, q) /\ r.currents = q.currents /\ r.winds = q.winds
BY ToldOf DEF Asked, Sayable, SameBut

LEMMA FoundOf ==
  ASSUME NEW q \in InquiryType, BacktrackingAssumption, NEW p \in Asked, NEW r, r = Told(q, p, "OK")
  PROVE  /\ r \in InquiryType
         /\ \A other : other # p => OutsOf(r.log, other) = OutsOf(q.log, other)
         /\ SameBut(r, q) /\ r.currents = q.currents /\ r.winds = q.winds /\ r.tries = 0
BY ToldOf DEF Sayable, SameBut

\* The last of the chain of winds is never configured for a past scene.
LEMMA ToCdsOf ==
  ASSUME NEW q \in InquiryType, BacktrackingAssumption, forcingSetup \in SetupType,
         q.currents # None, q.winds = None, OutsOf(q.log, "ERA5_CDS") = {},
         q.currents # "CMEMS" => Passed(q.log, "CMEMS", forcingSetup.cmems),
         Passed(q.log, "ERA5_LOCAL_FILE", forcingSetup.local # "none"),
         NEW r, r = ToCds(q)
  PROVE  /\ r \in InquiryType /\ r.phase \in {"ERA5_CDS", "drift"} /\ SameBut(r, q)
         /\ TellsOf(r, forcingSetup)
<1>1. CASE forcingSetup.cds
  <2>1. r = [q EXCEPT !.phase = "ERA5_CDS"]
    BY <1>1 DEF ToCds
  <2>2. /\ r \in InquiryType /\ r.phase = "ERA5_CDS"
        /\ r.log = q.log /\ r.asks = q.asks /\ r.clock = q.clock /\ r.currents = q.currents /\ r.winds = q.winds
        /\ r.grid = q.grid /\ r.moved = q.moved /\ r.prior = q.prior /\ r.tries = q.tries
    BY <2>1, Moved DEF Stages
  <2> QED
    BY <1>1, <2>2 DEF TellsOf, SameBut, BeforeWinds, OnWinds, OnDrift
<1>2. CASE ~forcingSetup.cds
  <2>1. PICK a : a = Told(q, "ERA5_CDS", "NOT_CONFIGURED")
    OBVIOUS
  <2>2. /\ a \in InquiryType
        /\ OutsOf(a.log, "ERA5_CDS") = OutsOf(q.log, "ERA5_CDS") \cup {"NOT_CONFIGURED"}
        /\ \A other : other # "ERA5_CDS" => OutsOf(a.log, other) = OutsOf(q.log, other)
        /\ SameBut(a, q) /\ a.currents = q.currents /\ a.winds = q.winds
    BY <2>1, ToldOf DEF Asked, Sayable, SameBut
  <2>3. PICK b : b = Told(a, "NOAA_GFS", "RETENTION_TOO_SHORT")
    OBVIOUS
  <2>4. /\ b \in InquiryType
        /\ \A other : other # "NOAA_GFS" => OutsOf(b.log, other) = OutsOf(a.log, other)
        /\ SameBut(b, a) /\ b.currents = a.currents /\ b.winds = a.winds
    BY <2>2, <2>3, GfsOf
  <2>5. r = [b EXCEPT !.phase = "drift"]
    BY <1>2, <2>1, <2>3 DEF ToCds
  <2>6. /\ r \in InquiryType /\ r.phase = "drift" /\ r.log = b.log /\ SameBut(r, b)
        /\ r.currents = b.currents /\ r.winds = b.winds
    BY <2>4, <2>5, Moved DEF Stages, SameBut
  <2>7. /\ OutsOf(r.log, "ERA5_CDS") = {"NOT_CONFIGURED"}
        /\ OutsOf(r.log, "CMEMS") = OutsOf(q.log, "CMEMS")
        /\ OutsOf(r.log, "ERA5_LOCAL_FILE") = OutsOf(q.log, "ERA5_LOCAL_FILE")
    BY <2>2, <2>4, <2>6
  <2>8. TellsOf(r, forcingSetup)
    BY <1>2, <2>2, <2>4, <2>6, <2>7 DEF TellsOf, BeforeWinds, OnWinds, OnDrift, Passed
  <2> QED
    BY <2>2, <2>4, <2>6, <2>8 DEF SameBut
<1> QED
  BY <1>1, <1>2

\* The chain of winds begins at the file on disk, where there is one.
LEMMA ToWindsOf ==
  ASSUME NEW q \in InquiryType, BacktrackingAssumption, forcingSetup \in SetupType,
         q.currents # None, q.winds = None, OutsOf(q.log, "ERA5_CDS") = {}, OutsOf(q.log, "ERA5_LOCAL_FILE") = {},
         q.currents # "CMEMS" => Passed(q.log, "CMEMS", forcingSetup.cmems),
         NEW r, r = ToWinds(q)
  PROVE  /\ r \in InquiryType /\ r.phase \in {"ERA5_LOCAL_FILE", "ERA5_CDS", "drift"} /\ SameBut(r, q)
         /\ TellsOf(r, forcingSetup)
<1>1. CASE forcingSetup.local # "none"
  <2>1. r = [q EXCEPT !.phase = "ERA5_LOCAL_FILE"]
    BY <1>1 DEF ToWinds
  <2>2. /\ r \in InquiryType /\ r.phase = "ERA5_LOCAL_FILE"
        /\ r.log = q.log /\ r.asks = q.asks /\ r.clock = q.clock /\ r.currents = q.currents /\ r.winds = q.winds
        /\ r.grid = q.grid /\ r.moved = q.moved /\ r.prior = q.prior /\ r.tries = q.tries
    BY <2>1, Moved DEF Stages
  <2> QED
    BY <1>1, <2>2 DEF TellsOf, SameBut, BeforeWinds, OnWinds, OnDrift
<1>2. CASE forcingSetup.local = "none"
  <2>1. PICK a : a = Told(q, "ERA5_LOCAL_FILE", "NOT_CONFIGURED")
    OBVIOUS
  <2>2. /\ a \in InquiryType
        /\ OutsOf(a.log, "ERA5_LOCAL_FILE") = OutsOf(q.log, "ERA5_LOCAL_FILE") \cup {"NOT_CONFIGURED"}
        /\ \A other : other # "ERA5_LOCAL_FILE" => OutsOf(a.log, other) = OutsOf(q.log, other)
        /\ SameBut(a, q) /\ a.currents = q.currents /\ a.winds = q.winds
    BY <2>1, ToldOf DEF Asked, Sayable, SameBut
  <2>3. r = ToCds(a)
    BY <1>2, <2>1 DEF ToWinds
  <2>4. /\ OutsOf(a.log, "ERA5_CDS") = {} /\ OutsOf(a.log, "CMEMS") = OutsOf(q.log, "CMEMS")
        /\ OutsOf(a.log, "ERA5_LOCAL_FILE") = {"NOT_CONFIGURED"}
    BY <2>2
  <2>5. Passed(a.log, "ERA5_LOCAL_FILE", forcingSetup.local # "none")
    BY <1>2, <2>4 DEF Passed
  <2>6. a.currents # "CMEMS" => Passed(a.log, "CMEMS", forcingSetup.cmems)
    BY <2>2, <2>4 DEF Passed
  <2>7. /\ r \in InquiryType /\ r.phase \in {"ERA5_CDS", "drift"} /\ SameBut(r, a)
        /\ TellsOf(r, forcingSetup)
    BY <2>2, <2>3, <2>4, <2>5, <2>6, ToCdsOf
  <2> QED
    BY <2>2, <2>7 DEF SameBut
<1> QED
  BY <1>1, <1>2

\* A provider that failed is passed over with the reason.
LEMMA PassOverOf ==
  ASSUME NEW q \in InquiryType, BacktrackingAssumption, forcingSetup \in SetupType, TellsOf(q, forcingSetup),
         NEW p \in Asked, q.phase = p, NEW o \in Failures, NEW r, r = PassOver(q, p, o)
  PROVE  /\ r \in InquiryType /\ SameBut(r, q) /\ TellsOf(r, forcingSetup) /\ r.tries = 0
         /\ p = "CMEMS" => r.phase = "HYCOM"
         /\ p = "HYCOM" => r.phase = "proximity"
         /\ p = "ERA5_LOCAL_FILE" => r.phase \in {"ERA5_CDS", "drift"}
         /\ p = "ERA5_CDS" => r.phase = "drift"
<1>1. PICK a : a = Told(q, p, o)
  OBVIOUS
<1>2. /\ a \in InquiryType /\ a.phase = p
      /\ OutsOf(a.log, p) = OutsOf(q.log, p) \cup {o}
      /\ \A other : other # p => OutsOf(a.log, other) = OutsOf(q.log, other)
      /\ SameBut(a, q) /\ a.currents = q.currents /\ a.winds = q.winds /\ a.tries = 0
  <2>1. o \in Sayable
    BY DEF Sayable
  <2>2. p \in Asked \cup {"NOAA_GFS"}
    OBVIOUS
  <2> QED
    BY <1>1, <2>1, <2>2, ToldOf DEF SameBut
<1>3. o \notin {"OK", "NOT_CONFIGURED"}
  BY DEF Failures
<1>4. CASE p = "CMEMS"
  <2>1. r = [a EXCEPT !.phase = "HYCOM"]
    BY <1>1, <1>4 DEF PassOver, ToHycom
  <2>2. /\ r \in InquiryType /\ r.phase = "HYCOM" /\ r.log = a.log /\ SameBut(r, a)
        /\ r.currents = a.currents /\ r.winds = a.winds
    BY <1>2, <2>1, Moved DEF Stages, SameBut
  <2>3. /\ forcingSetup.cmems /\ OutsOf(q.log, "CMEMS") = {} /\ q.winds = None /\ q.currents = None
        /\ OutsOf(q.log, "HYCOM") = {} /\ OutsOf(q.log, "ERA5_LOCAL_FILE") = {} /\ OutsOf(q.log, "ERA5_CDS") = {}
    BY <1>4 DEF TellsOf, BeforeWinds
  <2>4. /\ OutsOf(r.log, "CMEMS") = {o}
        /\ OutsOf(r.log, "HYCOM") = {} /\ OutsOf(r.log, "ERA5_LOCAL_FILE") = {} /\ OutsOf(r.log, "ERA5_CDS") = {}
    BY <1>2, <1>4, <2>2, <2>3
  <2>5. Passed(r.log, "CMEMS", forcingSetup.cmems)
    BY <1>3, <2>3, <2>4 DEF Passed
  <2> QED
    BY <1>2, <1>4, <2>2, <2>3, <2>4, <2>5 DEF TellsOf, BeforeWinds, OnWinds, OnDrift, SameBut
<1>5. CASE p = "HYCOM"
  <2>1. r = [a EXCEPT !.phase = "proximity"]
    BY <1>1, <1>5 DEF PassOver
  <2>2. /\ r \in InquiryType /\ r.phase = "proximity" /\ r.log = a.log /\ SameBut(r, a)
        /\ r.currents = a.currents /\ r.winds = a.winds
    BY <1>2, <2>1, Moved DEF Stages, SameBut
  <2>3. /\ q.winds = None /\ q.currents = None /\ OutsOf(q.log, "HYCOM") = {}
        /\ Passed(q.log, "CMEMS", forcingSetup.cmems)
    BY <1>5 DEF TellsOf, BeforeWinds, None
  <2>4. OutsOf(r.log, "HYCOM") = {o} /\ OutsOf(r.log, "CMEMS") = OutsOf(q.log, "CMEMS")
    BY <1>2, <1>5, <2>2, <2>3
  <2>5. Passed(r.log, "HYCOM", TRUE) /\ Passed(r.log, "CMEMS", forcingSetup.cmems)
    BY <1>3, <2>3, <2>4 DEF Passed
  <2> QED
    BY <1>2, <1>5, <2>2, <2>3, <2>5 DEF TellsOf, BeforeWinds, OnWinds, OnDrift, SameBut
<1>6. CASE p = "ERA5_LOCAL_FILE"
  <2>1. r = ToCds(a)
    BY <1>1, <1>6 DEF PassOver
  <2>2. /\ forcingSetup.local # "none" /\ q.winds = None /\ q.currents # None
        /\ OutsOf(q.log, "ERA5_LOCAL_FILE") = {} /\ OutsOf(q.log, "ERA5_CDS") = {}
        /\ q.currents # "CMEMS" => Passed(q.log, "CMEMS", forcingSetup.cmems)
    BY <1>6 DEF TellsOf, BeforeWinds, OnWinds
  <2>3. /\ OutsOf(a.log, "ERA5_LOCAL_FILE") = {o} /\ OutsOf(a.log, "ERA5_CDS") = {}
        /\ OutsOf(a.log, "CMEMS") = OutsOf(q.log, "CMEMS")
    BY <1>2, <1>6, <2>2
  <2>4. Passed(a.log, "ERA5_LOCAL_FILE", forcingSetup.local # "none")
    BY <1>3, <2>2, <2>3 DEF Passed
  <2>5. a.currents # "CMEMS" => Passed(a.log, "CMEMS", forcingSetup.cmems)
    BY <1>2, <2>2, <2>3 DEF Passed
  <2>6. /\ r \in InquiryType /\ r.phase \in {"ERA5_CDS", "drift"} /\ SameBut(r, a)
        /\ TellsOf(r, forcingSetup)
    BY <1>2, <2>1, <2>2, <2>3, <2>4, <2>5, ToCdsOf
  <2> QED
    BY <1>2, <1>6, <2>6 DEF SameBut
<1>7. CASE p = "ERA5_CDS"
  <2>1. PICK b : b = Told(a, "NOAA_GFS", "RETENTION_TOO_SHORT")
    OBVIOUS
  <2>2. /\ b \in InquiryType
        /\ \A other : other # "NOAA_GFS" => OutsOf(b.log, other) = OutsOf(a.log, other)
        /\ SameBut(b, a) /\ b.currents = a.currents /\ b.winds = a.winds
    BY <1>2, <2>1, GfsOf
  <2>3. r = [b EXCEPT !.phase = "drift"]
    BY <1>1, <1>7, <2>1 DEF PassOver
  <2>4. /\ r \in InquiryType /\ r.phase = "drift" /\ r.log = b.log /\ SameBut(r, b)
        /\ r.currents = b.currents /\ r.winds = b.winds
    BY <2>2, <2>3, Moved DEF Stages, SameBut
  <2>5. /\ forcingSetup.cds /\ q.winds = None /\ q.currents # None /\ OutsOf(q.log, "ERA5_CDS") = {}
        /\ q.currents # "CMEMS" => Passed(q.log, "CMEMS", forcingSetup.cmems)
        /\ Passed(q.log, "ERA5_LOCAL_FILE", forcingSetup.local # "none")
    BY <1>7 DEF TellsOf, BeforeWinds, OnWinds, OnDrift, None
  <2>6. /\ OutsOf(r.log, "ERA5_CDS") = {o} /\ OutsOf(r.log, "CMEMS") = OutsOf(q.log, "CMEMS")
        /\ OutsOf(r.log, "ERA5_LOCAL_FILE") = OutsOf(q.log, "ERA5_LOCAL_FILE")
    BY <1>2, <1>7, <2>2, <2>4, <2>5
  <2>7. /\ Passed(r.log, "ERA5_CDS", forcingSetup.cds) /\ Passed(r.log, "ERA5_LOCAL_FILE", forcingSetup.local # "none")
        /\ r.currents # "CMEMS" => Passed(r.log, "CMEMS", forcingSetup.cmems)
    BY <1>2, <1>3, <2>2, <2>4, <2>5, <2>6 DEF Passed
  <2>8. SameBut(r, q) /\ r.tries = 0
    BY <1>2, <2>2, <2>4 DEF SameBut
  <2>9. TellsOf(r, forcingSetup)
    BY <1>2, <2>2, <2>4, <2>5, <2>7 DEF TellsOf, BeforeWinds, OnWinds, OnDrift
  <2> QED
    BY <1>7, <2>4, <2>8, <2>9
<1> QED
  BY <1>4, <1>5, <1>6, <1>7 DEF Asked

-----------------------------------------------------------------------------
(* The water *)

\* What is read is a field of water.
LEMMA FieldOf == \A D \in SUBSET Int : \A g \in [D -> Speeds] : g \in Fields
BY DEF Fields

LEMMA FieldsAre == \A g \in Fields : g \in [DOMAIN g -> Speeds] /\ DOMAIN g \in SUBSET Int
BY DEF Fields

LEMMA NoField == << >> \in Fields
<1>1. << >> \in [{} -> Speeds]
  OBVIOUS
<1> QED
  BY <1>1 DEF Fields

LEMMA CmemsField ==
  ASSUME BacktrackingAssumption, NEW g \in Grids, \A i \in DOMAIN g : g[i] # Fill
  PROVE  g \in Fields
<1>1. g \in [DOMAIN g -> -MaxCurrent .. MaxCurrent \cup {Land, Fill}] /\ DOMAIN g \in SUBSET Int
  BY BacktrackingAssumption
<1>2. g \in [DOMAIN g -> Speeds]
  BY <1>1 DEF Speeds
<1> QED
  BY <1>1, <1>2, FieldOf

LEMMA HycomField ==
  ASSUME BacktrackingAssumption, NEW g \in Grids
  PROVE  Cleaned(g) \in Fields
<1>1. g \in [DOMAIN g -> -MaxCurrent .. MaxCurrent \cup {Land, Fill}] /\ DOMAIN g \in SUBSET Int
  BY BacktrackingAssumption
<1>2. \A i \in DOMAIN g : (IF g[i] > MaxCurrent \/ g[i] < -MaxCurrent THEN Land ELSE g[i]) \in Speeds
  BY <1>1 DEF Speeds, MaxCurrent, Land, Fill
<1>3. Cleaned(g) \in [DOMAIN g -> Speeds]
  BY <1>2 DEF Cleaned
<1> QED
  BY <1>1, <1>3, FieldOf

LEMMA LeastOfTwo ==
  ASSUME NEW a \in Int, NEW b \in Int, NEW S, S = {a, b}
  PROVE  /\ Min(S) \in S /\ Min(S) <= a /\ Min(S) <= b
         /\ Max(S) \in S /\ Max(S) >= a /\ Max(S) >= b
<1>1. \E x \in S : \A y \in S : x =< y
  OBVIOUS
<1>2. \E x \in S : \A y \in S : x >= y
  OBVIOUS
<1> QED
  BY <1>1, <1>2 DEF Min, Max

\* What is read at a point is between what its wet corners hold; nothing moves where none is.
LEMMA SampleOf ==
  ASSUME NEW g \in Fields, NEW x \in Int, NEW around,
         around = {g[i] : i \in IF Inside(g, x) THEN Wet(g, x) ELSE {}}
  PROVE  /\ SampleAt(g, x) \in -MaxCurrent .. MaxCurrent
         /\ around = {} => SampleAt(g, x) = 0
         /\ around # {} => SampleAt(g, x) \in Min(around) .. Max(around)
<1> DEFINE l == (x - 1) \div 2
           r == (x + 1) \div 2
           share(i) == IF i \in Wet(g, x) THEN Weight(x, i) ELSE 0
<1>1. g \in [DOMAIN g -> Speeds] /\ DOMAIN g \in SUBSET Int
  BY FieldsAre
<1>2. CASE ~Inside(g, x) \/ Wet(g, x) = {}
  <2>1. SampleAt(g, x) = 0 /\ around = {}
    BY <1>2 DEF SampleAt
  <2> QED
    BY <2>1 DEF MaxCurrent
<1>3. CASE Inside(g, x) /\ Wet(g, x) # {}
  <2>1. SampleAt(g, x) = (g[l] * share(l) + g[r] * share(r)) \div (share(l) + share(r))
    BY <1>3 DEF SampleAt
  <2>2. l \in Int /\ r = l + 1 /\ (x % 2 = 0 => x = 2 * r) /\ (x % 2 # 0 => x = 2 * l + 1)
    OBVIOUS
  <2>3. Corners(x) = {l, r} /\ l \in DOMAIN g /\ r \in DOMAIN g
    BY <1>3 DEF Corners, Inside
  <2>4. g[l] \in Speeds /\ g[r] \in Speeds
    BY <1>1, <2>3
  <2>5. around = {g[i] : i \in Wet(g, x)}
    BY <1>3
  <2>6. CASE x % 2 = 0
    <3>1. Weight(x, l) = 0 /\ Weight(x, r) = 2
      BY <2>2, <2>6 DEF Weight
    <3>2. Wet(g, x) = {r} /\ g[r] # Land
      BY <1>3, <2>3, <3>1 DEF Wet
    <3>3. share(l) = 0 /\ share(r) = 2
      BY <2>2, <3>1, <3>2
    <3>4. around = {g[r], g[r]} /\ g[r] \in -MaxCurrent .. MaxCurrent
      BY <2>4, <2>5, <3>2 DEF Speeds
    <3>5. SampleAt(g, x) = g[r]
      <4> HIDE DEF share, l, r
      <4>1. SampleAt(g, x) = (g[l] * 0 + g[r] * 2) \div 2
        BY <2>1, <3>3
      <4>2. g[l] \in Int /\ g[r] \in Int
        BY <2>4, <3>4 DEF Speeds, Land, MaxCurrent
      <4> QED
        BY <4>1, <4>2
    <3> HIDE DEF share, l, r
    <3>6. g[r] \in Int
      BY <3>4 DEF MaxCurrent
    <3>7. Min(around) = g[r] /\ Max(around) = g[r] /\ around # {}
      BY <3>4, <3>6, LeastOfTwo
    <3> QED
      BY <3>4, <3>5, <3>6, <3>7
  <2>7. CASE x % 2 # 0
    <3>1. Weight(x, l) = 1 /\ Weight(x, r) = 1
      BY <2>7 DEF Weight
    <3>2. Wet(g, x) = {i \in {l, r} : g[i] # Land}
      BY <2>3, <3>1 DEF Wet
    <3>3. share(l) = (IF g[l] # Land THEN 1 ELSE 0) /\ share(r) = (IF g[r] # Land THEN 1 ELSE 0)
      BY <3>1, <3>2
    <3> HIDE DEF share, l, r
    <3>4. CASE g[l] # Land /\ g[r] # Land
      <4>1. around = {g[l], g[r]} /\ g[l] \in -MaxCurrent .. MaxCurrent /\ g[r] \in -MaxCurrent .. MaxCurrent
        BY <2>4, <2>5, <3>2, <3>4 DEF Speeds
      <4>2. g[l] \in Int /\ g[r] \in Int
        BY <4>1 DEF MaxCurrent
      <4>3. SampleAt(g, x) = (g[l] + g[r]) \div 2
        BY <2>1, <3>3, <3>4, <4>2
      <4>4. \A u, v, n, m \in Int : n <= u /\ n <= v /\ u <= m /\ v <= m => n <= (u + v) \div 2 /\ (u + v) \div 2 <= m
        OBVIOUS
      <4>5. /\ Min(around) \in around /\ Min(around) <= g[l] /\ Min(around) <= g[r]
            /\ Max(around) \in around /\ Max(around) >= g[l] /\ Max(around) >= g[r]
        BY <4>1, <4>2, LeastOfTwo
      <4>6. Min(around) \in Int /\ Max(around) \in Int /\ around # {}
        BY <4>1, <4>2, <4>5
      <4>7. SampleAt(g, x) \in Int /\ Min(around) <= SampleAt(g, x) /\ SampleAt(g, x) <= Max(around)
        BY <4>2, <4>3, <4>4, <4>5, <4>6
      <4>8. -MaxCurrent <= SampleAt(g, x) /\ SampleAt(g, x) <= MaxCurrent
        BY <4>1, <4>5, <4>6, <4>7 DEF MaxCurrent
      <4>9. SampleAt(g, x) \in -MaxCurrent .. MaxCurrent
        BY <4>7, <4>8 DEF MaxCurrent
      <4>10. SampleAt(g, x) \in Min(around) .. Max(around)
        BY <4>6, <4>7
      <4> QED
        BY <4>6, <4>9, <4>10
    <3>5. CASE g[l] # Land /\ g[r] = Land
      <4>1. around = {g[l], g[l]} /\ g[l] \in -MaxCurrent .. MaxCurrent
        BY <2>4, <2>5, <3>2, <3>5 DEF Speeds
      <4>2. SampleAt(g, x) = g[l]
        BY <2>1, <3>3, <3>5, <4>1 DEF Land, MaxCurrent
      <4>3. g[l] \in Int
        BY <4>1 DEF MaxCurrent
      <4>4. Min(around) = g[l] /\ Max(around) = g[l] /\ around # {}
        BY <4>1, <4>3, LeastOfTwo
      <4> QED
        BY <4>1, <4>2, <4>3, <4>4
    <3>6. CASE g[l] = Land /\ g[r] # Land
      <4>1. around = {g[r], g[r]} /\ g[r] \in -MaxCurrent .. MaxCurrent
        BY <2>4, <2>5, <3>2, <3>6 DEF Speeds
      <4>2. SampleAt(g, x) = g[r]
        BY <2>1, <3>3, <3>6, <4>1 DEF Land, MaxCurrent
      <4>3. g[r] \in Int
        BY <4>1 DEF MaxCurrent
      <4>4. Min(around) = g[r] /\ Max(around) = g[r] /\ around # {}
        BY <4>1, <4>3, LeastOfTwo
      <4> QED
        BY <4>1, <4>2, <4>3, <4>4
    <3> QED
      BY <1>3, <3>2, <3>4, <3>5, <3>6
  <2> QED
    BY <2>6, <2>7
<1> QED
  BY <1>2, <1>3

\* A particle is moved by the water around it, and by the wind where it is known.
LEMMA MoveIsOfWater ==
  ASSUME NEW g \in Fields, NEW x \in Int, NEW blow \in {0, 1},
         NEW m, m = [from |-> x, by |-> Sampled(g, x) + blow, wind |-> blow]
  PROVE  m \in Leg /\ OfWater(g, m)
<1>1. PICK around : around = {g[i] : i \in IF Inside(g, x) THEN Wet(g, x) ELSE {}}
  OBVIOUS
<1>2. PICK v : v = SampleAt(g, x)
  OBVIOUS
<1>3. /\ v \in -MaxCurrent .. MaxCurrent
      /\ around = {} => v = 0
      /\ around # {} => v \in Min(around) .. Max(around)
  BY <1>1, <1>2, SampleOf
<1>4. m.from = x /\ m.by = v + blow /\ m.wind = blow
  BY <1>2 DEF Sampled
<1>5. v \in Int /\ m.by - m.wind = v /\ (v = 0 => m.by = m.wind)
  BY <1>3, <1>4 DEF MaxCurrent
<1>6. m \in Leg
  BY <1>2, <1>5 DEF Leg, Sampled
<1> QED
  BY <1>1, <1>3, <1>4, <1>5, <1>6 DEF OfWater

-----------------------------------------------------------------------------
(* The steps *)

LEMMA Numbers == BacktrackingAssumption =>
  /\ DriftSteps \in Nat /\ Deadline \in Nat /\ Retries \in Nat /\ Ceiling \in Nat /\ MaxAsks \in Nat /\ ObservedAt \in Nat
  /\ Retries * Deadline \in Nat /\ Deadline <= Retries * Deadline
<1> SUFFICES ASSUME BacktrackingAssumption
             PROVE  /\ DriftSteps \in Nat /\ Deadline \in Nat /\ Retries \in Nat /\ Ceiling \in Nat /\ MaxAsks \in Nat /\ ObservedAt \in Nat
                    /\ Retries * Deadline \in Nat /\ Deadline <= Retries * Deadline
  OBVIOUS
<1>1. /\ DriftSteps \in Nat /\ Deadline \in Nat /\ Retries \in Nat /\ Ceiling \in Nat /\ MaxAsks \in Nat /\ ObservedAt \in Nat
      /\ Retries > 0
  BY BacktrackingAssumption
<1>2. \A n, d \in Nat : n > 0 => n * d \in Nat /\ d <= n * d
  <2> TAKE n, d \in Nat
  <2> HAVE n > 0
  <2>1. n * d = d + (n - 1) * d /\ (n - 1) \in Nat
    OBVIOUS
  <2>2. (n - 1) * d \in Nat
    BY <2>1
  <2> QED
    BY <2>1, <2>2
<1> QED
  BY <1>1, <1>2

\* The latest of the earlier scenes that looked clear is before the observation.
LEMMA PriorIsEarlier ==
  ASSUME BacktrackingAssumption, NEW looks
  PROVE  PriorClear(looks) \in Nat /\ PriorClear(looks) < ObservedAt
<1>1. PICK clear : clear = {h \in EarlierScenes : looks[h] = "clear"}
  OBVIOUS
<1>2. clear \in SUBSET (0 .. ObservedAt - 1) /\ ObservedAt \in Nat /\ ObservedAt > 0 /\ ObservedAt - 1 \in Nat
  BY <1>1, BacktrackingAssumption
<1>3. PriorClear(looks) = IF clear = {} THEN 0 ELSE Max(clear)
  BY <1>1 DEF PriorClear
<1>4. CASE clear = {}
  BY <1>2, <1>3, <1>4
<1>5. CASE clear # {}
  <2>1. Max(clear) \in clear
    BY <1>2, <1>5, LastOf
  <2> QED
    BY <1>2, <1>3, <1>5, <2>1
<1> QED
  BY <1>4, <1>5

\* The window begins by the last clear scene and before it ends.
LEMMA WindowOf ==
  ASSUME BacktrackingAssumption, NEW age \in Nat, NEW prior \in Nat, prior < ObservedAt,
         NEW w, w = ReleaseWindow(age, prior)
  PROVE  w.from < w.to /\ w.to <= ObservedAt /\ prior <= w.from /\ (w.bounded => w.from = prior)
<1>1. PICK u : u = Unbounded(age)
  OBVIOUS
<1>2. ObservedAt \in Nat
  BY BacktrackingAssumption
<1>3. u.from \in Int /\ u.to \in Int /\ u.from < u.to /\ u.to <= ObservedAt
  <2>1. CASE age = 0
    BY <1>1, <1>2, <2>1 DEF Unbounded
  <2>2. CASE age # 0
    <3>1. u.from = ObservedAt - (15 * age) \div 10 /\ u.to = ObservedAt - (4 * age) \div 10
      BY <1>1, <2>2 DEF Unbounded
    <3>2. (4 * age) \div 10 < (15 * age) \div 10 /\ (4 * age) \div 10 >= 0 /\ (4 * age) \div 10 \in Int /\ (15 * age) \div 10 \in Int
      BY <2>2
    <3> QED
      BY <1>2, <3>1, <3>2
  <2> QED
    BY <2>1, <2>2
<1>4. PICK from : from = IF prior > u.from THEN prior ELSE u.from
  OBVIOUS
<1>5. from \in Int /\ from < ObservedAt /\ prior <= from /\ (prior > u.from => from = prior)
  BY <1>2, <1>3, <1>4
<1>6. PICK to : to = IF u.to <= from THEN Min({ObservedAt, from + 1}) ELSE u.to
  OBVIOUS
<1>7. w.from = from /\ w.to = to /\ w.bounded = (prior > u.from)
  BY <1>1, <1>4, <1>6 DEF ReleaseWindow
<1>8. from < to /\ to <= ObservedAt
  <2>1. CASE u.to <= from
    <3>1. PICK S : S = {ObservedAt, from + 1}
      OBVIOUS
    <3>2. Min(S) \in S /\ Min(S) <= ObservedAt
      BY <1>2, <1>5, <3>1, LeastOfTwo
    <3> QED
      BY <1>2, <1>5, <1>6, <2>1, <3>1, <3>2
  <2>2. CASE ~(u.to <= from)
    BY <1>3, <1>5, <1>6, <2>2
  <2> QED
    BY <2>1, <2>2
<1> QED
  BY <1>5, <1>7, <1>8

\* A step that records nothing keeps what is said of the estimate.
LEMMA RecordKept ==
  ASSUME BackInv, UNCHANGED <<forcingSetup, estimate>>,
         inquiry' \in InquiryType, inquiry'.asks <= MaxAsks, inquiry'.tries < Retries, inquiry'.prior < ObservedAt,
         strays' \in [Waits -> Nat],
         TellsOf(inquiry', forcingSetup), LeftBehind(inquiry', strays'), Flowed(inquiry'), Timely(inquiry')
  PROVE  BackInv'
<1>1. BackTypes' /\ TellsOf(inquiry, forcingSetup)' /\ LeftBehind(inquiry, strays)' /\ Flowed(inquiry)' /\ Timely(inquiry)'
  BY DEF BackInv, BackTypes
<1>2. estimate.method' \in {None, "FOOTPRINT_PROXIMITY", "LAGRANGIAN_BACKTRACK"} /\ estimate.clock' <= Ceiling
  BY DEF BackInv
<1>3. RecordTells(estimate, forcingSetup)' /\ RecordHolds(estimate)'
  BY DEF BackInv
<1> QED
  BY <1>1, <1>2, <1>3 DEF BackInv

LEMMA InitBack == BacktrackInit /\ BacktrackingAssumption => BackInv
<1> SUFFICES ASSUME BacktrackInit, BacktrackingAssumption PROVE BackInv
  OBVIOUS
<1>1. BackTypes
  BY Numbers, NoField, BacktrackingAssumption DEF BacktrackInit, BackTypes, SetupType, InquiryType, Quiet, Waits, Stages
<1>2. TellsOf(inquiry, forcingSetup)
  BY DEF BacktrackInit, TellsOf, Quiet, BeforeWinds, OnWinds, OnDrift
<1>3. LeftBehind(inquiry, strays) /\ Flowed(inquiry)
  BY DEF BacktrackInit, LeftBehind, Flowed, Quiet, Waits, BeforeWinds, OnWinds
<1>4. Timely(inquiry)
  BY Numbers DEF BacktrackInit, Timely, Quiet
<1>5. estimate.method = None /\ estimate.clock <= Ceiling
  BY Numbers DEF BacktrackInit, NoEstimate
<1> QED
  BY <1>1, <1>2, <1>3, <1>4, <1>5 DEF BackInv, RecordTells, RecordHolds

\* The steps that leave the request where it is, or pass a provider over.
LEMMA RetryStep ==
  ASSUME BackInv, BacktrackingAssumption, UNCHANGED <<forcingSetup, strays, estimate>>,
         inquiry.phase \in Asked, Within(inquiry), inquiry.tries + 1 < Retries, NEW took \in {0, Deadline},
         inquiry' = [inquiry EXCEPT !.clock = @ + took, !.tries = @ + 1]
  PROVE  BackInv'
<1>1. /\ inquiry \in InquiryType /\ strays \in [Waits -> Nat] /\ inquiry.asks <= MaxAsks /\ inquiry.prior < ObservedAt
      /\ TellsOf(inquiry, forcingSetup) /\ LeftBehind(inquiry, strays) /\ Flowed(inquiry)
  BY DEF BackInv, BackTypes
<1>2. PICK q \in InquiryType : q = inquiry
  BY <1>1
<1>3. PICK r : r = [q EXCEPT !.clock = @ + took, !.tries = @ + 1]
  OBVIOUS
<1>4. took \in Nat /\ took <= Retries * Deadline /\ Ceiling \in Nat /\ Retries * Deadline \in Nat /\ Retries \in Nat
  BY Numbers
<1>5. q.clock \in Nat /\ q.clock <= Ceiling /\ q.tries \in 0 .. Retries /\ q.tries + 1 < Retries
  BY <1>2 DEF InquiryType, Within
<1>6. q.clock + took \in Nat /\ q.tries + 1 \in 0 .. Retries
  BY <1>4, <1>5
<1>7. r \in InquiryType /\ r.clock = q.clock + took /\ r.tries = q.tries + 1
  BY <1>3, <1>6 DEF InquiryType
<1>8. /\ r.phase = q.phase /\ r.asks = q.asks /\ r.prior = q.prior /\ r.log = q.log /\ r.currents = q.currents
      /\ r.winds = q.winds /\ r.grid = q.grid /\ r.moved = q.moved
  BY <1>3 DEF InquiryType
<1>9. inquiry' = r
  BY <1>2, <1>3
<1>10. Timely(r)
  BY <1>4, <1>5, <1>7 DEF Timely
<1>11. TellsOf(r, forcingSetup)
  BY <1>1, <1>2, <1>8 DEF TellsOf
<1>12. LeftBehind(r, strays) /\ Flowed(r)
  BY <1>1, <1>2, <1>8 DEF LeftBehind, Flowed
<1>13. r.asks <= MaxAsks /\ r.prior < ObservedAt /\ r.tries < Retries /\ strays' = strays
  BY <1>1, <1>2, <1>5, <1>7, <1>8
<1> QED
  BY <1>1, <1>7, <1>9, <1>10, <1>11, <1>12, <1>13, RecordKept

LEMMA EndStep ==
  ASSUME BackInv, BacktrackingAssumption, NEW r, r = Ended(inquiry)
  PROVE  /\ r \in InquiryType /\ r.asks = inquiry.asks /\ r.tries < Retries /\ r.prior < ObservedAt
         /\ r.phase = "idle" /\ r.moved = << >>
         /\ TellsOf(r, forcingSetup) /\ Flowed(r) /\ Timely(r)
<1>1. inquiry.asks \in Nat
  BY DEF BackInv, BackTypes, InquiryType
<1>2. PICK asks \in Nat : asks = inquiry.asks
  BY <1>1
<1>3. r = [Quiet EXCEPT !.asks = asks]
  BY <1>2 DEF Ended
<1>4. /\ r.phase = "idle" /\ r.asks = asks /\ r.clock = 0 /\ r.tries = 0 /\ r.log = << >> /\ r.currents = None
      /\ r.winds = None /\ r.grid = << >> /\ r.moved = << >> /\ r.prior = 0
  BY <1>3 DEF Quiet
<1>5. r \in InquiryType
  <2>1. r = [phase |-> "idle", asks |-> asks, clock |-> 0, tries |-> 0, log |-> << >>, currents |-> None,
             winds |-> None, grid |-> << >>, at |-> 0, moved |-> << >>, left |-> 0, prior |-> 0]
    BY <1>3 DEF Quiet
  <2>2. /\ "idle" \in Stages /\ 0 \in 0 .. Retries /\ << >> \in Seq(Saying) /\ << >> \in Seq(Leg)
        /\ None \in Currents \cup {None} /\ None \in Winds \cup {None}
    BY Numbers DEF Stages
  <2> QED
    BY <2>1, <2>2, NoField DEF InquiryType
<1>6. TellsOf(r, forcingSetup) /\ Flowed(r)
  BY <1>4 DEF TellsOf, Flowed, BeforeWinds, OnWinds, OnDrift
<1>7. Timely(r) /\ r.tries < Retries /\ r.prior < ObservedAt
  BY <1>4, Numbers, BacktrackingAssumption DEF Timely
<1> QED
  BY <1>2, <1>4, <1>5, <1>6, <1>7

\* A request that ends leaves, at most, its own thread.
LEMMA LeaveStep ==
  ASSUME BackInv, BacktrackingAssumption, UNCHANGED <<forcingSetup, estimate>>, inquiry' = Ended(inquiry),
         \/ strays' = strays
         \/ inquiry.phase # "idle" /\ strays' = [strays EXCEPT !["request"] = @ + 1]
  PROVE  BackInv'
<1>1. /\ inquiry \in InquiryType /\ strays \in [Waits -> Nat] /\ inquiry.asks <= MaxAsks /\ inquiry.asks \in Nat
      /\ LeftBehind(inquiry, strays)
  BY DEF BackInv, BackTypes, InquiryType
<1>2. /\ inquiry' \in InquiryType /\ inquiry'.asks = inquiry.asks /\ inquiry'.tries < Retries /\ inquiry'.prior < ObservedAt
      /\ inquiry'.phase = "idle"
      /\ TellsOf(inquiry', forcingSetup) /\ Flowed(inquiry') /\ Timely(inquiry')
  BY EndStep
<1>3. strays' \in [Waits -> Nat] /\ \A p \in Waits : strays'[p] <= inquiry.asks
  <2>1. CASE strays' = strays
    BY <1>1, <2>1 DEF LeftBehind
  <2>2. CASE inquiry.phase # "idle" /\ strays' = [strays EXCEPT !["request"] = @ + 1]
    <3>1. strays["request"] < inquiry.asks /\ \A p \in Waits : strays[p] <= inquiry.asks
      BY <1>1, <2>2 DEF LeftBehind
    <3>2. strays["request"] + 1 \in Nat /\ strays["request"] + 1 <= inquiry.asks
      BY <1>1, <3>1 DEF Waits
    <3>3. strays' \in [Waits -> Nat] /\ \A p \in Waits : strays'[p] = IF p = "request" THEN strays["request"] + 1 ELSE strays[p]
      BY <1>1, <2>2, <3>2
    <3> QED
      BY <3>1, <3>2, <3>3
  <2> QED
    BY <2>1, <2>2
<1>4. LeftBehind(inquiry', strays')
  BY <1>2, <1>3 DEF LeftBehind, BeforeWinds, OnWinds
<1> QED
  BY <1>1, <1>2, <1>3, <1>4, RecordKept

LEMMA PassStep ==
  ASSUME BackInv, BacktrackingAssumption, UNCHANGED <<forcingSetup, estimate>>,
         NEW p \in Asked, inquiry.phase = p, NEW o \in Failures,
         NEW q \in InquiryType, q.phase = p, q.log = inquiry.log, q.currents = inquiry.currents, q.winds = inquiry.winds,
         q.asks = inquiry.asks, q.prior = inquiry.prior, q.grid = inquiry.grid, q.moved = inquiry.moved,
         q.clock <= Ceiling + Deadline,
         inquiry' = PassOver(q, p, o),
         \/ strays' = strays
         \/ p \in Waits /\ strays' = [strays EXCEPT ![p] = @ + 1]
  PROVE  BackInv'
<1>1. /\ inquiry \in InquiryType /\ strays \in [Waits -> Nat] /\ inquiry.asks <= MaxAsks /\ inquiry.asks \in Nat
      /\ inquiry.prior < ObservedAt /\ forcingSetup \in SetupType
      /\ LeftBehind(inquiry, strays) /\ TellsOf(inquiry, forcingSetup) /\ Flowed(inquiry)
  BY DEF BackInv, BackTypes, InquiryType
<1>2. TellsOf(q, forcingSetup)
  BY <1>1 DEF TellsOf
<1>3. PICK r : r = PassOver(q, p, o)
  OBVIOUS
<1>4. /\ r \in InquiryType /\ SameBut(r, q) /\ TellsOf(r, forcingSetup) /\ r.tries = 0
      /\ p = "CMEMS" => r.phase = "HYCOM"
      /\ p = "HYCOM" => r.phase = "proximity"
      /\ p = "ERA5_LOCAL_FILE" => r.phase \in {"ERA5_CDS", "drift"}
      /\ p = "ERA5_CDS" => r.phase = "drift"
  BY <1>1, <1>2, <1>3, PassOverOf
<1>5. inquiry' = r
  BY <1>3
<1>6. /\ r.asks = inquiry.asks /\ r.prior = inquiry.prior /\ r.moved = inquiry.moved /\ r.grid = inquiry.grid /\ r.clock = q.clock
  BY <1>4 DEF SameBut
<1>7. Flowed(r)
  <2>1. inquiry.phase # "drifting" /\ r.phase # "drifting"
    BY <1>4 DEF Asked
  <2> QED
    BY <1>1, <1>6, <2>1 DEF Flowed
<1>8. Timely(r)
  <2>1. r.clock \in Nat
    BY <1>4 DEF InquiryType
  <2> QED
    BY <1>6, <2>1, Numbers DEF Timely
<1>9. strays' \in [Waits -> Nat] /\ \A w \in Waits : strays'[w] = strays[w] \/ (w = p /\ strays'[w] = strays[w] + 1)
  BY <1>1
<1>10. LeftBehind(r, strays')
  <2>1. p \in Waits => strays[p] < inquiry.asks
    BY <1>1 DEF LeftBehind, BeforeWinds, OnWinds, Asked, Waits
  <2>2. \A w \in Waits : strays[w] \in Nat /\ strays[w] <= inquiry.asks
    BY <1>1 DEF LeftBehind
  <2>3. \A w \in Waits : strays'[w] <= r.asks
    BY <1>1, <1>6, <1>9, <2>1, <2>2
  <2>4. strays'["request"] < r.asks
    BY <1>1, <1>6, <1>9 DEF LeftBehind, Asked, Waits
  <2>5. r.phase # "CMEMS" /\ (r.phase \in BeforeWinds => p = "CMEMS")
    BY <1>4 DEF Asked, BeforeWinds
  <2>6. r.phase \in BeforeWinds \cup OnWinds => p # "ERA5_CDS"
    BY <1>4 DEF BeforeWinds, OnWinds
  <2>7. r.phase \in BeforeWinds => strays'["HYCOM"] < r.asks
    BY <1>1, <1>6, <1>9, <2>5 DEF LeftBehind, BeforeWinds, Waits
  <2>8. r.phase \in BeforeWinds \cup OnWinds => strays'["ERA5_CDS"] < r.asks
    BY <1>1, <1>6, <1>9, <2>6 DEF LeftBehind, BeforeWinds, OnWinds, Waits, Asked
  <2> QED
    BY <2>3, <2>4, <2>5, <2>7, <2>8 DEF LeftBehind
<1> QED
  BY <1>1, <1>4, <1>5, <1>6, <1>7, <1>8, <1>9, <1>10, BacktrackingAssumption, RecordKept, Numbers

\* The steps that go on with what was found.
LEMMA OnStep ==
  ASSUME BackInv, BacktrackingAssumption, UNCHANGED <<forcingSetup, strays, estimate>>,
         NEW r \in InquiryType, inquiry' = r, TellsOf(r, forcingSetup), Flowed(r),
         r.asks = inquiry.asks, r.prior = inquiry.prior, r.clock = inquiry.clock, r.tries < Retries,
         inquiry.phase # "idle", r.phase \notin BeforeWinds,
         r.phase \in OnWinds => inquiry.phase \in BeforeWinds \cup OnWinds
  PROVE  BackInv'
<1>1. /\ strays \in [Waits -> Nat] /\ inquiry.asks <= MaxAsks /\ inquiry.prior < ObservedAt
      /\ LeftBehind(inquiry, strays) /\ Timely(inquiry)
  BY DEF BackInv, BackTypes
<1>2. LeftBehind(r, strays') /\ Timely(r)
  BY <1>1 DEF LeftBehind, Timely, BeforeWinds, OnWinds
<1> QED
  BY <1>1, <1>2, RecordKept

LEMMA AskStep == BackInv /\ BacktrackingAssumption /\ AskOrigin => BackInv'
<1> SUFFICES ASSUME BackInv, BacktrackingAssumption, AskOrigin PROVE BackInv'
  OBVIOUS
<1>1. /\ inquiry.phase = "idle" /\ inquiry.asks < MaxAsks /\ inquiry.asks \in Nat /\ forcingSetup \in SetupType
      /\ strays \in [Waits -> Nat] /\ \A p \in Waits : strays[p] <= inquiry.asks
      /\ UNCHANGED <<forcingSetup, strays, estimate>>
  BY DEF BackInv, BackTypes, InquiryType, AskOrigin, LeftBehind
<1>2. PICK looks \in [EarlierScenes -> {"clear", "soiled"}] :
        inquiry' = IF forcingSetup.cmems
                   THEN [[Quiet EXCEPT !.asks = inquiry.asks + 1, !.prior = PriorClear(looks)] EXCEPT !.phase = "CMEMS"]
                   ELSE ToHycom(Told([Quiet EXCEPT !.asks = inquiry.asks + 1, !.prior = PriorClear(looks)], "CMEMS", "NOT_CONFIGURED"))
  BY DEF AskOrigin
<1>3. PICK prior \in Nat : prior = PriorClear(looks) /\ prior < ObservedAt
  BY PriorIsEarlier
<1>4. PICK asks \in Nat : asks = inquiry.asks + 1
  BY <1>1
<1>5. PICK q : q = [Quiet EXCEPT !.asks = asks, !.prior = prior]
  OBVIOUS
<1>6. q \in InquiryType
  <2>1. q = [phase |-> "idle", asks |-> asks, clock |-> 0, tries |-> 0, log |-> << >>, currents |-> None,
             winds |-> None, grid |-> << >>, at |-> 0, moved |-> << >>, left |-> 0, prior |-> prior]
    BY <1>5 DEF Quiet
  <2>2. /\ "idle" \in Stages /\ 0 \in 0 .. Retries /\ << >> \in Seq(Saying) /\ << >> \in Seq(Leg)
        /\ None \in Currents \cup {None} /\ None \in Winds \cup {None}
    BY Numbers DEF Stages
  <2> QED
    BY <2>1, <2>2, NoField DEF InquiryType
<1>7. /\ q.asks = asks /\ q.prior = prior /\ q.clock = 0 /\ q.log = << >> /\ q.currents = None /\ q.winds = None
      /\ q.moved = << >> /\ q.tries = 0
  BY <1>5 DEF Quiet
<1>8. \A r \in InquiryType :
        inquiry' = r /\ r.phase \in BeforeWinds /\ TellsOf(r, forcingSetup)
          /\ r.asks = asks /\ r.prior = prior /\ r.clock = 0 /\ r.moved = << >> /\ r.tries = 0
        => BackInv'
  <2> SUFFICES ASSUME NEW r \in InquiryType,
                      inquiry' = r, r.phase \in BeforeWinds, TellsOf(r, forcingSetup),
                      r.asks = asks, r.prior = prior, r.clock = 0, r.moved = << >>, r.tries = 0
               PROVE  BackInv'
    OBVIOUS
  <2>1. \A p \in Waits : strays[p] < asks
    BY <1>1, <1>4
  <2>2. LeftBehind(r, strays')
    BY <1>1, <2>1 DEF LeftBehind, Waits
  <2>3. Timely(r) /\ r.tries < Retries
    BY Numbers, BacktrackingAssumption DEF Timely
  <2>4. Flowed(r)
    BY DEF Flowed
  <2> QED
    BY <1>1, <1>3, <1>4, <2>2, <2>3, <2>4, Numbers, RecordKept
<1>9. CASE forcingSetup.cmems
  <2>1. PICK r : r = [q EXCEPT !.phase = "CMEMS"]
    OBVIOUS
  <2>2. /\ r \in InquiryType /\ r.phase = "CMEMS"
        /\ r.log = q.log /\ r.asks = q.asks /\ r.clock = q.clock /\ r.currents = q.currents /\ r.winds = q.winds
        /\ r.grid = q.grid /\ r.moved = q.moved /\ r.prior = q.prior /\ r.tries = q.tries
    BY <1>6, <2>1, Moved DEF Stages
  <2>3. TellsOf(r, forcingSetup)
    BY <1>7, <1>9, <2>2, NothingSaid DEF TellsOf, BeforeWinds, OnWinds, OnDrift
  <2>4. inquiry' = r
    BY <1>2, <1>3, <1>4, <1>5, <1>9, <2>1
  <2> QED
    BY <1>7, <1>8, <2>2, <2>3, <2>4 DEF BeforeWinds
<1>10. CASE ~forcingSetup.cmems
  <2>1. PICK a : a = Told(q, "CMEMS", "NOT_CONFIGURED")
    OBVIOUS
  <2>3. /\ a \in InquiryType
        /\ OutsOf(a.log, "CMEMS") = OutsOf(q.log, "CMEMS") \cup {"NOT_CONFIGURED"}
        /\ \A other : other # "CMEMS" => OutsOf(a.log, other) = OutsOf(q.log, other)
        /\ SameBut(a, q) /\ a.currents = q.currents /\ a.winds = q.winds
    BY <1>6, <2>1, UnconfiguredOf
  <2>4. PICK r : r = [a EXCEPT !.phase = "HYCOM"]
    OBVIOUS
  <2>5. /\ r \in InquiryType /\ r.phase = "HYCOM" /\ r.log = a.log /\ SameBut(r, a)
        /\ r.currents = a.currents /\ r.winds = a.winds
    BY <2>3, <2>4, Moved DEF Stages, SameBut
  <2>6. inquiry' = r
    BY <1>2, <1>3, <1>4, <1>5, <1>10, <2>1, <2>4 DEF ToHycom
  <2>7. OutsOf(r.log, "CMEMS") = {"NOT_CONFIGURED"} /\ \A other : other # "CMEMS" => OutsOf(r.log, other) = {}
    BY <1>7, <2>3, <2>5, NothingSaid
  <2>8. TellsOf(r, forcingSetup)
    BY <1>7, <1>10, <2>3, <2>5, <2>7 DEF TellsOf, BeforeWinds, OnWinds, OnDrift, Passed
  <2> QED
    BY <1>7, <1>8, <2>3, <2>5, <2>6, <2>8 DEF BeforeWinds, SameBut
<1> QED
  BY <1>9, <1>10

LEMMA ErrsStep ==
  ASSUME BackInv, BacktrackingAssumption, NEW p \in {"CMEMS", "HYCOM", "ERA5_CDS"}, Errs(p)
  PROVE  BackInv'
<1>1. /\ inquiry.phase = p /\ Within(inquiry) /\ UNCHANGED <<forcingSetup, strays, estimate>> /\ p \in Asked
      /\ inquiry \in InquiryType /\ inquiry.tries < Retries
  BY DEF Errs, BackInv, BackTypes, Asked
<1>2. PICK took \in {0, Deadline}, outcome \in Outcomes, refusal \in BOOLEAN :
        inquiry' = LET q == [inquiry EXCEPT !.clock = @ + took, !.tries = @ + 1]
                   IN IF q.tries < Retries /\ outcome \notin Final THEN q
                      ELSE IF p = "HYCOM" /\ ~refusal THEN Ended(q)
                      ELSE PassOver(q, p, IF refusal THEN "OUT_OF_COVERAGE" ELSE outcome)
  BY DEF Errs
<1>3. PICK q : q = [inquiry EXCEPT !.clock = @ + took, !.tries = @ + 1]
  OBVIOUS
<1>4. inquiry' = IF q.tries < Retries /\ outcome \notin Final THEN q
                 ELSE IF p = "HYCOM" /\ ~refusal THEN Ended(q)
                 ELSE PassOver(q, p, IF refusal THEN "OUT_OF_COVERAGE" ELSE outcome)
  BY <1>2, <1>3
<1>5. took \in Nat /\ took <= Deadline /\ Deadline \in Nat /\ Ceiling \in Nat /\ Retries \in Nat
  BY Numbers
<1>6. inquiry.clock \in Nat /\ inquiry.clock <= Ceiling /\ inquiry.tries \in Nat /\ inquiry.tries < Retries
  BY <1>1 DEF InquiryType, Within
<1>7. PICK i \in InquiryType : i = inquiry
  BY <1>1
<1>8. q = [i EXCEPT !.clock = @ + took, !.tries = @ + 1] /\ i.clock + took \in Nat /\ i.tries + 1 \in 0 .. Retries
  BY <1>3, <1>5, <1>6, <1>7
<1>9. /\ q \in InquiryType /\ q.clock = i.clock + took /\ q.tries = i.tries + 1
      /\ q.phase = i.phase /\ q.asks = i.asks /\ q.prior = i.prior /\ q.log = i.log /\ q.currents = i.currents
      /\ q.winds = i.winds /\ q.grid = i.grid /\ q.moved = i.moved
  BY <1>8 DEF InquiryType
<1>10. CASE q.tries < Retries /\ outcome \notin Final
  <2>1. inquiry' = [inquiry EXCEPT !.clock = @ + took, !.tries = @ + 1] /\ inquiry.tries + 1 < Retries
    BY <1>3, <1>4, <1>7, <1>9, <1>10
  <2> QED
    BY <1>1, <2>1, RetryStep
<1>11. CASE ~(q.tries < Retries /\ outcome \notin Final) /\ p = "HYCOM" /\ ~refusal
  <2>1. Ended(q) = Ended(inquiry)
    BY <1>7, <1>9 DEF Ended
  <2>2. inquiry' = Ended(inquiry) /\ strays' = strays
    BY <1>1, <1>4, <1>11, <2>1
  <2> QED
    BY <1>1, <2>2, LeaveStep
<1>12. CASE ~(q.tries < Retries /\ outcome \notin Final) /\ ~(p = "HYCOM" /\ ~refusal)
  <2>1. PICK o : o = IF refusal THEN "OUT_OF_COVERAGE" ELSE outcome
    OBVIOUS
  <2>2. o \in Failures
    BY <2>1 DEF Failures, Outcomes, Final
  <2>3. inquiry' = PassOver(q, p, o)
    BY <1>4, <1>12, <2>1
  <2>4. q.clock <= Ceiling + Deadline
    BY <1>5, <1>6, <1>7, <1>9
  <2>5. strays' = strays /\ UNCHANGED <<forcingSetup, estimate>> /\ q.phase = p
    BY <1>1, <1>7, <1>9
  <2> QED
    BY <1>1, <1>7, <1>9, <2>2, <2>3, <2>4, <2>5, PassStep
<1> QED
  BY <1>10, <1>11, <1>12

LEMMA SilentStep ==
  ASSUME BackInv, BacktrackingAssumption, NEW p \in {"CMEMS", "HYCOM", "ERA5_CDS"}, SaysNothing(p)
  PROVE  BackInv'
<1>1. /\ inquiry.phase = p /\ Within(inquiry) /\ UNCHANGED <<forcingSetup, estimate>> /\ p \in Asked /\ p \in Waits
      /\ inquiry \in InquiryType
      /\ strays' = [strays EXCEPT ![p] = @ + 1]
  BY DEF SaysNothing, BackInv, BackTypes, Asked, Waits
<1>2. PICK i \in InquiryType : i = inquiry
  BY <1>1
<1>3. PICK q : q = [i EXCEPT !.clock = @ + Deadline]
  OBVIOUS
<1>4. i.clock \in Nat /\ i.clock <= Ceiling /\ Deadline \in Nat /\ Ceiling \in Nat
  BY <1>1, <1>2, Numbers DEF InquiryType, Within
<1>5. i.clock + Deadline \in Nat
  BY <1>4
<1>6. /\ q \in InquiryType /\ q.clock = i.clock + Deadline
      /\ q.phase = i.phase /\ q.asks = i.asks /\ q.prior = i.prior /\ q.log = i.log /\ q.currents = i.currents
      /\ q.winds = i.winds /\ q.grid = i.grid /\ q.moved = i.moved
  BY <1>3, <1>5 DEF InquiryType
<1>7. inquiry' = PassOver(q, p, "TIMEOUT") /\ "TIMEOUT" \in Failures
  BY <1>2, <1>3 DEF SaysNothing, Failures
<1>8. q.clock <= Ceiling + Deadline
  BY <1>4, <1>6
<1> QED
  BY <1>1, <1>2, <1>6, <1>7, <1>8, PassStep

\* A provider that answers of nothing but land is passed over as one that has no data.
LEMMA DryStep ==
  ASSUME BackInv, BacktrackingAssumption, NEW p \in Asked, NEW o \in Failures, inquiry.phase = p, Within(inquiry),
         inquiry' = PassOver(inquiry, p, o), UNCHANGED <<forcingSetup, strays, estimate>>
  PROVE  BackInv'
<1>1. inquiry \in InquiryType
  BY DEF BackInv, BackTypes
<1>2. PICK q \in InquiryType : q = inquiry
  BY <1>1
<1>3. q.clock <= Ceiling + Deadline
  BY <1>2, Numbers DEF InquiryType, Within
<1> QED
  BY <1>2, <1>3, PassStep

LEMMA CmemsStep == BackInv /\ BacktrackingAssumption /\ CmemsAnswers => BackInv'
<1> SUFFICES ASSUME BackInv, BacktrackingAssumption, CmemsAnswers PROVE BackInv'
  OBVIOUS
<1>1. /\ inquiry.phase = "CMEMS" /\ Within(inquiry) /\ UNCHANGED <<forcingSetup, strays, estimate>>
      /\ inquiry \in InquiryType /\ TellsOf(inquiry, forcingSetup) /\ Flowed(inquiry) /\ forcingSetup \in SetupType
  BY DEF CmemsAnswers, BackInv, BackTypes
<1>2. PICK g \in Grids :
        /\ \A i \in DOMAIN g : g[i] # Fill
        /\ inquiry' = IF Usable(g) THEN ToWinds([Told(inquiry, "CMEMS", "OK") EXCEPT !.currents = "CMEMS", !.grid = g])
                      ELSE PassOver(inquiry, "CMEMS", "NO_DATA")
  BY DEF CmemsAnswers
<1>3. CASE ~Usable(g)
  <2>1. inquiry' = PassOver(inquiry, "CMEMS", "NO_DATA") /\ "CMEMS" \in Asked /\ "NO_DATA" \in Failures
    BY <1>2, <1>3 DEF Asked, Failures
  <2> QED
    BY <1>1, <2>1, DryStep
<1>4. CASE Usable(g)
  <2>1. PICK q \in InquiryType : q = inquiry
    BY <1>1
  <2>2. PICK a : a = Told(q, "CMEMS", "OK")
    OBVIOUS
  <2>3. "CMEMS" \in Asked \cup {"NOAA_GFS"} /\ "OK" \in Sayable
    BY DEF Asked, Sayable
  <2>4. /\ a \in InquiryType
        /\ \A other : other # "CMEMS" => OutsOf(a.log, other) = OutsOf(q.log, other)
        /\ a.asks = q.asks /\ a.clock = q.clock /\ a.winds = q.winds /\ a.moved = q.moved /\ a.prior = q.prior /\ a.tries = 0
    BY <2>2, <2>3, ToldOf
  <2>5. PICK b : b = [a EXCEPT !.currents = "CMEMS", !.grid = g]
    OBVIOUS
  <2>6. g \in Fields /\ "CMEMS" \in Currents
    BY <1>2, CmemsField DEF Currents
  <2>7. /\ b \in InquiryType /\ b.currents = "CMEMS" /\ b.log = a.log /\ b.winds = a.winds /\ b.asks = a.asks
        /\ b.clock = a.clock /\ b.moved = a.moved /\ b.prior = a.prior /\ b.tries = a.tries
    BY <2>4, <2>5, <2>6 DEF InquiryType
  <2>8. q.winds = None /\ OutsOf(q.log, "ERA5_CDS") = {} /\ OutsOf(q.log, "ERA5_LOCAL_FILE") = {} /\ q.moved = << >>
    BY <1>1, <2>1 DEF TellsOf, BeforeWinds, Flowed
  <2>9. b.winds = None /\ OutsOf(b.log, "ERA5_CDS") = {} /\ OutsOf(b.log, "ERA5_LOCAL_FILE") = {} /\ b.currents # None
    BY <2>4, <2>7, <2>8 DEF None
  <2>10. PICK r : r = ToWinds(b)
    OBVIOUS
  <2>11. /\ r \in InquiryType /\ r.phase \in {"ERA5_LOCAL_FILE", "ERA5_CDS", "drift"} /\ SameBut(r, b)
         /\ TellsOf(r, forcingSetup)
    BY <1>1, <2>7, <2>9, <2>10, ToWindsOf
  <2>12. inquiry' = r
    BY <1>2, <1>4, <2>1, <2>2, <2>5, <2>10
  <2>13. Flowed(r)
    BY <2>4, <2>7, <2>8, <2>11 DEF Flowed, SameBut
  <2>14. r.asks = inquiry.asks /\ r.prior = inquiry.prior /\ r.clock = inquiry.clock /\ r.tries = 0
    BY <2>1, <2>4, <2>7, <2>11 DEF SameBut
  <2>15. r.tries < Retries /\ r.phase \notin BeforeWinds /\ inquiry.phase \in BeforeWinds \cup OnWinds /\ inquiry.phase # "idle"
    BY <1>1, <2>11, <2>14, BacktrackingAssumption DEF BeforeWinds
  <2> QED
    BY <1>1, <2>11, <2>12, <2>13, <2>14, <2>15, OnStep
<1> QED
  BY <1>3, <1>4

LEMMA HycomStep == BackInv /\ BacktrackingAssumption /\ HycomAnswers => BackInv'
<1> SUFFICES ASSUME BackInv, BacktrackingAssumption, HycomAnswers PROVE BackInv'
  OBVIOUS
<1>1. /\ inquiry.phase = "HYCOM" /\ Within(inquiry) /\ UNCHANGED <<forcingSetup, strays, estimate>>
      /\ inquiry \in InquiryType /\ TellsOf(inquiry, forcingSetup) /\ Flowed(inquiry) /\ forcingSetup \in SetupType
  BY DEF HycomAnswers, BackInv, BackTypes
<1>2. PICK g \in Grids :
        inquiry' = IF Usable(Cleaned(g)) THEN ToWinds([inquiry EXCEPT !.currents = "HYCOM", !.grid = Cleaned(g), !.tries = 0])
                   ELSE PassOver(inquiry, "HYCOM", "NO_DATA")
  BY DEF HycomAnswers
<1>3. CASE ~Usable(Cleaned(g))
  <2>1. inquiry' = PassOver(inquiry, "HYCOM", "NO_DATA") /\ "HYCOM" \in Asked /\ "NO_DATA" \in Failures
    BY <1>2, <1>3 DEF Asked, Failures
  <2> QED
    BY <1>1, <2>1, DryStep
<1>4. CASE Usable(Cleaned(g))
  <2>1. PICK q \in InquiryType : q = inquiry
    BY <1>1
  <2>2. PICK field \in Fields : field = Cleaned(g)
    BY HycomField
  <2>3. PICK b : b = [q EXCEPT !.currents = "HYCOM", !.grid = field, !.tries = 0]
    OBVIOUS
  <2>4. 0 \in 0 .. Retries /\ "HYCOM" \in Currents
    BY Numbers DEF Currents
  <2>5. /\ b \in InquiryType /\ b.currents = "HYCOM" /\ b.log = q.log /\ b.winds = q.winds /\ b.asks = q.asks
        /\ b.clock = q.clock /\ b.moved = q.moved /\ b.prior = q.prior /\ b.tries = 0
    BY <2>3, <2>4 DEF InquiryType
  <2>6. /\ q.winds = None /\ OutsOf(q.log, "ERA5_CDS") = {} /\ OutsOf(q.log, "ERA5_LOCAL_FILE") = {} /\ q.moved = << >>
        /\ Passed(q.log, "CMEMS", forcingSetup.cmems)
    BY <1>1, <2>1 DEF TellsOf, BeforeWinds, Flowed, None
  <2>7. b.currents # None
    BY <2>5 DEF None
  <2>8. PICK r : r = ToWinds(b)
    OBVIOUS
  <2>9. /\ r \in InquiryType /\ r.phase \in {"ERA5_LOCAL_FILE", "ERA5_CDS", "drift"} /\ SameBut(r, b)
        /\ TellsOf(r, forcingSetup)
    BY <1>1, <2>5, <2>6, <2>7, <2>8, ToWindsOf
  <2>10. inquiry' = r
    BY <1>2, <1>4, <2>1, <2>2, <2>3, <2>8
  <2>11. Flowed(r)
    BY <2>5, <2>6, <2>9 DEF Flowed, SameBut
  <2>12. r.asks = inquiry.asks /\ r.prior = inquiry.prior /\ r.clock = inquiry.clock /\ r.tries = 0
    BY <2>1, <2>5, <2>9 DEF SameBut
  <2>13. r.tries < Retries /\ r.phase \notin BeforeWinds /\ inquiry.phase \in BeforeWinds \cup OnWinds /\ inquiry.phase # "idle"
    BY <1>1, <2>9, <2>12, BacktrackingAssumption DEF BeforeWinds
  <2> QED
    BY <1>1, <2>9, <2>10, <2>11, <2>12, <2>13, OnStep
<1> QED
  BY <1>3, <1>4

\* A wind that answered leads to the drift.
LEMMA WindFound ==
  ASSUME BackInv, BacktrackingAssumption, UNCHANGED <<forcingSetup, strays, estimate>>,
         NEW p \in Winds, inquiry.phase = p,
         inquiry' = [Told(inquiry, p, "OK") EXCEPT !.winds = p, !.phase = "drift"]
  PROVE  BackInv'
<1>1. inquiry \in InquiryType /\ TellsOf(inquiry, forcingSetup) /\ Flowed(inquiry)
  BY DEF BackInv, BackTypes
<1>2. PICK q \in InquiryType : q = inquiry
  BY <1>1
<1>3. PICK a : a = Told(q, p, "OK")
  OBVIOUS
<1>4. p \in Asked /\ p # "CMEMS" /\ p # None
  BY DEF Asked, Winds, None
<1>5. /\ a \in InquiryType
      /\ \A other : other # p => OutsOf(a.log, other) = OutsOf(q.log, other)
      /\ a.asks = q.asks /\ a.clock = q.clock /\ a.currents = q.currents /\ a.grid = q.grid /\ a.moved = q.moved
      /\ a.prior = q.prior /\ a.tries = 0
  BY <1>3, <1>4, FoundOf DEF SameBut
<1>6. PICK r : r = [a EXCEPT !.winds = p, !.phase = "drift"]
  OBVIOUS
<1>7. /\ r \in InquiryType /\ r.phase = "drift" /\ r.winds = p /\ r.log = a.log /\ r.asks = a.asks /\ r.clock = a.clock
      /\ r.currents = a.currents /\ r.grid = a.grid /\ r.moved = a.moved /\ r.prior = a.prior /\ r.tries = a.tries
  BY <1>5, <1>6 DEF InquiryType, Stages
<1>8. inquiry' = r
  BY <1>2, <1>3, <1>6
<1>9. /\ q.currents # None /\ (q.currents # "CMEMS" => Passed(q.log, "CMEMS", forcingSetup.cmems)) /\ q.moved = << >>
      /\ p # "ERA5_LOCAL_FILE" => Passed(q.log, "ERA5_LOCAL_FILE", forcingSetup.local # "none")
  BY <1>1, <1>2 DEF TellsOf, OnWinds, OnDrift, Flowed, Winds, None
<1>10. /\ r.currents # "CMEMS" => Passed(r.log, "CMEMS", forcingSetup.cmems)
       /\ p # "ERA5_LOCAL_FILE" => Passed(r.log, "ERA5_LOCAL_FILE", forcingSetup.local # "none")
  BY <1>4, <1>5, <1>7, <1>9 DEF Passed
<1>11. TellsOf(r, forcingSetup)
  BY <1>4, <1>5, <1>7, <1>9, <1>10 DEF TellsOf, BeforeWinds, OnWinds, OnDrift
<1>12. Flowed(r)
  BY <1>5, <1>7, <1>9 DEF Flowed
<1>13. r.asks = inquiry.asks /\ r.prior = inquiry.prior /\ r.clock = inquiry.clock /\ r.tries < Retries
  BY <1>2, <1>5, <1>7, BacktrackingAssumption
<1>14. inquiry.phase # "idle" /\ r.phase \notin BeforeWinds /\ r.phase \notin OnWinds
  BY <1>7 DEF Winds, BeforeWinds, OnWinds
<1> QED
  BY <1>7, <1>8, <1>11, <1>12, <1>13, <1>14, OnStep

LEMMA LocalStep == BackInv /\ BacktrackingAssumption /\ LocalWinds => BackInv'
<1> SUFFICES ASSUME BackInv, BacktrackingAssumption, LocalWinds PROVE BackInv'
  OBVIOUS
<1>1. /\ inquiry.phase = "ERA5_LOCAL_FILE" /\ Within(inquiry) /\ UNCHANGED <<forcingSetup, strays, estimate>>
      /\ inquiry' = IF LocalRefusal # None THEN PassOver(inquiry, "ERA5_LOCAL_FILE", LocalRefusal)
                    ELSE [Told(inquiry, "ERA5_LOCAL_FILE", "OK") EXCEPT !.winds = "ERA5_LOCAL_FILE", !.phase = "drift"]
      /\ TellsOf(inquiry, forcingSetup) /\ forcingSetup \in SetupType
  BY DEF LocalWinds, BackInv, BackTypes
<1>2. CASE LocalRefusal # None
  <2>1. forcingSetup.local \in {"missing", "short", "mixed", "wind"}
    BY <1>1 DEF TellsOf, SetupType
  <2>2. LocalRefusal \in Failures /\ "ERA5_LOCAL_FILE" \in Asked
    BY <1>2, <2>1 DEF LocalRefusal, Failures, None, Asked
  <2> QED
    BY <1>1, <1>2, <2>2, DryStep
<1>3. CASE LocalRefusal = None
  BY <1>1, <1>3, WindFound DEF Winds
<1> QED
  BY <1>2, <1>3

LEMMA CdsStep == BackInv /\ BacktrackingAssumption /\ CdsWinds => BackInv'
BY WindFound DEF CdsWinds, Winds

LEMMA PlaceStep == BackInv /\ BacktrackingAssumption /\ Place => BackInv'
<1> SUFFICES ASSUME BackInv, BacktrackingAssumption, Place PROVE BackInv'
  OBVIOUS
<1>1. /\ inquiry.phase = "drift" /\ UNCHANGED <<forcingSetup, strays, estimate>>
      /\ inquiry \in InquiryType /\ TellsOf(inquiry, forcingSetup) /\ Flowed(inquiry) /\ inquiry.tries < Retries
  BY DEF Place, BackInv, BackTypes
<1>2. PICK x \in Beginnings : inquiry' = [inquiry EXCEPT !.phase = "drifting", !.at = x, !.left = DriftSteps]
  BY DEF Place
<1>3. x \in Int /\ DriftSteps \in Nat
  BY Numbers, BacktrackingAssumption
<1>4. PICK q \in InquiryType : q = inquiry
  BY <1>1
<1>5. PICK r : r = [q EXCEPT !.phase = "drifting", !.at = x, !.left = DriftSteps]
  OBVIOUS
<1>6. /\ r \in InquiryType /\ r.phase = "drifting" /\ r.log = q.log /\ r.asks = q.asks /\ r.clock = q.clock
      /\ r.currents = q.currents /\ r.winds = q.winds /\ r.grid = q.grid /\ r.moved = q.moved /\ r.prior = q.prior
      /\ r.tries = q.tries
  BY <1>3, <1>5 DEF InquiryType, Stages
<1>7. inquiry' = r
  BY <1>2, <1>4, <1>5
<1>8. TellsOf(r, forcingSetup)
  BY <1>1, <1>4, <1>6 DEF TellsOf, BeforeWinds, OnWinds, OnDrift
<1>9. Flowed(r)
  BY <1>1, <1>4, <1>6 DEF Flowed
<1>10. r.phase \notin BeforeWinds /\ r.phase \notin OnWinds
  BY <1>6 DEF BeforeWinds, OnWinds
<1> QED
  BY <1>1, <1>4, <1>6, <1>7, <1>8, <1>9, <1>10, OnStep

LEMMA DriftStep == BackInv /\ BacktrackingAssumption /\ Drift => BackInv'
<1> SUFFICES ASSUME BackInv, BacktrackingAssumption, Drift PROVE BackInv'
  OBVIOUS
<1>1. /\ inquiry.phase = "drifting" /\ inquiry.left > 0 /\ UNCHANGED <<forcingSetup, strays, estimate>>
      /\ inquiry \in InquiryType /\ TellsOf(inquiry, forcingSetup) /\ Flowed(inquiry) /\ inquiry.tries < Retries
  BY DEF Drift, BackInv, BackTypes
<1>2. PICK blow \in {0, 1} :
        inquiry' = LET v == Sampled(inquiry.grid, inquiry.at) + blow
                   IN [inquiry EXCEPT !.left = @ - 1, !.at = @ - v,
                                      !.moved = Append(@, [from |-> inquiry.at, by |-> v, wind |-> blow])]
  <2>1. (IF inquiry.winds = None THEN {0} ELSE {0, 1}) \subseteq {0, 1}
    OBVIOUS
  <2> QED
    BY <2>1 DEF Drift
<1>3. PICK q \in InquiryType : q = inquiry
  BY <1>1
<1>4. q.grid \in Fields /\ q.at \in Int /\ q.left \in Nat /\ q.left > 0 /\ q.moved \in Seq(Leg)
  BY <1>1, <1>3 DEF InquiryType
<1>5. PICK v : v = Sampled(q.grid, q.at) + blow
  OBVIOUS
<1>6. PICK m : m = [from |-> q.at, by |-> Sampled(q.grid, q.at) + blow, wind |-> blow]
  OBVIOUS
<1>7. m \in Leg /\ OfWater(q.grid, m)
  BY <1>4, <1>6, MoveIsOfWater
<1>8. v \in Int /\ m = [from |-> q.at, by |-> v, wind |-> blow]
  BY <1>5, <1>6, <1>7 DEF Leg
<1>9. PICK r : r = [q EXCEPT !.left = @ - 1, !.at = @ - v, !.moved = Append(@, m)]
  OBVIOUS
<1>10. q.left - 1 \in Nat /\ q.at - v \in Int /\ Append(q.moved, m) \in Seq(Leg)
  BY <1>4, <1>7, <1>8
<1>11. r \in InquiryType /\ r.moved = Append(q.moved, m)
  BY <1>9, <1>10 DEF InquiryType
<1>12. /\ r.phase = q.phase /\ r.log = q.log /\ r.asks = q.asks /\ r.clock = q.clock /\ r.tries = q.tries
       /\ r.currents = q.currents /\ r.winds = q.winds /\ r.grid = q.grid /\ r.prior = q.prior
  BY <1>9 DEF InquiryType
<1>13. inquiry' = r
  BY <1>2, <1>3, <1>5, <1>8, <1>9
<1>14. TellsOf(r, forcingSetup)
  BY <1>1, <1>3, <1>12 DEF TellsOf
<1>15. Flowed(r)
  <2>1. \A k \in DOMAIN q.moved : OfWater(q.grid, q.moved[k])
    BY <1>1, <1>3 DEF Flowed
  <2>2. PICK old \in Seq(Leg) : old = q.moved
    BY <1>4
  <2>3. \A k \in DOMAIN Append(old, m) : Append(old, m)[k] = m \/ (k \in DOMAIN old /\ Append(old, m)[k] = old[k])
    BY <1>7
  <2>4. \A k \in DOMAIN r.moved : OfWater(r.grid, r.moved[k])
    BY <1>7, <1>11, <1>12, <2>1, <2>2, <2>3
  <2> QED
    BY <1>1, <1>3, <1>12, <2>4 DEF Flowed
<1>16. r.phase \notin BeforeWinds /\ r.phase \notin OnWinds
  BY <1>1, <1>3, <1>12 DEF BeforeWinds, OnWinds
<1> QED
  BY <1>1, <1>3, <1>11, <1>12, <1>13, <1>14, <1>15, <1>16, OnStep

LEMMA AnswerStep == BackInv /\ BacktrackingAssumption /\ Answer => BackInv'
<1> SUFFICES ASSUME BackInv, BacktrackingAssumption, Answer PROVE BackInv'
  OBVIOUS
<1>1. /\ inquiry.phase \in {"proximity", "drifting"} /\ Within(inquiry) /\ inquiry' = Ended(inquiry) /\ UNCHANGED <<forcingSetup, strays>>
      /\ inquiry \in InquiryType /\ TellsOf(inquiry, forcingSetup) /\ Flowed(inquiry) /\ inquiry.prior < ObservedAt
      /\ inquiry.asks <= MaxAsks /\ strays \in [Waits -> Nat] /\ LeftBehind(inquiry, strays)
      /\ forcingSetup \in SetupType
  BY DEF Answer, BackInv, BackTypes
<1>2. PICK age \in SlickAges \cup {0} : estimate' = EstimateOf(inquiry, age)
  BY DEF Answer
<1>3. PICK q \in InquiryType : q = inquiry
  BY <1>1
<1>4. age \in Nat /\ q.prior \in Nat /\ q.clock <= Ceiling
  BY <1>1, <1>3, BacktrackingAssumption DEF InquiryType, Within
<1>5. PICK w : w = ReleaseWindow(age, q.prior)
  OBVIOUS
<1>6. w.from < w.to /\ w.to <= ObservedAt /\ q.prior <= w.from /\ (w.bounded => w.from = q.prior)
  BY <1>1, <1>3, <1>4, <1>5, WindowOf
<1>7. PICK e : e = EstimateOf(q, age)
  OBVIOUS
<1>8. /\ e.method = IF q.phase = "proximity" THEN "FOOTPRINT_PROXIMITY" ELSE "LAGRANGIAN_BACKTRACK"
      /\ e.status = IF q.winds # None THEN "OK" ELSE "DEGRADED"
      /\ e.windStatus = IF q.phase = "proximity" THEN "NOT_ATTEMPTED" ELSE IF q.winds # None THEN "OBSERVED" ELSE "UNKNOWN"
      /\ e.log = q.log /\ e.currents = q.currents /\ e.winds = q.winds /\ e.grid = q.grid /\ e.moved = q.moved
      /\ e.window = w /\ e.prior = q.prior /\ e.clock = q.clock
  BY <1>5, <1>7 DEF EstimateOf
<1>9. RecordHolds(e)
  BY <1>1, <1>3, <1>6, <1>8 DEF RecordHolds, Flowed
<1>10. RecordTells(e, forcingSetup)
  <2>1. q.log \in Seq(Saying)
    BY DEF InquiryType
  <2>2. CASE q.phase = "proximity"
    <3>1. q.currents = None /\ q.winds = None /\ Passed(q.log, "HYCOM", TRUE) /\ Passed(q.log, "CMEMS", forcingSetup.cmems)
      BY <1>1, <1>3, <2>2 DEF TellsOf, None
    <3> QED
      BY <1>8, <2>1, <2>2, <3>1 DEF RecordTells
  <2>3. CASE q.phase = "drifting"
    <3>1. /\ q.currents # None
          /\ q.currents # "CMEMS" => Passed(q.log, "CMEMS", forcingSetup.cmems)
          /\ q.winds # "ERA5_LOCAL_FILE" => Passed(q.log, "ERA5_LOCAL_FILE", forcingSetup.local # "none")
          /\ q.winds = None => Passed(q.log, "ERA5_CDS", forcingSetup.cds)
      BY <1>1, <1>3, <2>3 DEF TellsOf, OnDrift, OnWinds
    <3> QED
      BY <1>8, <2>1, <2>3, <3>1 DEF RecordTells
  <2> QED
    BY <1>1, <1>3, <2>2, <2>3
<1>11. estimate' = e /\ e.method \in {None, "FOOTPRINT_PROXIMITY", "LAGRANGIAN_BACKTRACK"} /\ e.clock <= Ceiling
  BY <1>2, <1>3, <1>4, <1>7, <1>8
<1>12. /\ inquiry' \in InquiryType /\ inquiry'.asks = inquiry.asks /\ inquiry'.tries < Retries /\ inquiry'.prior < ObservedAt
       /\ inquiry'.phase = "idle"
       /\ TellsOf(inquiry', forcingSetup) /\ Flowed(inquiry') /\ Timely(inquiry')
  BY <1>1, EndStep
<1>13. LeftBehind(inquiry', strays')
  BY <1>1, <1>12 DEF LeftBehind, BeforeWinds, OnWinds
<1>14. BackTypes'
  BY <1>1, <1>12 DEF BackTypes
<1> QED
  BY <1>1, <1>9, <1>10, <1>11, <1>12, <1>13, <1>14 DEF BackInv

LEMMA BackStep == BackInv /\ [BacktrackNext]_backtrackVars => BackInv'
<1> SUFFICES ASSUME BackInv, [BacktrackNext]_backtrackVars PROVE BackInv'
  OBVIOUS
<1> USE BacktrackingAssumption
<1>1. CASE AskOrigin
  BY <1>1, AskStep
<1>2. CASE \E p \in {"CMEMS", "HYCOM", "ERA5_CDS"} : Errs(p) \/ SaysNothing(p)
  BY <1>2, ErrsStep, SilentStep
<1>3. CASE CmemsAnswers
  BY <1>3, CmemsStep
<1>4. CASE HycomAnswers
  BY <1>4, HycomStep
<1>5. CASE LocalWinds
  BY <1>5, LocalStep
<1>6. CASE CdsWinds
  BY <1>6, CdsStep
<1>7. CASE CallerLeaves
  BY <1>7, LeaveStep DEF CallerLeaves
<1>8. CASE Place
  BY <1>8, PlaceStep
<1>9. CASE Drift
  BY <1>9, DriftStep
<1>10. CASE Answer
  BY <1>10, AnswerStep
<1>11. CASE UNCHANGED backtrackVars
  BY <1>11 DEF BackInv, BackTypes, backtrackVars
<1> QED
  BY <1>1, <1>2, <1>3, <1>4, <1>5, <1>6, <1>7, <1>8, <1>9, <1>10, <1>11 DEF BacktrackNext

LEMMA BackInductive == BacktrackSpec => []BackInv
<1>1. BacktrackInit => BackInv
  BY InitBack, BacktrackingAssumption
<1> QED
  BY <1>1, BackStep, PTL DEF BacktrackSpec

\* The entries of the record are what it says of a provider.
LEMMA EntriesAre ==
  ASSUME estimate.log \in Seq(Saying), NEW p
  PROVE  Entries(p) = OutsOf(estimate.log, p)
<1>1. PICK log \in Seq(Saying) : log = estimate.log
  OBVIOUS
<1>2. \A k \in DOMAIN log : log[k].outcome \in Sayable
  <2> TAKE k \in DOMAIN log
  <2>1. log[k] \in Saying
    OBVIOUS
  <2> QED
    BY <2>1 DEF Saying
<1>3. Entries(p) = {e.outcome : e \in {log[k] : k \in {j \in DOMAIN log : log[j].provider = p}}}
  BY <1>1 DEF Entries
<1>4. \A o : o \in Entries(p) <=> \E k \in DOMAIN log : log[k].provider = p /\ log[k].outcome = o
  BY <1>3
<1>5. \A o : o \in OutsOf(log, p) <=> o \in Sayable /\ \E k \in DOMAIN log : log[k].provider = p /\ log[k].outcome = o
  BY DEF OutsOf
<1>6. \A o : o \in Entries(p) <=> o \in OutsOf(log, p)
  BY <1>2, <1>4, <1>5
<1> QED
  BY <1>1, <1>6

LEMMA BackInvHonest == BackInv /\ BacktrackingAssumption => BacktrackIsHonest
<1> SUFFICES ASSUME BackInv, BacktrackingAssumption PROVE BacktrackIsHonest
  OBVIOUS
<1>1. FallbackIsTold
  <2> SUFFICES ASSUME Recorded PROVE FallbackIsTold
    BY DEF FallbackIsTold
  <2>1. /\ estimate.log \in Seq(Saying)
        /\ (estimate.method = "LAGRANGIAN_BACKTRACK") = (estimate.currents # None)
        /\ (estimate.status = "OK") = (estimate.currents # None /\ estimate.winds # None)
        /\ estimate.currents # "CMEMS" => Passed(estimate.log, "CMEMS", forcingSetup.cmems)
        /\ estimate.currents = None => Passed(estimate.log, "HYCOM", TRUE)
        /\ estimate.windStatus # "NOT_ATTEMPTED" /\ estimate.winds # "ERA5_LOCAL_FILE" =>
             Passed(estimate.log, "ERA5_LOCAL_FILE", forcingSetup.local # "none")
        /\ estimate.windStatus = "UNKNOWN" => Passed(estimate.log, "ERA5_CDS", forcingSetup.cds)
    BY DEF BackInv, RecordTells, Recorded
  <2>2. \A p, c : Explains(p, c) <=> Passed(estimate.log, p, c)
    BY <2>1, EntriesAre DEF Explains, Passed
  <2> QED
    BY <2>1, <2>2 DEF FallbackIsTold
<1>2. CallsAreBounded
  <2>1. /\ inquiry.clock <= Ceiling + Retries * Deadline /\ estimate.clock <= Ceiling
        /\ strays \in [Waits -> Nat] /\ inquiry.asks <= MaxAsks /\ inquiry.asks \in Nat
        /\ \A p \in Waits : strays[p] <= inquiry.asks
    BY DEF BackInv, BackTypes, Timely, LeftBehind, InquiryType
  <2>2. \A p \in DOMAIN strays : strays[p] \in Nat /\ strays[p] <= inquiry.asks
    BY <2>1
  <2>3. \A p \in DOMAIN strays : strays[p] <= MaxAsks
    BY <2>1, <2>2, Numbers
  <2> QED
    BY <2>1, <2>3 DEF CallsAreBounded
<1>3. WindowHoldsEvidence
  BY DEF BackInv, RecordHolds, WindowHoldsEvidence, Recorded
<1>4. DriftIsOfWater
  BY DEF BackInv, RecordHolds, OfWater, DriftIsOfWater, Recorded
<1> QED
  BY <1>1, <1>2, <1>3, <1>4 DEF BacktrackIsHonest

\* Where a request stands, and what its record may be (BacktrackTypeOK).
THEOREM BacktrackTypeCorrect == BacktrackSpec => []BacktrackTypeOK
<1>1. BackInv => BacktrackTypeOK
  <2> SUFFICES ASSUME BackInv PROVE BacktrackTypeOK
    OBVIOUS
  <2>1. /\ inquiry \in InquiryType /\ inquiry.asks <= MaxAsks
        /\ estimate.method \in {None, "FOOTPRINT_PROXIMITY", "LAGRANGIAN_BACKTRACK"}
    BY DEF BackInv, BackTypes
  <2>2. inquiry.phase \in Stages /\ inquiry.tries \in 0 .. Retries /\ inquiry.asks \in 0 .. MaxAsks
    BY <2>1, BacktrackingAssumption DEF InquiryType
  <2> QED
    BY <2>1, <2>2 DEF BacktrackTypeOK, Stages
<1> QED
  BY <1>1, BackInductive, PTL

\* An estimate of an origin tells what it is made of and why of nothing better; a request is
\* bounded; the release window is one and begins by the last clear scene; and the drift is
\* that of the water around each particle (origin/service.ts, forcing.py, backtrack.py).
THEOREM BacktrackHonest == BacktrackSpec => []BacktrackIsHonest
<1>1. BackInv => BacktrackIsHonest
  BY BackInvHonest, BacktrackingAssumption
<1> QED
  BY <1>1, BackInductive, PTL

-----------------------------------------------------------------------------
(* Review desk: its inductive invariant *)

Feature  == [area : Int, contrast : Int, elongation : Int, risk : Int, sure : Int]
Outlines == Drawable \cup {0}
Reasons  == Categories \cup {NoneChosen}
Verdicts == {"AUTO_CONFIRMED", "AUTO_REJECTED", "UNREVIEWED"}
Statuses == Verdicts \cup {"CONFIRMED", "REJECTED", "EDITED"}
Entry    == [action : DOMAIN StatusAfter, note : Nat, category : Reasons, before : Outlines \cup {-1},
             by : {"caller", "dialog"}, seen : Outlines]
FoundDoc    == [feature : Feature, triaged : BOOLEAN, status : Statuses, outline : Outlines,
             area : Int, drift : BOOLEAN, missed : BOOLEAN, history : Seq(Entry)]
DialogType == [of : Nat, status : Statuses \cup {NoneChosen}, outline : Outlines,
               note : Nat, category : Reasons]

ReviewTypes ==
  /\ finds \in Seq(FoundDoc) /\ dialog \in DialogType
  /\ reviewTrail \in Seq([of : Nat, before : Statuses, was : Statuses, after : Statuses]) /\ Len(reviewTrail) <= MaxReviewed

\* A status is that of the last review, or the machine's where nobody reviewed.
StatusIsLast(d) ==
  /\ d.history = << >> => d.status = IF d.triaged THEN AutoStatus(d.feature) ELSE "UNREVIEWED"
  /\ d.history # << >> => d.status = StatusAfter[d.history[Len(d.history)].action]
ReasonsAreOf(i, d) ==
  \A k \in DOMAIN d.history :
    /\ d.history[k].note \in {NoNote, i}
    /\ d.history[k].action = "REJECT" => d.history[k].note = i /\ d.history[k].category # NoneChosen
OutlineOf(d) ==
  /\ ByAnalyst(d) <=> d.outline # 0
  /\ d.area = IF d.outline = 0 THEN d.feature.area ELSE AreaDrawn[d.outline]
\* The note is of the detection the dialog shows.
DialogIsOf == dialog.of \in 0 .. Len(finds) /\ dialog.note \in {NoNote, dialog.of}
BestFirst(f) ==
  \A i, j \in DOMAIN f :
    f[i].drift =>
      /\ f[i].triaged
      /\ f[j].triaged /\ ~f[j].drift /\ ~f[j].missed /\ AutoStatus(f[i].feature) # "AUTO_CONFIRMED" =>
           TriageScore(f[j].feature) <= TriageScore(f[i].feature)

ReviewInv ==
  /\ ReviewTypes /\ DialogIsOf /\ BestFirst(finds)
  /\ \A i \in DOMAIN finds : StatusIsLast(finds[i]) /\ ReasonsAreOf(i, finds[i]) /\ OutlineOf(finds[i])

-----------------------------------------------------------------------------
(* Triage *)

\* The number of a score is one, and grows with what it weighs.
LEMMA SignificanceGrows ==
  \A a, b \in Int : /\ Significance(a) \in Int /\ Significance(a) >= 0
                    /\ a >= b => Significance(a) >= Significance(b)
<1>1. \A a \in Int : Significance(a) = IF a <= 0 THEN 0 ELSE IF a <= 9 THEN 131 ELSE IF a <= 99 THEN 452
                                       ELSE IF a <= 999 THEN 870 ELSE 1000
  <2> TAKE a \in Int
  <2>1. CASE a <= 0
    BY <2>1 DEF Significance
  <2>2. CASE a \in 1 .. 9
    BY <2>2 DEF Significance
  <2>3. CASE a \in 10 .. 99
    BY <2>3 DEF Significance
  <2>4. CASE a \in 100 .. 999
    BY <2>4 DEF Significance
  <2>5. CASE a > 999
    BY <2>5 DEF Significance
  <2> QED
    BY <2>1, <2>2, <2>3, <2>4, <2>5
<1> QED
  BY <1>1

LEMMA InterpretabilityGrows ==
  ASSUME NEW a \in Int, NEW b \in Int
  PROVE  /\ Interpretability(a) \in Int /\ Interpretability(a) >= 0
         /\ Depth(a) >= Depth(b) /\ (a = NoContrast <=> b = NoContrast) => Interpretability(a) >= Interpretability(b)
<1>1. \A c \in Int : Min({1000, 100 * c}) = IF 1000 <= 100 * c THEN 1000 ELSE 100 * c
  <2> TAKE c \in Int
  <2>1. PICK S : S = {1000, 100 * c}
    OBVIOUS
  <2>2. 100 * c \in Int /\ 1000 \in Int
    OBVIOUS
  <2>3. Min(S) \in S /\ Min(S) <= 1000 /\ Min(S) <= 100 * c
    BY <2>1, <2>2, LeastOfTwo
  <2> QED
    BY <2>1, <2>2, <2>3
<1>2. /\ Depth(a) \in Int /\ Depth(a) >= 0
      /\ Depth(b) \in Int /\ Depth(b) >= 0
  BY DEF Depth
<1>3. PICK m \in Int : m = Depth(a)
  BY <1>2
<1>4. PICK n \in Int : n = Depth(b)
  BY <1>2
<1>5. /\ Interpretability(a) = IF a = NoContrast THEN 500 ELSE IF 1000 <= 100 * m THEN 1000 ELSE 100 * m
      /\ Interpretability(b) = IF b = NoContrast THEN 500 ELSE IF 1000 <= 100 * n THEN 1000 ELSE 100 * n
  BY <1>1, <1>3, <1>4 DEF Interpretability
<1> QED
  BY <1>2, <1>3, <1>4, <1>5

LEMMA AttributabilityGrows ==
  ASSUME NEW a \in Int, NEW b \in Int
  PROVE  /\ Attributability(a) \in Int /\ Attributability(a) >= 0
         /\ a >= b => Attributability(a) >= Attributability(b)
<1>1. \A c \in Int : Attributability(c) = IF 250 * c <= 0 THEN 0 ELSE IF 1000 <= 250 * c THEN 1000 ELSE 250 * c
  <2> TAKE c \in Int
  <2>1. PICK S : S = {1000, 250 * c}
    OBVIOUS
  <2>2. 250 * c \in Int /\ 1000 \in Int /\ 0 \in Int
    OBVIOUS
  <2>3. Min(S) \in S /\ Min(S) <= 1000 /\ Min(S) <= 250 * c
    BY <2>1, <2>2, LeastOfTwo
  <2>4. Min(S) \in Int /\ Min(S) = IF 1000 <= 250 * c THEN 1000 ELSE 250 * c
    BY <2>1, <2>2, <2>3
  <2>5. PICK m \in Int : m = Min(S)
    BY <2>4
  <2>6. PICK T : T = {0, m}
    OBVIOUS
  <2>7. Max(T) \in T /\ Max(T) >= 0 /\ Max(T) >= m
    BY <2>2, <2>6, LeastOfTwo
  <2>8. Attributability(c) = Max(T)
    BY <2>1, <2>5, <2>6 DEF Attributability
  <2> QED
    BY <2>2, <2>4, <2>5, <2>6, <2>7, <2>8
<1> QED
  BY <1>1

LEMMA ScoreGrows ==
  ASSUME NEW f \in Feature, NEW g \in Feature
  PROVE  /\ TriageScore(f) \in Int /\ TriageScore(f) >= 0
         /\ AtLeast(f, g) => TriageScore(f) >= TriageScore(g)
         /\ f.area = g.area /\ f.contrast = g.contrast /\ f.elongation = g.elongation => TriageScore(f) = TriageScore(g)
<1>1. /\ f.area \in Int /\ f.contrast \in Int /\ f.elongation \in Int
      /\ g.area \in Int /\ g.contrast \in Int /\ g.elongation \in Int
  BY DEF Feature
<1>2. /\ Significance(f.area) \in Int /\ Interpretability(f.contrast) \in Int /\ Attributability(f.elongation) \in Int
      /\ Significance(g.area) \in Int /\ Interpretability(g.contrast) \in Int /\ Attributability(g.elongation) \in Int
  BY <1>1, SignificanceGrows, InterpretabilityGrows, AttributabilityGrows
<1>3. \A a, b, c \in Int : /\ (45 * a + 35 * b + 20 * c) \div 100 \in Int
                            /\ a >= 0 /\ b >= 0 /\ c >= 0 => (45 * a + 35 * b + 20 * c) \div 100 >= 0
  OBVIOUS
<1>4. \A a, b, c, x, y, z \in Int : a >= x /\ b >= y /\ c >= z => (45 * a + 35 * b + 20 * c) \div 100 >= (45 * x + 35 * y + 20 * z) \div 100
  OBVIOUS
<1>5. TriageScore(f) \in Int /\ TriageScore(f) >= 0
  <2>1. Significance(f.area) >= 0 /\ Interpretability(f.contrast) >= 0 /\ Attributability(f.elongation) >= 0
    BY <1>1, SignificanceGrows, InterpretabilityGrows, AttributabilityGrows
  <2> QED
    BY <1>2, <1>3, <2>1 DEF TriageScore
<1>6. AtLeast(f, g) => TriageScore(f) >= TriageScore(g)
  <2> SUFFICES ASSUME AtLeast(f, g) PROVE TriageScore(f) >= TriageScore(g)
    OBVIOUS
  <2>1. /\ Significance(f.area) >= Significance(g.area) /\ Interpretability(f.contrast) >= Interpretability(g.contrast)
        /\ Attributability(f.elongation) >= Attributability(g.elongation)
    BY <1>1, SignificanceGrows, InterpretabilityGrows, AttributabilityGrows DEF AtLeast
  <2> QED
    BY <1>2, <1>4, <2>1 DEF TriageScore
<1>7. f.area = g.area /\ f.contrast = g.contrast /\ f.elongation = g.elongation => TriageScore(f) = TriageScore(g)
  BY DEF TriageScore
<1> QED
  BY <1>5, <1>6, <1>7

\* What is left out of the best is not above what is among them.
LEMMA SelectedAreBest ==
  ASSUME NEW found \in Seq(Feature), ReviewDeskAssumption,
         NEW i \in Selected(found), NEW j \in DOMAIN found \ Selected(found)
  PROVE  TriageScore(found[j]) <= TriageScore(found[i])
<1> DEFINE above(k) == {m \in DOMAIN found : TriageScore(found[m]) > TriageScore(found[k])
                                            \/ (TriageScore(found[m]) = TriageScore(found[k]) /\ m < k)}
<1>1. /\ Selected(found) = {k \in DOMAIN found : TriageScore(found[k]) >= Eligible /\ Cardinality(above(k)) < PerScene}
      /\ Eligible \in Int /\ PerScene \in Nat
  BY ReviewDeskAssumption DEF Selected
<1>2. \A k \in DOMAIN found : TriageScore(found[k]) \in Int
  <2> TAKE k \in DOMAIN found
  <2>1. found[k] \in Feature
    OBVIOUS
  <2> QED
    BY <2>1, ScoreGrows
<1>3. \A k : IsFiniteSet(above(k)) /\ Cardinality(above(k)) \in Nat
  <2> TAKE k
  <2>1. above(k) \subseteq 1 .. Len(found) /\ Len(found) \in Nat
    OBVIOUS
  <2>2. IsFiniteSet(1 .. Len(found))
    BY <2>1, FS_Interval
  <2> QED
    BY <2>1, <2>2, FS_Subset, FS_CardinalityType
<1> SUFFICES ASSUME ~(TriageScore(found[j]) <= TriageScore(found[i])) PROVE FALSE
  OBVIOUS
<1>4. i \in DOMAIN found /\ TriageScore(found[i]) >= Eligible /\ Cardinality(above(i)) < PerScene
  BY <1>1
<1>5. TriageScore(found[j]) > TriageScore(found[i]) /\ TriageScore(found[j]) >= Eligible
  BY <1>1, <1>2, <1>4
<1>6. ~(Cardinality(above(j)) < PerScene)
  <2> HIDE DEF above
  <2> QED
    BY <1>1, <1>5
<1>7. above(j) \subseteq above(i)
  <2> SUFFICES ASSUME NEW m \in above(j) PROVE m \in above(i)
    OBVIOUS
  <2>1. m \in DOMAIN found /\ TriageScore(found[m]) >= TriageScore(found[j])
    BY <1>2
  <2>2. TriageScore(found[m]) > TriageScore(found[i])
    BY <1>2, <1>4, <1>5, <2>1
  <2> QED
    BY <2>1, <2>2
<1>8. Cardinality(above(j)) <= Cardinality(above(i))
  <2> HIDE DEF above
  <2> QED
    BY <1>3, <1>7, FS_Subset
<1> HIDE DEF above
<1> QED
  BY <1>1, <1>3, <1>4, <1>6, <1>8

-----------------------------------------------------------------------------
(* The steps *)

LEMMA VerdictOf == \A f : AutoStatus(f) \in Verdicts
BY DEF AutoStatus, Verdicts

LEMMA InitReview == DeskInit /\ ReviewDeskAssumption => ReviewInv
<1> SUFFICES ASSUME DeskInit, ReviewDeskAssumption PROVE ReviewInv
  OBVIOUS
<1>1. finds = << >> /\ dialog = NoDialog /\ reviewTrail = << >> /\ DOMAIN finds = {}
  BY DEF DeskInit
<1>2. dialog \in DialogType /\ DialogIsOf
  BY <1>1 DEF NoDialog, DialogType, DialogIsOf, Outlines, Reasons, NoNote
<1>3. ReviewTypes
  BY <1>1, <1>2, ReviewDeskAssumption DEF ReviewTypes
<1> QED
  BY <1>1, <1>2, <1>3 DEF ReviewInv, BestFirst

\* A new document is of the detector, and nobody has reviewed it.
NewOf(d, f, triaged, drift, missed) ==
  /\ d \in FoundDoc /\ d.feature = f /\ d.triaged = triaged /\ d.drift = drift /\ d.missed = missed
  /\ StatusIsLast(d) /\ OutlineOf(d) /\ \A i : ReasonsAreOf(i, d)

LEMMA DocumentIs ==
  \A f \in Feature : \A triaged, drift, missed \in BOOLEAN :
    \A d : d = Document(f, triaged, drift, missed) => NewOf(d, f, triaged, drift, missed)
<1> SUFFICES ASSUME NEW f \in Feature, NEW triaged \in BOOLEAN, NEW drift \in BOOLEAN, NEW missed \in BOOLEAN,
                    NEW d, d = Document(f, triaged, drift, missed)
             PROVE  NewOf(d, f, triaged, drift, missed)
  OBVIOUS
<1>1. PICK status \in Statuses : status = IF triaged THEN AutoStatus(f) ELSE "UNREVIEWED"
  BY VerdictOf DEF Statuses, Verdicts
<1>2. d = [feature |-> f, triaged |-> triaged, status |-> status, outline |-> 0, area |-> f.area,
           drift |-> drift, missed |-> missed, history |-> << >>]
  BY <1>1 DEF Document
<1>3. f.area \in Int /\ 0 \in Outlines
  BY DEF Feature, Outlines
<1>4. /\ d.feature = f /\ d.triaged = triaged /\ d.drift = drift /\ d.missed = missed
      /\ d.status = status /\ d.outline = 0 /\ d.area = d.feature.area /\ d.history = << >>
  BY <1>2
<1>5. d \in FoundDoc
  BY <1>2, <1>3 DEF FoundDoc
<1>6. StatusIsLast(d) /\ OutlineOf(d) /\ \A i : ReasonsAreOf(i, d)
  BY <1>1, <1>4 DEF StatusIsLast, OutlineOf, ReasonsAreOf, ByAnalyst
<1> QED
  BY <1>4, <1>5, <1>6 DEF NewOf

\* Documents that come in are appended to those of the case.
LEMMA Joined ==
  ASSUME ReviewInv, NEW more \in Seq(FoundDoc), finds' = finds \o more, UNCHANGED <<dialog, reviewTrail>>,
         \A i \in DOMAIN more : StatusIsLast(more[i]) /\ OutlineOf(more[i]) /\ \A k : ReasonsAreOf(k, more[i]),
         BestFirst(finds')
  PROVE  ReviewInv'
<1>1. PICK old \in Seq(FoundDoc) : old = finds
  BY DEF ReviewInv, ReviewTypes
<1>2. PICK all : all = old \o more
  OBVIOUS
<1>3. /\ all \in Seq(FoundDoc) /\ Len(old) \in Nat /\ Len(more) \in Nat /\ Len(all) = Len(old) + Len(more)
      /\ \A i \in DOMAIN all : \/ i \in DOMAIN old /\ all[i] = old[i]
                               \/ \E k \in DOMAIN more : all[i] = more[k]
  BY <1>2
<1>4. finds' = all
  BY <1>1, <1>2
<1>5. ASSUME NEW i \in DOMAIN all
      PROVE  StatusIsLast(all[i]) /\ ReasonsAreOf(i, all[i]) /\ OutlineOf(all[i])
  <2>1. CASE i \in DOMAIN old /\ all[i] = old[i]
    BY <1>1, <2>1 DEF ReviewInv
  <2>2. CASE \E k \in DOMAIN more : all[i] = more[k]
    BY <2>2
  <2> QED
    BY <1>3, <1>5, <2>1, <2>2
<1>6. DialogIsOf'
  BY <1>1, <1>3, <1>4 DEF ReviewInv, DialogIsOf
<1>7. ReviewTypes'
  BY <1>3, <1>4 DEF ReviewInv, ReviewTypes
<1> QED
  BY <1>4, <1>5, <1>6, <1>7 DEF ReviewInv

LEMMA IngestedStep == ReviewInv /\ ReviewDeskAssumption /\ Ingested => ReviewInv'
<1> SUFFICES ASSUME ReviewInv, ReviewDeskAssumption, Ingested PROVE ReviewInv'
  OBVIOUS
<1> DEFINE queued(found, missed, i) == i \in Selected(found) \ missed \/ AutoStatus(found[i]) = "AUTO_CONFIRMED"
<1>1. PICK found \in FoundSets : \E missed \in SUBSET Selected(found) :
        finds' = finds \o [i \in DOMAIN found |-> Document(found[i], TRUE, queued(found, missed, i), i \in missed)]
  BY DEF Ingested
<1>2. PICK missed \in SUBSET Selected(found) :
        finds' = finds \o [i \in DOMAIN found |-> Document(found[i], TRUE, queued(found, missed, i), i \in missed)]
  BY <1>1
<1>3. found \in Seq(Feature)
  BY ReviewDeskAssumption DEF Feature
<1>4. PICK more : more = [i \in DOMAIN found |-> Document(found[i], TRUE, queued(found, missed, i), i \in missed)]
  OBVIOUS
<1>5. DOMAIN more = 1 .. Len(found) /\ DOMAIN found = 1 .. Len(found) /\ Len(found) \in Nat
  BY <1>3, <1>4
<1>6. ASSUME NEW i \in DOMAIN found
      PROVE  /\ more[i] \in FoundDoc /\ more[i].feature = found[i] /\ more[i].triaged = TRUE
             /\ more[i].drift = queued(found, missed, i) /\ more[i].missed = (i \in missed)
             /\ StatusIsLast(more[i]) /\ OutlineOf(more[i]) /\ \A k : ReasonsAreOf(k, more[i])
  <2>1. PICK f \in Feature : f = found[i]
    BY <1>3
  <2>2. PICK drift \in BOOLEAN : drift = queued(found, missed, i)
    OBVIOUS
  <2>a. \E over \in BOOLEAN : over = (i \in missed)
    <3>1. CASE i \in missed
      <4>1. TRUE = (i \in missed) /\ TRUE \in BOOLEAN
        BY <3>1
      <4> QED
        BY <4>1
    <3>2. CASE i \notin missed
      <4>1. FALSE = (i \in missed) /\ FALSE \in BOOLEAN
        BY <3>2
      <4> QED
        BY <4>1
    <3> QED
      BY <3>1, <3>2
  <2>3. PICK over \in BOOLEAN : over = (i \in missed)
    BY <2>a
  <2>4. more[i] = Document(f, TRUE, drift, over)
    BY <1>4, <2>1, <2>2, <2>3
  <2>5. PICK d : d = Document(f, TRUE, drift, over)
    OBVIOUS
  <2>6. PICK yes \in BOOLEAN : yes = TRUE
    OBVIOUS
  <2>7. d = Document(f, yes, drift, over)
    BY <2>5, <2>6
  <2>8. /\ d \in FoundDoc /\ d.feature = f /\ d.triaged = yes /\ d.drift = drift /\ d.missed = over
        /\ StatusIsLast(d) /\ OutlineOf(d) /\ \A k : ReasonsAreOf(k, d)
    <3>1. NewOf(d, f, yes, drift, over)
      BY <2>7, DocumentIs
    <3> QED
      BY <3>1 DEF NewOf
  <2>9. more[i] = d
    BY <2>4, <2>5
  <2> HIDE DEF queued
  <2> QED
    BY <2>1, <2>2, <2>3, <2>6, <2>8, <2>9
<1> HIDE DEF queued
<1>7. more \in Seq(FoundDoc)
  <2>1. PICK n \in Nat : n = Len(found)
    BY <1>5
  <2>2. more \in [1 .. n -> FoundDoc]
    BY <1>4, <1>5, <1>6, <2>1
  <2> QED
    BY <2>2, SeqDef
<1>8. /\ finds \in Seq(FoundDoc) /\ BestFirst(finds) /\ \A i \in DOMAIN finds : ~finds[i].triaged
  BY DEF ReviewInv, ReviewTypes, Ingested
<1>9. PICK all : all = finds \o more
  OBVIOUS
<1>10. \A i \in DOMAIN all : \/ i \in DOMAIN finds /\ all[i] = finds[i]
                             \/ \E k \in DOMAIN more : all[i] = more[k]
  BY <1>7, <1>8, <1>9
<1>11. \A i \in DOMAIN finds : ~finds[i].drift
  BY <1>8 DEF BestFirst
<1>12. BestFirst(all)
  <2> SUFFICES ASSUME NEW i \in DOMAIN all, NEW j \in DOMAIN all, all[i].drift
               PROVE  /\ all[i].triaged
                      /\ all[j].triaged /\ ~all[j].drift /\ ~all[j].missed /\ AutoStatus(all[i].feature) # "AUTO_CONFIRMED" =>
                           TriageScore(all[j].feature) <= TriageScore(all[i].feature)
    BY DEF BestFirst
  <2>1. PICK k \in DOMAIN found : all[i] = more[k]
    BY <1>5, <1>10, <1>11
  <2>2. all[i].triaged
    BY <1>6, <2>1
  <2>3. ASSUME all[j].triaged, ~all[j].drift, ~all[j].missed, AutoStatus(all[i].feature) # "AUTO_CONFIRMED"
        PROVE  TriageScore(all[j].feature) <= TriageScore(all[i].feature)
    <3>1. PICK l \in DOMAIN found : all[j] = more[l]
      BY <1>5, <1>8, <1>10, <2>3
    <3>2. k \in Selected(found) /\ l \notin Selected(found)
      BY <1>6, <2>1, <2>3, <3>1 DEF queued
    <3>3. TriageScore(found[l]) <= TriageScore(found[k])
      BY <1>3, <3>2, SelectedAreBest
    <3> QED
      BY <1>6, <2>1, <3>1, <3>3
  <2> QED
    BY <2>2, <2>3
<1>13. finds' = finds \o more /\ BestFirst(finds')
  BY <1>2, <1>4, <1>9, <1>12 DEF queued
<1> QED
  BY <1>5, <1>6, <1>7, <1>13, Joined DEF Ingested

LEMMA DetectionRunStep == ReviewInv /\ ReviewDeskAssumption /\ DetectionRun => ReviewInv'
<1> SUFFICES ASSUME ReviewInv, ReviewDeskAssumption, DetectionRun PROVE ReviewInv'
  OBVIOUS
<1>1. PICK found \in FoundSets : finds' = finds \o [i \in DOMAIN found |-> Document(found[i], FALSE, FALSE, FALSE)]
  BY DEF DetectionRun
<1>2. found \in Seq(Feature)
  BY ReviewDeskAssumption DEF Feature
<1>3. PICK more : more = [i \in DOMAIN found |-> Document(found[i], FALSE, FALSE, FALSE)]
  OBVIOUS
<1>4. DOMAIN more = 1 .. Len(found) /\ DOMAIN found = 1 .. Len(found) /\ Len(found) \in Nat
  BY <1>2, <1>3
<1>5. ASSUME NEW i \in DOMAIN found
      PROVE  /\ more[i] \in FoundDoc /\ more[i].triaged = FALSE /\ more[i].drift = FALSE
             /\ StatusIsLast(more[i]) /\ OutlineOf(more[i]) /\ \A k : ReasonsAreOf(k, more[i])
  <2>1. PICK f \in Feature : f = found[i]
    BY <1>2
  <2>2. PICK no \in BOOLEAN : no = FALSE
    OBVIOUS
  <2>3. PICK d : d = Document(f, no, no, no)
    OBVIOUS
  <2>4. /\ d \in FoundDoc /\ d.triaged = no /\ d.drift = no
        /\ StatusIsLast(d) /\ OutlineOf(d) /\ \A k : ReasonsAreOf(k, d)
    <3>1. NewOf(d, f, no, no, no)
      BY <2>3, DocumentIs
    <3> QED
      BY <3>1 DEF NewOf
  <2>5. more[i] = d
    BY <1>3, <2>1, <2>2, <2>3
  <2> QED
    BY <2>2, <2>4, <2>5
<1>6. more \in Seq(FoundDoc)
  <2>1. PICK n \in Nat : n = Len(found)
    BY <1>4
  <2>2. more \in [1 .. n -> FoundDoc]
    BY <1>3, <1>4, <1>5, <2>1
  <2> QED
    BY <2>2, SeqDef
<1>7. finds \in Seq(FoundDoc) /\ BestFirst(finds)
  BY DEF ReviewInv, ReviewTypes
<1>8. PICK all : all = finds \o more
  OBVIOUS
<1>9. \A i \in DOMAIN all : \/ i \in DOMAIN finds /\ all[i] = finds[i]
                            \/ \E k \in DOMAIN more : all[i] = more[k]
  BY <1>6, <1>7, <1>8
<1>10. \A i \in DOMAIN all : all[i].drift \/ all[i].triaged => i \in DOMAIN finds /\ all[i] = finds[i]
  BY <1>4, <1>5, <1>9
<1>11. BestFirst(all)
  BY <1>7, <1>10 DEF BestFirst
<1>12. finds' = finds \o more /\ BestFirst(finds')
  BY <1>1, <1>3, <1>8, <1>11
<1> QED
  BY <1>4, <1>5, <1>6, <1>12, Joined DEF DetectionRun

\* A review is the last of its detection, and leaves the others alone.
LEMMA ReviewedKeeps ==
  ASSUME ReviewInv, ReviewDeskAssumption, NEW i \in DOMAIN finds, NEW action \in DOMAIN StatusAfter,
         NEW note \in {NoNote, i}, NEW category \in Reasons, NEW drawn \in Outlines,
         NEW by \in {"caller", "dialog"}, NEW seen \in Outlines,
         Reviewed(i, action, note, category, drawn, by, seen)
  PROVE  /\ finds' \in Seq(FoundDoc) /\ Len(finds') = Len(finds)
         /\ reviewTrail' \in Seq([of : Nat, before : Statuses, was : Statuses, after : Statuses]) /\ Len(reviewTrail') <= MaxReviewed
         /\ BestFirst(finds')
         /\ \A j \in DOMAIN finds' : StatusIsLast(finds'[j]) /\ ReasonsAreOf(j, finds'[j]) /\ OutlineOf(finds'[j])
         /\ finds'[i].status = StatusAfter[action]
<1>1. /\ finds \in Seq(FoundDoc) /\ BestFirst(finds) /\ i \in Nat /\ i # 0
      /\ \A j \in DOMAIN finds : StatusIsLast(finds[j]) /\ ReasonsAreOf(j, finds[j]) /\ OutlineOf(finds[j])
      /\ reviewTrail \in Seq([of : Nat, before : Statuses, was : Statuses, after : Statuses])
  BY DEF ReviewInv, ReviewTypes
<1>2. PICK d \in FoundDoc : d = finds[i]
  BY <1>1
<1>3. PICK entry : entry = [action |-> action, note |-> note, category |-> IF action = "REJECT" THEN category ELSE NoneChosen,
                before |-> IF action = "EDIT" THEN d.outline ELSE -1, by |-> by, seen |-> seen]
  OBVIOUS
<1>4. PICK area : area = IF action = "EDIT" THEN AreaDrawn[drawn] ELSE d.area
  OBVIOUS
<1>5. PICK outline : outline = IF action = "EDIT" THEN drawn ELSE d.outline
  OBVIOUS
<1>6. /\ ~Refused(action, note, category, drawn) /\ Len(reviewTrail) < MaxReviewed
      /\ finds' = [finds EXCEPT ![i].status = StatusAfter[action], ![i].area = area,
                                ![i].outline = outline, ![i].history = Append(@, entry)]
      /\ reviewTrail' = Append(reviewTrail, [of |-> i, before |-> StatusAfter[action], was |-> d.status, after |-> StatusAfter[action]])
  BY <1>2, <1>3, <1>4, <1>5 DEF Reviewed
<1>7. PICK h \in Seq(Entry) : h = d.history
  BY DEF FoundDoc
<1>8. PICK e : e = [d EXCEPT !.status = StatusAfter[action], !.area = area, !.outline = outline, !.history = Append(h, entry)]
  OBVIOUS
<1>9. finds' = [finds EXCEPT ![i] = e]
  BY <1>1, <1>2, <1>6, <1>7, <1>8
<1>10. StatusAfter[action] \in Statuses
  BY DEF StatusAfter, Statuses, Verdicts
<1>11. entry \in Entry /\ entry.action = action /\ entry.note = note
       /\ entry.category = (IF action = "REJECT" THEN category ELSE NoneChosen)
  <2>1. d.outline \in Outlines
    BY DEF FoundDoc
  <2>2. note \in Nat
    BY <1>1 DEF NoNote
  <2> QED
    BY <1>3, <2>1, <2>2 DEF Entry, Reasons
<1>12. action = "EDIT" => drawn \in Drawable /\ drawn # 0 /\ area \in Int
  <2> SUFFICES ASSUME action = "EDIT" PROVE drawn \in Drawable /\ drawn # 0 /\ area \in Int
    OBVIOUS
  <2>1. drawn # 0
    BY <1>6 DEF Refused
  <2>2. drawn \in DOMAIN AreaDrawn
    BY <2>1 DEF Outlines, Drawable
  <2> QED
    BY <1>4, <2>1, <2>2, ReviewDeskAssumption DEF Drawable
<1>13. area \in Int /\ outline \in Outlines
  BY <1>4, <1>5, <1>12 DEF FoundDoc, Outlines
<1>14. /\ e \in FoundDoc /\ e.feature = d.feature /\ e.drift = d.drift /\ e.status = StatusAfter[action]
       /\ e.triaged = d.triaged /\ e.missed = d.missed
       /\ e.area = area /\ e.outline = outline /\ e.history = Append(h, entry)
  <2>a. entry \in Entry
    BY <1>11
  <2>b. Append(h, entry) \in Seq(Entry)
    BY <2>a
  <2>1. PICK hist \in Seq(Entry) : hist = Append(h, entry)
    BY <2>b
  <2>2. PICK status \in Statuses : status = StatusAfter[action]
    BY <1>10
  <2>3. e = [d EXCEPT !.status = status, !.area = area, !.outline = outline, !.history = hist]
    BY <1>8, <2>1, <2>2
  <2>4. /\ e \in FoundDoc /\ e.feature = d.feature /\ e.drift = d.drift /\ e.status = status
        /\ e.triaged = d.triaged /\ e.missed = d.missed
        /\ e.area = area /\ e.outline = outline /\ e.history = hist
    BY <1>13, <2>3 DEF FoundDoc
  <2> QED
    BY <2>1, <2>2, <2>4
<1>15. /\ finds' \in Seq(FoundDoc) /\ Len(finds') = Len(finds) /\ DOMAIN finds' = DOMAIN finds
       /\ finds'[i] = e /\ \A j \in DOMAIN finds : j # i => finds'[j] = finds[j]
  BY <1>1, <1>9, <1>14
<1>16. Append(h, entry) # << >> /\ Len(Append(h, entry)) = Len(h) + 1 /\ Append(h, entry)[Len(h) + 1] = entry
       /\ DOMAIN Append(h, entry) = DOMAIN h \cup {Len(h) + 1} /\ \A k \in DOMAIN h : Append(h, entry)[k] = h[k]
  BY <1>11
<1>17. StatusIsLast(e)
  BY <1>11, <1>14, <1>16 DEF StatusIsLast
<1>18. ReasonsAreOf(i, e)
  <2>1. \A k \in DOMAIN h : /\ h[k].note \in {NoNote, i}
                            /\ h[k].action = "REJECT" => h[k].note = i /\ h[k].category # NoneChosen
    BY <1>1, <1>2, <1>7 DEF ReasonsAreOf
  <2>2. entry.note \in {NoNote, i} /\ (entry.action = "REJECT" => entry.note = i /\ entry.category # NoneChosen)
    BY <1>6, <1>11 DEF Refused
  <2>3. PICK hist : hist = Append(h, entry)
    OBVIOUS
  <2>4. \A k \in DOMAIN hist : hist[k] = entry \/ (k \in DOMAIN h /\ hist[k] = h[k])
    BY <1>16, <2>3
  <2>5. \A k \in DOMAIN hist : /\ hist[k].note \in {NoNote, i}
                               /\ hist[k].action = "REJECT" => hist[k].note = i /\ hist[k].category # NoneChosen
    BY <2>1, <2>2, <2>4
  <2>6. e.history = hist
    BY <1>14, <2>3
  <2>8. \A k \in DOMAIN e.history :
          /\ e.history[k].note \in {NoNote, i}
          /\ e.history[k].action = "REJECT" => e.history[k].note = i /\ e.history[k].category # NoneChosen
    <3> TAKE k \in DOMAIN e.history
    <3>1. k \in DOMAIN hist /\ e.history[k] = hist[k]
      BY <2>6
    <3>2. hist[k].note \in {NoNote, i} /\ (hist[k].action = "REJECT" => hist[k].note = i /\ hist[k].category # NoneChosen)
      BY <2>5, <3>1
    <3> QED
      BY <3>1, <3>2
  <2> QED
    BY <2>8, Zenon DEF ReasonsAreOf
<1>19. OutlineOf(e)
  <2>1. (\E k \in DOMAIN h : h[k].action = "EDIT") <=> d.outline # 0
    BY <1>1, <1>2, <1>7 DEF OutlineOf, ByAnalyst
  <2>2. d.area = IF d.outline = 0 THEN d.feature.area ELSE AreaDrawn[d.outline]
    BY <1>1, <1>2 DEF OutlineOf
  <2>3. ByAnalyst(e) <=> (action = "EDIT" \/ \E k \in DOMAIN h : h[k].action = "EDIT")
    BY <1>11, <1>14, <1>16 DEF ByAnalyst
  <2>4. CASE action = "EDIT"
    BY <1>4, <1>5, <1>12, <1>14, <2>3, <2>4 DEF OutlineOf
  <2>5. CASE action # "EDIT"
    BY <1>4, <1>5, <1>14, <2>1, <2>2, <2>3, <2>5 DEF OutlineOf
  <2> QED
    BY <2>4, <2>5
<1>20. \A j \in DOMAIN finds' : StatusIsLast(finds'[j]) /\ ReasonsAreOf(j, finds'[j]) /\ OutlineOf(finds'[j])
  BY <1>1, <1>15, <1>17, <1>18, <1>19
<1>21. \A j \in DOMAIN finds : /\ finds'[j].feature = finds[j].feature /\ finds'[j].drift = finds[j].drift
                              /\ finds'[j].triaged = finds[j].triaged /\ finds'[j].missed = finds[j].missed
  BY <1>2, <1>14, <1>15
<1>22. BestFirst(finds')
  BY <1>1, <1>15, <1>21 DEF BestFirst
<1>23. /\ reviewTrail' \in Seq([of : Nat, before : Statuses, was : Statuses, after : Statuses])
       /\ Len(reviewTrail') <= MaxReviewed
  <2>1. PICK row : row = [of |-> i, before |-> StatusAfter[action], was |-> d.status, after |-> StatusAfter[action]]
    OBVIOUS
  <2>2. d.status \in Statuses /\ StatusAfter[action] \in Statuses
    BY <1>10 DEF FoundDoc
  <2>3. row \in [of : Nat, before : Statuses, was : Statuses, after : Statuses]
    BY <1>1, <2>1, <2>2
  <2>4. reviewTrail' = Append(reviewTrail, row)
    BY <1>6, <2>1
  <2> QED
    BY <1>1, <1>6, <2>3, <2>4, ReviewDeskAssumption
<1> QED
  BY <1>14, <1>15, <1>20, <1>22, <1>23

\* What a step leaves of the documents and the trail.
LEMMA DialogKeeps ==
  ASSUME ReviewInv, UNCHANGED <<finds, reviewTrail>>, dialog' \in DialogType,
         dialog'.of \in 0 .. Len(finds), dialog'.note \in {NoNote, dialog'.of}
  PROVE  ReviewInv'
BY DEF ReviewInv, ReviewTypes, DialogIsOf

LEMMA DialogStep ==
  ASSUME ReviewInv, \/ CloseReview \/ TypeNote
                    \/ \E i \in DOMAIN finds : OpenReviewOf(i)
                    \/ \E c \in Categories : ChooseCategory(c)
  PROVE  ReviewInv'
<1>1. /\ dialog \in DialogType /\ dialog.of \in 0 .. Len(finds) /\ dialog.note \in {NoNote, dialog.of}
      /\ finds \in Seq(FoundDoc)
  BY DEF ReviewInv, ReviewTypes, DialogIsOf
<1>2. PICK d \in DialogType : d = dialog
  BY <1>1
<1>3. d.of \in Nat /\ d.note \in {NoNote, d.of} /\ d.of \in 0 .. Len(finds)
  BY <1>1, <1>2
<1>4. CASE CloseReview
  <2>1. NoDialog \in DialogType /\ NoDialog.of = 0 /\ NoDialog.note = NoNote
    BY DEF NoDialog, DialogType, Outlines, Reasons, NoNote
  <2>2. 0 \in 0 .. Len(finds)
    BY <1>1
  <2> QED
    BY <1>4, <2>1, <2>2, DialogKeeps DEF CloseReview
<1>5. CASE TypeNote
  <2>1. PICK e : e = [d EXCEPT !.note = d.of]
    OBVIOUS
  <2>2. e \in DialogType /\ e.of = d.of /\ e.note = d.of
    BY <1>3, <2>1 DEF DialogType
  <2>3. dialog' = e /\ UNCHANGED <<finds, reviewTrail>>
    BY <1>2, <1>5, <2>1 DEF TypeNote
  <2> QED
    BY <1>3, <2>2, <2>3, DialogKeeps
<1>6. CASE \E i \in DOMAIN finds : OpenReviewOf(i)
  <2>1. PICK i \in DOMAIN finds : OpenReviewOf(i)
    BY <1>6
  <2>2. PICK f \in FoundDoc : f = finds[i]
    BY <1>1
  <2>3. PICK e : e = [d EXCEPT !.of = i, !.status = f.status, !.outline = f.outline]
    OBVIOUS
  <2>4. i \in Nat /\ i \in 0 .. Len(finds) /\ f.status \in Statuses /\ f.outline \in Outlines
    BY <1>1 DEF FoundDoc
  <2>5. e \in DialogType /\ e.of = i /\ e.note = d.note
    BY <2>3, <2>4 DEF DialogType
  <2>6. dialog' = e /\ UNCHANGED <<finds, reviewTrail>> /\ d.of = 0
    BY <1>2, <2>1, <2>2, <2>3 DEF OpenReviewOf, Fetched
  <2> QED
    BY <1>3, <2>4, <2>5, <2>6, DialogKeeps DEF NoNote
<1>7. CASE \E c \in Categories : ChooseCategory(c)
  <2>1. PICK c \in Categories : ChooseCategory(c)
    BY <1>7
  <2>2. PICK e : e = [d EXCEPT !.category = c]
    OBVIOUS
  <2>3. e \in DialogType /\ e.of = d.of /\ e.note = d.note
    BY <2>2 DEF DialogType, Reasons
  <2>4. dialog' = e /\ UNCHANGED <<finds, reviewTrail>>
    BY <1>2, <2>1, <2>2 DEF ChooseCategory
  <2> QED
    BY <1>3, <2>3, <2>4, DialogKeeps
<1> QED
  BY <1>4, <1>5, <1>6, <1>7

LEMMA SentStep ==
  ASSUME ReviewInv, ReviewDeskAssumption, NEW action \in {"CONFIRM", "REJECT", "REOPEN"}, SendReview(action)
  PROVE  ReviewInv'
<1>1. /\ dialog \in DialogType /\ dialog.of \in 0 .. Len(finds) /\ dialog.note \in {NoNote, dialog.of}
      /\ finds \in Seq(FoundDoc) /\ dialog.of # 0
  BY DEF ReviewInv, ReviewTypes, DialogIsOf, SendReview
<1>2. PICK d \in DialogType : d = dialog
  BY <1>1
<1>3. PICK i \in DOMAIN finds : i = d.of
  BY <1>1, <1>2
<1>4. /\ action \in DOMAIN StatusAfter /\ d.note \in {NoNote, i} /\ d.category \in Reasons /\ 0 \in Outlines
      /\ d.outline \in Outlines
  BY <1>1, <1>2, <1>3 DEF StatusAfter, DialogType, Outlines
<1>5. Reviewed(i, action, d.note, d.category, 0, "dialog", d.outline)
  BY <1>2, <1>3 DEF SendReview
<1>6. /\ finds' \in Seq(FoundDoc) /\ Len(finds') = Len(finds)
      /\ reviewTrail' \in Seq([of : Nat, before : Statuses, was : Statuses, after : Statuses]) /\ Len(reviewTrail') <= MaxReviewed
      /\ BestFirst(finds')
      /\ \A j \in DOMAIN finds' : StatusIsLast(finds'[j]) /\ ReasonsAreOf(j, finds'[j]) /\ OutlineOf(finds'[j])
  BY <1>4, <1>5, ReviewedKeeps
<1>7. PICK f \in FoundDoc : f = finds[i]
  BY <1>1
<1>8. PICK e : e = [d EXCEPT !.status = StatusAfter[action], !.outline = f.outline]
  OBVIOUS
<1>9. dialog' = e
  BY <1>2, <1>3, <1>7, <1>8 DEF SendReview
<1>10. StatusAfter[action] \in Statuses /\ f.outline \in Outlines
  BY DEF StatusAfter, Statuses, Verdicts, FoundDoc
<1>11. e \in DialogType /\ e.of = d.of /\ e.note = d.note
  <2>1. PICK status \in Statuses : status = StatusAfter[action]
    BY <1>10
  <2>2. e = [d EXCEPT !.status = status, !.outline = f.outline]
    BY <1>8, <2>1
  <2> QED
    BY <1>10, <2>2 DEF DialogType
<1>12. ReviewTypes' /\ DialogIsOf'
  BY <1>1, <1>2, <1>6, <1>9, <1>11 DEF ReviewTypes, DialogIsOf
<1> QED
  BY <1>6, <1>12 DEF ReviewInv

LEMMA CalledStep ==
  ASSUME ReviewInv, ReviewDeskAssumption, NEW i \in DOMAIN finds, NEW action \in DOMAIN StatusAfter,
         NEW c \in Categories, NEW drawn \in Drawable, CallReview(i, action, c, drawn)
  PROVE  ReviewInv'
<1>1. /\ dialog \in DialogType /\ dialog.of \in 0 .. Len(finds) /\ dialog.note \in {NoNote, dialog.of}
      /\ finds \in Seq(FoundDoc)
  BY DEF ReviewInv, ReviewTypes, DialogIsOf
<1>2. PICK f \in FoundDoc : f = finds[i]
  BY <1>1
<1>3. i \in {NoNote, i} /\ c \in Reasons /\ drawn \in Outlines /\ f.outline \in Outlines
  BY DEF Reasons, Outlines, FoundDoc
<1>4. Reviewed(i, action, i, c, drawn, "caller", f.outline) /\ dialog' = dialog
  BY <1>2 DEF CallReview
<1>5. /\ finds' \in Seq(FoundDoc) /\ Len(finds') = Len(finds)
      /\ reviewTrail' \in Seq([of : Nat, before : Statuses, was : Statuses, after : Statuses]) /\ Len(reviewTrail') <= MaxReviewed
      /\ BestFirst(finds')
      /\ \A j \in DOMAIN finds' : StatusIsLast(finds'[j]) /\ ReasonsAreOf(j, finds'[j]) /\ OutlineOf(finds'[j])
  BY <1>3, <1>4, ReviewedKeeps
<1>6. ReviewTypes' /\ DialogIsOf'
  BY <1>1, <1>4, <1>5 DEF ReviewTypes, DialogIsOf
<1> QED
  BY <1>5, <1>6 DEF ReviewInv

LEMMA ReviewStep == ReviewInv /\ [DeskNext]_deskVars => ReviewInv'
<1> SUFFICES ASSUME ReviewInv, [DeskNext]_deskVars PROVE ReviewInv'
  OBVIOUS
<1> USE ReviewDeskAssumption
<1>1. CASE Ingested \/ DetectionRun
  BY <1>1, IngestedStep, DetectionRunStep
<1>2. CASE CloseReview \/ TypeNote
  BY <1>2, DialogStep
<1>a. CASE \E i \in DOMAIN finds : OpenReviewOf(i)
  BY <1>a, DialogStep
<1>b. CASE \E c \in Categories : ChooseCategory(c)
  BY <1>b, DialogStep
<1>3. CASE \E action \in {"CONFIRM", "REJECT", "REOPEN"} : SendReview(action)
  BY <1>3, SentStep
<1>4. CASE \E i \in DOMAIN finds, action \in DOMAIN StatusAfter, c \in Categories, drawn \in Drawable :
            CallReview(i, action, c, drawn)
  BY <1>4, CalledStep
<1>5. CASE UNCHANGED deskVars
  BY <1>5 DEF ReviewInv, ReviewTypes, DialogIsOf, deskVars
<1> QED
  BY <1>1, <1>2, <1>a, <1>b, <1>3, <1>4, <1>5, Zenon DEF DeskNext

LEMMA ReviewInductive == DeskSpec => []ReviewInv
<1>1. DeskInit => ReviewInv
  BY InitReview, ReviewDeskAssumption
<1> QED
  BY <1>1, ReviewStep, PTL DEF DeskSpec

\* The last of a detection's reviews is its last judgement, unless it was reopened.
LEMMA JudgedLast ==
  ASSUME NEW d \in FoundDoc, d.history # << >>, d.history[Len(d.history)].action # "REOPEN",
         NEW last, last = d.history[Len(d.history)]
  PROVE  /\ LastJudgement(d) = last
         /\ last.action = "REJECT" => CategoryOf(d) = last.category
<1>1. PICK h \in Seq(Entry) : h = d.history
  BY DEF FoundDoc
<1>2. h # << >> /\ Len(h) \in Nat /\ Len(h) \in DOMAIN h /\ DOMAIN h = 1 .. Len(h) /\ last = h[Len(h)] /\ last.action # "REOPEN"
  BY <1>1
<1>3. PICK J : J = {k \in DOMAIN h : h[k].action # "REOPEN"}
  OBVIOUS
<1>4. J \in SUBSET (0 .. Len(h)) /\ Len(h) \in J
  BY <1>2, <1>3
<1>5. Max(J) \in J /\ \A l \in J : l <= Max(J)
  BY <1>2, <1>4, LastOf
<1>6. Max(J) = Len(h)
  <2>1. PICK m : m = Max(J)
    OBVIOUS
  <2>2. m \in 0 .. Len(h) /\ Len(h) <= m
    BY <1>4, <1>5, <2>1
  <2> QED
    BY <1>2, <2>1, <2>2
<1>7. LastJudgement(d) = last
  BY <1>1, <1>2, <1>3, <1>6 DEF LastJudgement
<1>8. ASSUME last.action = "REJECT" PROVE CategoryOf(d) = last.category
  <2>1. PICK R : R = {k \in DOMAIN h : h[k].action = "REJECT"}
    OBVIOUS
  <2>2. R \in SUBSET (0 .. Len(h)) /\ Len(h) \in R
    BY <1>2, <1>8, <2>1
  <2>3. Max(R) \in R /\ \A l \in R : l <= Max(R)
    BY <1>2, <2>2, LastOf
  <2>4. Max(R) = Len(h)
    <3>1. PICK m : m = Max(R)
      OBVIOUS
    <3>2. m \in 0 .. Len(h) /\ Len(h) <= m
      BY <2>2, <2>3, <3>1
    <3> QED
      BY <1>2, <3>1, <3>2
  <2>5. LastReject(d) = Len(h)
    BY <1>1, <2>1, <2>2, <2>4 DEF LastReject, Rejects
  <2> QED
    BY <1>1, <1>2, <2>2, <2>5 DEF CategoryOf
<1> QED
  BY <1>7, <1>8

LEMMA LabelsAreJudged == ReviewInv => LabelIsLastJudgement
<1> SUFFICES ASSUME ReviewInv, NEW i \in Labelled
             PROVE  IF LastJudgement(finds[i]).action = "REJECT"
                    THEN ClassOf(finds[i]) = TrainingClass[LastJudgement(finds[i]).category]
                    ELSE ClassOf(finds[i]) = "oil_spill"
  BY DEF LabelIsLastJudgement
<1>1. /\ i \in DOMAIN finds /\ finds \in Seq(FoundDoc) /\ finds[i] \in Human /\ ClassOf(finds[i]) # "none"
      /\ StatusIsLast(finds[i])
  BY DEF Labelled, ReviewInv, ReviewTypes
<1>2. PICK d \in FoundDoc : d = finds[i]
  BY <1>1
<1>3. d.status \in {"CONFIRMED", "EDITED", "REJECTED"} /\ StatusIsLast(d) /\ ClassOf(d) # "none"
  BY <1>1, <1>2 DEF Human
<1>4. d.history # << >>
  BY <1>3, VerdictOf DEF StatusIsLast, Verdicts
<1>5. PICK last : last = d.history[Len(d.history)]
  OBVIOUS
<1>6. d.status = StatusAfter[last.action] /\ last.action \in DOMAIN StatusAfter
  <2>1. PICK h \in Seq(Entry) : h = d.history
    BY DEF FoundDoc
  <2>2. h[Len(h)] \in Entry
    BY <1>4, <2>1
  <2>3. last \in Entry
    BY <1>5, <2>1, <2>2
  <2> QED
    BY <1>3, <1>4, <1>5, <2>3 DEF StatusIsLast, Entry
<1>7. last.action # "REOPEN" /\ (last.action = "REJECT" <=> d.status = "REJECTED")
  BY <1>3, <1>6 DEF StatusAfter
<1>8. LastJudgement(d) = last /\ (last.action = "REJECT" => CategoryOf(d) = last.category)
  BY <1>4, <1>5, <1>7, JudgedLast
<1> QED
  BY <1>2, <1>3, <1>7, <1>8 DEF ClassOf

LEMMA QueueIsFairAlways == ReviewInv => QueueIsFair
<1> SUFFICES ASSUME ReviewInv, NEW i \in DOMAIN finds, NEW j \in DOMAIN finds
             PROVE  /\ finds[i].triaged /\ AtLeast(finds[i].feature, finds[j].feature) /\ ListedBefore(j, i) =>
                        finds[j].triaged /\ TriageScore(finds[i].feature) = TriageScore(finds[j].feature)
                    /\ ~finds[i].triaged /\ ListedBefore(i, j) =>
                        ~finds[j].triaged /\ finds[i].feature.sure >= finds[j].feature.sure
                    /\ [finds[i].feature EXCEPT !.risk = 0, !.sure = 0] = [finds[j].feature EXCEPT !.risk = 0, !.sure = 0] =>
                        Priority(finds[i].feature) = Priority(finds[j].feature)
  BY DEF QueueIsFair
<1>1. PICK a \in FoundDoc : a = finds[i]
  BY DEF ReviewInv, ReviewTypes
<1>2. PICK b \in FoundDoc : b = finds[j]
  BY DEF ReviewInv, ReviewTypes
<1>3. PICK f \in Feature : f = a.feature
  BY DEF FoundDoc
<1>4. PICK g \in Feature : g = b.feature
  BY DEF FoundDoc
<1>5. /\ TriageScore(f) \in Int /\ TriageScore(g) \in Int /\ TriageScore(f) >= 0 /\ TriageScore(g) >= 0
      /\ AtLeast(f, g) => TriageScore(f) >= TriageScore(g)
      /\ f.area = g.area /\ f.contrast = g.contrast /\ f.elongation = g.elongation => TriageScore(f) = TriageScore(g)
      /\ f.sure \in Int /\ g.sure \in Int
  BY ScoreGrows DEF Feature
<1>6. /\ a.triaged \in BOOLEAN /\ b.triaged \in BOOLEAN
      /\ TriageOf(a) = (IF a.triaged THEN TriageScore(f) ELSE -1)
      /\ TriageOf(b) = (IF b.triaged THEN TriageScore(g) ELSE -1)
  BY <1>3, <1>4 DEF FoundDoc, TriageOf, Unscored
<1>7. ListedBefore(j, i) => TriageOf(b) >= TriageOf(a)
  BY <1>1, <1>2, <1>5, <1>6 DEF ListedBefore
<1>8. ListedBefore(i, j) => TriageOf(a) > TriageOf(b) \/ (TriageOf(a) = TriageOf(b) /\ f.sure >= g.sure)
  BY <1>1, <1>2, <1>3, <1>4, <1>5, <1>6 DEF ListedBefore
<1>9. a.triaged /\ AtLeast(f, g) /\ ListedBefore(j, i) => b.triaged /\ TriageScore(f) = TriageScore(g)
  BY <1>5, <1>6, <1>7
<1>10. ~a.triaged /\ ListedBefore(i, j) => ~b.triaged /\ f.sure >= g.sure
  BY <1>5, <1>6, <1>8
<1>11. [f EXCEPT !.risk = 0, !.sure = 0] = [g EXCEPT !.risk = 0, !.sure = 0] => Priority(f) = Priority(g)
  <2> SUFFICES ASSUME [f EXCEPT !.risk = 0, !.sure = 0] = [g EXCEPT !.risk = 0, !.sure = 0] PROVE Priority(f) = Priority(g)
    OBVIOUS
  <2>1. PICK e : e = [f EXCEPT !.risk = 0, !.sure = 0]
    OBVIOUS
  <2>2. e.area = f.area /\ e.contrast = f.contrast /\ e.elongation = f.elongation
    BY <2>1 DEF Feature
  <2>3. e = [g EXCEPT !.risk = 0, !.sure = 0]
    BY <2>1
  <2>4. e.area = g.area /\ e.contrast = g.contrast /\ e.elongation = g.elongation
    BY <2>3 DEF Feature
  <2> QED
    BY <1>5, <2>2, <2>4 DEF Priority
<1> QED
  BY <1>1, <1>2, <1>3, <1>4, <1>9, <1>10, <1>11

\* What the queue, the dialog and the trail may hold (DeskTypeOK).
THEOREM DeskTypeCorrect == DeskSpec => []DeskTypeOK
<1>1. ReviewInv => DeskTypeOK
  <2> SUFFICES ASSUME ReviewInv PROVE DeskTypeOK
    OBVIOUS
  <2>1. Len(reviewTrail) <= MaxReviewed /\ dialog.of \in 0 .. Len(finds) /\ finds \in Seq(FoundDoc)
    BY DEF ReviewInv, ReviewTypes, DialogIsOf
  <2>2. ASSUME NEW i \in DOMAIN finds PROVE finds[i].outline \in Drawable \cup {0} /\ finds[i].drift \in BOOLEAN
    <3>1. PICK d \in FoundDoc : d = finds[i]
      BY <2>1
    <3> QED
      BY <3>1 DEF FoundDoc, Outlines
  <2> QED
    BY <2>1, <2>2 DEF DeskTypeOK
<1> QED
  BY <1>1, ReviewInductive, PTL

\* A label is the last judgement of its detection, for the reason given of it and with its
\* outline attributed; and among what ingests found neither the queue nor what is drifted
\* ahead passes over a detection for a lesser one, but for a queue that failed (labels.ts,
\* review.ts, triage.ts, ingest.ts).
THEOREM ReviewKept == DeskSpec => []ReviewIsKept
<1>1. ReviewInv => ReviewIsKept
  <2> SUFFICES ASSUME ReviewInv PROVE ReviewIsKept
    OBVIOUS
  <2>1. LabelIsLastJudgement /\ QueueIsFair
    BY LabelsAreJudged, QueueIsFairAlways
  <2>2. NotesAreOfTheirDetection
    BY DEF ReviewInv, ReasonsAreOf, NotesAreOfTheirDetection
  <2>3. OutlineIsAttributed
    BY DEF ReviewInv, OutlineOf, OutlineIsAttributed
  <2>4. PrecomputeIsOfTheBest
    BY DEF ReviewInv, BestFirst, PrecomputeIsOfTheBest
  <2> QED
    BY <2>1, <2>2, <2>3, <2>4 DEF ReviewIsKept
<1> QED
  BY <1>1, ReviewInductive, PTL

=============================================================================
