------------------------------- MODULE ReviewDesk -------------------------------
(***************************************************************************)
(* From a detection to a label: the triage that orders what an analyst     *)
(* sees (detections/triage.ts), the verdict given without one              *)
(* (autoReview.ts), the dialog an analyst reviews in (DetectionReview.tsx),*)
(* and the labelled set assembled from all of it (labels.ts).  How reviews *)
(* of one detection overlap is the subject of SceneDetection; here each is *)
(* served at once.                                                         *)
(*                                                                         *)
(* Areas are in hundredths of a square kilometre, probabilities in         *)
(* hundredths, contrast in decibels, scores in thousandths.                *)
(***************************************************************************)
EXTENDS Integers, Sequences, FiniteSets, FiniteSetsExt, SequencesExt

CONSTANTS
  FoundSets,     \* what the detector may report of a scene, in its own order
  Categories,    \* the rejection categories an analyst uses
  AreaDrawn,     \* the area of each outline that may be drawn
  AutoArea, AutoSure, AutoSafe, AutoRisky, AutoUnsure, AutoDoubtful,  \* the thresholds of evaluateAutoReview
  Eligible,      \* TRIAGE_PRECOMPUTE.minScore
  PerScene,      \* TRIAGE_PRECOMPUTE.maxPerScene
  Enough,        \* MIN_LABELS_PER_CLASS
  MaxReviewed    \* bound: reviews

ASSUME ReviewDeskAssumption ==
  /\ FoundSets \subseteq Seq([area : Int, contrast : Int, elongation : Int, risk : Int, sure : Int])
  /\ AreaDrawn \in [DOMAIN AreaDrawn -> Int]
  /\ Eligible \in Int /\ PerScene \in Nat /\ MaxReviewed \in Nat

VARIABLES
  finds,   \* documents of spill_detections, in the order they were created
  dialog,  \* the review dialog: which detection, what was fetched of it, and what is typed
  reviewTrail    \* audit entries of reviews, as `before' and `after' state them

deskVars == <<finds, dialog, reviewTrail>>

NoContrast == 999

-----------------------------------------------------------------------------
(* Triage *)

\* A logarithm between the smallest area the detector reports and ten square kilometres.
Significance(area) ==
  CASE area <= 0 -> 0 [] area \in 1 .. 9 -> 131 [] area \in 10 .. 99 -> 452
    [] area \in 100 .. 999 -> 870 [] OTHER -> 1000

\* An unknown contrast is not evidence of a good one.
Depth(contrast) == IF contrast < 0 THEN -contrast ELSE contrast
Interpretability(contrast) == IF contrast = NoContrast THEN 500 ELSE Min({1000, 100 * Depth(contrast)})

Attributability(elongation) == Max({0, Min({1000, 250 * elongation})})

TriageScore(f) ==
  (45 * Significance(f.area) + 35 * Interpretability(f.contrast) + 20 * Attributability(f.elongation)) \div 100

Priority(f) == IF TriageScore(f) >= 600 THEN "HIGH" ELSE IF TriageScore(f) >= 350 THEN "MEDIUM" ELSE "LOW"

\* selectForPrecompute: the best of a scene, ties going to the detector's own order.
Selected(found) ==
  LET above(i) == {j \in DOMAIN found : TriageScore(found[j]) > TriageScore(found[i])
                                        \/ (TriageScore(found[j]) = TriageScore(found[i]) /\ j < i)}
  IN {i \in DOMAIN found : TriageScore(found[i]) >= Eligible /\ Cardinality(above(i)) < PerScene}

\* evaluateAutoReview.
AutoStatus(f) ==
  IF f.sure >= AutoSure /\ f.risk < AutoSafe /\ f.area >= AutoArea THEN "AUTO_CONFIRMED"
  ELSE IF f.risk >= AutoRisky \/ (f.sure < AutoUnsure /\ f.risk >= AutoDoubtful) THEN "AUTO_REJECTED"
  ELSE "UNREVIEWED"

\* The order of the list of a case: by triage, where no score comes last, then by the
\* detector's confidence.
Unscored == -1
TriageOf(d) == IF d.triaged THEN TriageScore(d.feature) ELSE Unscored
ListedBefore(i, j) ==
  LET a == finds[i]  b == finds[j]
  IN \/ TriageOf(a) > TriageOf(b)
     \/ TriageOf(a) = TriageOf(b) /\ a.feature.sure > b.feature.sure
     \/ TriageOf(a) = TriageOf(b) /\ a.feature.sure = b.feature.sure /\ i < j

-----------------------------------------------------------------------------
(* Reviews *)

TrainingClass ==
  [LOW_WIND |-> "sea_surface", BIOGENIC_FILM |-> "look_alike", RAIN_CELL |-> "look_alike", SHIP_WAKE |-> "look_alike",
   INTERNAL_WAVE |-> "look_alike", SEA_ICE |-> "look_alike", LAND_OR_STRUCTURE |-> "land",
   SENSOR_ARTEFACT |-> "none", LOOK_ALIKE_UNCLASSIFIED |-> "look_alike", INSUFFICIENT_IMAGE_QUALITY |-> "none",
   DUPLICATE |-> "none", SUPERSEDED |-> "none", OUT_OF_SCOPE |-> "none"]
StatusAfter == [CONFIRM |-> "CONFIRMED", REJECT |-> "REJECTED", EDIT |-> "EDITED", REOPEN |-> "UNREVIEWED"]

Drawable == DOMAIN AreaDrawn
NoNote == 0
NoneChosen == ""
NoDialog == [of |-> 0, status |-> NoneChosen, outline |-> 0, note |-> NoNote, category |-> NoneChosen]

DeskInit == finds = << >> /\ dialog = NoDialog /\ reviewTrail = << >>

\* A document of spill_detections; outline 0 is the detector's own.  `missed' is history:
\* whether its drift was to be queued ahead and could not be.
Document(f, triaged, drift, missed) ==
  [feature |-> f, triaged |-> triaged, status |-> IF triaged THEN AutoStatus(f) ELSE "UNREVIEWED", outline |-> 0,
   area |-> f.area, drift |-> drift, missed |-> missed, history |-> << >>]

\* ingestAndDetect of one scene of the case: what is confirmed automatically is drifted, or
\* the ingest fails; of those selected, the ones that cannot be queued are passed over.
Ingested ==
  /\ \A i \in DOMAIN finds : ~finds[i].triaged
  /\ \E found \in FoundSets : \E missed \in SUBSET Selected(found) :
       LET queued(i) == i \in Selected(found) \ missed \/ AutoStatus(found[i]) = "AUTO_CONFIRMED"
       IN finds' = finds \o [i \in DOMAIN found |-> Document(found[i], TRUE, queued(i), i \in missed)]
  /\ UNCHANGED <<dialog, reviewTrail>>

\* runDetectionForScene of another one, which assesses nothing.
DetectionRun ==
  /\ \A i \in DOMAIN finds : finds[i].triaged
  /\ \E found \in FoundSets : finds' = finds \o [i \in DOMAIN found |-> Document(found[i], FALSE, FALSE, FALSE)]
  /\ UNCHANGED <<dialog, reviewTrail>>

\* reviewDetection: the category is kept of a rejection alone, the outline it replaces of an
\* edit alone, and the trail is written after the document.
Refused(action, note, category, drawn) ==
  \/ action = "REJECT" /\ (note = NoNote \/ category = NoneChosen)
  \/ action = "EDIT" /\ drawn = 0
Reviewed(i, action, note, category, drawn, by, seen) ==
  LET edits == action = "EDIT"
      area  == IF edits THEN AreaDrawn[drawn] ELSE finds[i].area
      entry == [action |-> action, note |-> note, category |-> IF action = "REJECT" THEN category ELSE NoneChosen,
                before |-> IF edits THEN finds[i].outline ELSE -1, by |-> by, seen |-> seen]
  IN /\ ~Refused(action, note, category, drawn) /\ Len(reviewTrail) < MaxReviewed
     /\ finds' = [finds EXCEPT ![i].status = StatusAfter[action], ![i].area = area,
                               ![i].outline = IF edits THEN drawn ELSE @, ![i].history = Append(@, entry)]
     /\ reviewTrail' = Append(reviewTrail, [of |-> i, before |-> StatusAfter[action], was |-> finds[i].status, after |-> StatusAfter[action]])

\* Any caller of the route: only there can an outline be drawn.
CallReview(i, action, category, drawn) ==
  /\ Reviewed(i, action, i, category, drawn, "caller", finds[i].outline)
  /\ UNCHANGED dialog

\* The dialog: closing it unmounts it, and what was typed is gone.
Fetched(i) == [dialog EXCEPT !.of = i, !.status = finds[i].status, !.outline = finds[i].outline]
OpenReviewOf(i) ==
  /\ dialog.of = 0
  /\ dialog' = Fetched(i)
  /\ UNCHANGED <<finds, reviewTrail>>
CloseHidden == dialog.of # 0 /\ dialog' = [dialog EXCEPT !.of = 0] /\ UNCHANGED <<finds, reviewTrail>>
CloseReview == dialog.of # 0 /\ dialog' = NoDialog /\ UNCHANGED <<finds, reviewTrail>>
TypeNote ==
  /\ dialog.of # 0 /\ dialog.note = NoNote
  /\ dialog' = [dialog EXCEPT !.note = dialog.of] /\ UNCHANGED <<finds, reviewTrail>>
ChooseCategory(c) ==
  /\ dialog.of # 0 /\ dialog.category # c
  /\ dialog' = [dialog EXCEPT !.category = c] /\ UNCHANGED <<finds, reviewTrail>>

\* What is typed stays after a review, and only a rejection sends the category; the answer
\* has the dialog fetch the detection again.
Offers(action) ==
  CASE action = "CONFIRM" -> TRUE
    [] action = "REJECT"  -> dialog.note # NoNote /\ dialog.category # NoneChosen
    [] action = "REOPEN"  -> dialog.status # "UNREVIEWED"
    [] OTHER -> FALSE
SendReview(action) ==
  /\ dialog.of # 0 /\ Offers(action)
  /\ Reviewed(dialog.of, action, dialog.note, dialog.category, 0, "dialog", dialog.outline)
  /\ dialog' = [dialog EXCEPT !.status = StatusAfter[action], !.outline = finds[dialog.of].outline]

DeskNext ==
  \/ Ingested \/ DetectionRun \/ CloseReview \/ TypeNote
  \/ \E i \in DOMAIN finds : OpenReviewOf(i)
  \/ \E c \in Categories : ChooseCategory(c)
  \/ \E action \in {"CONFIRM", "REJECT", "REOPEN"} : SendReview(action)
  \/ \E i \in DOMAIN finds, action \in DOMAIN StatusAfter, c \in Categories, drawn \in Drawable :
       CallReview(i, action, c, drawn)

DeskSpec == DeskInit /\ [][DeskNext]_deskVars

-----------------------------------------------------------------------------
(* The labelled set *)

Rejects(d) == {k \in DOMAIN d.history : d.history[k].action = "REJECT"}
FirstReject(d) == IF Rejects(d) = {} THEN 0 ELSE Min(Rejects(d))
LastReject(d) == IF Rejects(d) = {} THEN 0 ELSE Max(Rejects(d))
CategoryOf(d) == IF LastReject(d) = 0 THEN NoneChosen ELSE d.history[LastReject(d)].category
ByAnalyst(d) == \E k \in DOMAIN d.history : d.history[k].action = "EDIT"
NoteOf(d) == IF LastReject(d) # 0 THEN LastReject(d) ELSE Len(d.history)

\* detectionLabels asks for what a human judged, and classify decides what may be trained on.
Human == {d \in Range(finds) : d.status \in {"CONFIRMED", "EDITED", "REJECTED"}}
ClassOf(d) ==
  IF d.status \in {"CONFIRMED", "EDITED"} THEN "oil_spill"
  ELSE IF CategoryOf(d) = NoneChosen THEN "none" ELSE TrainingClass[CategoryOf(d)]
Labelled == {i \in DOMAIN finds : finds[i] \in Human /\ ClassOf(finds[i]) # "none"}

\* summarise.
Classes == {ClassOf(finds[i]) : i \in Labelled}
LabelsHeld(c) == Cardinality({i \in Labelled : ClassOf(finds[i]) = c})
Short == {c \in Classes : LabelsHeld(c) < Enough}
ReadyToRetrain == Labelled # {} /\ Short = {} /\ Cardinality(Classes) >= 2

-----------------------------------------------------------------------------
(* Properties *)

DeskTypeOK ==
  /\ Len(reviewTrail) <= MaxReviewed
  /\ dialog.of \in 0 .. Len(finds)
  /\ \A i \in DOMAIN finds : finds[i].outline \in Drawable \cup {0} /\ finds[i].drift \in BOOLEAN

\* The judgement a label stands for is the last one a person gave (labels.ts, "the category
\* belongs to the REJECT that produced the CURRENT status"): what was reopened, or rejected
\* as something else and then as this, is no longer what it says.
LastJudgement(d) == d.history[Max({k \in DOMAIN d.history : d.history[k].action # "REOPEN"})]
LabelIsLastJudgement ==
  \A i \in Labelled :
    LET last == LastJudgement(finds[i])
    IN IF last.action = "REJECT" THEN ClassOf(finds[i]) = TrainingClass[last.category]
       ELSE ClassOf(finds[i]) = "oil_spill"

\* A rejection says something of the detection it was typed for, and carries a reason and a
\* category (review.ts): the dialog never sends what was typed of another.
NotesAreOfTheirDetection ==
  \A i \in DOMAIN finds : \A k \in DOMAIN finds[i].history :
    /\ finds[i].history[k].note \in {NoNote, i}
    /\ finds[i].history[k].action = "REJECT" => finds[i].history[k].note = i /\ finds[i].history[k].category # NoneChosen

\* An outline that counts as the detector's is, and its area is of that outline, whatever
\* was edited, rejected and reopened since (labels.ts, `geometrySource').
OutlineIsAttributed ==
  \A i \in DOMAIN finds :
    /\ ByAnalyst(finds[i]) <=> finds[i].outline # 0
    /\ finds[i].area = IF finds[i].outline = 0 THEN finds[i].feature.area ELSE AreaDrawn[finds[i].outline]

\* Of what the ingests of a case found, the queue never puts a detection before one that is
\* at least as large, as contrasted and as elongated, unless they tie; how much it looks like
\* something else never moves it (triage.ts, "displayed, never weighted"); and what has no
\* score stands behind all that have one, the surer first (scenes/router.ts:327).
AtLeast(f, g) == f.area >= g.area /\ Depth(f.contrast) >= Depth(g.contrast) /\ f.elongation >= g.elongation
                   /\ (f.contrast = NoContrast <=> g.contrast = NoContrast)
QueueIsFair ==
  \A i, j \in DOMAIN finds :
    /\ finds[i].triaged /\ AtLeast(finds[i].feature, finds[j].feature) /\ ListedBefore(j, i) =>
         finds[j].triaged /\ TriageScore(finds[i].feature) = TriageScore(finds[j].feature)
    /\ ~finds[i].triaged /\ ListedBefore(i, j) => ~finds[j].triaged /\ finds[i].feature.sure >= finds[j].feature.sure
    /\ [finds[i].feature EXCEPT !.risk = 0, !.sure = 0] = [finds[j].feature EXCEPT !.risk = 0, !.sure = 0] =>
         Priority(finds[i].feature) = Priority(finds[j].feature)

\* What runs ahead of the analyst is the best of the ingest: nothing is left waiting for
\* something scored below it that no verdict asked for, unless the queue failed for it
\* (selectForPrecompute, scenes/ingest.ts:606); and nothing runs ahead of a detection run.
PrecomputeIsOfTheBest ==
  \A i, j \in DOMAIN finds :
    finds[i].drift =>
      /\ finds[i].triaged
      /\ finds[j].triaged /\ ~finds[j].drift /\ ~finds[j].missed /\ AutoStatus(finds[i].feature) # "AUTO_CONFIRMED" =>
           TriageScore(finds[j].feature) <= TriageScore(finds[i].feature)

\* What the desk keeps of a review, and puts before the analyst, is of that detection.
ReviewIsKept ==
  LabelIsLastJudgement /\ NotesAreOfTheirDetection /\ OutlineIsAttributed /\ QueueIsFair /\ PrecomputeIsOfTheBest

(* What the code says of itself and the model contradicts: no more than the cap is run     *)
(* ahead, a machine's verdict never looks like a person's, the trail tells what a status   *)
(* was, a set that is ready holds oil, a confirmation is of the outline that was shown, and*)
(* only what was written before there was triage has none.                                 *)
CapHolds == Cardinality({i \in DOMAIN finds : finds[i].drift}) <= PerScene
EveryFindIsTriaged == \A i \in DOMAIN finds : finds[i].triaged
Hatched(d) == d.status = "UNREVIEWED"
MachineLooksDistinct == \A i \in DOMAIN finds : finds[i].history = << >> => Hatched(finds[i])
TrailTellsBefore == \A k \in DOMAIN reviewTrail : reviewTrail[k].before = reviewTrail[k].was
ReadyHoldsOil == ReadyToRetrain => "oil_spill" \in Classes
ConfirmsWhatWasShown ==
  \A i \in DOMAIN finds : \A k \in DOMAIN finds[i].history :
    finds[i].history[k].action = "CONFIRM" =>
      LET edits == {j \in 1 .. k - 1 : finds[i].history[j].action = "EDIT"}
      IN edits # {} => finds[i].history[k].seen # finds[i].history[Max(edits)].before
LabelKeepsItsNote == \A i \in Labelled : NoteOf(finds[i]) = Max({k \in DOMAIN finds[i].history : finds[i].history[k].action # "REOPEN"})
=============================================================================
