------------------------ MODULE SceneDetectionProofs ------------------------
(***************************************************************************)
(* What holds of SceneDetection for all slots, analysts, outlines, scenes  *)
(* and bounds: its types; that version 0 of a detection is the model's     *)
(* output and later versions what was saved; that labels have a review     *)
(* behind them; that a detection run supersedes the one before it; and     *)
(* that the marks of a precompute are the jobs it queued.                  *)
(***************************************************************************)
EXTENDS SceneDetection, TLAPS, WellFoundedInduction

-----------------------------------------------------------------------------
(* Types *)

Slots == {"idle", "queued", "running", "ended"}

LEMMA Values == Free \in Run /\ Idle \in Review
<1>1. Free \in Run
  BY SceneDetectionAssumption DEF Free, Run, Pc
<1>2. Idle \in Review
  BY SceneDetectionAssumption DEF Idle, Review, Action, AutoReview, Verdict
<1>3. QED
  BY <1>1, <1>2

LEMMA RunTyped ==
  ASSUME TypeOK, NEW w \in Workers
  PROVE  /\ run[w] \in Run
         /\ run[w].key # Nobody => run[w].key \in Keys
         /\ run[w].batch \in Nat /\ run[w].ids \in Seq(Nat) /\ run[w].picked \subseteq Nat
         /\ run[w].zombie \in BOOLEAN /\ run[w].pc \in Pc
<1>1. run[w] \in Run
  BY DEF TypeOK
<1>2. QED
  BY <1>1 DEF Run

LEMMA BecomeTyped ==
  ASSUME TypeOK, NEW w \in Workers, NEW r \in Run, Become(w, r)
  PROVE  run' \in [Workers -> Run]
  BY DEF TypeOK, Become

LEMMA GotoTyped ==
  ASSUME TypeOK, NEW w \in Workers, NEW p \in Pc, Goto(w, p)
  PROVE  run' \in [Workers -> Run]
<1>1. [run[w] EXCEPT !.pc = p] \in Run
  BY RunTyped DEF Run
<1>2. QED
  BY <1>1, BecomeTyped DEF Goto

\* A document of the collection and its place after a Put.
LEMMA PutTyped ==
  ASSUME TypeOK, NEW i \in Nat, NEW d \in Detection, Put(i, d)
  PROVE  /\ DOMAIN docs' = DOMAIN docs \cup {i}
         /\ docs'[i] = d
         /\ \A j \in DOMAIN docs : j # i => docs'[j] = docs[j]
         /\ DOMAIN docs' \subseteq Nat
         /\ docs' \in [DOMAIN docs' -> Detection]
<1>1. docs \in [DOMAIN docs -> Detection] /\ DOMAIN docs \subseteq Nat
  BY DEF TypeOK
<1>2. docs' = [j \in DOMAIN docs \cup {i} |-> IF j = i THEN d ELSE docs[j]]
  BY DEF Put
<1>3. QED
  BY <1>1, <1>2

LEMMA NewTyped ==
  ASSUME TypeOK, NEW w \in Workers, run[w].key # Nobody,
         NEW n \in DOMAIN scene.found
  PROVE  /\ NewDetection(run[w], n) \in Detection
         /\ NewDetection(run[w], n).history = <<>>
         /\ NewDetection(run[w], n).outline = Model
         /\ NewDetection(run[w], n).after = <<>>
         /\ NewDetection(run[w], n).raced = FALSE
         /\ NewDetection(run[w], n).status \in AutoReview
         /\ NewDetection(run[w], n).by = run[w].key
         /\ NewDetection(run[w], n).batch = run[w].batch
<1>1. scene.found \in Seq(Feature)
  BY SceneDetectionAssumption DEF TypeOK, Scene
<1>2. scene.found[n] \in Feature /\ n \in Nat
  BY <1>1
<1>3. scene.found[n].auto \in AutoReview
  BY <1>2 DEF Feature
<1> DEFINE auto == IF run[w].key = "ingest" THEN scene.found[n].auto ELSE "UNREVIEWED"
<1>4. auto \in AutoReview
  BY <1>3 DEF AutoReview
<1>5. NewDetection(run[w], n) =
        [nr |-> n, by |-> run[w].key, batch |-> run[w].batch, status |-> auto,
         outline |-> Model, flagged |-> auto = "AUTO_CONFIRMED", history |-> <<>>,
         drift |-> FALSE, torn |-> FALSE, after |-> <<>>, raced |-> FALSE]
  BY DEF NewDetection
<1>6. run[w].key \in Keys /\ run[w].batch \in Nat /\ Model \in Outlines
  BY RunTyped, SceneDetectionAssumption
<1>7. <<>> \in Seq(Entry) /\ <<>> \in Seq(Outlines)
  OBVIOUS
<1> HIDE DEF auto
<1>8. QED
  BY <1>2, <1>4, <1>5, <1>6, <1>7 DEF Detection

LEMMA StatusTyped ==
  ASSUME NEW action \in Action
  PROVE  STATUS_FOR[action] \in AutoReview \cup Verdict
  BY DEF STATUS_FOR, Action, AutoReview, Verdict

LEMMA SavedTyped ==
  ASSUME NEW d \in Detection, NEW c \in Review
  PROVE  /\ Saved(d, c) \in Detection
         /\ OutlineSaved(d, c) \in Outlines
         /\ EntryOf(c) \in Entry
         /\ Saved(d, c) = [d EXCEPT !.status = StatusSaved(d, c),
                                    !.outline = OutlineSaved(d, c),
                                    !.history = Append(d.history, EntryOf(c)),
                                    !.after = Append(d.after, OutlineSaved(d, c)),
                                    !.raced = d.raced \/ Len(d.history) # c.entries]
<1>1. c.action \in Action /\ c.drawn \in Outlines \cup {NoOutline} /\ c.outline \in Outlines
      /\ c.status \in AutoReview \cup Verdict /\ c.entries \in Nat
  BY DEF Review
<1>2. d.outline \in Outlines /\ d.status \in AutoReview \cup Verdict
      /\ d.history \in Seq(Entry) /\ d.after \in Seq(Outlines) /\ d.raced \in BOOLEAN
  BY DEF Detection
<1>3. OutlineSaved(d, c) \in Outlines
  BY <1>1, <1>2 DEF OutlineSaved
<1>4. StatusSaved(d, c) \in AutoReview \cup Verdict
  BY <1>1, <1>2, StatusTyped DEF StatusSaved
<1>5. EntryOf(c) \in Entry
  BY <1>1 DEF EntryOf, Entry
<1>6. Append(d.history, EntryOf(c)) \in Seq(Entry)
  BY <1>2, <1>5
<1>7. Append(d.after, OutlineSaved(d, c)) \in Seq(Outlines)
  BY <1>2, <1>3
<1>8. Saved(d, c) = [d EXCEPT !.status = StatusSaved(d, c),
                              !.outline = OutlineSaved(d, c),
                              !.history = Append(d.history, EntryOf(c)),
                              !.after = Append(d.after, OutlineSaved(d, c)),
                              !.raced = d.raced \/ Len(d.history) # c.entries]
  BY DEF Saved
<1>9. (d.raced \/ Len(d.history) # c.entries) \in BOOLEAN
  OBVIOUS
<1>10. Saved(d, c) \in Detection
  BY <1>3, <1>4, <1>6, <1>7, <1>8, <1>9 DEF Detection
<1>11. QED
  BY <1>3, <1>5, <1>8, <1>10

\* The updates that mark documents leave everything else of them alone.
Marked(d, e) ==
  /\ e \in Detection
  /\ e.history = d.history /\ e.outline = d.outline /\ e.status = d.status
  /\ e.after = d.after /\ e.raced = d.raced /\ e.by = d.by /\ e.batch = d.batch

LEMMA MarkTyped ==
  ASSUME TypeOK, NEW f \in [DOMAIN docs -> BOOLEAN], NEW g \in [DOMAIN docs -> BOOLEAN],
         \/ docs' = [i \in DOMAIN docs |-> [docs[i] EXCEPT !.drift = f[i], !.torn = g[i]]]
         \/ docs' = [i \in DOMAIN docs |-> [docs[i] EXCEPT !.flagged = f[i]]]
  PROVE  /\ DOMAIN docs' = DOMAIN docs
         /\ \A i \in DOMAIN docs : Marked(docs[i], docs'[i])
         /\ docs' \in [DOMAIN docs' -> Detection]
<1>1. \A i \in DOMAIN docs : docs[i] \in Detection
  BY DEF TypeOK
<1>2. DOMAIN docs' = DOMAIN docs
  OBVIOUS
<1>3. ASSUME NEW i \in DOMAIN docs
      PROVE  Marked(docs[i], docs'[i])
  <2>1. docs[i] \in Detection
    BY <1>1
  <2>2. f[i] \in BOOLEAN /\ g[i] \in BOOLEAN
    OBVIOUS
  <2>3. \/ docs'[i] = [docs[i] EXCEPT !.drift = f[i], !.torn = g[i]]
        \/ docs'[i] = [docs[i] EXCEPT !.flagged = f[i]]
    OBVIOUS
  <2>4. QED
    BY <2>1, <2>2, <2>3 DEF Marked, Detection
<1>4. \A i \in DOMAIN docs' : docs'[i] \in Detection
  BY <1>2, <1>3 DEF Marked
<1>5. docs' = [i \in DOMAIN docs' |-> docs'[i]]
  OBVIOUS
<1>6. QED
  BY <1>2, <1>3, <1>4, <1>5

LEMMA QueueDriftMarks ==
  ASSUME TypeOK, NEW ids, NEW torn, QueueDrift(ids, torn)
  PROVE  /\ DOMAIN docs' = DOMAIN docs
         /\ \A i \in DOMAIN docs : Marked(docs[i], docs'[i])
         /\ docs' \in [DOMAIN docs' -> Detection]
<1> DEFINE f == [i \in DOMAIN docs |-> docs[i].drift \/ i \in ids]
           g == [i \in DOMAIN docs |-> docs[i].torn \/ i \in torn]
<1>1. f \in [DOMAIN docs -> BOOLEAN] /\ g \in [DOMAIN docs -> BOOLEAN]
  OBVIOUS
<1>2. docs' = [i \in DOMAIN docs |-> [docs[i] EXCEPT !.drift = f[i], !.torn = g[i]]]
  BY DEF QueueDrift
<1> HIDE DEF f, g
<1>3. QED
  BY <1>1, <1>2, MarkTyped

LEMMA FlagMarks ==
  ASSUME TypeOK, NEW w \in Workers, Flag(w)
  PROVE  /\ DOMAIN docs' = DOMAIN docs
         /\ \A i \in DOMAIN docs : Marked(docs[i], docs'[i])
         /\ docs' \in [DOMAIN docs' -> Detection]
<1> DEFINE f == [i \in DOMAIN docs |-> docs[i].flagged \/ i \in run[w].picked]
<1>1. f \in [DOMAIN docs -> BOOLEAN]
  OBVIOUS
<1>2. docs' = [i \in DOMAIN docs |-> [docs[i] EXCEPT !.flagged = f[i]]]
  BY DEF Flag
<1> HIDE DEF f
<1>3. QED
  BY <1>1, <1>2, MarkTyped

LEMMA SpendTyped ==
  ASSUME TypeOK, NEW b \in Bound, Spend(b) \/ Trouble(b)
  PROVE  left' \in [Bound -> Nat]
<1>1. left \in [Bound -> Nat] /\ "trouble" \in Bound
  BY DEF TypeOK, Bound
<1>2. CASE Spend(b)
  BY <1>1, <1>2 DEF Spend
<1>3. CASE Trouble(b)
  <2>1. left[b] - 1 \in Nat /\ left["trouble"] - 1 \in Nat
    BY <1>1, <1>3 DEF Trouble
  <2>2. CASE b = "trouble"
    BY <1>1, <1>3, <2>2 DEF Trouble
  <2>3. CASE b # "trouble"
    BY <1>1, <1>3, <2>1, <2>3 DEF Trouble
  <2>4. QED
    BY <2>2, <2>3
<1>4. QED
  BY <1>2, <1>3

LEMMA QueueTyped ==
  ASSUME TypeOK, NEW k \in Keys,
         Slot!Submit(k) \/ Slot!Withdraw(k) \/ Slot!Start(k) \/ Slot!GiveBack(k) \/ Slot!Finish(k)
  PROVE  slot' \in [Keys -> Slots] /\ used' \in [Keys -> Nat]
<1>1. slot \in [Keys -> Slots] /\ used \in [Keys -> Nat]
  BY DEF TypeOK, Slots
<1>2. PICK to \in Slots, n \in Nat : slot' = [slot EXCEPT ![k] = to] /\ used' = [used EXCEPT ![k] = n]
  BY <1>1 DEF Slots, Slot!Submit, Slot!Withdraw, Slot!Start, Slot!GiveBack, Slot!Finish, Slot!Move
<1>3. QED
  BY <1>1, <1>2

LEMMA GiveBackTyped ==
  ASSUME TypeOK, NEW k \in Keys, GiveBack(k)
  PROVE  slot' \in [Keys -> Slots] /\ used' \in [Keys -> Nat]
  BY QueueTyped DEF GiveBack

LEMMA FoundTyped ==
  ASSUME TypeOK
  PROVE  scene \in Scene /\ scene.found \in Seq(Feature) /\ Len(scene.found) \in Nat
         /\ DOMAIN scene.found = 1..Len(scene.found)
<1>1. scene \in Scene
  BY DEF TypeOK
<1>2. scene.found \in Seq(Feature)
  BY <1>1, SceneDetectionAssumption DEF Scene
<1>3. QED
  BY <1>1, <1>2

\* What a Create does: the document has a new id, and the attempt remembers it.
LEMMA CreateEffect ==
  ASSUME TypeOK, NEW w \in Workers, Create(w)
  PROVE  LET n == Len(run[w].ids) + 1
             d == NewDetection(run[w], n) IN
         /\ newest \in Nat /\ newest' = newest + 1 /\ newest + 1 \in Nat
         /\ n \in DOMAIN scene.found
         /\ d \in Detection
         /\ Put(newest + 1, d)
<1>1. newest \in Nat
  BY DEF TypeOK
<1>2. newest + 1 \in Nat
  BY <1>1
<1>3. Len(run[w].ids) \in Nat
  BY RunTyped
<1>4. Len(run[w].ids) + 1 \in DOMAIN scene.found
  BY <1>3, FoundTyped DEF Create, AllMade
<1>5. run[w].key # Nobody
  BY DEF Create, At
<1>6. NewDetection(run[w], Len(run[w].ids) + 1) \in Detection
  BY <1>4, <1>5, NewTyped
<1>7. QED
  BY <1>1, <1>2, <1>4, <1>6 DEF Create

\* What a precompute queues are detections of its attempt.
LEMMA PickedTyped ==
  ASSUME TypeOK, NEW w \in Workers, AllMade(w)
  PROVE  {run[w].ids[n] : n \in Selected} \subseteq Nat
<1>1. Selected \subseteq DOMAIN scene.found
  BY DEF Selected
<1>2. run[w].ids \in Seq(Nat)
  BY RunTyped
<1>3. DOMAIN scene.found \subseteq DOMAIN run[w].ids
  BY <1>2, FoundTyped DEF AllMade
<1>4. QED
  BY <1>1, <1>2, <1>3

LEMMA EmptyTyped ==
  ASSUME docs' = [i \in {} |-> {}]
  PROVE  DOMAIN docs' = {} /\ docs' \in [DOMAIN docs' -> Detection]
  OBVIOUS

LEMMA TypeInit == Init => TypeOK
<1> SUFFICES ASSUME Init
             PROVE  TypeOK
  OBVIOUS
<1>1. slot \in [Keys -> Slots] /\ used \in [Keys -> Nat]
  BY DEF Init, Slot!Init, Slots
<1>2. scene \in Scene
  BY DEF Init, Scene
<1>3. run \in [Workers -> Run] /\ call \in [Analysts -> Review]
  BY Values DEF Init
<1>4. DOMAIN docs \subseteq Nat /\ docs \in [DOMAIN docs -> Detection]
  BY DEF Init
<1>5. newest \in Nat
  BY DEF Init
<1>6. left \in [Bound -> Nat]
  BY SceneDetectionAssumption DEF Init, Bound
<1>7. QED
  BY <1>1, <1>2, <1>3, <1>4, <1>5, <1>6 DEF TypeOK, Slots

\* Each attempt action leaves types as they are.
LEMMA RunStepTyped ==
  ASSUME TypeOK, NEW w \in Workers, RunStep(w)
  PROVE  TypeOK'
<1>1. slot \in [Keys -> Slots] /\ used \in [Keys -> Nat] /\ scene \in Scene
      /\ call \in [Analysts -> Review] /\ newest \in Nat /\ left \in [Bound -> Nat]
      /\ DOMAIN docs \subseteq Nat /\ docs \in [DOMAIN docs -> Detection]
  BY DEF TypeOK, Slots
<1>2. newest + 1 \in Nat
  BY <1>1
<1>3. run[w] \in Run
  BY RunTyped
<1>4. CASE StoreScene(w)
  <2>1. scene' \in Scene
    BY <1>1, <1>4 DEF StoreScene, Scene
  <2>2. run' \in [Workers -> Run]
    BY <1>4, GotoTyped DEF StoreScene, Pc
  <2>3. QED
    BY <1>1, <1>4, <2>1, <2>2 DEF StoreScene, TypeOK, Slots, queue
<1>5. CASE Clear(w)
  <2>1. [run[w] EXCEPT !.batch = newest + 1, !.pc = "create"] \in Run
    BY <1>2, <1>3 DEF Run, Pc
  <2>2. run' \in [Workers -> Run]
    BY <2>1, <1>5, BecomeTyped DEF Clear
  <2>3. DOMAIN docs' \subseteq Nat /\ docs' \in [DOMAIN docs' -> Detection]
    BY <1>5, EmptyTyped DEF Clear
  <2>4. QED
    BY <1>1, <1>2, <1>5, <2>2, <2>3 DEF Clear, TypeOK, Slots, queue
<1>6. CASE Create(w)
  <2>1. DOMAIN docs' \subseteq Nat /\ docs' \in [DOMAIN docs' -> Detection]
    BY <1>6, CreateEffect, PutTyped
  <2>2. Append(run[w].ids, newest + 1) \in Seq(Nat)
    BY <1>2, RunTyped
  <2>3. \A p \in Pc : [run[w] EXCEPT !.ids = Append(run[w].ids, newest + 1), !.pc = p] \in Run
    BY <1>3, <2>2 DEF Run
  <2>4. run' \in [Workers -> Run]
    BY <2>3, <1>6, BecomeTyped DEF Create, Pc
  <2>5. QED
    BY <1>1, <1>2, <1>6, <2>1, <2>4 DEF Create, TypeOK, Slots, queue
<1>7. CASE EnqueueDrift(w)
  <2>1. DOMAIN docs' \subseteq Nat /\ docs' \in [DOMAIN docs' -> Detection]
    BY <1>1, <1>7, QueueDriftMarks DEF EnqueueDrift
  <2>2. run' \in [Workers -> Run]
    BY <1>7, GotoTyped DEF EnqueueDrift, Pc
  <2>3. left' \in [Bound -> Nat]
    BY <1>1, <1>7, SpendTyped DEF EnqueueDrift, Bound
  <2>4. QED
    BY <1>1, <1>7, <2>1, <2>2, <2>3 DEF EnqueueDrift, TypeOK, Slots, queue
<1>8. CASE Precompute(w)
  <2>1. PICK ids \in SUBSET {run[w].ids[n] : n \in Selected},
             torn \in SUBSET {run[w].ids[n] : n \in Selected} :
          /\ UNCHANGED left \/ Trouble("failures")
          /\ QueueDrift(ids \cup torn, torn)
          /\ Become(w, [run[w] EXCEPT !.picked = ids,
                                      !.pc = IF ids = {} THEN "return" ELSE "flag"])
    BY <1>8 DEF Precompute
  <2>2. ids \subseteq Nat
    BY <1>8, PickedTyped DEF Precompute
  <2>3. \A p \in Pc : [run[w] EXCEPT !.picked = ids, !.pc = p] \in Run
    BY <1>3, <2>2 DEF Run
  <2>4. run' \in [Workers -> Run]
    BY <2>1, <2>3, BecomeTyped DEF Pc
  <2>5. DOMAIN docs' \subseteq Nat /\ docs' \in [DOMAIN docs' -> Detection]
    BY <1>1, <2>1, QueueDriftMarks
  <2>6. left' \in [Bound -> Nat]
    BY <1>1, <2>1, SpendTyped DEF Bound
  <2>7. QED
    BY <1>1, <1>8, <2>4, <2>5, <2>6 DEF Precompute, TypeOK, Slots, queue
<1>9. CASE Flag(w)
  <2>1. DOMAIN docs' \subseteq Nat /\ docs' \in [DOMAIN docs' -> Detection]
    BY <1>1, <1>9, FlagMarks
  <2>2. run' \in [Workers -> Run]
    BY <1>9, GotoTyped DEF Flag, Pc
  <2>3. QED
    BY <1>1, <1>9, <2>1, <2>2 DEF Flag, TypeOK, Slots, queue
<1>10. CASE Complete(w) \/ Fail(w)
  <2>1. run[w].key \in Keys
    BY <1>10, RunTyped DEF Complete, Done, Fail, At
  <2>2. slot' \in [Keys -> Slots] /\ used' \in [Keys -> Nat]
    BY <1>1, <1>10, <2>1, QueueTyped, GiveBackTyped DEF Complete, Fail, queue
  <2>3. run' \in [Workers -> Run]
    BY <1>10, BecomeTyped, Values DEF Complete, Fail
  <2>4. left' \in [Bound -> Nat]
    BY <1>1, <1>10, SpendTyped DEF Complete, Fail, Bound
  <2>5. QED
    BY <1>1, <1>10, <2>2, <2>3, <2>4 DEF Complete, Fail, TypeOK, Slots
<1>11. QED
  BY <1>4, <1>5, <1>6, <1>7, <1>8, <1>9, <1>10 DEF RunStep

\* The analyst's request a save belongs to.
LEMMA CallTyped ==
  ASSUME TypeOK, NEW a \in Analysts
  PROVE  call[a] \in Review /\ call[a].id \in Nat
  BY DEF TypeOK, Review

LEMMA StartReviewTyped ==
  ASSUME TypeOK, NEW a \in Analysts, NEW i \in DOMAIN docs, NEW action \in Action,
         NEW drawn \in Outlines \cup {NoOutline}, StartReview(a, i, action, drawn)
  PROVE  TypeOK'
<1>1. docs[i] \in Detection /\ i \in Nat
  BY DEF TypeOK
<1>2. docs[i].status \in AutoReview \cup Verdict /\ docs[i].outline \in Outlines
      /\ Len(docs[i].history) \in Nat
  BY <1>1 DEF Detection
<1>3. [id |-> i, action |-> action, drawn |-> drawn, status |-> docs[i].status,
       outline |-> docs[i].outline, entries |-> Len(docs[i].history)] \in Review
  BY <1>1, <1>2 DEF Review
<1>4. call' \in [Analysts -> Review]
  BY <1>3 DEF StartReview, TypeOK
<1>5. left' \in [Bound -> Nat]
  BY SpendTyped DEF StartReview, Bound
<1>6. QED
  BY <1>4, <1>5 DEF StartReview, TypeOK, queue

\* What a save does to the documents: it changes the one it read, or none.
LEMMA SaveEffect ==
  ASSUME TypeOK, NEW a \in Analysts, SaveReview(a)
  PROVE  \/ /\ call[a].id \in DOMAIN docs
            /\ docs[call[a].id] \in Detection
            /\ Put(call[a].id, Saved(docs[call[a].id], call[a]))
            /\ Saved(docs[call[a].id], call[a]) \in Detection
         \/ call[a].id \notin DOMAIN docs /\ UNCHANGED docs
<1>1. CASE call[a].id \in DOMAIN docs
  <2>1. docs[call[a].id] \in Detection
    BY <1>1 DEF TypeOK
  <2>2. QED
    BY <1>1, <2>1, CallTyped, SavedTyped DEF SaveReview
<1>2. CASE call[a].id \notin DOMAIN docs
  BY <1>2 DEF SaveReview
<1>3. QED
  BY <1>1, <1>2

LEMMA SaveReviewTyped ==
  ASSUME TypeOK, NEW a \in Analysts, SaveReview(a)
  PROVE  TypeOK'
<1>1. DOMAIN docs' \subseteq Nat /\ docs' \in [DOMAIN docs' -> Detection]
  <2>1. CASE UNCHANGED docs
    BY <2>1 DEF TypeOK
  <2>2. CASE Put(call[a].id, Saved(docs[call[a].id], call[a]))
             /\ Saved(docs[call[a].id], call[a]) \in Detection
    BY <2>2, CallTyped, PutTyped
  <2>3. QED
    BY <2>1, <2>2, SaveEffect
<1>2. call' \in [Analysts -> Review]
  BY Values DEF SaveReview, TypeOK
<1>3. QED
  BY <1>1, <1>2 DEF SaveReview, TypeOK, queue

LEMMA TypeStep == TypeOK /\ [Next]_vars => TypeOK'
<1> SUFFICES ASSUME TypeOK, [Next]_vars
             PROVE  TypeOK'
  OBVIOUS
<1>1. ASSUME NEW k \in Keys, Request(k) \/ Cancel(k)
      PROVE  TypeOK'
  <2>1. slot' \in [Keys -> Slots] /\ used' \in [Keys -> Nat]
    BY <1>1, QueueTyped DEF Request, Cancel
  <2>2. left' \in [Bound -> Nat]
    BY <1>1, SpendTyped DEF Request, Cancel, Bound, TypeOK
  <2>3. QED
    BY <1>1, <2>1, <2>2 DEF Request, Cancel, TypeOK, Slots
<1>2. ASSUME NEW w \in Workers, NEW k \in Keys, Pick(w, k)
      PROVE  TypeOK'
  <2>1. slot' \in [Keys -> Slots] /\ used' \in [Keys -> Nat]
    BY <1>2, QueueTyped DEF Pick
  <2>2. PICK p \in Pc : Become(w, [Free EXCEPT !.key = k, !.pc = p])
    BY <1>2 DEF Pick, Pc
  <2>3. [Free EXCEPT !.key = k, !.pc = p] \in Run
    BY Values DEF Run
  <2>4. run' \in [Workers -> Run]
    BY <2>2, <2>3, BecomeTyped
  <2>5. QED
    BY <1>2, <2>1, <2>4 DEF Pick, TypeOK, Slots
<1>3. ASSUME NEW w \in Workers, Stall(w)
      PROVE  TypeOK'
  <2>1. slot' \in [Keys -> Slots] /\ used' \in [Keys -> Nat]
    BY <1>3, RunTyped, GiveBackTyped DEF Stall
  <2>2. [run[w] EXCEPT !.zombie = TRUE] \in Run
    BY RunTyped DEF Run
  <2>3. run' \in [Workers -> Run]
    BY <1>3, <2>2, BecomeTyped DEF Stall
  <2>4. left' \in [Bound -> Nat]
    BY <1>3, SpendTyped DEF Stall, Bound
  <2>5. QED
    BY <1>3, <2>1, <2>3, <2>4 DEF Stall, TypeOK, Slots
<1>4. CASE UNCHANGED vars
  BY <1>4 DEF vars, TypeOK
<1>5. QED
  BY <1>1, <1>2, <1>3, <1>4, RunStepTyped, StartReviewTyped, SaveReviewTyped DEF Next

\* The documents, attempts and reviews have the types the code gives them.
THEOREM TypeCorrect == Spec => []TypeOK
<1>1. Init => TypeOK
  BY TypeInit
<1>2. TypeOK /\ [Next]_vars => TypeOK'
  BY TypeStep
<1>3. QED
  BY <1>1, <1>2, PTL DEF Spec

-----------------------------------------------------------------------------
(* Versions of a detection *)

\* A set of numbers that is not empty has a first one.
LEMMA FirstOf ==
  ASSUME NEW S \in SUBSET Nat, S # {}
  PROVE  \E m \in S : \A l \in S : m <= l
<1>1. PICK m \in S : \A l \in S : ~ (<<l, m>> \in OpToRel(<, Nat))
  BY WFMin, NatLessThanWellFounded
<1>2. \A l \in S : ~ (l < m)
  BY <1>1 DEF OpToRel
<1>3. QED
  BY <1>2

\* Versions read that first edit.
LEMMA VersionAt ==
  ASSUME NEW d \in Detection, NEW n \in Nat, NEW m \in LaterEdits(d, n),
         \A l \in LaterEdits(d, n) : m <= l
  PROVE  VersionOutline(d, n) = d.history[m].before
<1> DEFINE S == LaterEdits(d, n)
           q == CHOOSE k \in S : \A l \in S : k <= l
<1>1. S \in SUBSET Nat
  BY DEF LaterEdits, Detection
<1>2. VersionOutline(d, n) = d.history[q].before
  BY DEF VersionOutline
<1>3. m \in S /\ \A l \in S : m <= l
  OBVIOUS
<1> HIDE DEF S
<1>4. q \in S /\ \A l \in S : q <= l
  BY <1>3
<1> HIDE DEF q
<1>5. q \in Nat /\ m \in Nat /\ q <= m /\ m <= q
  BY <1>1, <1>3, <1>4
<1>6. q = m
  BY <1>5
<1>7. QED
  BY <1>2, <1>6

LEMMA NoLaterEdit ==
  ASSUME NEW d, NEW n, LaterEdits(d, n) = {}
  PROVE  VersionOutline(d, n) = d.outline
  BY DEF VersionOutline

\* What a save makes of the history: one entry more.
LEMMA SavedHistory ==
  ASSUME NEW d \in Detection, NEW c \in Review, NEW L, L = Len(d.history)
  PROVE  /\ L \in Nat /\ DOMAIN d.history = 1..L
         /\ DOMAIN Saved(d, c).history = 1..(L + 1)
         /\ Len(Saved(d, c).history) = L + 1
         /\ \A m \in 1..L : Saved(d, c).history[m] = d.history[m]
         /\ Saved(d, c).history[L + 1] = EntryOf(c)
         /\ EntryOf(c).action = c.action
         /\ c.action = "EDIT" => EntryOf(c).before = c.outline
         /\ Saved(d, c).outline = OutlineSaved(d, c)
         /\ Saved(d, c).status = StatusSaved(d, c)
         /\ Saved(d, c).raced = (d.raced \/ L # c.entries)
         /\ Saved(d, c).after = Append(d.after, OutlineSaved(d, c))
<1>1. d.history \in Seq(Entry) /\ EntryOf(c) \in Entry
  BY SavedTyped DEF Detection
<1>2. PICK st, o, h, f, r :
        /\ st = StatusSaved(d, c) /\ o = OutlineSaved(d, c)
        /\ h = Append(d.history, EntryOf(c)) /\ f = Append(d.after, o)
        /\ r = (d.raced \/ L # c.entries)
  OBVIOUS
<1>3. Saved(d, c) = [d EXCEPT !.status = st, !.outline = o, !.history = h, !.after = f,
                              !.raced = r]
  BY <1>2, SavedTyped
<1>4. /\ Saved(d, c).status = st /\ Saved(d, c).outline = o /\ Saved(d, c).history = h
      /\ Saved(d, c).after = f /\ Saved(d, c).raced = r
  BY <1>3 DEF Detection
<1>5. EntryOf(c).action = c.action /\ (c.action = "EDIT" => EntryOf(c).before = c.outline)
  BY DEF EntryOf
<1>6. QED
  BY <1>1, <1>2, <1>4, <1>5

\* What a save makes of the version that was there: the same, if an edit came after
\* it; otherwise what this edit had read, or the outline that stays.
LEMMA SavedVersion ==
  ASSUME NEW d \in Detection, NEW c \in Review, NEW n \in 0..Len(d.history),
         c.drawn = NoOutline <=> c.action # "EDIT"
  PROVE  /\ LaterEdits(d, n) # {} =>
              /\ LaterEdits(Saved(d, c), n) # {}
              /\ VersionOutline(Saved(d, c), n) = VersionOutline(d, n)
         /\ LaterEdits(d, n) = {} =>
              /\ VersionOutline(Saved(d, c), n) =
                   (IF c.action = "EDIT" THEN c.outline ELSE d.outline)
              /\ LaterEdits(Saved(d, c), n) = {} <=> c.action # "EDIT"
<1>1. PICK L \in Nat : L = Len(d.history)
  BY DEF Detection
<1>2. PICK e \in Detection : e = Saved(d, c)
  BY SavedTyped
<1>3. /\ DOMAIN d.history = 1..L /\ DOMAIN e.history = 1..(L + 1)
      /\ \A m \in 1..L : e.history[m] = d.history[m]
      /\ e.history[L + 1].action = c.action
      /\ c.action = "EDIT" => e.history[L + 1].before = c.outline
      /\ e.outline = OutlineSaved(d, c)
  BY <1>1, <1>2, SavedHistory
<1>4. n \in Nat /\ n <= L
  BY <1>1
<1>5. /\ LaterEdits(d, n) = {m \in 1..L : m > n /\ d.history[m].action = "EDIT"}
      /\ LaterEdits(e, n) = {m \in 1..(L + 1) : m > n /\ e.history[m].action = "EDIT"}
  BY <1>3 DEF LaterEdits
<1>6. CASE LaterEdits(d, n) # {}
  <2>1. LaterEdits(d, n) \in SUBSET Nat
    BY <1>5
  <2>2. PICK m \in LaterEdits(d, n) : \A l \in LaterEdits(d, n) : m <= l
    BY <1>6, <2>1, FirstOf
  <2>3. m \in LaterEdits(e, n) /\ m \in 1..L
    BY <1>1, <1>3, <1>5, <2>2
  <2>4. \A l \in LaterEdits(e, n) : m <= l
    BY <1>1, <1>3, <1>5, <2>2, <2>3
  <2>5. VersionOutline(d, n) = d.history[m].before
    BY <1>4, <2>2, VersionAt
  <2>6. VersionOutline(e, n) = e.history[m].before
    BY <1>4, <2>3, <2>4, VersionAt
  <2>7. QED
    BY <1>2, <1>3, <1>6, <2>3, <2>5, <2>6
<1>7. CASE LaterEdits(d, n) = {} /\ c.action = "EDIT"
  <2>1. LaterEdits(e, n) = {L + 1}
    BY <1>1, <1>3, <1>4, <1>5, <1>7
  <2>2. VersionOutline(e, n) = e.history[L + 1].before
    BY <1>1, <1>4, <2>1, VersionAt
  <2>3. QED
    BY <1>2, <1>3, <1>7, <2>1, <2>2
<1>8. CASE LaterEdits(d, n) = {} /\ c.action # "EDIT"
  <2>1. LaterEdits(e, n) = {}
    BY <1>1, <1>3, <1>4, <1>5, <1>8
  <2>2. OutlineSaved(d, c) = d.outline
    BY <1>8 DEF OutlineSaved
  <2>3. VersionOutline(e, n) = d.outline
    BY <1>3, <2>1, <2>2, NoLaterEdit
  <2>4. QED
    BY <1>2, <1>8, <2>1, <2>3
<1>9. QED
  BY <1>6, <1>7, <1>8

-----------------------------------------------------------------------------
(* Reviews.  A document is Good when its versions and its status are accounted *)
(* for; what a review has Seen of one is still what it was, or an edit of it is *)
(* on record.                                                                   *)

Good(d) ==
  /\ Len(d.after) = Len(d.history)
  /\ VersionOutline(d, 0) = Model
  /\ ~d.raced => \A n \in DOMAIN d.history : VersionOutline(d, n) = d.after[n]
  /\ IsLabel(d) => \E n \in DOMAIN d.history : STATUS_FOR[d.history[n].action] = d.status

Seen(d, c) ==
  /\ c.entries = Len(d.history) => c.outline = d.outline
  /\ c.outline # Model => LaterEdits(d, 0) # {}
  /\ c.entries <= Len(d.history)

DocsGood == \A i \in DOMAIN docs : i > 0 /\ i <= newest /\ Good(docs[i])

CallSeen(a) ==
  /\ call[a].id <= newest
  /\ call[a].drawn = NoOutline <=> call[a].action # "EDIT"
  /\ call[a].id \in DOMAIN docs => Seen(docs[call[a].id], call[a])

ReviewInv == DocsGood /\ \A a \in Analysts : CallSeen(a)

LEMMA NewGood ==
  ASSUME TypeOK, NEW w \in Workers, run[w].key # Nobody, NEW n \in DOMAIN scene.found
  PROVE  Good(NewDetection(run[w], n))
<1>1. PICK d \in Detection : d = NewDetection(run[w], n)
  BY NewTyped
<1>2. d.history = <<>> /\ d.after = <<>> /\ d.outline = Model /\ d.status \in AutoReview
  BY <1>1, NewTyped
<1>3. LaterEdits(d, 0) = {}
  BY <1>2 DEF LaterEdits
<1>4. VersionOutline(d, 0) = Model
  BY <1>2, <1>3, NoLaterEdit
<1>5. ~IsLabel(d)
  BY <1>2 DEF IsLabel, AutoReview, Verdict
<1>6. QED
  BY <1>1, <1>2, <1>4, <1>5 DEF Good

\* Marking a document changes nothing of this.
LEMMA MarkedGood ==
  ASSUME NEW d \in Detection, NEW e, Marked(d, e)
  PROVE  /\ Good(d) => Good(e)
         /\ \A c : Seen(d, c) => Seen(e, c)
<1>1. e.history = d.history /\ e.outline = d.outline /\ e.status = d.status
      /\ e.after = d.after /\ e.raced = d.raced
  BY DEF Marked
<1>2. \A n : LaterEdits(e, n) = LaterEdits(d, n)
  BY <1>1 DEF LaterEdits
<1>3. ASSUME NEW n \in Nat
      PROVE  VersionOutline(e, n) = VersionOutline(d, n)
  <2>1. LaterEdits(e, n) = LaterEdits(d, n)
    BY <1>2
  <2>2. CASE LaterEdits(d, n) = {}
    BY <1>1, <2>1, <2>2, NoLaterEdit
  <2>3. CASE LaterEdits(d, n) # {}
    <3>1. LaterEdits(d, n) \in SUBSET Nat
      BY DEF LaterEdits, Detection
    <3>2. PICK m \in LaterEdits(d, n) : \A l \in LaterEdits(d, n) : m <= l
      BY <2>3, <3>1, FirstOf
    <3>3. VersionOutline(d, n) = d.history[m].before
      BY <3>2, VersionAt
    <3>4. e \in Detection
      BY DEF Marked
    <3>5. VersionOutline(e, n) = e.history[m].before
      BY <2>1, <3>2, <3>4, VersionAt
    <3>6. QED
      BY <1>1, <3>3, <3>5
  <2>4. QED
    BY <2>2, <2>3
<1>4. Good(d) => Good(e)
  <2>1. DOMAIN d.history \subseteq Nat
    BY DEF Detection
  <2>2. QED
    BY <1>1, <1>3, <2>1 DEF Good, IsLabel
<1>5. \A c : Seen(d, c) => Seen(e, c)
  BY <1>1, <1>2 DEF Seen
<1>6. QED
  BY <1>4, <1>5

\* So does a save by a review that has Seen the document.
LEMMA SavedGood ==
  ASSUME NEW d \in Detection, NEW c \in Review, Good(d), Seen(d, c),
         c.drawn = NoOutline <=> c.action # "EDIT"
  PROVE  Good(Saved(d, c))
<1>1. PICK L \in Nat : L = Len(d.history)
  BY DEF Detection
<1>2. PICK e \in Detection : e = Saved(d, c)
  BY SavedTyped
<1>3. /\ DOMAIN d.history = 1..L /\ DOMAIN e.history = 1..(L + 1) /\ Len(e.history) = L + 1
      /\ \A m \in 1..L : e.history[m] = d.history[m]
      /\ e.history[L + 1].action = c.action
      /\ e.outline = OutlineSaved(d, c)
      /\ e.status = StatusSaved(d, c)
      /\ e.raced = (d.raced \/ L # c.entries)
      /\ e.after = Append(d.after, OutlineSaved(d, c))
  BY <1>1, <1>2, SavedHistory
<1>4. d.after \in Seq(Outlines) /\ Len(d.after) = L /\ OutlineSaved(d, c) \in Outlines
  BY <1>1, SavedTyped DEF Detection, Good
<1>5. Len(e.after) = L + 1 /\ e.after[L + 1] = OutlineSaved(d, c)
      /\ \A m \in 1..L : e.after[m] = d.after[m]
  BY <1>1, <1>3, <1>4
<1>6. VersionOutline(e, 0) = Model
  <2>1. 0 \in 0..Len(d.history)
    BY <1>1
  <2>2. CASE LaterEdits(d, 0) # {}
    BY <1>2, <2>1, <2>2, SavedVersion DEF Good
  <2>3. CASE LaterEdits(d, 0) = {}
    <3>1. d.outline = Model
      BY <2>3, NoLaterEdit DEF Good
    <3>2. c.outline = Model
      BY <2>3 DEF Seen
    <3>3. QED
      BY <1>2, <2>1, <2>3, <3>1, <3>2, SavedVersion
  <2>4. QED
    BY <2>2, <2>3
<1>7. ASSUME ~e.raced, NEW n \in 1..(L + 1)
      PROVE  VersionOutline(e, n) = e.after[n]
  <2>1. ~d.raced /\ c.entries = L
    BY <1>3, <1>7
  <2>2. c.outline = d.outline
    BY <1>1, <2>1 DEF Seen
  <2>3. CASE n = L + 1
    <3>1. LaterEdits(e, n) = {}
      BY <1>3, <2>3 DEF LaterEdits
    <3>2. QED
      BY <1>3, <1>5, <2>3, <3>1, NoLaterEdit
  <2>4. CASE n \in 1..L
    <3>1. n \in 0..Len(d.history)
      BY <1>1, <2>4
    <3>2. VersionOutline(d, n) = d.after[n] /\ e.after[n] = d.after[n]
      BY <1>3, <1>5, <2>1, <2>4 DEF Good
    <3>3. LaterEdits(d, n) = {} => VersionOutline(d, n) = d.outline
      BY NoLaterEdit
    <3>4. QED
      BY <1>2, <2>2, <3>1, <3>2, <3>3, SavedVersion
  <2>5. QED
    BY <2>3, <2>4
<1>8. ASSUME IsLabel(e)
      PROVE  \E n \in DOMAIN e.history : STATUS_FOR[e.history[n].action] = e.status
  <2>1. CASE STATUS_FOR[c.action] = c.status
    <3>1. e.status = d.status
      BY <1>3, <2>1 DEF StatusSaved
    <3>2. PICK n \in DOMAIN d.history : STATUS_FOR[d.history[n].action] = d.status
      BY <1>8, <3>1 DEF IsLabel, Good
    <3>3. n \in DOMAIN e.history /\ e.history[n] = d.history[n]
      BY <1>1, <1>3, <3>2
    <3>4. QED
      BY <3>1, <3>2, <3>3
  <2>2. CASE STATUS_FOR[c.action] # c.status
    <3>1. e.status = STATUS_FOR[c.action]
      BY <1>3, <2>2 DEF StatusSaved
    <3>2. L + 1 \in DOMAIN e.history
      BY <1>1, <1>3
    <3>3. QED
      BY <1>3, <3>1, <3>2
  <2>3. QED
    BY <2>1, <2>2
<1>9. QED
  BY <1>2, <1>3, <1>5, <1>6, <1>7, <1>8 DEF Good

\* And what other reviews have Seen stays so.
LEMMA SavedSeen ==
  ASSUME NEW d \in Detection, NEW c \in Review, NEW b \in Review, Seen(d, b),
         c.drawn = NoOutline <=> c.action # "EDIT"
  PROVE  Seen(Saved(d, c), b)
<1>1. PICK L \in Nat : L = Len(d.history)
  BY DEF Detection
<1>2. Len(Saved(d, c).history) = L + 1 /\ 0 \in 0..Len(d.history)
  BY <1>1, SavedHistory
<1>3. b.entries \in Nat /\ b.entries <= L
  BY <1>1 DEF Seen, Review
<1>4. b.outline # Model => LaterEdits(Saved(d, c), 0) # {}
  BY <1>2, SavedVersion DEF Seen
<1>5. QED
  BY <1>2, <1>3, <1>4 DEF Seen

\* What a step may do to documents and reviews.
KeepsReviews == UNCHANGED <<docs, call>> /\ newest' >= newest
ClearsDocs   == DOMAIN docs' = {} /\ call' = call /\ newest' >= newest
MarksDocs    ==
  /\ DOMAIN docs' = DOMAIN docs
  /\ \A i \in DOMAIN docs : Marked(docs[i], docs'[i])
  /\ UNCHANGED <<call, newest>>
AddsDoc ==
  /\ \E d : Good(d) /\ Put(newest + 1, d)
  /\ newest' = newest + 1 /\ call' = call
Reviews ==
  \/ \E a \in Analysts, i \in DOMAIN docs, action \in Action,
        drawn \in Outlines \cup {NoOutline} : StartReview(a, i, action, drawn)
  \/ \E a \in Analysts : SaveReview(a)

LEMMA DocMoves ==
  ASSUME TypeOK, [Next]_vars
  PROVE  /\ KeepsReviews \/ ClearsDocs \/ MarksDocs \/ AddsDoc \/ Reviews
         /\ \/ KeepsReviews \/ MarksDocs \/ Reviews
            \/ \E w \in Workers : Clear(w) \/ Create(w)
<1>1. newest \in Nat
  BY DEF TypeOK
<1>2. ASSUME NEW w \in Workers, StoreScene(w) \/ Complete(w) \/ Fail(w) \/ Stall(w)
      PROVE  KeepsReviews
  BY <1>1, <1>2 DEF StoreScene, Complete, Fail, Stall, KeepsReviews
<1>3. ASSUME NEW w \in Workers, Clear(w)
      PROVE  ClearsDocs
  BY <1>1, <1>3 DEF Clear, ClearsDocs
<1>4. ASSUME NEW w \in Workers, Create(w)
      PROVE  AddsDoc
  <2>1. run[w].key # Nobody
    BY <1>4 DEF Create, At
  <2>2. QED
    BY <1>4, <2>1, CreateEffect, NewGood DEF AddsDoc, Create
<1>5. ASSUME NEW w \in Workers, EnqueueDrift(w) \/ Precompute(w) \/ Flag(w)
      PROVE  MarksDocs
  <2>1. UNCHANGED <<call, newest>>
    BY <1>5 DEF EnqueueDrift, Precompute, Flag
  <2>2. Flag(w) \/ \E ids, torn : QueueDrift(ids, torn)
    BY <1>5 DEF EnqueueDrift, Precompute
  <2>3. QED
    BY <2>1, <2>2, QueueDriftMarks, FlagMarks DEF MarksDocs
<1>6. ASSUME NEW k \in Keys, Request(k) \/ Cancel(k)
      PROVE  KeepsReviews
  BY <1>1, <1>6 DEF Request, Cancel, KeepsReviews
<1>7. ASSUME NEW w \in Workers, NEW k \in Keys, Pick(w, k)
      PROVE  KeepsReviews
  BY <1>1, <1>7 DEF Pick, KeepsReviews
<1>8. CASE UNCHANGED vars
  BY <1>1, <1>8 DEF vars, KeepsReviews
<1>9. QED
  BY <1>2, <1>3, <1>4, <1>5, <1>6, <1>7, <1>8 DEF Next, RunStep, Reviews

LEMMA ReviewInit == Init => ReviewInv
  BY DEF Init, ReviewInv, DocsGood, CallSeen, Idle

LEMMA ReviewStep ==
  ASSUME TypeOK, ReviewInv, [Next]_vars
  PROVE  ReviewInv'
<1>1. /\ newest \in Nat /\ DOMAIN docs \subseteq Nat
      /\ \A i \in DOMAIN docs : docs[i] \in Detection
      /\ \A a \in Analysts : call[a] \in Review /\ call[a].id \in Nat
  BY CallTyped DEF TypeOK
<1>2. newest' \in Nat
  BY TypeStep DEF TypeOK
<1>3. CASE KeepsReviews
  <2>1. docs' = docs /\ call' = call /\ \A n \in Nat : n <= newest => n <= newest'
    BY <1>1, <1>2, <1>3 DEF KeepsReviews
  <2>2. DocsGood'
    BY <1>1, <2>1 DEF ReviewInv, DocsGood
  <2>3. ASSUME NEW a \in Analysts
        PROVE  CallSeen(a)'
    <3>1. CallSeen(a)
      BY DEF ReviewInv
    <3>2. call[a].id \in Nat
      BY <1>1
    <3>3. QED
      BY <2>1, <3>1, <3>2 DEF CallSeen
  <2>4. QED
    BY <2>2, <2>3 DEF ReviewInv
<1>4. CASE ClearsDocs
  <2>1. DOMAIN docs' = {} /\ call' = call /\ \A n \in Nat : n <= newest => n <= newest'
    BY <1>1, <1>2, <1>4 DEF ClearsDocs
  <2>2. DocsGood'
    BY <2>1 DEF DocsGood
  <2>3. ASSUME NEW a \in Analysts
        PROVE  CallSeen(a)'
    <3>1. CallSeen(a)
      BY DEF ReviewInv
    <3>2. call[a].id \in Nat
      BY <1>1
    <3>3. QED
      BY <2>1, <3>1, <3>2 DEF CallSeen
  <2>4. QED
    BY <2>2, <2>3 DEF ReviewInv
<1>5. CASE MarksDocs
  <2>1. DocsGood'
    BY <1>1, <1>5, MarkedGood DEF MarksDocs, ReviewInv, DocsGood
  <2>2. ASSUME NEW a \in Analysts
        PROVE  CallSeen(a)'
    BY <1>1, <1>5, MarkedGood DEF MarksDocs, ReviewInv, CallSeen
  <2>3. QED
    BY <2>1, <2>2 DEF ReviewInv
<1>6. CASE AddsDoc
  <2>1. PICK d : Good(d) /\ Put(newest + 1, d)
    BY <1>6 DEF AddsDoc
  <2>2. newest' = newest + 1 /\ call' = call
    BY <1>6 DEF AddsDoc
  <2>3. DOMAIN docs' = DOMAIN docs \cup {newest + 1} /\ docs'[newest + 1] = d
        /\ \A i \in DOMAIN docs : i # newest + 1 => docs'[i] = docs[i]
    BY <2>1 DEF Put
  <2>4. \A i \in DOMAIN docs : i # newest + 1
    BY <1>1 DEF ReviewInv, DocsGood
  <2>5. DocsGood'
    BY <1>1, <2>1, <2>2, <2>3, <2>4 DEF ReviewInv, DocsGood
  <2>6. ASSUME NEW a \in Analysts
        PROVE  CallSeen(a)'
    <3>1. call[a].id # newest + 1 /\ call[a].id <= newest + 1
      <4>1. call[a].id <= newest /\ call[a].id \in Nat
        <5>1. CallSeen(a) /\ call[a].id \in Nat
          BY <1>1 DEF ReviewInv
        <5>2. QED
          BY <5>1 DEF CallSeen
      <4>2. QED
        BY <1>1, <4>1
    <3>2. QED
      BY <2>2, <2>3, <2>4, <3>1 DEF ReviewInv, CallSeen
  <2>7. QED
    BY <2>5, <2>6 DEF ReviewInv
<1>7. ASSUME NEW a \in Analysts, NEW i \in DOMAIN docs, NEW action \in Action,
             NEW drawn \in Outlines \cup {NoOutline}, StartReview(a, i, action, drawn)
      PROVE  ReviewInv'
  <2>1. UNCHANGED <<docs, newest>>
    BY <1>7 DEF StartReview
  <2>2. DocsGood'
    BY <2>1 DEF ReviewInv, DocsGood
  <2>3. /\ call'[a].id = i /\ call'[a].drawn = drawn /\ call'[a].action = action
        /\ call'[a].outline = docs[i].outline /\ call'[a].entries = Len(docs[i].history)
        /\ \A b \in Analysts : b # a => call'[b] = call[b]
    BY <1>7 DEF StartReview, TypeOK
  <2>4. docs[i].outline # Model => LaterEdits(docs[i], 0) # {}
    BY NoLaterEdit DEF ReviewInv, DocsGood, Good
  <2>5. Len(docs[i].history) \in Nat
    BY <1>1 DEF Detection
  <2>6. Seen(docs[i], call'[a])
    BY <2>3, <2>4, <2>5 DEF Seen
  <2>7. drawn = NoOutline <=> action # "EDIT"
    BY <1>7 DEF StartReview
  <2>8. i <= newest
    BY DEF ReviewInv, DocsGood
  <2>9. CallSeen(a)'
    BY <2>1, <2>3, <2>6, <2>7, <2>8 DEF CallSeen
  <2>10. ASSUME NEW b \in Analysts, b # a
         PROVE  CallSeen(b)'
    BY <2>1, <2>3, <2>10 DEF ReviewInv, CallSeen
  <2>11. QED
    BY <2>2, <2>9, <2>10 DEF ReviewInv
<1>8. ASSUME NEW a \in Analysts, SaveReview(a)
      PROVE  ReviewInv'
  <2>1. newest' = newest /\ call'[a] = Idle /\ \A b \in Analysts : b # a => call'[b] = call[b]
    BY <1>8 DEF SaveReview, TypeOK
  <2>2. Idle.id = 0 /\ Idle.drawn = NoOutline /\ Idle.action = "REOPEN"
    BY DEF Idle
  <2>3. CASE UNCHANGED docs
    <3>1. DocsGood'
      BY <2>1, <2>3 DEF ReviewInv, DocsGood
    <3>2. 0 \notin DOMAIN docs
      BY DEF ReviewInv, DocsGood
    <3>3. \A b \in Analysts : CallSeen(b)'
      BY <1>1, <2>1, <2>2, <2>3, <3>2 DEF ReviewInv, CallSeen
    <3>4. QED
      BY <3>1, <3>3 DEF ReviewInv
  <2>4. ASSUME NEW i \in DOMAIN docs, i = call[a].id, Put(i, Saved(docs[i], call[a])),
               docs[i] \in Detection, Saved(docs[i], call[a]) \in Detection
        PROVE  ReviewInv'
    <3>1. DOMAIN docs' = DOMAIN docs /\ docs'[i] = Saved(docs[i], call[a])
          /\ \A j \in DOMAIN docs : j # i => docs'[j] = docs[j]
      BY <2>4 DEF Put
    <3>2. Good(docs[i]) /\ Seen(docs[i], call[a])
          /\ (call[a].drawn = NoOutline <=> call[a].action # "EDIT")
      BY <2>4 DEF ReviewInv, DocsGood, CallSeen
    <3>3. Good(docs'[i])
      BY <1>1, <2>4, <3>1, <3>2, SavedGood
    <3>4. DocsGood'
      BY <2>1, <3>1, <3>3 DEF ReviewInv, DocsGood
    <3>5. ASSUME NEW b \in Analysts, b # a
          PROVE  CallSeen(b)'
      <4>1. call[b].id = i => Seen(docs'[i], call[b])
        BY <1>1, <2>4, <3>1, <3>2, SavedSeen DEF ReviewInv, CallSeen
      <4>2. QED
        BY <2>1, <3>1, <3>5, <4>1 DEF ReviewInv, CallSeen
    <3>6. CallSeen(a)'
      <4>1. 0 \notin DOMAIN docs
        BY DEF ReviewInv, DocsGood
      <4>2. QED
        BY <1>1, <2>1, <2>2, <3>1, <4>1 DEF CallSeen
    <3>7. QED
      BY <3>4, <3>5, <3>6 DEF ReviewInv
  <2>5. QED
    BY <1>8, <2>3, <2>4, SaveEffect
<1>9. QED
  BY <1>3, <1>4, <1>5, <1>6, <1>7, <1>8, DocMoves DEF Reviews

LEMMA ReviewInvariant == Spec => [](TypeOK /\ ReviewInv)
<1>1. Init => TypeOK /\ ReviewInv
  BY TypeInit, ReviewInit
<1>2. TypeOK /\ ReviewInv /\ [Next]_vars => (TypeOK /\ ReviewInv)'
  BY TypeStep, ReviewStep
<1>3. QED
  BY <1>1, <1>2, PTL DEF Spec

\* Version 0 of a detection is the model's output, whatever reviews overlap.
THEOREM Version0Correct == Spec => []Version0IsModelOutput
<1>1. TypeOK /\ ReviewInv => Version0IsModelOutput
  BY DEF ReviewInv, DocsGood, Good, Version0IsModelOutput
<1>2. QED
  BY <1>1, ReviewInvariant, PTL

\* Every version shows what its review saved, unless reviews of it overlapped.
THEOREM VersionsCorrect == Spec => []VersionsShowWhatWasSaved
<1>1. TypeOK /\ ReviewInv => VersionsShowWhatWasSaved
  BY DEF ReviewInv, DocsGood, Good, VersionsShowWhatWasSaved
<1>2. QED
  BY <1>1, ReviewInvariant, PTL

\* A label has the review that made it one on record, and an outline that is not the
\* model's has its edit there.
THEOREM JudgementCorrect == Spec => []JudgementIsRecorded
<1>1. ASSUME TypeOK, ReviewInv, NEW i \in DOMAIN docs
      PROVE  LET actions == {docs[i].history[n].action : n \in DOMAIN docs[i].history} IN
             /\ IsLabel(docs[i]) => \E action \in actions : STATUS_FOR[action] = docs[i].status
             /\ "EDIT" \notin actions => docs[i].outline = Model
  <2>1. Good(docs[i])
    BY <1>1 DEF ReviewInv, DocsGood
  <2>2. DOMAIN docs[i].history \subseteq Nat \ {0}
    BY <1>1 DEF TypeOK, Detection
  <2>3. (\A n \in DOMAIN docs[i].history : docs[i].history[n].action # "EDIT")
          => LaterEdits(docs[i], 0) = {}
    BY <2>2 DEF LaterEdits
  <2>4. QED
    BY <2>1, <2>3, NoLaterEdit DEF Good
<1>2. TypeOK /\ ReviewInv => JudgementIsRecorded
  BY <1>1 DEF JudgementIsRecorded
<1>3. QED
  BY <1>2, ReviewInvariant, PTL

-----------------------------------------------------------------------------
(* The attempts under way that hold their lock are of different jobs, which   *)
(* the queue holds as running; as long as no lock is lost, these are all.     *)

Exclusive ==
  /\ left["stalls"] <= MaxStalls
  /\ NoStallYet => \A w \in Workers : run[w].key # Nobody => ~run[w].zombie
  /\ \A w \in Workers : run[w].key # Nobody /\ ~run[w].zombie => slot[run[w].key] = "running"
  /\ \A w, v \in Workers :
       run[w].key # Nobody /\ ~run[w].zombie /\ ~run[v].zombie /\ run[w].key = run[v].key
         => w = v

SlotsKeep == \A k \in Keys : slot[k] = "running" => slot'[k] = "running"
SlotsKeepBut(k) == \A l \in Keys : l # k => slot'[l] = slot[l]

\* What a step may do to the attempts and to the jobs they work for.
KeepsHolders ==
  SlotsKeep /\ \A w \in Workers : run'[w].key = run[w].key /\ run'[w].zombie = run[w].zombie
Picks == \E w \in Workers, k \in Keys : Pick(w, k)
Ends  == \E w \in Workers :
  /\ Become(w, Free) /\ run[w].key # Nobody /\ SlotsKeepBut(run[w].key)
  /\ run[w].zombie => SlotsKeep
LosesLock == \E w \in Workers : Stall(w)

LEMMA SlotMoves ==
  ASSUME TypeOK, NEW k \in Keys
  PROVE  /\ Slot!Submit(k) \/ Slot!Withdraw(k) => SlotsKeep
         /\ Slot!Finish(k) \/ GiveBack(k) => SlotsKeepBut(k)
         /\ Slot!Start(k) => slot[k] = "queued" /\ slot'[k] = "running" /\ SlotsKeepBut(k)
  BY DEF TypeOK, SlotsKeep, SlotsKeepBut, GiveBack, Slot!Submit, Slot!Withdraw, Slot!Start,
         Slot!GiveBack, Slot!Finish, Slot!Move

LEMMA StallsDecrease ==
  ASSUME TypeOK, [Next]_vars
  PROVE  left'["stalls"] <= left["stalls"]
<1>1. \A b \in Bound : left[b] \in Nat
  BY DEF TypeOK
<1>2. ASSUME NEW b \in Bound, Spend(b) \/ Trouble(b)
      PROVE  left'["stalls"] <= left["stalls"]
  BY <1>1, <1>2 DEF Spend, Trouble, Bound, TypeOK
<1>3. CASE left' = left
  BY <1>1, <1>3 DEF Bound
<1>4. left' = left \/ \E b \in Bound : Spend(b) \/ Trouble(b)
  BY DEF Next, RunStep, vars, Bound, Request, Cancel, Pick, StoreScene, Clear, Create,
     EnqueueDrift, Precompute, Flag, Complete, Fail, Stall, StartReview, SaveReview
<1>5. QED
  BY <1>2, <1>3, <1>4

LEMMA HolderMoves ==
  ASSUME TypeOK, [Next]_vars
  PROVE  KeepsHolders \/ Picks \/ Ends \/ LosesLock
<1>1. slot' = slot => SlotsKeep /\ \A k \in Keys : SlotsKeepBut(k)
  BY DEF SlotsKeep, SlotsKeepBut
<1>2. \A w \in Workers : run[w] \in Run
  BY RunTyped
<1>3. ASSUME NEW w \in Workers, NEW r, Become(w, r), r.key = run[w].key,
             r.zombie = run[w].zombie, slot' = slot
      PROVE  KeepsHolders
  BY <1>1, <1>3 DEF KeepsHolders, Become, TypeOK
<1>4. ASSUME NEW w \in Workers, StoreScene(w)
      PROVE  KeepsHolders
  <2>1. PICK p \in Pc : Become(w, [run[w] EXCEPT !.pc = p])
    BY <1>4 DEF StoreScene, Goto, Pc
  <2>2. [run[w] EXCEPT !.pc = p].key = run[w].key
        /\ [run[w] EXCEPT !.pc = p].zombie = run[w].zombie
    BY <1>2 DEF Run
  <2>3. QED
    BY <1>3, <1>4, <2>1, <2>2 DEF StoreScene, queue
<1>5. ASSUME NEW w \in Workers, Clear(w)
      PROVE  KeepsHolders
  <2>1. [run[w] EXCEPT !.batch = newest + 1, !.pc = "create"].key = run[w].key
        /\ [run[w] EXCEPT !.batch = newest + 1, !.pc = "create"].zombie = run[w].zombie
    BY <1>2 DEF Run
  <2>2. QED
    BY <1>3, <1>5, <2>1 DEF Clear, queue
<1>6. ASSUME NEW w \in Workers, Create(w)
      PROVE  KeepsHolders
  <2>1. PICK ids, p : p \in Pc /\ Become(w, [run[w] EXCEPT !.ids = ids, !.pc = p])
    BY <1>6 DEF Create, Pc
  <2>2. [run[w] EXCEPT !.ids = ids, !.pc = p].key = run[w].key
        /\ [run[w] EXCEPT !.ids = ids, !.pc = p].zombie = run[w].zombie
    BY <1>2 DEF Run
  <2>3. QED
    BY <1>3, <1>6, <2>1, <2>2 DEF Create, queue
<1>7. ASSUME NEW w \in Workers, EnqueueDrift(w) \/ Precompute(w) \/ Flag(w)
      PROVE  KeepsHolders
  <2>1. PICK ids, p : p \in Pc /\ Become(w, [run[w] EXCEPT !.picked = ids, !.pc = p])
    <3>1. CASE Precompute(w)
      BY <3>1 DEF Precompute, Pc
    <3>2. CASE EnqueueDrift(w) \/ Flag(w)
      <4>1. PICK p \in Pc : Become(w, [run[w] EXCEPT !.pc = p])
        BY <3>2 DEF EnqueueDrift, Flag, Goto, Pc
      <4>2. [run[w] EXCEPT !.pc = p] = [run[w] EXCEPT !.picked = run[w].picked, !.pc = p]
        BY <1>2 DEF Run
      <4>3. QED
        BY <4>1, <4>2
    <3>3. QED
      BY <1>7, <3>1, <3>2
  <2>2. [run[w] EXCEPT !.picked = ids, !.pc = p].key = run[w].key
        /\ [run[w] EXCEPT !.picked = ids, !.pc = p].zombie = run[w].zombie
    BY <1>2 DEF Run
  <2>3. slot' = slot
    BY <1>7 DEF EnqueueDrift, Precompute, Flag, queue
  <2>4. QED
    BY <1>3, <2>1, <2>2, <2>3
<1>8. ASSUME NEW w \in Workers, Complete(w) \/ Fail(w)
      PROVE  Ends
  <2>1. run[w].key \in Keys /\ run[w].key # Nobody /\ Become(w, Free)
    BY <1>8, RunTyped DEF Complete, Done, Fail, At
  <2>2. SlotsKeepBut(run[w].key) /\ (run[w].zombie => SlotsKeep)
    BY <1>1, <1>8, <2>1, SlotMoves DEF Complete, Fail, Holds, queue
  <2>3. QED
    BY <2>1, <2>2 DEF Ends
<1>9. ASSUME NEW k \in Keys, Request(k) \/ Cancel(k)
      PROVE  KeepsHolders
  BY <1>9, SlotMoves DEF Request, Cancel, KeepsHolders
<1>10. CASE UNCHANGED <<run, slot>>
  BY <1>1, <1>10 DEF KeepsHolders
<1>11. Reviews \/ UNCHANGED vars => UNCHANGED <<run, slot>>
  BY DEF Reviews, StartReview, SaveReview, vars, queue
<1>12. QED
  BY <1>4, <1>5, <1>6, <1>7, <1>8, <1>9, <1>10, <1>11
     DEF Next, RunStep, Picks, LosesLock, Reviews

LEMMA ExclusiveInit == Init => Exclusive
  BY SceneDetectionAssumption DEF Init, Exclusive, Bound, Free

LEMMA ExclusiveStep ==
  ASSUME TypeOK, Exclusive, [Next]_vars
  PROVE  Exclusive' /\ (NoStallYet' => NoStallYet)
<1>1. /\ left["stalls"] \in Nat /\ left'["stalls"] \in Nat /\ MaxStalls \in Nat
      /\ left'["stalls"] <= left["stalls"] /\ left["stalls"] <= MaxStalls
  BY StallsDecrease, TypeStep, SceneDetectionAssumption DEF TypeOK, Bound, Exclusive
<1>2. left'["stalls"] <= MaxStalls /\ (NoStallYet' => NoStallYet)
  BY <1>1 DEF NoStallYet
<1>3. \A w \in Workers : run[w] \in Run /\ (run[w].key # Nobody => run[w].key \in Keys)
  BY RunTyped
<1>4. CASE KeepsHolders
  BY <1>2, <1>3, <1>4 DEF KeepsHolders, Exclusive, SlotsKeep
<1>5. CASE Picks
  <2>1. PICK w \in Workers, k \in Keys : Pick(w, k)
    BY <1>5 DEF Picks
  <2>2. PICK p, r : r = [Free EXCEPT !.key = k, !.pc = p] /\ Become(w, r)
    BY <2>1 DEF Pick
  <2>3. r.key = k /\ r.zombie = FALSE
    BY <2>2 DEF Free
  <2>4. \A v \in Workers : run'[v] = IF v = w THEN r ELSE run[v]
    BY <2>2 DEF Become, TypeOK
  <2>5. slot[k] = "queued" /\ slot'[k] = "running" /\ SlotsKeepBut(k)
    BY <2>1, SlotMoves DEF Pick
  <2>6. k # Nobody
    BY SceneDetectionAssumption
  <2>7. \A v \in Workers : run[v].key = k => run[v].zombie
    BY <2>5, <2>6 DEF Exclusive
  <2>8. QED
    BY <1>2, <1>3, <2>3, <2>4, <2>5, <2>7 DEF Exclusive, SlotsKeepBut
<1>6. CASE Ends
  <2>1. PICK w \in Workers :
          /\ Become(w, Free) /\ run[w].key # Nobody /\ SlotsKeepBut(run[w].key)
          /\ run[w].zombie => SlotsKeep
    BY <1>6 DEF Ends
  <2>2. \A v \in Workers : run'[v] = IF v = w THEN Free ELSE run[v]
    BY <2>1 DEF Become, TypeOK
  <2>3. Free.key = Nobody
    BY DEF Free
  <2>4. ASSUME NEW v \in Workers, run'[v].key # Nobody
        PROVE  /\ run'[v] = run[v]
               /\ ~run[v].zombie => slot'[run[v].key] = "running"
    <3>1. v # w /\ run'[v] = run[v]
      BY <2>2, <2>3, <2>4
    <3>2. ASSUME ~run[v].zombie PROVE slot'[run[v].key] = "running"
      BY <1>3, <2>1, <2>4, <3>1, <3>2 DEF Exclusive, SlotsKeepBut, SlotsKeep
    <3>3. QED
      BY <3>1, <3>2
  <2>5. QED
    BY <1>2, <2>4 DEF Exclusive
<1>7. CASE LosesLock
  <2>1. PICK w \in Workers : Stall(w)
    BY <1>7 DEF LosesLock
  <2>2. Become(w, [run[w] EXCEPT !.zombie = TRUE]) /\ run[w].key # Nobody /\ ~run[w].zombie
        /\ SlotsKeepBut(run[w].key)
    BY <1>3, <2>1, SlotMoves DEF Stall, Holds
  <2>3. ~NoStallYet'
    BY <1>1, <2>1 DEF Stall, Trouble, NoStallYet, TypeOK, Bound
  <2>4. \A v \in Workers : run'[v].key = run[v].key
    BY <1>3, <2>2 DEF Become, TypeOK, Run
  <2>5. run'[w].zombie /\ \A v \in Workers : v # w => run'[v] = run[v]
    BY <1>3, <2>2 DEF Become, TypeOK, Run
  <2>6. ASSUME NEW v \in Workers, run'[v].key # Nobody, ~run'[v].zombie
        PROVE  run'[v] = run[v] /\ slot'[run[v].key] = "running"
    BY <1>3, <2>2, <2>5, <2>6 DEF Exclusive, SlotsKeepBut
  <2>7. QED
    BY <1>2, <2>3, <2>6 DEF Exclusive
<1>8. QED
  BY <1>2, <1>4, <1>5, <1>6, <1>7, HolderMoves

-----------------------------------------------------------------------------
(* A detection run, once it has deleted what was there, is older than all that *)
(* is stored.                                                                  *)

DetectPc == {"clear", "create", "return"}
Ran(w) == run[w].key = "detect" /\ run[w].pc = "create"

BatchInv ==
  /\ \A i \in DOMAIN docs : i <= newest
  /\ \A w \in Workers : run[w].key = "detect" => run[w].pc \in DetectPc
  /\ \A w \in Workers : Ran(w) =>
       run[w].batch <= newest /\ \A i \in DOMAIN docs : run[w].batch < i
  /\ \A i, j \in DOMAIN docs : docs[j].by = "detect" => docs[j].batch < i
  /\ NoStallYet => \A w \in Workers, i \in DOMAIN docs :
       Ran(w) /\ docs[i].by = "detect" => docs[i].batch = run[w].batch
  /\ NoStallYet => \A i, j \in DOMAIN docs :
       docs[i].by = "detect" /\ docs[j].by = "detect" => docs[i].batch = docs[j].batch

\* What a step may do to the documents and the detection runs.
KeepsBatches ==
  /\ DOMAIN docs' = DOMAIN docs
  /\ \A i \in DOMAIN docs : docs'[i].by = docs[i].by /\ docs'[i].batch = docs[i].batch
  /\ newest' >= newest
  /\ \A w \in Workers : run'[w].key = "detect" => run'[w].pc \in DetectPc
  /\ \A w \in Workers : Ran(w)' => Ran(w) /\ run'[w].batch = run[w].batch

LEMMA SavedBatch ==
  ASSUME NEW d \in Detection, NEW c \in Review
  PROVE  Saved(d, c).by = d.by /\ Saved(d, c).batch = d.batch
<1>1. PICK st, o, h, f, r :
        /\ st = StatusSaved(d, c) /\ o = OutlineSaved(d, c)
        /\ h = Append(d.history, EntryOf(c)) /\ f = Append(d.after, OutlineSaved(d, c))
        /\ r = (d.raced \/ Len(d.history) # c.entries)
  OBVIOUS
<1>2. Saved(d, c) = [d EXCEPT !.status = st, !.outline = o, !.history = h, !.after = f,
                              !.raced = r]
  BY <1>1, SavedTyped
<1>3. QED
  BY <1>2 DEF Detection

LEMMA DocsKept ==
  ASSUME TypeOK, [Next]_vars, KeepsReviews \/ MarksDocs \/ Reviews
  PROVE  /\ DOMAIN docs' = DOMAIN docs /\ newest' >= newest
         /\ \A i \in DOMAIN docs : docs'[i].by = docs[i].by /\ docs'[i].batch = docs[i].batch
<1>1. newest \in Nat
  BY DEF TypeOK
<1>2. CASE KeepsReviews
  BY <1>2 DEF KeepsReviews
<1>3. CASE MarksDocs
  BY <1>1, <1>3 DEF MarksDocs, Marked
<1>4. CASE Reviews /\ UNCHANGED docs
  BY <1>1, <1>4 DEF Reviews, StartReview, SaveReview
<1>5. ASSUME NEW a \in Analysts, SaveReview(a), ~UNCHANGED docs
      PROVE  /\ DOMAIN docs' = DOMAIN docs /\ newest' >= newest
             /\ \A i \in DOMAIN docs : docs'[i].by = docs[i].by /\ docs'[i].batch = docs[i].batch
  <2>1. newest' = newest
    BY <1>5 DEF SaveReview
  <2>2. PICK i \in DOMAIN docs : Put(i, Saved(docs[i], call[a])) /\ docs[i] \in Detection
    BY <1>5, SaveEffect
  <2>3. Saved(docs[i], call[a]).by = docs[i].by /\ Saved(docs[i], call[a]).batch = docs[i].batch
    BY <2>2, CallTyped, SavedBatch
  <2>4. QED
    BY <1>1, <2>1, <2>2, <2>3 DEF Put
<1>6. Reviews => UNCHANGED docs \/ \E a \in Analysts : SaveReview(a)
  BY DEF Reviews, StartReview
<1>7. QED
  BY <1>2, <1>3, <1>4, <1>5, <1>6

LEMMA BatchMoves ==
  ASSUME TypeOK, BatchInv, [Next]_vars
  PROVE  KeepsBatches \/ (\E w \in Workers : Clear(w)) \/ (\E w \in Workers : Create(w))
<1>1. \A w \in Workers : run[w] \in Run
  BY RunTyped
<1>2. \A w \in Workers : run[w].key = "detect" => run[w].pc \in DetectPc
  BY DEF BatchInv
<1>3. ASSUME NEW w \in Workers, NEW r, Become(w, r),
             r.key = "detect" => r.pc \in DetectPc /\
               (r.pc = "create" => Ran(w) /\ r.batch = run[w].batch)
      PROVE  /\ \A v \in Workers : run'[v].key = "detect" => run'[v].pc \in DetectPc
             /\ \A v \in Workers : Ran(v)' => Ran(v) /\ run'[v].batch = run[v].batch
  <2>1. \A v \in Workers : run'[v] = IF v = w THEN r ELSE run[v]
    BY <1>3 DEF Become, TypeOK
  <2>2. QED
    BY <1>2, <1>3, <2>1 DEF Ran
<1>4. ASSUME UNCHANGED run
      PROVE  /\ \A v \in Workers : run'[v].key = "detect" => run'[v].pc \in DetectPc
             /\ \A v \in Workers : Ran(v)' => Ran(v) /\ run'[v].batch = run[v].batch
  BY <1>2, <1>4 DEF Ran
<1> DEFINE RunsKept ==
      /\ \A v \in Workers : run'[v].key = "detect" => run'[v].pc \in DetectPc
      /\ \A v \in Workers : Ran(v)' => Ran(v) /\ run'[v].batch = run[v].batch
<1>5. ASSUME NEW w \in Workers, NEW k \in Keys, Pick(w, k)
      PROVE  RunsKept
  <2>1. PICK p, r :
          /\ p = (IF k = "ingest" THEN "scene" ELSE "clear") \/ p = "return"
          /\ r = [Free EXCEPT !.key = k, !.pc = p] /\ Become(w, r)
    BY <1>5 DEF Pick
  <2>2. r.key = k /\ r.pc = p
    BY <2>1 DEF Free
  <2>3. QED
    BY <1>3, <2>1, <2>2 DEF Keys, DetectPc
<1>6. ASSUME NEW w \in Workers, StoreScene(w)
      PROVE  RunsKept
  <2>1. run[w].key # "detect"
    BY <1>2, <1>6 DEF StoreScene, At, DetectPc
  <2>2. PICK r : r.key = run[w].key /\ Become(w, r)
    <3>1. PICK p \in Pc : Become(w, [run[w] EXCEPT !.pc = p])
      BY <1>6 DEF StoreScene, Goto, Pc
    <3>2. [run[w] EXCEPT !.pc = p].key = run[w].key
      BY <1>1 DEF Run
    <3>3. QED
      BY <3>1, <3>2
  <2>3. QED
    BY <1>3, <2>1, <2>2
<1>7. ASSUME NEW w \in Workers, EnqueueDrift(w) \/ Precompute(w) \/ Flag(w)
      PROVE  RunsKept
  <2>1. run[w].key # "detect"
    BY <1>2, <1>7 DEF EnqueueDrift, Precompute, Flag, At, DetectPc
  <2>2. PICK r : r.key = run[w].key /\ Become(w, r)
    <3>1. CASE Precompute(w)
      <4>1. PICK p, ids : Become(w, [run[w] EXCEPT !.picked = ids, !.pc = p])
        BY <3>1 DEF Precompute
      <4>2. [run[w] EXCEPT !.picked = ids, !.pc = p].key = run[w].key
        BY <1>1 DEF Run
      <4>3. QED
        BY <4>1, <4>2
    <3>2. CASE EnqueueDrift(w) \/ Flag(w)
      <4>1. PICK p : Become(w, [run[w] EXCEPT !.pc = p])
        BY <3>2 DEF EnqueueDrift, Flag, Goto
      <4>2. [run[w] EXCEPT !.pc = p].key = run[w].key
        BY <1>1 DEF Run
      <4>3. QED
        BY <4>1, <4>2
    <3>3. QED
      BY <1>7, <3>1, <3>2
  <2>3. QED
    BY <1>3, <2>1, <2>2
<1>8. ASSUME NEW w \in Workers, Complete(w) \/ Fail(w)
      PROVE  RunsKept
  <2>1. Become(w, Free) /\ Free.key # "detect"
    BY <1>8, SceneDetectionAssumption DEF Complete, Fail, Free, Keys
  <2>2. QED
    BY <1>3, <2>1
<1>9. ASSUME NEW w \in Workers, Stall(w)
      PROVE  RunsKept
  <2>1. PICK r : r = [run[w] EXCEPT !.zombie = TRUE]
    OBVIOUS
  <2>2. r.key = run[w].key /\ r.batch = run[w].batch /\ r.pc = run[w].pc
    BY <1>1, <2>1 DEF Run
  <2>3. Become(w, r)
    BY <1>9, <2>1 DEF Stall
  <2>4. QED
    BY <1>2, <1>3, <2>2, <2>3 DEF Ran
<1>10. (\E k \in Keys : Request(k) \/ Cancel(k)) \/ Reviews \/ UNCHANGED vars => UNCHANGED run
  BY DEF Request, Cancel, Reviews, StartReview, SaveReview, vars
<1>11. RunsKept \/ (\E w \in Workers : Clear(w)) \/ (\E w \in Workers : Create(w))
  BY <1>4, <1>5, <1>6, <1>7, <1>8, <1>9, <1>10 DEF Next, RunStep, Reviews
<1>12. ASSUME ~\E w \in Workers : Clear(w) \/ Create(w)
       PROVE  KeepsReviews \/ MarksDocs \/ Reviews
  BY <1>12, DocMoves
<1>13. QED
  BY <1>11, <1>12, DocsKept DEF KeepsBatches

LEMMA BatchInit == Init => BatchInv
  BY SceneDetectionAssumption DEF Init, BatchInv, Ran, Free, Keys

LEMMA BatchStep ==
  ASSUME TypeOK, Exclusive, BatchInv, [Next]_vars
  PROVE  BatchInv'
<1>1. /\ newest \in Nat /\ newest' \in Nat /\ DOMAIN docs \subseteq Nat
      /\ \A w \in Workers : run[w] \in Run /\ run[w].batch \in Nat
      /\ \A i \in DOMAIN docs : docs[i].batch \in Nat
  BY TypeStep, RunTyped DEF TypeOK, Detection
<1>2. NoStallYet' => NoStallYet
  BY ExclusiveStep
<1>3. CASE KeepsBatches
  <2>1. \A n \in Nat : n <= newest => n <= newest'
    BY <1>1, <1>3 DEF KeepsBatches
  <2>2. QED
    BY <1>1, <1>2, <1>3, <2>1 DEF KeepsBatches, BatchInv
<1>4. ASSUME NEW w \in Workers, Clear(w)
      PROVE  BatchInv'
  <2>1. DOMAIN docs' = {} /\ newest' = newest + 1
    BY <1>4 DEF Clear
  <2>2. PICK r : r = [run[w] EXCEPT !.batch = newest + 1, !.pc = "create"]
    OBVIOUS
  <2>3. r.key = run[w].key /\ r.batch = newest + 1 /\ r.pc = "create"
    BY <1>1, <2>2 DEF Run
  <2>4. \A v \in Workers : run'[v] = IF v = w THEN r ELSE run[v]
    BY <1>4, <2>2 DEF Clear, Become, TypeOK
  <2>5. QED
    BY <1>1, <2>1, <2>3, <2>4 DEF BatchInv, Ran, DetectPc
<1>5. ASSUME NEW w \in Workers, Create(w)
      PROVE  BatchInv'
  <2>1. PICK d : d = NewDetection(run[w], Len(run[w].ids) + 1)
    OBVIOUS
  <2>2. d.by = run[w].key /\ d.batch = run[w].batch
    BY <2>1 DEF NewDetection
  <2>3. Put(newest + 1, d) /\ newest' = newest + 1
    BY <1>5, <2>1 DEF Create
  <2>4. DOMAIN docs' = DOMAIN docs \cup {newest + 1} /\ docs'[newest + 1] = d
        /\ \A i \in DOMAIN docs : i # newest + 1 => docs'[i] = docs[i]
    BY <2>3 DEF Put
  <2>5. \A i \in DOMAIN docs : i # newest + 1 /\ i <= newest /\ docs'[i] = docs[i]
    BY <1>1, <2>4 DEF BatchInv
  <2>6. PICK p, ids :
          /\ p = (IF d.flagged THEN "enqueue" ELSE "create")
          /\ Become(w, [run[w] EXCEPT !.ids = ids, !.pc = p])
    BY <1>5, <2>1 DEF Create
  <2>7. run[w].key = "detect" => p = "create"
    BY <2>1, <2>6 DEF NewDetection
  <2>8. PICK r : r = [run[w] EXCEPT !.ids = ids, !.pc = p]
    OBVIOUS
  <2>9. r.key = run[w].key /\ r.batch = run[w].batch /\ r.pc = p
    BY <1>1, <2>8 DEF Run
  <2>10. \A v \in Workers : run'[v] = IF v = w THEN r ELSE run[v]
    BY <2>6, <2>8 DEF Become, TypeOK
  <2>11. run[w].key # Nobody /\ run[w].pc = "create"
    BY <1>5 DEF Create, At
  <2>12. \A v \in Workers : Ran(v)' => Ran(v) /\ run'[v].batch = run[v].batch
    BY <2>9, <2>10, <2>11 DEF Ran
  <2>13. ASSUME NEW j \in DOMAIN docs', docs'[j].by = "detect"
         PROVE  /\ \A i \in DOMAIN docs' : docs'[j].batch < i
                /\ docs'[j].batch \in Nat
    <3>1. CASE j = newest + 1
      <4>1. Ran(w)
        BY <2>2, <2>4, <2>11, <2>13, <3>1 DEF Ran
      <4>2. run[w].batch <= newest /\ \A i \in DOMAIN docs : run[w].batch < i
        BY <4>1 DEF BatchInv
      <4>3. QED
        BY <1>1, <2>2, <2>4, <3>1, <4>2
    <3>2. CASE j \in DOMAIN docs
      <4>1. docs[j].by = "detect" /\ docs'[j].batch = docs[j].batch
        BY <2>5, <2>13, <3>2
      <4>2. docs[j].batch < j /\ \A i \in DOMAIN docs : docs[j].batch < i
        BY <3>2, <4>1 DEF BatchInv
      <4>3. j \in Nat /\ j <= newest /\ docs[j].batch \in Nat
        BY <1>1, <2>5, <3>2
      <4>4. QED
        BY <1>1, <2>4, <4>1, <4>2, <4>3
    <3>3. QED
      BY <2>4, <3>1, <3>2
  <2>14. ASSUME NEW v \in Workers, Ran(v)'
         PROVE  run'[v].batch <= newest' /\ \A i \in DOMAIN docs' : run'[v].batch < i
    <3>1. Ran(v) /\ run'[v].batch = run[v].batch
      BY <2>12, <2>14
    <3>2. run[v].batch <= newest /\ \A i \in DOMAIN docs : run[v].batch < i
      BY <3>1 DEF BatchInv
    <3>3. QED
      BY <1>1, <2>3, <2>4, <3>1, <3>2
  <2>15. ASSUME NoStallYet', NEW v \in Workers, NEW i \in DOMAIN docs', Ran(v)',
                docs'[i].by = "detect"
         PROVE  docs'[i].batch = run'[v].batch
    <3>1. NoStallYet /\ Ran(v) /\ run'[v].batch = run[v].batch
      BY <1>2, <2>12, <2>15
    <3>2. CASE i = newest + 1
      <4>1. Ran(w)
        BY <2>2, <2>4, <2>11, <2>15, <3>2 DEF Ran
      <4>2. "detect" # Nobody
        BY SceneDetectionAssumption DEF Keys
      <4>3. v = w
        BY <3>1, <4>1, <4>2 DEF Ran, Exclusive
      <4>4. QED
        BY <2>2, <2>4, <3>1, <3>2, <4>3
    <3>3. CASE i \in DOMAIN docs
      BY <2>5, <2>15, <3>1, <3>3 DEF BatchInv
    <3>4. QED
      BY <2>4, <3>2, <3>3
  <2>16. ASSUME NoStallYet', NEW i \in DOMAIN docs', NEW j \in DOMAIN docs',
                docs'[i].by = "detect", docs'[j].by = "detect"
         PROVE  docs'[i].batch = docs'[j].batch
    <3>1. CASE run[w].key = "detect"
      <4>1. Ran(w)'
        BY <2>9, <2>10, <2>7, <3>1 DEF Ran
      <4>2. QED
        BY <2>15, <2>16, <4>1
    <3>2. CASE run[w].key # "detect"
      <4>1. i \in DOMAIN docs /\ j \in DOMAIN docs
        BY <2>2, <2>4, <2>16, <3>2
      <4>2. QED
        BY <1>2, <2>5, <2>16, <4>1 DEF BatchInv
    <3>3. QED
      BY <3>1, <3>2
  <2>17. \A i \in DOMAIN docs' : i <= newest'
    BY <1>1, <2>3, <2>4, <2>5
  <2>18. \A v \in Workers : run'[v].key = "detect" => run'[v].pc \in DetectPc
    BY <2>9, <2>10, <2>7 DEF BatchInv, DetectPc
  <2>19. QED
    BY <2>13, <2>14, <2>15, <2>16, <2>17, <2>18 DEF BatchInv
<1>6. QED
  BY <1>3, <1>4, <1>5, BatchMoves

\* Detections of a run that was repeated are not stored next to the new ones.
THEOREM SupersedesCorrect == Spec => []RerunSupersedes
<1> DEFINE I == TypeOK /\ Exclusive /\ BatchInv
<1>1. Init => I
  BY TypeInit, ExclusiveInit, BatchInit
<1>2. I /\ [Next]_vars => I'
  BY TypeStep, ExclusiveStep, BatchStep
<1>3. I => RerunSupersedes
  <2>1. ASSUME TypeOK, BatchInv, NEW i \in DOMAIN docs, NEW j \in DOMAIN docs,
               docs[j].by = "detect"
        PROVE  i > docs[j].batch
               /\ (NoStallYet /\ docs[i].by = "detect" => docs[i].batch = docs[j].batch)
    <3>1. docs[j].batch \in Nat /\ i \in Nat /\ docs[j].batch < i
      BY <2>1 DEF TypeOK, Detection, BatchInv
    <3>2. NoStallYet /\ docs[i].by = "detect" => docs[i].batch = docs[j].batch
      BY <2>1 DEF BatchInv
    <3>3. QED
      BY <3>1, <3>2
  <2>2. QED
    BY <2>1 DEF RerunSupersedes
<1> HIDE DEF I
<1>4. QED
  BY <1>1, <1>2, <1>3, PTL DEF Spec

-----------------------------------------------------------------------------
(* The marks of a precompute agree with the drifts that were queued *)

IdsIn(r) == {r.ids[n] : n \in DOMAIN r.ids}

\* No two attempts have made the same document: ids are never given twice.
ApartInv ==
  /\ \A w \in Workers : \A i \in IdsIn(run[w]) : i <= newest
  /\ \A w \in Workers : run[w].picked \subseteq IdsIn(run[w])
  /\ \A w \in Workers : run[w].pc = "enqueue" => run[w].ids # <<>>
  /\ \A v, w \in Workers : v # w => IdsIn(run[v]) \cap IdsIn(run[w]) = {}

\* How far the attempt that made a document has come with its mark and its drift: the
\* one confirmed automatically is marked first, those of the precompute are queued first.
AheadOf(r, i) ==
  CASE r.pc = "enqueue" /\ i = r.ids[Len(r.ids)] -> "marked"
    [] r.pc = "flag" /\ i \in r.picked -> "queued"
    [] OTHER -> "both"
MarkedAs(r, i, d) ==
  /\ AheadOf(r, i) = "marked" => d.flagged = TRUE
  /\ AheadOf(r, i) = "queued" => d.drift = TRUE
  /\ AheadOf(r, i) = "both"   => /\ d.flagged = TRUE => d.drift = TRUE
                                 /\ d.drift = TRUE => d.flagged = TRUE \/ d.torn = TRUE
MarksInv ==
  \A w \in Workers : \A i \in IdsIn(run[w]) :
    i \in DOMAIN docs => MarkedAs(run[w], i, docs[i])

SameMarks(d, e) == e.flagged = d.flagged /\ e.drift = d.drift /\ e.torn = d.torn

\* The attempt has lost what it made, or stands where it stood, or has moved on between
\* points at which its marks and its drifts agree.
StandsAs(r, s) ==
  \/ s.ids = <<>> /\ s.picked = {} /\ s.pc # "enqueue"
  \/ /\ s.ids = r.ids /\ s.picked = r.picked
     /\ s.pc = r.pc \/ {s.pc, r.pc} \cap {"enqueue", "flag"} = {}
KeepsMarks ==
  /\ newest <= newest'
  /\ DOMAIN docs' \subseteq DOMAIN docs
  /\ \A i \in DOMAIN docs' :
       SameMarks(docs[i], docs'[i])
  /\ \A w \in Workers : StandsAs(run[w], run'[w])

LEMMA SameRunStands ==
  ASSUME NEW r
  PROVE  StandsAs(r, r)
  BY DEF StandsAs

LEMMA BecomeStands ==
  ASSUME TypeOK, NEW w \in Workers, NEW r, Become(w, r), StandsAs(run[w], r)
  PROVE  \A v \in Workers : StandsAs(run[v], run'[v])
<1>1. \A v \in Workers : run'[v] = IF v = w THEN r ELSE run[v]
  BY DEF Become, TypeOK
<1>2. QED
  BY <1>1, SameRunStands

LEMMA FreeStands ==
  ASSUME NEW r
  PROVE  StandsAs(r, Free)
  BY DEF StandsAs, Free

LEMMA SavedMarks ==
  ASSUME NEW d \in Detection, NEW c
  PROVE  SameMarks(d, Saved(d, c))
  BY DEF Saved, Detection, SameMarks

LEMMA MarkMoves ==
  ASSUME TypeOK, [Next]_vars
  PROVE  \/ KeepsMarks
         \/ \E w \in Workers : Create(w) \/ EnqueueDrift(w) \/ Precompute(w) \/ Flag(w)
<1>1. newest \in Nat /\ newest <= newest /\ newest <= newest + 1
  BY DEF TypeOK
<1>2. ASSUME UNCHANGED <<docs, newest>>, \A v \in Workers : StandsAs(run[v], run'[v])
      PROVE  KeepsMarks
  BY <1>1, <1>2 DEF KeepsMarks, SameMarks
<1>3. ASSUME UNCHANGED run PROVE \A v \in Workers : StandsAs(run[v], run'[v])
  BY <1>3, SameRunStands
<1>4. ASSUME NEW k \in Keys, Request(k) \/ Cancel(k) PROVE KeepsMarks
  BY <1>2, <1>3, <1>4 DEF Request, Cancel
<1>5. ASSUME NEW w \in Workers, NEW k \in Keys, Pick(w, k) PROVE KeepsMarks
  <2>1. PICK p \in {"scene", "clear", "return"} : Become(w, [Free EXCEPT !.key = k, !.pc = p])
    BY <1>5 DEF Pick
  <2> DEFINE r == [Free EXCEPT !.key = k, !.pc = p]
  <2>2. r.ids = <<>> /\ r.picked = {} /\ r.pc = p
    BY DEF Free
  <2>3. Become(w, r)
    BY <2>1
  <2> HIDE DEF r
  <2>4. StandsAs(run[w], r)
    BY <2>1, <2>2 DEF StandsAs
  <2>5. QED
    BY <1>2, <1>5, <2>3, <2>4, BecomeStands DEF Pick
<1>6. ASSUME NEW w \in Workers, StoreScene(w) PROVE KeepsMarks
  <2>1. PICK p \in {"return", "create"} : Goto(w, p)
    BY <1>6 DEF StoreScene
  <2> DEFINE r == [run[w] EXCEPT !.pc = p]
  <2>2. run[w] \in Run /\ run[w].pc = "scene"
    BY <1>6, RunTyped DEF StoreScene, At
  <2>3. r.ids = run[w].ids /\ r.picked = run[w].picked /\ r.pc = p
    BY <2>2 DEF Run
  <2>4. Become(w, r)
    BY <2>1 DEF Goto
  <2> HIDE DEF r
  <2>5. StandsAs(run[w], r)
    BY <2>1, <2>2, <2>3 DEF StandsAs
  <2>6. QED
    BY <1>2, <1>6, <2>4, <2>5, BecomeStands DEF StoreScene
<1>7. ASSUME NEW w \in Workers, Clear(w) PROVE KeepsMarks
  <2> DEFINE r == [run[w] EXCEPT !.batch = newest + 1, !.pc = "create"]
  <2>1. run[w] \in Run /\ run[w].pc = "clear"
    BY <1>7, RunTyped DEF Clear, At
  <2>2. r.ids = run[w].ids /\ r.picked = run[w].picked /\ r.pc = "create"
    BY <2>1 DEF Run
  <2>3. Become(w, r)
    BY <1>7 DEF Clear
  <2> HIDE DEF r
  <2>4. StandsAs(run[w], r)
    BY <2>1, <2>2 DEF StandsAs
  <2>5. DOMAIN docs' = {} /\ newest' = newest + 1
    BY <1>7 DEF Clear
  <2>6. \A v \in Workers : StandsAs(run[v], run'[v])
    BY <2>3, <2>4, BecomeStands
  <2>7. QED
    BY <1>1, <2>5, <2>6 DEF KeepsMarks
<1>8. ASSUME NEW w \in Workers, Complete(w) \/ Fail(w) PROVE KeepsMarks
  BY <1>2, <1>8, FreeStands, BecomeStands DEF Complete, Fail
<1>9. ASSUME NEW w \in Workers, Stall(w) PROVE KeepsMarks
  <2> DEFINE r == [run[w] EXCEPT !.zombie = TRUE]
  <2>1. run[w] \in Run
    BY RunTyped
  <2>2. r.ids = run[w].ids /\ r.picked = run[w].picked /\ r.pc = run[w].pc
    BY <2>1 DEF Run
  <2>3. Become(w, r)
    BY <1>9 DEF Stall
  <2> HIDE DEF r
  <2>4. StandsAs(run[w], r)
    BY <2>2 DEF StandsAs
  <2>5. QED
    BY <1>2, <1>9, <2>3, <2>4, BecomeStands DEF Stall
<1>10. ASSUME NEW a \in Analysts, NEW i \in DOMAIN docs, NEW action \in Action,
              NEW drawn \in Outlines \cup {NoOutline}, StartReview(a, i, action, drawn)
       PROVE  KeepsMarks
  BY <1>2, <1>3, <1>10 DEF StartReview
<1>11. ASSUME NEW a \in Analysts, SaveReview(a) PROVE KeepsMarks
  <2>1. newest' = newest /\ run' = run
    BY <1>11 DEF SaveReview
  <2>2. CASE UNCHANGED docs
    BY <1>2, <1>3, <2>1, <2>2
  <2>3. CASE ~UNCHANGED docs
    <3>1. PICK i \in DOMAIN docs : Put(i, Saved(docs[i], call[a])) /\ docs[i] \in Detection
      BY <1>11, <2>3, SaveEffect
    <3>2. SameMarks(docs[i], Saved(docs[i], call[a]))
      BY <3>1, SavedMarks
    <3>3. DOMAIN docs' = DOMAIN docs
          /\ \A j \in DOMAIN docs : docs'[j] = IF j = i THEN Saved(docs[i], call[a]) ELSE docs[j]
      BY <3>1 DEF Put
    <3>4. \A j \in DOMAIN docs' : SameMarks(docs[j], docs'[j])
      BY <3>2, <3>3 DEF SameMarks
    <3>5. QED
      BY <1>1, <1>3, <2>1, <3>3, <3>4 DEF KeepsMarks
  <2>4. QED
    BY <2>2, <2>3
<1>12. CASE UNCHANGED vars
  BY <1>2, <1>3, <1>12 DEF vars
<1>13. QED
  BY <1>4, <1>5, <1>6, <1>7, <1>8, <1>9, <1>10, <1>11, <1>12 DEF Next, RunStep

LEMMA MarksInit == Init => ApartInv /\ MarksInv
<1>1. IdsIn(Free) = {} /\ Free.picked = {} /\ Free.pc # "enqueue"
  BY DEF IdsIn, Free
<1>2. QED
  BY <1>1 DEF Init, ApartInv, MarksInv

\* A step that keeps the marks, and those that let one attempt move on.
LEMMA KeptMarks ==
  ASSUME TypeOK, ApartInv, MarksInv, KeepsMarks, newest' \in Nat
  PROVE  ApartInv' /\ MarksInv'
<1>1. ASSUME NEW w \in Workers
      PROVE  \/ IdsIn(run'[w]) = {} /\ run'[w].picked = {} /\ run'[w].pc # "enqueue"
             \/ /\ IdsIn(run'[w]) = IdsIn(run[w]) /\ run'[w].picked = run[w].picked
                /\ run'[w].ids = run[w].ids
                /\ \A i : AheadOf(run'[w], i) = AheadOf(run[w], i)
                /\ run'[w].pc = "enqueue" => run[w].pc = "enqueue"
  <2>1. StandsAs(run[w], run'[w])
    BY DEF KeepsMarks
  <2>2. CASE run'[w].ids = <<>> /\ run'[w].picked = {} /\ run'[w].pc # "enqueue"
    BY <2>2 DEF IdsIn
  <2>3. CASE run'[w].ids = run[w].ids /\ run'[w].picked = run[w].picked
             /\ run'[w].pc = run[w].pc
    BY <2>3 DEF IdsIn, AheadOf
  <2>4. CASE /\ run'[w].ids = run[w].ids /\ run'[w].picked = run[w].picked
             /\ {run'[w].pc, run[w].pc} \cap {"enqueue", "flag"} = {}
    BY <2>4 DEF IdsIn, AheadOf
  <2>5. QED
    BY <2>1, <2>2, <2>3, <2>4 DEF StandsAs
<1>2. \A w \in Workers : \A i \in IdsIn(run[w]) : i \in Nat
  BY RunTyped DEF IdsIn
<1>3. newest \in Nat /\ newest <= newest'
  BY DEF TypeOK, KeepsMarks
<1>4. \A w \in Workers : \A i \in IdsIn(run'[w]) : i \in IdsIn(run[w])
  BY <1>1
<1>5. \A w \in Workers : \A i \in IdsIn(run'[w]) : i <= newest'
  BY <1>2, <1>3, <1>4 DEF ApartInv
<1>6. \A w \in Workers : run'[w].picked \subseteq IdsIn(run'[w])
  BY <1>1 DEF ApartInv
<1>7. \A w \in Workers : run'[w].pc = "enqueue" => run'[w].ids # <<>>
  BY <1>1 DEF ApartInv
<1>8. \A v, w \in Workers : v # w => IdsIn(run'[v]) \cap IdsIn(run'[w]) = {}
  BY <1>4 DEF ApartInv
<1>9. ASSUME NEW w \in Workers, NEW i \in IdsIn(run'[w]), i \in DOMAIN docs'
      PROVE  MarkedAs(run'[w], i, docs'[i])
  <2>1. i \in IdsIn(run[w]) /\ AheadOf(run'[w], i) = AheadOf(run[w], i)
    BY <1>1, <1>9
  <2>2. i \in DOMAIN docs /\ SameMarks(docs[i], docs'[i])
    BY <1>9 DEF KeepsMarks
  <2>3. MarkedAs(run[w], i, docs[i])
    BY <2>1, <2>2 DEF MarksInv
  <2>4. QED
    BY <2>1, <2>2, <2>3 DEF MarkedAs, SameMarks
<1>10. QED
  BY <1>5, <1>6, <1>7, <1>8, <1>9 DEF ApartInv, MarksInv

\* An attempt moves on, and the documents of the others keep their marks.
LEMMA OneMovesOn ==
  ASSUME TypeOK, ApartInv, MarksInv, NEW w \in Workers, NEW r \in Run, Become(w, r),
         newest' \in Nat, newest <= newest',
         \A i \in IdsIn(r) : i \in IdsIn(run[w]) \/ (i > newest /\ i <= newest'),
         r.picked \subseteq IdsIn(r), r.pc = "enqueue" => r.ids # <<>>,
         \A i \in DOMAIN docs' : i \in DOMAIN docs \/ i > newest,
         \A v \in Workers : v # w => \A i \in IdsIn(run[v]) : i \in DOMAIN docs =>
           SameMarks(docs[i], docs'[i]),
         \A i \in IdsIn(r) : i \in DOMAIN docs' => MarkedAs(r, i, docs'[i])
  PROVE  ApartInv' /\ MarksInv'
<1>1. \A v \in Workers : run'[v] = IF v = w THEN r ELSE run[v]
  BY DEF Become, TypeOK
<1>2. newest \in Nat /\ \A v \in Workers : \A i \in IdsIn(run[v]) : i \in Nat /\ i <= newest
  BY RunTyped DEF IdsIn, TypeOK, ApartInv
<1>3. \A i \in IdsIn(r) : i \in Nat /\ i <= newest'
  <2>1. \A i \in IdsIn(r) : i \in Nat
    BY DEF IdsIn, Run
  <2>2. QED
    BY <1>2, <2>1
<1>4. \A v \in Workers : \A i \in IdsIn(run'[v]) : i <= newest'
  BY <1>1, <1>2, <1>3
<1>5. \A v \in Workers : run'[v].picked \subseteq IdsIn(run'[v])
  BY <1>1 DEF ApartInv
<1>6. \A v \in Workers : run'[v].pc = "enqueue" => run'[v].ids # <<>>
  BY <1>1 DEF ApartInv
<1>7. ASSUME NEW u \in Workers, NEW v \in Workers, u # v, NEW i \in IdsIn(run'[u])
      PROVE  i \notin IdsIn(run'[v])
  <2>1. \A x \in Workers : x # w => IdsIn(r) \cap IdsIn(run[x]) = {}
    BY <1>2 DEF ApartInv
  <2>2. QED
    BY <1>1, <1>7, <2>1 DEF ApartInv
<1>8. ASSUME NEW v \in Workers, NEW i \in IdsIn(run'[v]), i \in DOMAIN docs'
      PROVE  MarkedAs(run'[v], i, docs'[i])
  <2>1. CASE v = w
    BY <1>1, <1>8, <2>1
  <2>2. CASE v # w
    <3>1. run'[v] = run[v] /\ i \in IdsIn(run[v])
      BY <1>1, <1>8, <2>2
    <3>2. i \in DOMAIN docs
      BY <1>2, <1>8, <3>1
    <3>3. MarkedAs(run[v], i, docs[i])
      BY <3>1, <3>2 DEF MarksInv
    <3>4. SameMarks(docs[i], docs'[i])
      BY <2>2, <3>1, <3>2
    <3>5. QED
      BY <3>1, <3>3, <3>4 DEF MarkedAs, SameMarks
  <2>3. QED
    BY <2>1, <2>2
<1>9. QED
  BY <1>4, <1>5, <1>6, <1>7, <1>8 DEF ApartInv, MarksInv

LEMMA DriftQueued ==
  ASSUME TypeOK, NEW ids, NEW torn, torn \subseteq ids, QueueDrift(ids, torn)
  PROVE  /\ DOMAIN docs' = DOMAIN docs
         /\ \A i \in DOMAIN docs :
              /\ docs'[i].flagged = docs[i].flagged
              /\ i \in ids => docs'[i].drift = TRUE
              /\ i \in torn => docs'[i].torn = TRUE
              /\ i \notin torn => docs'[i].torn = docs[i].torn
              /\ i \notin ids => SameMarks(docs[i], docs'[i])
<1>1. DOMAIN docs' = DOMAIN docs
  BY DEF QueueDrift
<1>2. ASSUME NEW i \in DOMAIN docs
      PROVE  /\ docs'[i].flagged = docs[i].flagged
             /\ i \in ids => docs'[i].drift = TRUE
             /\ i \in torn => docs'[i].torn = TRUE
             /\ i \notin torn => docs'[i].torn = docs[i].torn
             /\ i \notin ids => SameMarks(docs[i], docs'[i])
  <2>1. docs[i] \in Detection /\ docs[i].drift \in BOOLEAN /\ docs[i].torn \in BOOLEAN
    BY DEF TypeOK, Detection
  <2>2. docs'[i] = [docs[i] EXCEPT !.drift = docs[i].drift \/ i \in ids,
                                   !.torn = docs[i].torn \/ i \in torn]
    BY DEF QueueDrift
  <2>3. /\ docs'[i].flagged = docs[i].flagged
        /\ docs'[i].drift = (docs[i].drift \/ i \in ids)
        /\ docs'[i].torn = (docs[i].torn \/ i \in torn)
    BY <2>1, <2>2 DEF Detection
  <2>4. QED
    BY <2>1, <2>3 DEF SameMarks
<1>3. QED
  BY <1>1, <1>2

LEMMA FlagsSet ==
  ASSUME TypeOK, NEW w \in Workers, Flag(w)
  PROVE  /\ DOMAIN docs' = DOMAIN docs
         /\ \A i \in DOMAIN docs :
              /\ docs'[i].drift = docs[i].drift
              /\ i \in run[w].picked => docs'[i].flagged = TRUE
              /\ i \notin run[w].picked => SameMarks(docs[i], docs'[i])
<1>1. DOMAIN docs' = DOMAIN docs
  BY DEF Flag
<1>2. ASSUME NEW i \in DOMAIN docs
      PROVE  /\ docs'[i].drift = docs[i].drift
             /\ i \in run[w].picked => docs'[i].flagged = TRUE
             /\ i \notin run[w].picked => SameMarks(docs[i], docs'[i])
  <2>1. docs[i] \in Detection /\ docs[i].flagged \in BOOLEAN
    BY DEF TypeOK, Detection
  <2>2. docs'[i] = [docs[i] EXCEPT !.flagged = docs[i].flagged \/ i \in run[w].picked]
    BY DEF Flag
  <2>3. docs'[i].drift = docs[i].drift /\ docs'[i].torn = docs[i].torn
        /\ docs'[i].flagged = (docs[i].flagged \/ i \in run[w].picked)
    BY <2>1, <2>2 DEF Detection
  <2>4. QED
    BY <2>1, <2>3 DEF SameMarks
<1>3. QED
  BY <1>1, <1>2

\* A detection's id is appended to those of the run: the others stay where they were.
LEMMA AppendedId ==
  ASSUME NEW s \in Seq(Nat), NEW e \in Nat
  PROVE  /\ Append(s, e) \in Seq(Nat) /\ Append(s, e) # <<>>
         /\ Len(Append(s, e)) = Len(s) + 1 /\ Append(s, e)[Len(Append(s, e))] = e
         /\ \A n \in DOMAIN Append(s, e) :
              Append(s, e)[n] = e \/ \E m \in DOMAIN s : Append(s, e)[n] = s[m]
         /\ \A n \in DOMAIN s : n \in DOMAIN Append(s, e) /\ Append(s, e)[n] = s[n]
  OBVIOUS

LEMMA MarksStep ==
  ASSUME TypeOK, ApartInv, MarksInv, [Next]_vars
  PROVE  ApartInv' /\ MarksInv'
<1>1. newest \in Nat /\ newest' \in Nat
  BY TypeStep DEF TypeOK
<1>2. CASE KeepsMarks
  BY <1>1, <1>2, KeptMarks
<1>3. \A w \in Workers : /\ run[w] \in Run /\ run[w].ids \in Seq(Nat)
                         /\ \A i \in IdsIn(run[w]) : i \in Nat /\ i <= newest
  BY RunTyped DEF ApartInv, IdsIn
<1>4. ASSUME NEW w \in Workers, Create(w) PROVE ApartInv' /\ MarksInv'
  <2> DEFINE new == newest + 1
             d == NewDetection(run[w], Len(run[w].ids) + 1)
             ids == Append(run[w].ids, new)
             r == [run[w] EXCEPT !.ids = ids, !.pc = IF d.flagged THEN "enqueue" ELSE "create"]
  <2>1. newest' = new /\ new \in Nat /\ d \in Detection /\ Put(new, d)
    BY <1>4, CreateEffect
  <2>2. d.drift = FALSE
    BY DEF NewDetection
  <2>3. Become(w, r)
    BY <1>4 DEF Create
  <2>4. PICK q \in {"enqueue", "create"} :
          /\ q = IF d.flagged THEN "enqueue" ELSE "create"
    OBVIOUS
  <2>5. r = [run[w] EXCEPT !.ids = ids, !.pc = q]
    BY <2>4
  <2>6. /\ ids \in Seq(Nat) /\ ids # <<>> /\ Len(ids) = Len(run[w].ids) + 1
        /\ ids[Len(ids)] = new
        /\ \A n \in DOMAIN ids : ids[n] = new \/ ids[n] \in IdsIn(run[w])
        /\ \A n \in DOMAIN run[w].ids : n \in DOMAIN ids /\ ids[n] = run[w].ids[n]
    <3>1. PICK s \in Seq(Nat) : s = run[w].ids
      BY <1>3
    <3>2. PICK e \in Nat : e = new
      BY <2>1
    <3>3. ids = Append(s, e)
      BY <3>1, <3>2
    <3> HIDE DEF ids, new
    <3>4. /\ ids \in Seq(Nat) /\ ids # <<>>
          /\ Len(ids) = Len(s) + 1 /\ ids[Len(ids)] = e
          /\ \A n \in DOMAIN ids : ids[n] = e \/ \E m \in DOMAIN s : ids[n] = s[m]
          /\ \A n \in DOMAIN s : n \in DOMAIN ids /\ ids[n] = s[n]
      BY <3>3, AppendedId
    <3>5. \A m \in DOMAIN s : s[m] \in IdsIn(run[w])
      BY <3>1 DEF IdsIn
    <3>6. QED
      BY <3>1, <3>2, <3>4, <3>5
  <2> HIDE DEF ids, r
  <2>7. r \in Run /\ r.ids = ids /\ r.pc = q /\ r.picked = run[w].picked
    <3>1. q \in Pc
      BY <2>4 DEF Pc
    <3>2. QED
      BY <1>3, <2>5, <2>6, <3>1 DEF Run
  <2>8. run[w].pc = "create"
    BY <1>4 DEF Create, At
  <2>9. \A i \in IdsIn(r) : i \in IdsIn(run[w]) \/ i = new
    BY <2>6, <2>7 DEF IdsIn
  <2>10. IdsIn(run[w]) \subseteq IdsIn(r)
    BY <2>6, <2>7 DEF IdsIn
  <2>11. \A i : AheadOf(r, i) = IF q = "enqueue" /\ i = new THEN "marked" ELSE "both"
    <3>1. r.ids[Len(r.ids)] = new
      BY <2>6, <2>7
    <3>2. QED
      BY <2>4, <2>7, <3>1 DEF AheadOf
  <2>12. DOMAIN docs' = DOMAIN docs \cup {new} /\ docs'[new] = d
         /\ \A i \in DOMAIN docs : i # new => docs'[i] = docs[i]
    BY <2>1, PutTyped
  <2> HIDE DEF new, d
  <2>13. new > newest
    BY <1>1 DEF new
  <2>14. ASSUME NEW i \in IdsIn(r), i \in DOMAIN docs'
         PROVE  MarkedAs(r, i, docs'[i])
    <3>1. CASE i = new
      <4>1. d.flagged \in BOOLEAN
        BY <2>1 DEF Detection
      <4>2. q = "enqueue" => d.flagged = TRUE
        BY <2>4, <4>1
      <4>3. q # "enqueue" => d.flagged = FALSE
        BY <2>4, <4>1
      <4>4. QED
        BY <2>2, <2>11, <2>12, <3>1, <4>2, <4>3 DEF MarkedAs
    <3>2. CASE i # new
      <4>1. i \in IdsIn(run[w]) /\ i \in DOMAIN docs /\ docs'[i] = docs[i]
        BY <2>9, <2>12, <2>14, <3>2
      <4>2. MarkedAs(run[w], i, docs[i])
        BY <4>1 DEF MarksInv
      <4>3. AheadOf(run[w], i) = "both" /\ AheadOf(r, i) = "both"
        BY <2>8, <2>11, <3>2 DEF AheadOf
      <4>4. QED
        BY <4>1, <4>2, <4>3 DEF MarkedAs
    <3>3. QED
      BY <3>1, <3>2
  <2>15. \A v \in Workers : v # w => \A i \in IdsIn(run[v]) : i \in DOMAIN docs =>
           SameMarks(docs[i], docs'[i])
    <3>1. ASSUME NEW v \in Workers, NEW i \in IdsIn(run[v]) PROVE i # new
      <4>1. i \in Nat /\ i <= newest
        BY <1>3
      <4>2. QED
        BY <1>1, <2>1, <2>13, <4>1
    <3>2. QED
      BY <2>12, <3>1 DEF SameMarks
  <2>16. \A i \in IdsIn(r) : i \in IdsIn(run[w]) \/ (i > newest /\ i <= newest')
    BY <1>1, <2>1, <2>9, <2>13
  <2>17. r.picked \subseteq IdsIn(r)
    BY <2>7, <2>10 DEF ApartInv
  <2>18. \A i \in DOMAIN docs' : i \in DOMAIN docs \/ i > newest
    BY <2>12, <2>13
  <2>19. newest <= newest' /\ r.ids # <<>>
    BY <1>1, <2>1, <2>6, <2>7, <2>13
  <2>20. QED
    BY <1>1, <2>3, <2>7, <2>14, <2>15, <2>16, <2>17, <2>18, <2>19, OneMovesOn
<1>5. ASSUME NEW w \in Workers, NEW ids \in SUBSET IdsIn(run[w]), NEW torn \in SUBSET ids,
             NEW r \in Run, Become(w, r), QueueDrift(ids, torn), newest' = newest,
             r.ids = run[w].ids, r.picked \subseteq IdsIn(run[w]), r.pc # "enqueue",
             \A i \in IdsIn(run[w]) : i \in DOMAIN docs => MarkedAs(r, i, docs'[i])
      PROVE  ApartInv' /\ MarksInv'
  <2>1. IdsIn(r) = IdsIn(run[w])
    BY <1>5 DEF IdsIn
  <2>2. DOMAIN docs' = DOMAIN docs
    BY <1>5, DriftQueued
  <2>3. \A v \in Workers : v # w => \A i \in IdsIn(run[v]) : i \in DOMAIN docs =>
          SameMarks(docs[i], docs'[i])
    <3>1. \A v \in Workers : v # w => \A i \in IdsIn(run[v]) : i \notin ids
      BY DEF ApartInv
    <3>2. QED
      BY <1>5, <3>1, DriftQueued
  <2>4. newest <= newest'
    BY <1>1, <1>5
  <2>5. QED
    BY <1>1, <1>5, <2>1, <2>2, <2>3, <2>4, OneMovesOn
<1>6. ASSUME NEW w \in Workers, EnqueueDrift(w) PROVE ApartInv' /\ MarksInv'
  <2>0. PICK q \in {"create", "throw"} : Goto(w, q)
    BY <1>6 DEF EnqueueDrift
  <2> DEFINE r == [run[w] EXCEPT !.pc = q]
             last == run[w].ids[Len(run[w].ids)]
  <2>1. run[w].pc = "enqueue" /\ run[w].ids # <<>>
    BY <1>6 DEF EnqueueDrift, At, ApartInv
  <2>2. last \in IdsIn(run[w])
    BY <1>3, <2>1 DEF IdsIn
  <2>3. r \in Run /\ r.ids = run[w].ids /\ r.picked = run[w].picked /\ r.pc = q
    BY <1>3, <2>0 DEF Run, Pc
  <2>4. Become(w, r) /\ QueueDrift({last}, {}) /\ newest' = newest
    BY <1>6, <2>0 DEF EnqueueDrift, Goto, Last
  <2>5. \A i : AheadOf(run[w], i) = IF i = last THEN "marked" ELSE "both"
    BY <2>1 DEF AheadOf
  <2> HIDE DEF r, last
  <2>6. r.pc # "enqueue" /\ \A i : AheadOf(r, i) = "both"
    BY <2>0, <2>3 DEF AheadOf
  <2>7. ASSUME NEW i \in IdsIn(run[w]), i \in DOMAIN docs
        PROVE  MarkedAs(r, i, docs'[i])
    <3>1. MarkedAs(run[w], i, docs[i])
      BY <2>7 DEF MarksInv
    <3>2. /\ docs'[i].flagged = docs[i].flagged
          /\ i = last => docs'[i].drift = TRUE
          /\ i # last => SameMarks(docs[i], docs'[i])
      <4>1. i \in {last} <=> i = last
        OBVIOUS
      <4>2. \A k \in DOMAIN docs : /\ docs'[k].flagged = docs[k].flagged
                                   /\ k \in {last} => docs'[k].drift = TRUE
                                   /\ k \notin {last} => SameMarks(docs[k], docs'[k])
        BY <2>4, DriftQueued
      <4>3. QED
        BY <2>7, <4>1, <4>2
    <3>3. QED
      BY <2>5, <2>6, <3>1, <3>2 DEF MarkedAs, SameMarks
  <2>8. {last} \in SUBSET IdsIn(run[w]) /\ {} \in SUBSET {last} /\ r.picked \subseteq IdsIn(run[w])
    BY <2>2, <2>3 DEF ApartInv
  <2>9. QED
    BY <1>5, <2>3, <2>4, <2>6, <2>7, <2>8
<1>7. ASSUME NEW w \in Workers, Precompute(w) PROVE ApartInv' /\ MarksInv'
  <2>1. PICK queued \in SUBSET {run[w].ids[n] : n \in Selected},
             torn \in SUBSET {run[w].ids[n] : n \in Selected} :
          /\ QueueDrift(queued \cup torn, torn)
          /\ Become(w, [run[w] EXCEPT !.picked = queued,
                                      !.pc = IF queued = {} THEN "return" ELSE "flag"])
    BY <1>7 DEF Precompute
  <2>2. PICK q \in {"return", "flag"} : q = IF queued = {} THEN "return" ELSE "flag"
    OBVIOUS
  <2> DEFINE r == [run[w] EXCEPT !.picked = queued, !.pc = q]
  <2>3. Become(w, r)
    BY <2>1, <2>2
  <2>4. queued \subseteq IdsIn(run[w]) /\ torn \subseteq IdsIn(run[w])
    <3>1. Selected \subseteq DOMAIN scene.found
      BY DEF Selected
    <3>2. DOMAIN scene.found \subseteq DOMAIN run[w].ids
      BY <1>3, <1>7, FoundTyped DEF Precompute, AllMade
    <3>3. QED
      BY <2>1, <3>1, <3>2 DEF IdsIn
  <2>5. queued \subseteq Nat
    BY <1>3, <2>4
  <2>6. r \in Run /\ r.ids = run[w].ids /\ r.picked = queued /\ r.pc = q
    BY <1>3, <2>2, <2>5 DEF Run, Pc
  <2>7. run[w].pc = "create" /\ newest' = newest
    BY <1>7 DEF Precompute, At
  <2> HIDE DEF r
  <2>8. \A i : AheadOf(run[w], i) = "both"
    BY <2>7 DEF AheadOf
  <2>9. \A i : AheadOf(r, i) = IF i \in queued THEN "queued" ELSE "both"
    BY <2>2, <2>6 DEF AheadOf
  <2>10. ASSUME NEW i \in IdsIn(run[w]), i \in DOMAIN docs
         PROVE  MarkedAs(r, i, docs'[i])
    <3>1. MarkedAs(run[w], i, docs[i])
      BY <2>10 DEF MarksInv
    <3>2. /\ docs'[i].flagged = docs[i].flagged
          /\ i \in queued => docs'[i].drift = TRUE
          /\ i \in torn => docs'[i].drift = TRUE /\ docs'[i].torn = TRUE
          /\ i \notin queued \cup torn => SameMarks(docs[i], docs'[i])
      <4>1. PICK ids : ids = queued \cup torn
        OBVIOUS
      <4>2. QueueDrift(ids, torn) /\ torn \subseteq ids
        BY <2>1, <4>1
      <4>3. \A k \in DOMAIN docs : /\ docs'[k].flagged = docs[k].flagged
                                   /\ k \in ids => docs'[k].drift = TRUE
                                   /\ k \in torn => docs'[k].torn = TRUE
                                   /\ k \notin ids => SameMarks(docs[k], docs'[k])
        BY <4>2, DriftQueued
      <4>4. QED
        BY <2>10, <4>1, <4>3
    <3>3. QED
      BY <2>8, <2>9, <3>1, <3>2 DEF MarkedAs, SameMarks
  <2>11. queued \cup torn \in SUBSET IdsIn(run[w]) /\ torn \in SUBSET (queued \cup torn)
         /\ r.pc # "enqueue"
    BY <2>2, <2>4, <2>6
  <2>12. QED
    BY <1>5, <2>1, <2>3, <2>4, <2>6, <2>7, <2>10, <2>11
<1>8. ASSUME NEW w \in Workers, Flag(w) PROVE ApartInv' /\ MarksInv'
  <2> DEFINE r == [run[w] EXCEPT !.pc = "return"]
  <2>1. run[w].pc = "flag" /\ newest' = newest /\ Become(w, r)
    BY <1>8 DEF Flag, At, Goto
  <2>2. r \in Run /\ r.ids = run[w].ids /\ r.picked = run[w].picked /\ r.pc = "return"
    BY <1>3 DEF Run, Pc
  <2> HIDE DEF r
  <2>3. IdsIn(r) = IdsIn(run[w]) /\ \A i : AheadOf(r, i) = "both"
    BY <2>2 DEF IdsIn, AheadOf
  <2>4. \A i : AheadOf(run[w], i) = IF i \in run[w].picked THEN "queued" ELSE "both"
    BY <2>1 DEF AheadOf
  <2>5. DOMAIN docs' = DOMAIN docs
    BY <1>8, FlagsSet
  <2>6. ASSUME NEW i \in IdsIn(r), i \in DOMAIN docs'
        PROVE  MarkedAs(r, i, docs'[i])
    <3>1. MarkedAs(run[w], i, docs[i])
      BY <2>3, <2>5, <2>6 DEF MarksInv
    <3>2. /\ docs'[i].drift = docs[i].drift
          /\ i \in run[w].picked => docs'[i].flagged = TRUE
          /\ i \notin run[w].picked => SameMarks(docs[i], docs'[i])
      BY <1>8, <2>5, <2>6, FlagsSet
    <3>3. QED
      BY <2>3, <2>4, <3>1, <3>2 DEF MarkedAs, SameMarks
  <2>7. \A v \in Workers : v # w => \A i \in IdsIn(run[v]) : i \in DOMAIN docs =>
          SameMarks(docs[i], docs'[i])
    <3>1. \A v \in Workers : v # w => \A i \in IdsIn(run[v]) : i \notin run[w].picked
      BY DEF ApartInv
    <3>2. QED
      BY <1>8, <3>1, FlagsSet
  <2>8. r.picked \subseteq IdsIn(r)
    BY <2>2, <2>3 DEF ApartInv
  <2>9. newest <= newest'
    BY <1>1, <2>1
  <2>10. QED
    BY <1>1, <2>1, <2>2, <2>3, <2>5, <2>6, <2>7, <2>8, <2>9, OneMovesOn
<1>9. QED
  BY <1>2, <1>4, <1>6, <1>7, <1>8, MarkMoves

\* Whatever the queue refuses or takes without a record, whoever reviews in between,
\* whichever attempts fail, are repeated or go on without their lock: when an attempt has
\* done its work, a detection it made that is marked as precomputed has its drift queued,
\* and one whose drift was queued is marked unless its record in `jobs` failed.
THEOREM PrecomputeCorrect == Spec => []PrecomputeIsRecorded
<1> DEFINE I == TypeOK /\ ApartInv /\ MarksInv
<1>1. Init => I
  BY TypeInit, MarksInit
<1>2. I /\ [Next]_vars => I'
  BY TypeStep, MarksStep
<1>3. I => PrecomputeIsRecorded
  <2>1. ASSUME I, NEW w \in Workers, At(w, "return"), NEW n \in DOMAIN run[w].ids,
               run[w].ids[n] \in DOMAIN docs
        PROVE  LET d == docs[run[w].ids[n]] IN
               (d.flagged = TRUE => d.drift = TRUE)
               /\ (d.drift = TRUE => d.flagged = TRUE \/ d.torn = TRUE)
    <3>1. run[w].ids[n] \in IdsIn(run[w])
      BY DEF IdsIn
    <3>2. MarkedAs(run[w], run[w].ids[n], docs[run[w].ids[n]])
      BY <2>1, <3>1 DEF MarksInv
    <3>3. AheadOf(run[w], run[w].ids[n]) = "both"
      BY <2>1 DEF AheadOf, At
    <3>4. QED
      BY <3>2, <3>3 DEF MarkedAs
  <2>2. QED
    BY <2>1 DEF PrecomputeIsRecorded
<1>4. QED
  BY <1>1, <1>2, <1>3, PTL DEF Spec

=============================================================================
