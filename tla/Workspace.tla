------------------------------ MODULE Workspace -------------------------------
(***************************************************************************)
(* The analyst's workspace in the browser: the cached answers it shows of  *)
(* a case (web/src/api/hooks.ts), the progress list and the map layers     *)
(* drawn from them (WorkspacePage.tsx, PipelineProgress.tsx, stores.ts,    *)
(* layers.ts), and the writes it makes and the queries those invalidate.   *)
(*                                                                         *)
(* Answers are in flight while the analyst goes from case to case, and     *)
(* jobs finish in the meantime.  The query cache is react-query's, as the  *)
(* hooks use it: an observed query that is invalidated, or stale when a    *)
(* component mounts, is fetched again, and a fetch that is already under   *)
(* way is abandoned for the new one.  A run that is repeated deletes what  *)
(* the one before it stored, and then stores its own: two writes between   *)
(* which answers are given and the job may end.                            *)
(***************************************************************************)
EXTENDS Naturals, FiniteSets

CONSTANTS
  Cases,            \* investigations the analyst may open
  NoCase,
  MaxSteps,         \* bound: what the analyst does
  MaxFetches        \* bound: answers that are lost or grow old, each instead of a step

ASSUME WorkspaceAssumption == NoCase \notin Cases

VARIABLES
  server,    \* by case and kind of data: how often what is stored of it has changed
  vanished,    \* history: the changes after which nothing was stored, as <<kind, case, change>>
  jobs,      \* jobs that have not ended, and whether they deleted what was there
  halted,    \* history: what a job deleted that ended before it stored anything
  route,     \* the case that is open
  answers,   \* the query cache, by key
  fetching,  \* fetches under way, by key: how far the server was when each was sent
  writing,   \* a write that was sent: the mutation that is pending
  layerStore,\* useLayerStore
  own,       \* history: how far the server was when the analyst's last direct write in the
             \* case that is open returned, by key
  toDo       \* what remains of the bounds

workspaceVars ==
  <<server, vanished, jobs, halted, route, answers, fetching, writing, layerStore, own, toDo>>

-----------------------------------------------------------------------------
\* The queries of the workspace: ['scenes', id] and so on, and the layers drawn from each.
\* AIS coverage and tracks, which nothing in a case changes, are taken as known.
Kinds == {"scenes", "detections", "origin", "candidates"}
LayersFrom(k) ==
  CASE k = "scenes"     -> {"sar-raster"}
    [] k = "detections" -> {"slick-polygons"}
    [] k = "origin"     -> {"origin-field"}
    [] k = "candidates" -> {}

NoWrite == [kind |-> "none", case |-> NoCase]
Did(b)  ==
  /\ toDo[b] > 0 /\ toDo["all"] > 0
  /\ toDo' = [toDo EXCEPT ![b] = @ - 1, !["all"] = @ - 1]

\* What cases may hold when the analyst comes to them.
Begun == {{}, {"scenes", "detections", "origin"}}

WorkspaceInit ==
  /\ server \in [Cases -> {[k \in Kinds |-> IF k \in done THEN 1 ELSE 0] : done \in Begun}]
  /\ vanished = {} /\ jobs = {} /\ halted = {}
  /\ route = NoCase
  /\ answers = << >> /\ fetching = << >> /\ own = << >>
  /\ writing = NoWrite
  /\ layerStore = [owner |-> NoCase, of |-> << >>]
  /\ toDo = [steps |-> MaxSteps, losses |-> MaxFetches, all |-> MaxSteps]

KeyOf(k, c)  == <<k, c>>

\* What is written over what was there, and what is left of it.
Over(f, g)    == [x \in DOMAIN f \cup DOMAIN g |-> IF x \in DOMAIN f THEN f[x] ELSE g[x]]
Without(f, q) == [p \in DOMAIN f \ {q} |-> f[p]]

Observed(c)  == IF c = NoCase THEN {} ELSE {KeyOf(k, c) : k \in Kinds}
Known(q)     == q \in DOMAIN answers
UpToDate(q)  == Known(q) /\ ~answers[q].stale
Ask(qs)      == Over([q \in qs |-> server[q[2]][q[1]]], fetching)

There(k, c, n) == n > 0 /\ <<k, c, n>> \notin vanished
Holds(k, c)    == There(k, c, server[c][k])
Shows(k, c)    == Known(KeyOf(k, c)) /\ There(k, c, answers[KeyOf(k, c)].value)

-----------------------------------------------------------------------------
(* Layers *)

\* addLayer, one after the other: layers of another owner are dropped first.
AddKeeping(store, c, ls) ==
  [owner |-> c, of |-> Over([l \in ls |-> [case |-> c, visible |-> TRUE]], store.of)]
AddLayers(store, c, ls) ==
  IF ls = {} THEN store
  ELSE [owner |-> c,
        of |-> Over([l \in ls |-> [case |-> c, visible |-> TRUE]],
                    IF store.owner = c THEN store.of ELSE << >>)]

\* The effects that register layers: they run when their data changed or the case did.
Registered(c, ks) == UNION {LayersFrom(k) : k \in {j \in ks : Shows(j, c)}}

Toggle(l) ==
  /\ l \in DOMAIN layerStore.of
  /\ Did("steps")
  /\ layerStore' = [layerStore EXCEPT !.of[l].visible = ~@]
  /\ UNCHANGED <<server, vanished, jobs, halted, route, answers, fetching, writing, own>>

\* buildLayers: what is drawn is the data of the case that is open, but for the kinds
\* whose layer the analyst has hidden.
Drawn(c) ==
  {k \in Kinds : Shows(k, c) /\ \E l \in LayersFrom(k) :
                   l \in DOMAIN layerStore.of => layerStore.of[l].visible}

-----------------------------------------------------------------------------
(* Queries *)

\* A component mounts with the id of a case: what is stale, and not under way, is asked.
OpenCase(c) ==
  /\ c # route
  /\ Did("steps")
  /\ route' = c
  /\ fetching' = Ask({q \in Observed(c) : ~UpToDate(q) /\ q \notin DOMAIN fetching})
  /\ layerStore' = IF c = NoCase THEN layerStore ELSE AddLayers(layerStore, c, Registered(c, Kinds))
  /\ UNCHANGED <<server, vanished, jobs, halted, answers, writing, own>>

\* The answer is what the server held at some moment since the fetch was sent.
AnswerArrives(q) ==
  \E value \in fetching[q] .. server[q[2]][q[1]] :
    LET grown == ~Known(q) \/ answers[q].value # value IN
    /\ answers' = Over([p \in {q} |-> [value |-> value, stale |-> FALSE]], answers)
    /\ fetching' = Without(fetching, q)
    /\ layerStore' = IF q \in Observed(route) /\ grown /\ There(q[1], q[2], value)
                       THEN AddLayers(layerStore, route, LayersFrom(q[1])) ELSE layerStore
    /\ UNCHANGED <<server, vanished, jobs, halted, route, writing, own, toDo>>

\* A request fails: what was known stays, and stays stale.
AnswerLost(q) ==
  /\ Did("losses")
  /\ fetching' = Without(fetching, q)
  /\ UNCHANGED <<server, vanished, jobs, halted, route, answers, writing, layerStore, own>>

\* staleTime is over.
Ages(q) ==
  /\ UpToDate(q)
  /\ Did("losses")
  /\ answers' = [answers EXCEPT ![q].stale = TRUE]
  /\ UNCHANGED <<server, vanished, jobs, halted, route, fetching, writing, layerStore, own>>

-----------------------------------------------------------------------------
(* Writes *)

\* What each control asks for before it is offered.
Offered(w, c) ==
  CASE w = "ingest"    -> TRUE
    [] w = "review"    -> Shows("detections", c)
    [] w = "origin"    -> Shows("detections", c)
    [] w = "correlate" -> Shows("origin", c)
    [] w = "reweight"  -> Shows("detections", c) /\ Shows("candidates", c)
Writes == {"ingest", "review", "origin", "correlate", "reweight"}

\* The queries a mutation's onSuccess invalidates.
InvalidatedByDetailOnly(w) ==
  CASE w = "ingest" -> {"scenes"} [] w = "review" -> {} [] w = "origin" -> {"origin"}
    [] w \in {"correlate", "reweight"} -> {"candidates"}
Invalidated(w) ==
  CASE w = "ingest" -> {"scenes"} [] w = "review" -> {"detections"} [] w = "origin" -> {"origin"}
    [] w \in {"correlate", "reweight"} -> {"candidates"}
Direct(w) == w \in {"review", "reweight"}

\* What is stored of the case changes by it.  A run may come back without detections or
\* without vessels.
Stores(w) ==
  CASE w = "ingest" -> {"scenes", "detections"} [] w \in {"review", "detect"} -> {"detections"}
    [] w = "origin" -> {"origin"} [] w \in {"correlate", "reweight"} -> {"candidates"}
Endings(w) == {ks \in SUBSET Stores(w) : Stores(w) \ {"detections", "candidates"} \subseteq ks}
Advanced(ks, c) == [server EXCEPT ![c] = [k \in Kinds |-> IF k \in ks THEN @[k] + 1 ELSE @[k]]]

\* The request reaches the API: a review and a reweighting are done with it, unless what they
\* are of is gone; the others queue a job, unless one of that kind is queued already.
JobOf(w, c) == [kind |-> w, case |-> c, cleared |-> FALSE]
Write(w) ==
  /\ route # NoCase
  /\ writing = NoWrite
  /\ Offered(w, route)
  /\ Direct(w) => \A k \in Stores(w) : Holds(k, route)
  /\ Did("steps")
  /\ writing' = [kind |-> w, case |-> route]
  /\ server' = IF Direct(w) THEN Advanced(Stores(w), route) ELSE server
  /\ jobs' = IF Direct(w) THEN jobs ELSE jobs \cup {JobOf(w, route)}
  /\ UNCHANGED <<vanished, halted, route, answers, fetching, layerStore, own>>

\* Somebody runs the detection on a scene of the case again, from the upload page.
DetectAgain(c) ==
  /\ Holds("scenes", c)
  /\ Did("steps")
  /\ jobs' = jobs \cup {JobOf("detect", c)}
  /\ UNCHANGED <<server, vanished, halted, route, answers, fetching, writing, layerStore, own>>

\* onSuccess, whatever case is open by now: an observed query is asked again at once.
Written ==
  LET w == writing.kind
      qs == {KeyOf(k, writing.case) : k \in Invalidated(w)}
  IN
  /\ writing # NoWrite
  /\ answers' = [q \in DOMAIN answers |-> IF q \in qs THEN [answers[q] EXCEPT !.stale = TRUE]
                                                     ELSE answers[q]]
  /\ fetching' = Ask(qs \cap Observed(route))
  /\ own' = IF Direct(w) /\ writing.case = route
              THEN Over([q \in {KeyOf(k, writing.case) : k \in Stores(w)} |-> server[q[2]][q[1]]], own)
              ELSE own
  /\ writing' = NoWrite
  /\ UNCHANGED <<server, vanished, jobs, halted, route, layerStore, toDo>>

\* A detection, a drift or a correlation first deletes what the last one of its scene or of
\* its detection stored: all there is of the case, or less.
Replaces(w) == IF w = "ingest" THEN {} ELSE Stores(w)
JobClears(j) ==
  /\ ~j.cleared /\ Replaces(j.kind) # {}
  /\ jobs' = (jobs \ {j}) \cup {[j EXCEPT !.cleared = TRUE]}
  /\ LET ks == {k \in Replaces(j.kind) : Holds(k, j.case)} IN
     /\ server' = Advanced(ks, j.case)
     /\ \E all \in BOOLEAN :
          vanished' = IF all THEN vanished \cup {<<k, j.case, server[j.case][k] + 1>> : k \in ks} ELSE vanished
  /\ UNCHANGED <<halted, route, answers, fetching, writing, layerStore, own, toDo>>

\* A job completes.  Its event goes to the sockets that joined the room of the case,
\* which the workspace never does: nothing here is invalidated.
JobCompletes(j) ==
  /\ Replaces(j.kind) # {} => j.cleared
  /\ jobs' = jobs \ {j}
  /\ \E ks \in Endings(j.kind) :
       /\ server' = Advanced(ks, j.case)
       /\ halted' = (halted \ {KeyOf(k, j.case) : k \in ks}) \cup {KeyOf(k, j.case) : k \in Replaces(j.kind) \ ks}
  /\ UNCHANGED <<vanished, route, answers, fetching, writing, layerStore, own, toDo>>

\* Or it fails for good, in the middle or because what it is about is gone.
JobFails(j) ==
  /\ Did("losses")
  /\ jobs' = jobs \ {j}
  /\ halted' = IF j.cleared THEN halted \cup {KeyOf(k, j.case) : k \in Replaces(j.kind)} ELSE halted
  /\ UNCHANGED <<server, vanished, route, answers, fetching, writing, layerStore, own>>

-----------------------------------------------------------------------------
(* The progress list: buildSteps, and the first step that is not done *)

OrderSwapped == <<"scenes", "detections", "candidates", "origin">>
Order == <<"scenes", "detections", "origin", "candidates">>
NextStep(c) ==
  LET open == {n \in DOMAIN Order : ~Shows(Order[n], c)}
  IN IF open = {} THEN "done" ELSE Order[CHOOSE n \in open : \A m \in open : n <= m]

WorkspaceNext ==
  \/ \E c \in Cases \cup {NoCase} : OpenCase(c)
  \/ \E q \in DOMAIN fetching : AnswerArrives(q) \/ AnswerLost(q)
  \/ \E q \in DOMAIN answers : Ages(q)
  \/ \E l \in DOMAIN layerStore.of : Toggle(l)
  \/ \E w \in Writes : Write(w)
  \/ Written
  \/ \E c \in Cases : DetectAgain(c)
  \/ \E j \in jobs : JobClears(j) \/ JobCompletes(j) \/ JobFails(j)

WorkspaceSpec == WorkspaceInit /\ [][WorkspaceNext]_workspaceVars

-----------------------------------------------------------------------------
(* Properties *)

WorkspaceTypeOK ==
  /\ server \in [Cases -> [Kinds -> Nat]]
  /\ jobs \subseteq [kind : Writes \cup {"detect"}, case : Cases, cleared : BOOLEAN]
  /\ halted \subseteq Kinds \X Cases
  /\ route \in Cases \cup {NoCase}
  /\ DOMAIN answers \cup DOMAIN fetching \cup DOMAIN own \subseteq Kinds \X Cases
  /\ \A q \in DOMAIN answers : answers[q] \in [value : Nat, stale : BOOLEAN]
  /\ \A q \in DOMAIN fetching : fetching[q] \in Nat

\* stores.ts, "a mixed-investigation layer set unrepresentable": every layer the map
\* offers was registered by the case that owns the store, and the case that is open owns
\* it as soon as it has drawn anything.
LayersAreOfOneCase ==
  /\ \A l \in DOMAIN layerStore.of : layerStore.of[l].case = layerStore.owner
  /\ \A k \in Kinds : route # NoCase /\ Shows(k, route) /\ LayersFrom(k) # {}
       => layerStore.owner = route /\ LayersFrom(k) \subseteq DOMAIN layerStore.of

\* PipelineProgress.tsx, "correlation is refused without one": the step the panel says is
\* next has what it needs on the server, however old the answers are it was read from, but
\* where a run that was repeated has deleted it and not stored its own: it is under way, or
\* ended there.
Replacing(k, c) == \E j \in jobs : j.case = c /\ j.cleared /\ k \in Replaces(j.kind)
Available(k, c) == Holds(k, c) \/ Replacing(k, c) \/ KeyOf(k, c) \in halted
NextStepIsPossible ==
  \A c \in Cases :
    /\ NextStep(c) = "origin"     => Available("detections", c)
    /\ NextStep(c) = "candidates" => Available("origin", c)

\* hooks.ts, onSuccess: whatever fetches were in flight when the analyst wrote, data that
\* counts as up to date is not older than the analyst's own review or reweighting.  Of
\* writes that return when another case is open this would be false: the fetch they find
\* in flight is not abandoned, and its older answer clears the mark they set.
OwnWritesAreShown ==
  \A q \in DOMAIN own : UpToDate(q) /\ q \notin DOMAIN fetching => answers[q].value >= own[q]

\* hooks.ts and stores.ts: the workspace shows the analyst's own writes and the layers of the
\* case that is open, and names a next step that the API accepts.
WorkspaceIsCurrent == LayersAreOfOneCase /\ NextStepIsPossible /\ OwnWritesAreShown

=============================================================================
