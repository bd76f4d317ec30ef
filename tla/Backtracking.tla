----------------------------- MODULE Backtracking -----------------------------
(***************************************************************************)
(* Where a slick came from: the API asks the ML service to drift it back   *)
(* (origin/service.ts), which reads a current and a wind field from the    *)
(* first provider of each chain that has one (forcing.py), integrates      *)
(* particles against them (backtrack.py), and says when the release may    *)
(* have been (kde.py, routers/backtrack.py).                               *)
(*                                                                         *)
(* Space is a line with a node of the grid at every even position; times   *)
(* are hours, and the clock of a request counts tens of seconds.  The      *)
(* contours of the density are left out.                                   *)
(***************************************************************************)
EXTENDS Integers, Sequences, FiniteSets, FiniteSetsExt

CONSTANTS
  Grids,          \* what a provider may publish: a velocity, Land or Fill, by node
  Beginnings,     \* where in the slick a particle may begin
  SlickAges,      \* hours: major axis over drift speed
  ObservedAt,     \* the hour of the scene
  EarlierScenes,  \* the hours of scenes before it
  DriftSteps,     \* steps of the integrator
  Deadline,       \* forcing_timeout_seconds
  Retries,        \* forcing_retries
  Ceiling,        \* AbortSignal.timeout of the caller
  MaxAsks         \* bound: attempts of the drift job

Land == 999          \* NaN: the model has no water here
Fill == 900          \* a fill value that survived the mask
MaxCurrent == 10     \* no ocean current is faster

ASSUME BacktrackingAssumption ==
  /\ {DriftSteps, Deadline, Retries, Ceiling, MaxAsks, ObservedAt} \subseteq Nat
  /\ Retries > 0 /\ ObservedAt > 0
  /\ EarlierScenes \subseteq 0 .. ObservedAt - 1 /\ SlickAges \subseteq Nat /\ Beginnings \subseteq Int
  /\ \A g \in Grids : g \in [DOMAIN g -> -MaxCurrent .. MaxCurrent \cup {Land, Fill}] /\ DOMAIN g \subseteq Int

VARIABLES
  forcingSetup,   \* what is configured, and where the hours fall in HYCOM's two feeds
  inquiry,        \* the request under way
  strays,         \* threads left behind, by what they wait for
  estimate        \* the OriginEstimate document

backtrackVars == <<forcingSetup, inquiry, strays, estimate>>

None == "none"
Quiet == [phase |-> "idle", asks |-> 0, clock |-> 0, tries |-> 0, log |-> << >>, currents |-> None,
          winds |-> None, grid |-> << >>, at |-> 0, moved |-> << >>, left |-> 0, prior |-> 0]
NoEstimate == [method |-> None, clock |-> 0]

BacktrackInit ==
  /\ forcingSetup \in [cmems : BOOLEAN, cds : BOOLEAN, gap : BOOLEAN,
                        local : {"none", "missing", "short", "mixed", "wind"}]
  /\ inquiry = Quiet
  /\ strays = [p \in {"CMEMS", "HYCOM", "ERA5_CDS", "request"} |-> 0]
  /\ estimate = NoEstimate

-----------------------------------------------------------------------------
(* The record of what was tried *)

\* As it was: a failure of the first provider was logged and thrown away.
Untold(q, p, outcome) == [q EXCEPT !.tries = 0]
\* What the caller of a chain keeps, whatever happens later.
Told(q, p, outcome) == [q EXCEPT !.log = Append(@, [provider |-> p, outcome |-> outcome]), !.tries = 0]

\* _classify: another attempt will not change a 401, 403, 404 or the absence of data, which
\* NO_DATA stands for here; the gap between HYCOM's feeds is not among these, but an ERROR.
Final == {"NO_DATA"}
Outcomes == Final \cup {"ERROR"}

\* A chain goes on at the first of its providers that is configured.
ToCds(q) == IF forcingSetup.cds THEN [q EXCEPT !.phase = "ERA5_CDS"]
            ELSE [Told(Told(q, "ERA5_CDS", "NOT_CONFIGURED"), "NOAA_GFS", "RETENTION_TOO_SHORT")
                    EXCEPT !.phase = "drift"]
ToWinds(q) == IF forcingSetup.local # "none" THEN [q EXCEPT !.phase = "ERA5_LOCAL_FILE"]
              ELSE ToCds(Told(q, "ERA5_LOCAL_FILE", "NOT_CONFIGURED"))
ToHycom(q) == [q EXCEPT !.phase = "HYCOM"]

PassOver(q, p, outcome) ==
  CASE p = "CMEMS" -> ToHycom(Told(q, p, outcome))
    [] p = "HYCOM" -> [Told(q, p, outcome) EXCEPT !.phase = "proximity"]
    [] p = "ERA5_LOCAL_FILE" -> ToCds(Told(q, p, outcome))
    [] p = "ERA5_CDS" -> [Told(Told(q, p, outcome), "NOAA_GFS", "RETENTION_TOO_SHORT") EXCEPT !.phase = "drift"]

-----------------------------------------------------------------------------
(* The request *)

\* priorClearSceneAt: the latest READY scene with no detection that still stands; one whose
\* ingest has not stored its detections yet (SceneDetection) looks like it.
PriorClear(looks) ==
  LET clear == {h \in EarlierScenes : looks[h] = "clear"}
  IN IF clear = {} THEN 0 ELSE Max(clear)

\* The job is tried again when it failed.
AskOrigin ==
  /\ inquiry.phase = "idle" /\ inquiry.asks < MaxAsks /\ estimate = NoEstimate
  /\ \E looks \in [EarlierScenes -> {"clear", "soiled"}] :
       LET q == [Quiet EXCEPT !.asks = inquiry.asks + 1, !.prior = PriorClear(looks)]
       IN inquiry' = IF forcingSetup.cmems THEN [q EXCEPT !.phase = "CMEMS"]
                     ELSE ToHycom(Told(q, "CMEMS", "NOT_CONFIGURED"))
  /\ UNCHANGED <<forcingSetup, strays, estimate>>

\* A request ends for its caller: the job may be tried again.
Ended(q) == [Quiet EXCEPT !.asks = q.asks]
Within(q) == q.clock <= Ceiling

\* Whether the hours are between HYCOM's two feeds.
InGap == forcingSetup.gap

\* _call_with_deadline: an error is tried again unless it is final; HYCOM's own refusals
\* become a degradation, its other errors are those of the request.
Errs(p) ==
  /\ inquiry.phase = p /\ Within(inquiry)
  /\ \E took \in {0, Deadline}, outcome \in Outcomes, refusal \in BOOLEAN :
       /\ refusal => p = "HYCOM" /\ outcome = "ERROR"
       /\ p = "HYCOM" /\ InGap => refusal
       /\ LET q == [inquiry EXCEPT !.clock = @ + took, !.tries = @ + 1]
          IN inquiry' = IF q.tries < Retries /\ outcome \notin Final THEN q
                        ELSE IF p = "HYCOM" /\ ~refusal THEN Ended(q)
                        ELSE PassOver(q, p, IF refusal THEN "OUT_OF_COVERAGE" ELSE outcome)
  /\ UNCHANGED <<forcingSetup, strays, estimate>>

\* No answer by the deadline: not tried again, and the thread is left behind.
SaysNothing(p) ==
  /\ inquiry.phase = p /\ Within(inquiry)
  /\ inquiry' = PassOver([inquiry EXCEPT !.clock = @ + Deadline], p, "TIMEOUT")
  /\ strays' = [strays EXCEPT ![p] = @ + 1]
  /\ UNCHANGED <<forcingSetup, estimate>>

\* A velocity no ocean has is a fill value.
Cleaned(g) == [i \in DOMAIN g |-> IF g[i] > MaxCurrent \/ g[i] < -MaxCurrent THEN Land ELSE g[i]]
Usable(g)  == \E i \in DOMAIN g : g[i] # Land

\* A field with no wet cell is refused.
CmemsAnswers ==
  /\ inquiry.phase = "CMEMS" /\ Within(inquiry)
  /\ \E g \in Grids :
       /\ \A i \in DOMAIN g : g[i] # Fill
       /\ inquiry' = IF Usable(g) THEN ToWinds([Told(inquiry, "CMEMS", "OK") EXCEPT !.currents = "CMEMS", !.grid = g])
                     ELSE PassOver(inquiry, "CMEMS", "NO_DATA")
  /\ UNCHANGED <<forcingSetup, strays, estimate>>

\* An answer of HYCOM leaves no line in the record.
HycomAnswers ==
  /\ inquiry.phase = "HYCOM" /\ Within(inquiry) /\ ~InGap
  /\ \E g \in Grids :
       LET field == Cleaned(g)
       IN inquiry' = IF Usable(field) THEN ToWinds([inquiry EXCEPT !.currents = "HYCOM", !.grid = field, !.tries = 0])
                     ELSE PassOver(inquiry, "HYCOM", "NO_DATA")
  /\ UNCHANGED <<forcingSetup, strays, estimate>>

\* The file on disk, read without a deadline: used where it holds the whole box and window,
\* and its values are those of a wind.
LocalRefusal == CASE forcingSetup.local = "missing" -> "NOT_FOUND_404" [] forcingSetup.local = "short" -> "NO_DATA"
                  [] forcingSetup.local = "mixed" -> "ERROR" [] forcingSetup.local = "wind" -> None

LocalWinds ==
  /\ inquiry.phase = "ERA5_LOCAL_FILE" /\ Within(inquiry)
  /\ inquiry' = IF LocalRefusal # None THEN PassOver(inquiry, "ERA5_LOCAL_FILE", LocalRefusal)
                ELSE [Told(inquiry, "ERA5_LOCAL_FILE", "OK") EXCEPT !.winds = "ERA5_LOCAL_FILE", !.phase = "drift"]
  /\ UNCHANGED <<forcingSetup, strays, estimate>>

CdsWinds ==
  /\ inquiry.phase = "ERA5_CDS" /\ Within(inquiry)
  /\ inquiry' = [Told(inquiry, "ERA5_CDS", "OK") EXCEPT !.winds = "ERA5_CDS", !.phase = "drift"]
  /\ UNCHANGED <<forcingSetup, strays, estimate>>

\* AbortSignal.timeout: the caller leaves, what the ML service still does is for nobody.
CallerLeaves ==
  /\ inquiry.phase # "idle" /\ ~Within(inquiry)
  /\ inquiry' = Ended(inquiry)
  /\ strays' = [strays EXCEPT !["request"] = @ + 1]
  /\ UNCHANGED <<forcingSetup, estimate>>

-----------------------------------------------------------------------------
(* The drift *)

\* _bilinear: the average of the wet corners of the cell, by their weights; a point on the
\* first node is outside the grid, and outside it nothing moves.
Corners(x) == {(x - 1) \div 2, (x + 1) \div 2}
Inside(g, x) == x > 0 /\ Corners(x) \subseteq DOMAIN g
Weight(x, i) == IF x % 2 = 0 THEN (IF i = x \div 2 THEN 2 ELSE 0) ELSE 1
Wet(g, x) == {i \in Corners(x) : g[i] # Land /\ Weight(x, i) > 0}

SampleAt(g, x) ==
  LET l == (x - 1) \div 2
      r == (x + 1) \div 2
      share(i) == IF i \in Wet(g, x) THEN Weight(x, i) ELSE 0
  IN IF ~Inside(g, x) \/ Wet(g, x) = {} THEN 0
     ELSE (g[l] * share(l) + g[r] * share(r)) \div (share(l) + share(r))
\* As it was: one corner of land made the whole cell calm.
SampleUnweighted(g, x) ==
  IF ~Inside(g, x) \/ Wet(g, x) # {i \in Corners(x) : Weight(x, i) > 0} THEN 0 ELSE SampleAt(g, x)

Sampled(g, x) == SampleAt(g, x)

\* A particle is placed in the slick, and moves against what it meets; the wind adds to it.
Place ==
  /\ inquiry.phase = "drift" /\ Within(inquiry)
  /\ \E x \in Beginnings : inquiry' = [inquiry EXCEPT !.phase = "drifting", !.at = x, !.left = DriftSteps]
  /\ UNCHANGED <<forcingSetup, strays, estimate>>

Drift ==
  /\ inquiry.phase = "drifting" /\ inquiry.left > 0
  /\ \E blow \in IF inquiry.winds = None THEN {0} ELSE {0, 1} :
       LET v == Sampled(inquiry.grid, inquiry.at) + blow
       IN inquiry' = [inquiry EXCEPT !.left = @ - 1, !.at = @ - v,
                                     !.moved = Append(@, [from |-> inquiry.at, by |-> v, wind |-> blow])]
  /\ UNCHANGED <<forcingSetup, strays, estimate>>

-----------------------------------------------------------------------------
(* The answer *)

Still(q) == \A k \in DOMAIN q.moved : q.moved[k].by = 0

\* estimate_release_window, of a slick that `age' hours of the drift would have drawn out.
Unbounded(age) == IF age = 0 THEN [from |-> ObservedAt - 24, to |-> ObservedAt, status |-> "WIDE"]
                  ELSE [from |-> ObservedAt - (15 * age) \div 10, to |-> ObservedAt - (4 * age) \div 10,
                        status |-> "OK"]
ReleaseWindow(age, prior) ==
  LET w == Unbounded(age)
      from == IF prior > w.from THEN prior ELSE w.from
  IN [from |-> from, status |-> w.status, bounded |-> prior > w.from,
      to |-> IF w.to <= from THEN Min({ObservedAt, from + 1}) ELSE w.to]

\* What the record keeps of a request: the four statuses, and what they stand on.
EstimateOf(q, age) ==
  [method |-> IF q.phase = "proximity" THEN "FOOTPRINT_PROXIMITY" ELSE "LAGRANGIAN_BACKTRACK",
   status |-> IF q.winds # None THEN "OK" ELSE "DEGRADED",
   currentStatus |-> IF q.currents # None THEN "OBSERVED" ELSE "UNAVAILABLE",
   windStatus |-> IF q.phase = "proximity" THEN "NOT_ATTEMPTED" ELSE IF q.winds # None THEN "OBSERVED" ELSE "UNKNOWN",
   log |-> q.log, currents |-> q.currents, winds |-> q.winds, grid |-> q.grid, moved |-> q.moved,
   window |-> ReleaseWindow(age, q.prior), prior |-> q.prior, clock |-> q.clock]

\* The request answers, and its estimate replaces the one there was.
Answer ==
  /\ inquiry.phase = "proximity" \/ (inquiry.phase = "drifting" /\ inquiry.left = 0)
  /\ Within(inquiry)
  /\ \E age \in SlickAges \cup {0} :
       /\ age = 0 <=> inquiry.phase = "proximity" \/ Still(inquiry)
       /\ estimate' = EstimateOf(inquiry, age)
  /\ inquiry' = Ended(inquiry)
  /\ UNCHANGED <<forcingSetup, strays>>

BacktrackNext ==
  \/ AskOrigin
  \/ \E p \in {"CMEMS", "HYCOM", "ERA5_CDS"} : Errs(p) \/ SaysNothing(p)
  \/ CmemsAnswers
  \/ HycomAnswers
  \/ LocalWinds
  \/ CdsWinds
  \/ CallerLeaves
  \/ Place
  \/ Drift
  \/ Answer

BacktrackSpec == BacktrackInit /\ [][BacktrackNext]_backtrackVars

-----------------------------------------------------------------------------
(* Properties *)

BacktrackTypeOK ==
  /\ inquiry.phase \in {"idle", "CMEMS", "HYCOM", "ERA5_LOCAL_FILE", "ERA5_CDS", "proximity", "drift", "drifting"}
  /\ inquiry.tries \in 0 .. Retries /\ inquiry.asks \in 0 .. MaxAsks
  /\ estimate.method \in {None, "FOOTPRINT_PROXIMITY", "LAGRANGIAN_BACKTRACK"}

Recorded == estimate.method # None
Entries(p) == {e.outcome : e \in {estimate.log[k] : k \in {j \in DOMAIN estimate.log : estimate.log[j].provider = p}}}

\* Whether p was passed over, and the estimate says what for.
Explains(p, configured) == IF configured THEN Entries(p) # {} /\ Entries(p) \cap {"OK", "NOT_CONFIGURED"} = {}
                           ELSE Entries(p) = {"NOT_CONFIGURED"}

\* An estimate says what it is made of: it claims a drift only with a current field and OK
\* only with a wind field too, and every provider before the one that answered is in its
\* record with the reason it did not (fetch_currents, fetch_winds, run_backtrack).
FallbackIsTold == Recorded =>
  /\ (estimate.method = "LAGRANGIAN_BACKTRACK") = (estimate.currents # None)
  /\ (estimate.status = "OK") = (estimate.currents # None /\ estimate.winds # None)
  /\ estimate.currents # "CMEMS" => Explains("CMEMS", forcingSetup.cmems)
  /\ estimate.currents = None => Explains("HYCOM", TRUE)
  /\ estimate.windStatus # "NOT_ATTEMPTED" /\ estimate.winds # "ERA5_LOCAL_FILE" =>
       Explains("ERA5_LOCAL_FILE", forcingSetup.local # "none")
  /\ estimate.windStatus = "UNKNOWN" => Explains("ERA5_CDS", forcingSetup.cds)

\* A request calls no provider past its deadline and its retries, and what the caller no
\* longer waits for is never recorded (_call_with_deadline, runOrigin).
CallsAreBounded ==
  /\ inquiry.clock <= Ceiling + Retries * Deadline
  /\ estimate.clock <= Ceiling
  /\ \A p \in DOMAIN strays : strays[p] <= MaxAsks

\* The window of release is one, ends by the observation, and does not begin before a scene
\* that was clear (estimate_release_window).
WindowHoldsEvidence == Recorded =>
  LET w == estimate.window
  IN w.from < w.to /\ w.to <= ObservedAt /\ estimate.prior <= w.from /\ (w.bounded => w.from = estimate.prior)

\* A particle moves as the water around it does: between the slowest and the fastest of the
\* wet corners it is among, and no faster than an ocean current (_bilinear, the clipping of
\* fetch_hycom_currents); not the calm of a cell with one corner of land.
DriftIsOfWater == Recorded =>
  \A k \in DOMAIN estimate.moved :
    LET m == estimate.moved[k]
        around == {estimate.grid[i] : i \in IF Inside(estimate.grid, m.from) THEN Wet(estimate.grid, m.from) ELSE {}}
    IN /\ m.by - m.wind \in -MaxCurrent .. MaxCurrent
       /\ IF around = {} THEN m.by = m.wind ELSE m.by - m.wind \in Min(around) .. Max(around)

\* What the ML service answers is what it measured, within the bounds it was given.
BacktrackIsHonest == FallbackIsTold /\ CallsAreBounded /\ WindowHoldsEvidence /\ DriftIsOfWater
=============================================================================
