------------------------------- MODULE Evidence -------------------------------
(***************************************************************************)
(* How a vessel is weighed: the features of one candidate against one      *)
(* origin (attribution/features.ts), the ranking they give, the resampling *)
(* that asks whether its order is real (separation.ts, bootstrap.ts), and  *)
(* what the screen makes of it.  The interval of a single score is left    *)
(* out.                                                                    *)
(*                                                                         *)
(* The sea is a line and the origin zone an interval of it; a normalised   *)
(* value is in tenths, a weight in thousandths, a score in hundredths, and *)
(* a curve of the model is a table that falls as it does.                  *)
(***************************************************************************)
EXTENDS Integers, Sequences, FiniteSets, FiniteSetsExt, SequencesExt

CONSTANTS
  Fields,      \* the candidates of a correlation, in the order of their tracks
  Settings,    \* what is known of the slick and its origin
  MinMeasured, \* MIN_MEASURED_FEATURES
  WinShare,    \* DISTINGUISHABLE_WIN_SHARE, in hundredths
  MaxDraws     \* bound: iterations of a resampling

VARIABLES
  field,       \* the candidates, as reconstructTracks gives them
  setting,     \* the ScoringContext
  weighed,     \* CandidateScore of each, once they are scored
  draws        \* paired draws so far: the scores of the field in each

evidenceVars == <<field, setting, weighed, draws>>

NoReading == 999
Features == {"spatial", "temporal", "intersection", "heading", "dark", "risk", "anomaly", "speed",
             "type", "density", "draught", "axis", "manoeuvre", "history"}
Weights == [spatial |-> 180, temporal |-> 160, intersection |-> 130, heading |-> 100, dark |-> 80,
            risk |-> 80, anomaly |-> 80, speed |-> 60, type |-> 40, density |-> 40, draught |-> 20,
            axis |-> 15, manoeuvre |-> 10, history |-> 5]

Measured(n)    == [status |-> "MEASURED", value |-> Max({0, Min({10, n})})]
Missing        == [status |-> "MISSING", value |-> 0]
NotApplicable  == [status |-> "NOT_APPLICABLE", value |-> 0]

-----------------------------------------------------------------------------
(* Tracks and zones *)

Span(a, b) == IF a < b THEN b - a ELSE a - b
Midpoint(z) == (z[1] + z[2]) \div 2
InZone(x, z) == z[1] <= x /\ x <= z[2]

\* trackToPolygonMinDistanceKm: of the vertices of the track, not of its legs.
Distance(fixes, z) ==
  Min({IF InZone(f.x, z) THEN 0 ELSE Min({Span(f.x, z[1]), Span(f.x, z[2])}) : f \in Range(fixes)})

\* trackIntersectsPolygon looks at the legs too.
CrossesZone(fixes, z) ==
  \/ \E f \in Range(fixes) : InZone(f.x, z)
  \/ \E k \in 2 .. Len(fixes) : Min({fixes[k-1].x, fixes[k].x}) < z[1] /\ z[2] < Max({fixes[k-1].x, fixes[k].x})

\* A vessel with fewer than two fixes has no line.
HasLine(fixes) == Len(fixes) >= 2

\* nearestFixes: the n closest to the centroid, in their order in time.
Nearest(fixes, z, n) ==
  LET far(k) == Span(fixes[k].x, Midpoint(z))
      closer(k) == {j \in DOMAIN fixes : far(j) < far(k) \/ (far(j) = far(k) /\ j < k)}
  IN [k \in 1 .. Min({n, Len(fixes)}) |->
        fixes[CHOOSE i \in DOMAIN fixes : /\ Cardinality(closer(i)) < n
                                          /\ Cardinality({j \in 1 .. i : Cardinality(closer(j)) < n}) = k]]

Fall(x, half) == (10 * half) \div (half + x)

\* The bearing of a leg along the line, and two directions compared as axes.
Bearing(a, b) == IF a.x = b.x THEN 0 ELSE IF a.x < b.x THEN 90 ELSE 270
AxisGap(course, axis) == LET d == Span(course % 180, axis) IN IF d > 90 THEN 180 - d ELSE d
Turn(a, b) == LET d == Span(a, b) IN IF d > 180 THEN 360 - d ELSE d

-----------------------------------------------------------------------------
(* The features *)

Spatial(v, s) == IF ~HasLine(v.fixes) THEN Missing ELSE Measured(Fall(Distance(v.fixes, s.zone), 1))

\* Presence in a window that spans the whole horizon tells no vessel from another.
Temporal(v, s) ==
  IF v.fixes = << >> \/ s.until <= s.from THEN Missing
  ELSE IF s.wide THEN NotApplicable
  ELSE Measured((10 * Cardinality({k \in DOMAIN v.fixes : s.from <= v.fixes[k].t /\ v.fixes[k].t <= s.until}))
                  \div Len(v.fixes))

Intersection(v, s) ==
  IF ~HasLine(v.fixes) THEN Missing
  ELSE Measured(IF CrossesZone(v.fixes, s.zone) THEN 10 ELSE Fall(Distance(v.fixes, s.zone), 3))

\* A slick that is not drawn out has no direction a heading could agree with.
Heading(v, s) ==
  LET near == Nearest(v.fixes, s.zone, 3)
      course == IF near[1].cog # NoReading THEN near[1].cog ELSE Bearing(near[1], near[Len(near)])
  IN IF s.axis = NoReading THEN Missing ELSE IF ~s.elongated THEN NotApplicable
     ELSE IF Len(near) < 2 THEN Missing
     ELSE Measured(CASE AxisGap(course, s.axis) < 30 -> 10 [] AxisGap(course, s.axis) \in 30 .. 60 -> 5
                     [] OTHER -> 0)

\* Silences that overlap the release window; a vessel without any is measured at zero.
Silences(v, s) == {g \in v.gaps : g.to >= s.from /\ g.from <= s.until}
Dark(v, s) == IF Silences(v, s) = {} THEN Measured(0) ELSE Measured(2 * Max({g.to - g.from : g \in Silences(v, s)}))
Anomaly(v, s) == IF Silences(v, s) = {} THEN Measured(0) ELSE Measured(3 * Max({g.to - g.from : g \in Silences(v, s)}))

Speed(v, s) ==
  LET known == SelectSeq(Nearest(v.fixes, s.zone, 5), LAMBDA f : f.sog # NoReading)
      mean == FoldLeft(LAMBDA n, f : n + f.sog, 0, known) \div Len(known)
  IN IF known = << >> THEN Missing
     ELSE Measured(IF mean >= 4 /\ mean <= 14 THEN 10 - Span(mean, 9) ELSE IF mean < 4 THEN 3 ELSE 2)

\* The type of ship, twice: missing for the prior when it is not known, but half for the risk.
TypeScore(v) == CASE v.type = "tanker" -> 10 [] v.type = "cargo" -> 7 [] v.type = "passenger" -> 3 [] OTHER -> 2
Type(v) == IF v.type = "unknown" THEN Missing ELSE Measured(TypeScore(v))
Risk(v) == IF v.type = "unknown" THEN Measured(5) ELSE Measured(IF v.type = "other" THEN 5 ELSE TypeScore(v))

Density(v, s) ==
  IF ~HasLine(v.fixes) \/ s.degraded THEN Missing ELSE Measured(Fall(Distance(v.fixes, s.zone), 2))

Draught(v) ==
  LET known == SelectSeq(v.fixes, LAMBDA f : f.draught # NoReading /\ f.draught > 0)
  IN IF Len(known) < 2 THEN Missing ELSE Measured(10 * (known[1].draught - known[Len(known)].draught))

\* Whether the slick is drawn out at all is not asked here.
Axis(v, s) ==
  LET near == Nearest(v.fixes, s.zone, 4)
  IN IF s.axis = NoReading \/ Len(near) < 2 THEN Missing
     ELSE Measured(10 - AxisGap(Bearing(near[1], near[Len(near)]), s.axis) \div 9)

Manoeuvre(v, s) ==
  LET known == SelectSeq(Nearest(v.fixes, s.zone, 6), LAMBDA f : f.cog # NoReading)
      turns == FoldLeft(LAMBDA n, k : n + Turn(known[k].cog, known[k-1].cog), 0, [k \in 1 .. Len(known) - 1 |-> k + 1])
  IN IF Len(known) < 3 THEN Missing ELSE Measured((10 * (turns \div (Len(known) - 1))) \div 45)

\* No source of it is connected.
History == Missing

FeaturesOf(v, s) ==
  [spatial |-> Spatial(v, s), temporal |-> Temporal(v, s), intersection |-> Intersection(v, s),
   heading |-> Heading(v, s), dark |-> Dark(v, s), risk |-> Risk(v), anomaly |-> Anomaly(v, s),
   speed |-> Speed(v, s), type |-> Type(v), density |-> Density(v, s), draught |-> Draught(v),
   axis |-> Axis(v, s), manoeuvre |-> Manoeuvre(v, s), history |-> History]

-----------------------------------------------------------------------------
(* The score *)

Looked(fs) == {k \in Features : fs[k].status = "MEASURED"}
WeighedAll(fs) == MapThenSumSet(LAMBDA k : Weights[k], Features)
Weighed(fs) == MapThenSumSet(LAMBDA k : Weights[k], Looked(fs))

ScoreOf(fs) ==
  IF Weighed(fs) = 0 THEN 0
  ELSE (1000 * MapThenSumSet(LAMBDA k : fs[k].value * Weights[k], Looked(fs))) \div Weighed(fs)

\* Too few features, whatever the score; and no STRONG from a degraded origin.
TierOf(fs, s) ==
  LET score == ScoreOf(fs)
      earned == IF score >= 7000 THEN "STRONG" ELSE IF score >= 5000 THEN "MODERATE"
                ELSE IF score >= 3000 THEN "WEAK" ELSE "INSUFFICIENT_EVIDENCE"
  IN IF Cardinality(Looked(fs)) < MinMeasured THEN "INSUFFICIENT_EVIDENCE"
     ELSE IF s.degraded /\ earned = "STRONG" THEN "MODERATE" ELSE earned

\* rankCandidates: by score, then by how much was measured, then as they came.
Ahead(i, j) ==
  LET m == Cardinality(Looked(weighed[i].features))  n == Cardinality(Looked(weighed[j].features))
  IN weighed[i].score > weighed[j].score
     \/ (weighed[i].score = weighed[j].score /\ (m > n \/ (m = n /\ i < j)))
Standing == SortSeq([i \in DOMAIN field |-> i], Ahead)

-----------------------------------------------------------------------------
(* The resampling *)

\* isInterpolated: any fix that follows a silence of three median intervals; the fixes are
\* all rows of the archive.
MedianStep(v) ==
  LET steps == SortSeq([k \in 1 .. Len(v.fixes) - 1 |-> v.fixes[k+1].t - v.fixes[k].t], LAMBDA a, b : a < b)
  IN IF steps = << >> THEN 1 ELSE steps[Len(steps) \div 2 + 1]
Movable(v) == {k \in 2 .. Len(v.fixes) : v.fixes[k].t - v.fixes[k-1].t > 3 * MedianStep(v)}

\* perturbFixes: one draw of the positions of a vessel.
Redrawn(v, d) == [v EXCEPT !.fixes = [k \in DOMAIN v.fixes |-> IF k \in Movable(v) THEN [v.fixes[k] EXCEPT !.x = @ + d]
                                                                ELSE v.fixes[k]]]

\* scaleAboutCentroid.
Scaled(s, j) == [s EXCEPT !.zone = <<@[1] - j, @[2] + j>>]
Jitters == {-1, 0, 1}

Unsure == {i \in DOMAIN field : Movable(field[i]) # {}}

\* There is one release zone: what is drawn of it is drawn for the whole field.
ZonesEach == [DOMAIN field -> Jitters]
ZonesDrawn == {[i \in DOMAIN field |-> j] : j \in Jitters}

EvidenceInit ==
  /\ field \in Fields /\ setting \in Settings
  /\ weighed = << >> /\ draws = << >>

ScoreField ==
  /\ weighed = << >>
  /\ \E found \in {[i \in DOMAIN field |-> FeaturesOf(field[i], setting)]} :
       weighed' = [i \in DOMAIN field |-> [score |-> ScoreOf(found[i]), tier |-> TierOf(found[i], setting),
                                            features |-> found[i]]]
  /\ UNCHANGED <<field, setting, draws>>

DrawField ==
  /\ weighed # << >> /\ Len(draws) < MaxDraws /\ Len(field) > 1
  /\ \E zones \in ZonesDrawn, ds \in [Unsure -> {-1, 1}] :
       LET shift(i) == IF i \in Unsure THEN ds[i] ELSE 0
       IN \E found \in {[i \in DOMAIN field |-> FeaturesOf(Redrawn(field[i], shift(i)), Scaled(setting, zones[i]))]} :
            draws' = Append(draws, [i \in DOMAIN field |-> ScoreOf(found[i])])
  /\ UNCHANGED <<field, setting, weighed>>

EvidenceNext == ScoreField \/ DrawField

EvidenceSpec == EvidenceInit /\ [][EvidenceNext]_evidenceVars

-----------------------------------------------------------------------------
(* What is reported *)

\* rankSeparation's tallies: who comes first, ties going to the lower number, and how often
\* the leader of the ranking outscores the second.
Winner(d) == CHOOSE i \in DOMAIN d : \A j \in DOMAIN d \ {i} : d[i] > d[j] \/ (d[i] = d[j] /\ field[i].mmsi < field[j].mmsi)
TopShare(i) == (100 * Cardinality({k \in DOMAIN draws : Winner(draws[k]) = i})) \div Len(draws)
Leader   == Standing[1]
RunnerUp == Standing[2]
Wins == (100 * Cardinality({k \in DOMAIN draws : draws[k][Leader] > draws[k][RunnerUp]})) \div Len(draws)
Resampled == Len(field) > 1 /\ Len(draws) = MaxDraws
Distinguishable == Resampled /\ Wins >= WinShare

\* CandidateRanking: an insufficient first place replaces the whole ranking.
Shown == IF weighed[Standing[1]].tier = "INSUFFICIENT_EVIDENCE" THEN << >> ELSE Standing

-----------------------------------------------------------------------------
(* Properties *)

EvidenceTypeOK ==
  /\ Len(draws) <= MaxDraws
  /\ \A k \in DOMAIN draws, i \in DOMAIN field : draws[k][i] \in 0 .. 10000

\* A score is an average of what was measured: nothing that could not be looked at pulls it
\* below the weakest or above the strongest of what was (scoreCandidate's renormalisation).
ScoreIsOfWhatWasMeasured ==
  \A i \in DOMAIN weighed :
    LET values == {1000 * weighed[i].features[k].value : k \in Looked(weighed[i].features)}
    IN values # {} => weighed[i].score \in Min(values) .. Max(values)

\* A degraded origin supports no STRONG tier, and too few measurements support none at all
\* (scoreCandidate).
TierIsEarned ==
  \A i \in DOMAIN weighed :
    weighed[i].tier # "INSUFFICIENT_EVIDENCE" =>
      /\ Cardinality(Looked(weighed[i].features)) >= MinMeasured
      /\ setting.degraded => weighed[i].tier # "STRONG"

\* Two vessels with the same evidence, none of it movable, are never told apart: what is
\* uncertain of the zone is uncertain for both at once (rankSeparation).
Twins(i, j) == Movable(field[i]) = {} /\ [field[i] EXCEPT !.mmsi = 0] = [field[j] EXCEPT !.mmsi = 0]
TwinsAreNotSeparated ==
  Resampled /\ Twins(Leader, RunnerUp) => Wins = 0 /\ ~Distinguishable

\* What the reader is told of the order agrees with itself: when the leader is called
\* distinguishable from the second, the second tops few of the same draws (verdictFor).
SharesAgree == Distinguishable => TopShare(RunnerUp) <= 100 - WinShare

EvidenceIsWeighed == ScoreIsOfWhatWasMeasured /\ TierIsEarned /\ TwinsAreNotSeparated /\ SharesAgree

(* What the code says of itself and the model contradicts: a vessel measured on too few    *)
(* features may be ranked first, a recorded fix may be moved, and a track that crosses the *)
(* zone between two fixes is kilometres from it.                                           *)
InsufficientIsNotFirst ==
  weighed # << >> /\ Shown = << >> => \A i \in DOMAIN field : weighed[i].tier = "INSUFFICIENT_EVIDENCE"
RecordedFixesStay == \A i \in DOMAIN field : Movable(field[i]) = {}
CrossingIsNear == \A i \in DOMAIN field : CrossesZone(field[i].fixes, setting.zone) => Distance(field[i].fixes, setting.zone) = 0
=============================================================================
