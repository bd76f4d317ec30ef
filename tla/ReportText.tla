------------------------------ MODULE ReportText ------------------------------
(***************************************************************************)
(* What a report says of a case: buildReportData of reports/service.ts     *)
(* reads the case in parallel queries while jobs rewrite it, and writes    *)
(* two documents from what it read, the caveats of the dossier             *)
(* (buildUncertainty) and the brief for the public (buildPlainSummary),    *)
(* each from a walk of its own over the same data; exports.ts writes three *)
(* more.  A case has several slicks, each with an estimate of its origin   *)
(* and a ranking of vessels: of the estimates the newest is read, and the  *)
(* rankings are read as one list.  A text is the fact it states.           *)
(***************************************************************************)
EXTENDS Naturals, Sequences, FiniteSets

CONSTANTS
  Slicks,         \* detections of the case, those of earlier runs included
  Tiers,          \* tiers of vessels
  MaxRecomputes,  \* bound: results of jobs that are stored while a report is read
  MaxListed       \* bound: vessels of a ranking

Tier == {"STRONG", "MODERATE", "WEAK", "INSUFFICIENT_EVIDENCE"}

ASSUME ReportTextAssumption ==
  IsFiniteSet(Slicks) /\ Tiers \subseteq Tier /\ MaxRecomputes \in Nat /\ MaxListed \in Nat

VARIABLES
  facts,       \* what is stored of the case
  reading,     \* what a request has read of it, by part
  recomputes   \* what remains of MaxRecomputes

reportTextVars == <<facts, reading, recomputes>>

-----------------------------------------------------------------------------
\* The separation of a ranking: not measured, or the verdict on its two best vessels, which
\* its best vessel carries.
Separation == {"none", "inseparable", "thin", "clear"}
Doc == [rank : Nat \ {0}, tier : Tier, separation : Separation]

\* What a correlation stores of one slick: a single vessel has no verdict.
RankingOf(tiers, verdict) ==
  [n \in DOMAIN tiers |-> [rank |-> n, tier |-> tiers[n], separation |-> IF n = 1 THEN verdict ELSE "none"]]
Rankings ==
  LET tiersOf(n) == [1 .. n -> Tiers] IN
  UNION {{RankingOf(t, v) : t \in tiersOf(n), v \in IF n > 1 THEN Separation \ {"none"} ELSE {"none"}} :
           n \in 0 .. MaxListed}

\* By slick, whether its look-alike risk is high; the estimates in the order they were
\* created; and by slick the documents of its ranking.
Estimates == [of : Slicks, status : {"OK", "DEGRADED"}]
Coverage  == [vessels : {"few", "many"}, sparse : BOOLEAN]
Facts ==
  [slicks : UNION {[S -> BOOLEAN] : S \in SUBSET Slicks}, origins : Seq(Estimates),
   vessels : [Slicks -> Seq(Doc)], coverage : Coverage]
NoCoverage == [vessels |-> "unknown", sparse |-> FALSE]

Parts == {"slicks", "origin", "vessels", "coverage"}

\* All documents of the case, whatever slick they are of; and sort({ rank: 1 }), which leaves
\* documents of one rank in any order.
Placed(vs) == {x \in Slicks \X (1 .. MaxListed) : x[2] \in DOMAIN vs[x[1]]}
InAnyOrder(vs) ==
  LET docs   == Placed(vs)
      places == 1 .. Cardinality(docs)
      once   == {f \in [places -> docs] : \A i, j \in places : i # j => f[i] # f[j]}
  IN {[i \in places |-> vs[f[i][1]][f[i][2]]] : f \in once}
ByRank(vs) == {l \in InAnyOrder(vs) : \A i, j \in DOMAIN l : i < j => l[i].rank <= l[j].rank}

\* sort({ createdAt: -1 }), the first
NewestEstimate(es) == IF es = <<>> THEN "none" ELSE es[Len(es)].status

\* What a query finds of a part.
QueryGives(p) ==
  CASE p = "slicks"   -> {facts.slicks}
    [] p = "origin"   -> {NewestEstimate(facts.origins)}
    [] p = "vessels"  -> ByRank(facts.vessels)
    [] p = "coverage" -> {facts.coverage, NoCoverage}

-----------------------------------------------------------------------------
(* The dossier's caveats: buildUncertainty *)

Says(topic, severity, condition) ==
  IF condition THEN {[topic |-> topic, severity |-> severity]} ELSE {}

HasCoverage(d) == d.coverage # NoCoverage
FewVessels(d)  == HasCoverage(d) /\ d.coverage.vessels # "many"
SomeRisky(d)   == \E s \in DOMAIN d.slicks : d.slicks[s]

OriginCaveat(d) == Says("origin", "LIMITATION", d.origin \in {"none", "DEGRADED"})

\* Every stored score is uncalibrated.
CalibrationCaveat(d) == Says("calibration", "LIMITATION", TRUE)

CoverageCaveats(d) ==
  Says("coverage", "LIMITATION", FewVessels(d))
    \cup Says("coverage", "INFO", HasCoverage(d) /\ ~FewVessels(d))
    \cup Says("sampling", "CAVEAT", HasCoverage(d) /\ d.coverage.sparse)

DetectionCaveats(d) ==
  Says("look-alike", "CAVEAT", SomeRisky(d)) \cup Says("detector", "LIMITATION", TRUE)

\* candidates.find((c) => c.rank === 1) ?? candidates[0]
TopOf(vessels) ==
  LET best == {n \in DOMAIN vessels : vessels[n].rank = 1}
  IN vessels[IF best = {} THEN 1 ELSE CHOOSE n \in best : \A m \in best : n <= m]

\* The verdict on one ranking is told, on whichever its first vessel stands in the list.
SeparationCaveat(d) ==
  LET verdict == IF d.vessels = <<>> THEN "none" ELSE TopOf(d.vessels).separation IN
  Says("separation", "LIMITATION", verdict = "inseparable")
    \cup Says("separation", "CAVEAT", verdict = "thin")
    \cup Says("separation", "CAVEAT", verdict = "none" /\ Len(d.vessels) > 1)

\* Of scores at the end of their interval nothing is said here.
ScoreCaveats(d) ==
  Says("sufficiency", "INFO", \E n \in DOMAIN d.vessels : d.vessels[n].tier = "INSUFFICIENT_EVIDENCE")

Uncertainty(d) ==
  OriginCaveat(d) \cup CalibrationCaveat(d) \cup CoverageCaveats(d)
    \cup DetectionCaveats(d) \cup SeparationCaveat(d) \cup ScoreCaveats(d)

-----------------------------------------------------------------------------
(* The brief: buildPlainSummary *)

Headline(d) ==
  IF DOMAIN d.slicks = {} THEN "nothing seen"
  ELSE IF d.vessels = <<>> THEN "no vessel"
  ELSE TopOf(d.vessels).tier

PossibleOrigin(d) ==
  CASE d.origin = "none" -> "only where it was seen"
    [] d.origin = "OK" -> "traced"
    [] d.origin = "DEGRADED" -> "rough"
    [] OTHER -> "not traced"

\* TIER_PLAIN of the first five.
PlainVessels(d) == SubSeq(d.vessels, 1, IF Len(d.vessels) < 5 THEN Len(d.vessels) ELSE 5)

DontKnow(d) ==
  (IF d.origin \in {"none", "DEGRADED", "UNAVAILABLE"} THEN {"origin"} ELSE {})
    \cup (IF FewVessels(d) THEN {"coverage"} ELSE {})
    \cup (IF SomeRisky(d) THEN {"look-alike"} ELSE {})
    \cup (IF d.vessels # <<>> THEN {"calibration"} ELSE {})
    \cup {"starting point"}

-----------------------------------------------------------------------------
(* The exports *)

\* toGeoJson: the area, the slicks, and the two supports of an origin with its status.
GeoJson(d) ==
  <<"AOI">> \o [i \in 1 .. Cardinality(DOMAIN d.slicks) |-> "DETECTION"]
    \o (IF d.origin = "none" THEN <<>>
        ELSE <<<<"ORIGIN_SUPPORT_90", d.origin>>, <<"ORIGIN_SUPPORT_50", d.origin>>>>)

\* toCsv: a row of every feature of a vessel, measured or not.
CsvRows(d, features) == 1 + Len(d.vessels) * features

\* toManifest: the counts and the caveats travel together.
Manifest(d) ==
  [detections |-> Cardinality(DOMAIN d.slicks), candidates |-> Len(d.vessels),
   coverage |-> HasCoverage(d), uncertainty |-> Uncertainty(d)]

-----------------------------------------------------------------------------
(* buildReportData *)

\* A case whose jobs have ended: at most an estimate and a ranking of each slick.
ReportTextInit ==
  /\ facts \in [slicks : UNION {[S -> BOOLEAN] : S \in SUBSET Slicks},
                origins : {<<>>} \cup {<<e>> : e \in Estimates} \cup {<<e, f>> : e, f \in Estimates},
                vessels : [Slicks -> Rankings], coverage : Coverage]
  /\ \A n, m \in DOMAIN facts.origins : facts.origins[n].of = facts.origins[m].of => n = m
  /\ reading = <<>>
  /\ recomputes = MaxRecomputes

\* What is read of a part stays as it was read.
Reads(p, v) == [q \in DOMAIN reading \cup {p} |-> IF q = p THEN v ELSE reading[q]]

\* Promise.all of the queries; the coverage follows, and is null when it fails.
ReadPart(p) ==
  /\ p \notin DOMAIN reading
  /\ p = "coverage" => DOMAIN reading = Parts \ {p}
  /\ \E v \in QueryGives(p) : reading' = Reads(p, v)
  /\ UNCHANGED <<facts, recomputes>>

Stored(new) ==
  /\ recomputes > 0
  /\ facts' = new
  /\ recomputes' = recomputes - 1
  /\ UNCHANGED reading

\* A detection: other slicks, while what was stored of the former ones stays.
Detects == \E S \in SUBSET Slicks : \E risky \in [S -> BOOLEAN] : Stored([facts EXCEPT !.slicks = risky])

\* A drift deletes the estimate of its slick, and creates the new one or dies.
OfOthers(es, s) ==
  IF \A n \in DOMAIN es : es[n].of # s THEN es
  ELSE LET k == CHOOSE n \in DOMAIN es : es[n].of = s
       IN SubSeq(es, 1, k - 1) \o SubSeq(es, k + 1, Len(es))
Drifts(s) ==
  LET others == OfOthers(facts.origins, s) IN
  \/ Stored([facts EXCEPT !.origins = others])
  \/ \E e \in {x \in Estimates : x.of = s} : Stored([facts EXCEPT !.origins = Append(others, e)])

InRanking(s, docs) == [facts EXCEPT !.vessels = [facts.vessels EXCEPT ![s] = docs]]

\* A correlation deletes the ranking of its slick, and creates the new one vessel by vessel.
Correlates(s) ==
  \E r \in Rankings : \E n \in 0 .. Len(r) : Stored(InRanking(s, SubSeq(r, 1, n)))

\* A reweighting saves the vessels of one slick in their new order: all, or as many as it came
\* to.  Saved, a vessel has its new rank and no verdict.
Rearranged(docs, order, n) ==
  [v \in DOMAIN docs |-> IF order[v] <= n
                           THEN [rank |-> order[v], tier |-> docs[v].tier, separation |-> "none"]
                           ELSE docs[v]]
Rearranges(s) ==
  LET docs == facts.vessels[s] IN
  \E order \in [DOMAIN docs -> DOMAIN docs], n \in DOMAIN docs :
    /\ \A v, w \in DOMAIN docs : order[v] = order[w] => v = w
    /\ Stored(InRanking(s, Rearranged(docs, order, n)))

\* An import of AIS.
CoverageChanges == \E c \in Coverage : Stored([facts EXCEPT !.coverage = c])

ReportTextNext ==
  \/ \E p \in Parts : ReadPart(p)
  \/ Detects \/ CoverageChanges
  \/ \E s \in Slicks : Drifts(s) \/ Correlates(s) \/ Rearranges(s)

ReportTextSpec == ReportTextInit /\ [][ReportTextNext]_reportTextVars

-----------------------------------------------------------------------------
(* Properties *)

Assembled == DOMAIN reading = Parts

Listings == {l \in Seq(Doc) : \A i, j \in DOMAIN l : i < j => l[i].rank <= l[j].rank}
ReadValues ==
  [slicks |-> UNION {[S -> BOOLEAN] : S \in SUBSET Slicks}, origin |-> {"none", "OK", "DEGRADED"},
   vessels |-> Listings, coverage |-> Coverage \cup {NoCoverage}]

ReportTextTypeOK ==
  /\ facts \in Facts
  /\ DOMAIN reading \subseteq Parts
  /\ \A p \in DOMAIN reading : reading[p] \in ReadValues[p]
  /\ recomputes \in 0 .. MaxRecomputes

\* service.ts, "the same real conditions buildUncertainty checks" and "a reader who acts on a
\* ranking acts on its top row": whatever mixture of old and new results one request has
\* read, of however many slicks, and of rankings half stored or half rearranged, the brief
\* warns of sparse AIS and of look-alikes exactly when the dossier does, and of the newest
\* estimate of an origin, and of the scoring only if it does; it does not call that origin
\* traced which the dossier limits; it leads with the vessel both list first, below which
\* none is better ranked; and where that vessel's own verdict is not clear, the order is
\* never without a caveat.
Warned(d) == {u.topic : u \in {w \in Uncertainty(d) : w.severity # "INFO"}}
BriefAgreesWithDossier ==
  Assembled =>
    LET listed == PlainVessels(reading) IN
    /\ "origin" \in DontKnow(reading) <=> "origin" \in Warned(reading)
    /\ "coverage" \in DontKnow(reading) <=> "coverage" \in Warned(reading)
    /\ "look-alike" \in DontKnow(reading) <=> "look-alike" \in Warned(reading)
    /\ "calibration" \in DontKnow(reading) => "calibration" \in Warned(reading)
    /\ PossibleOrigin(reading) = "traced" <=> "origin" \notin DontKnow(reading)
    /\ Headline(reading) \in Tier => Headline(reading) = listed[1].tier
    /\ \A n \in DOMAIN reading.vessels : listed[1].rank <= reading.vessels[n].rank
    /\ Len(listed) > 1 /\ listed[1].separation # "clear" => "separation" \in Warned(reading)

\* False of the code, which tells the verdict on one ranking and warns of one estimate: the
\* best two of every ranking that are not clearly apart have a caveat, every estimate that
\* is degraded has one, and a report that saw nothing names no vessel.
EveryOrderIsCautioned ==
  Assembled =>
    \A n \in DOMAIN reading.vessels :
      reading.vessels[n].rank = 1 /\ reading.vessels[n].separation \in {"inseparable", "thin"}
        => "separation" \in Warned(reading)
EveryOriginIsCautioned ==
  Assembled /\ (\E n \in DOMAIN facts.origins : facts.origins[n].status = "DEGRADED") /\ recomputes = MaxRecomputes
    => "origin" \in Warned(reading)
NothingSeenNamesNobody == Assembled /\ Headline(reading) = "nothing seen" => PlainVessels(reading) = <<>>

=============================================================================
