------------------------------ MODULE MCPlatform ------------------------------
(***************************************************************************)
(* Small instances, for TLC, of the parts of the platform around the       *)
(* pipeline.  The parts share no state, so one run has them side by side:  *)
(* `part' says which of them a behaviour is of, and the others rest.       *)
(***************************************************************************)
EXTENDS Discover, Sessions, Investigations, SceneIntake, AisArchive, Workspace, Reports, ReportText, Backtracking, Evidence, ReviewDesk, Catalogue, Detector, Evaluation

\* Two pairs of interchangeable values serve all parts, as a behaviour is of one of them.
CONSTANTS a1, a2, b1, b2, r1, an, ad, s1, chief, f1, c1, c2, api, worker, rd1

-----------------------------------------------------------------------------
ThePeople   == {an, ad}
SomeRegions == {r1}
Pair        == {a1, a2}
OtherPair   == {b1, b2}

\* Files that differ in what they state of when and where: one whose name and header
\* agree, and some whose header contradicts itself, states nothing, or has no position.
Raster(name, stamp, items, beyond, format, crs, placed, values) ==
  [name |-> name, stamp |-> stamp, items |-> items, description |-> 0, written |-> 900,
   beyond |-> beyond, format |-> format, crs |-> crs, placed |-> placed, values |-> values]
Item(k, t) == [key |-> k, time |-> t]
IntakeRasters == {
  Raster("mission", 100, {Item("acquisition", 103)}, FALSE, "bigtiff", "geographic", TRUE, "decibels"),
  Raster("mission", 300, {Item("acquisition", 500), Item("both", 900)}, TRUE, "tiff", "utm", TRUE, "linear"),
  Raster("plain", 0, {Item("acquisition", 500), Item("production", 902)}, TRUE, "tiff", "mercator", TRUE, "numbers"),
  Raster("stamp", 400, {Item("both", 901), Item("time", 401)}, FALSE, "tiff", "utm", TRUE, "empty"),
  Raster("landsat", 600, {}, FALSE, "tiff", "utm", FALSE, "linear"),
  Raster("landsat", 100, {Item("other", 0)}, FALSE, "bigtiff", "unresolved", TRUE, "empty") }

\* One vessel: a line twice, one that does not parse, a jump, and a silence; places at
\* either rim are in the box or in the polygon alone.
AisFile == << [mmsi |-> "v1", t |-> 1, x |-> 1], [mmsi |-> "v1", t |-> 1, x |-> 1],
              [mmsi |-> "unreadable", t |-> 0, x |-> 0],
              [mmsi |-> "v1", t |-> 2, x |-> 5],
              [mmsi |-> "v1", t |-> 3, x |-> 2],
              [mmsi |-> "v1", t |-> 5, x |-> 0] >>
AisSlices  == {<<1, 3>>, <<2, 5>>}
AisBox     == 0 .. 5
AisPolygon == 1 .. 6
AisZone    == <<1, 1>>
AisRelease == <<2, 4>>

\* Along a coast, with a fill value left, and on land.
Line(s) == [i \in 0 .. 3 |-> s[i + 1]]
SeaGrids == {Line(<<-2, Land, 4, 2>>), Line(<<4, 2, Fill, -6>>), Line(<<Land, Land, Land, Land>>)}

\* A tanker that crosses the zone and falls silent in it, one that says little of itself,
\* a twin of that one, and a cargo ship that leaps over the zone.
Fix(t, x, sog, cog, draught) == [t |-> t, x |-> x, sog |-> sog, cog |-> cog, draught |-> draught]
Ship(n, type, fixes, gaps) == [mmsi |-> n, type |-> type, fixes |-> fixes, gaps |-> gaps]
Tanker == Ship(1, "tanker", <<Fix(1, 0, 8, 90, 9), Fix(2, 2, 10, 90, 9), Fix(3, 3, 6, 45, 8), Fix(7, 5, 6, 45, 8)>>, {[from |-> 3, to |-> 7]})
Mute(n, x) == Ship(n, "unknown", <<Fix(1, x, 999, 999, 999), Fix(2, x, 999, 999, 999), Fix(5, x, 999, 999, 999)>>, {[from |-> 2, to |-> 5]})
Leaper == Ship(4, "cargo", <<Fix(1, 0, 12, 90, 999), Fix(2, 9, 12, 90, 999), Fix(3, 9, 2, 270, 999), Fix(8, 6, 2, 270, 999)>>, {})
SomeFields == {<< >>, <<Tanker, Mute(2, 4)>>, <<Mute(2, 7), Mute(3, 7)>>, <<Mute(2, 4), Leaper>>, <<Leaper, Tanker, Mute(3, 4)>>}
SomeSettings == [zone : {<<3, 5>>}, from : {2}, until : {4}, wide : BOOLEAN, axis : {999, 0, 90},
                 elongated : BOOLEAN, degraded : BOOLEAN]

\* A small sure slick beside a large one unlike oil; and two that differ in how they look
\* alone, beside a small one.
Found(area, contrast, elongation, risk, sure) ==
  [area |-> area, contrast |-> contrast, elongation |-> elongation, risk |-> risk, sure |-> sure]
SomeFinds == {<<Found(20, NoContrast, 1, 10, 80), Found(1200, -6, 3, 70, 90)>>,
              <<Found(20, 2, 1, 50, 40), Found(60, 8, 2, 10, 90), Found(60, -8, 2, 50, 30)>>}
DrawnAreas == <<40>>

\* One pass held raw by all and corrected by one; one held by the last alone; one without a
\* time; one corrected pass between whose ends the window closes.
RecordOf(pass, collection, at, orbit, pols, span, timed) ==
  [pass |-> pass, collection |-> collection, at |-> at, orbit |-> orbit, pols |-> pols, span |-> span, timed |-> timed]
PassOf(p, collection) ==
  CASE p = 1 -> RecordOf(1, collection, 10, "ASCENDING", {"VV", "VH"}, <<0, 9, TRUE>>, TRUE)
    [] p = 2 -> RecordOf(2, collection, 20, "DESCENDING", {"VV"}, <<6, 20, FALSE>>, TRUE)
    [] p = 3 -> RecordOf(3, collection, 30, "DESCENDING", {"HH"}, <<-5, 20, TRUE>>, TRUE)
    [] p = 4 -> RecordOf(4, collection, 15, "ASCENDING", {}, <<4, 10, TRUE>>, FALSE)
HeldBy(first, second, third) == [CDSE |-> first, PLANETARY_COMPUTER |-> second, ASF |-> third]
SomeHoldings == {
  HeldBy(<< >>, << >>, << >>),
  HeldBy(<<PassOf(1, "SENTINEL-1"), PassOf(2, "SENTINEL-1"), PassOf(3, "SENTINEL-1")>>,
       <<PassOf(1, "sentinel-1-grd"), PassOf(1, Rtc), PassOf(3, Rtc)>>, <<PassOf(2, "SENTINEL-1")>>),
  HeldBy(<<PassOf(4, "SENTINEL-1"), PassOf(1, "SENTINEL-1")>>, << >>, <<PassOf(1, "SENTINEL-1"), PassOf(3, "SENTINEL-1")>>),
  HeldBy(<<PassOf(2, "SENTINEL-1")>>, <<PassOf(3, Rtc), PassOf(1, Rtc), PassOf(1, "sentinel-1-grd")>>, << >>) }
SearchFor(platforms, orbit, pol, to) == [platforms |-> platforms, orbit |-> orbit, pol |-> pol, from |-> 10, to |-> to]
WestToEast == <<0, 10>>
BrowserAsks == SearchFor(<<"SENTINEL-1">>, "ANY", "ANY", 30)
DemoAsks    == SearchFor(<<"SENTINEL-1">>, "ANY", "ANY", 40)
SomeSearches == {BrowserAsks, SearchFor(<<"LANDSAT", "SENTINEL-1">>, "DESCENDING", "VV", 40)}

\* Two slicks that touch at a corner; two apart, one round and one long, with a third that is
\* too small; one around an islet; a dark runway on land that only the global file has, by
\* bright land; and hardly any sea.  The swath grows darker to the right.
ImageOf(dim, black, bright, absent, ten, fifty, real, geographic) ==
  [db |-> [p \in Pixels |-> CASE p \in absent -> NoData
                               [] p \in bright -> -2
                               [] p \in black -> -22 - p[2] \div 4
                               [] p \in dim -> -19 - p[2] \div 4
                               [] OTHER -> -12 - p[2] \div 4],
   ten |-> ten, fifty |-> fifty, land |-> real, geographic |-> geographic]
Cross(r, c) == {<<r, c>>, <<r - 1, c>>, <<r + 1, c>>, <<r, c - 1>>, <<r, c + 1>>} \cap Pixels
Block(r, c, h, w) == (r .. r + h - 1) \X (c .. c + w - 1)
SeaTop == -8
CornerImage == ImageOf(Cross(2, 2) \cup Cross(3, 5), {}, {}, {}, {}, {}, {}, FALSE)
CalmSetting == CHOOSE s \in SomeSettings : s.wide /\ s.axis = 0 /\ s.elongated /\ s.degraded
CalmTask == [image |-> 1, route |-> "detect", wind |-> 999, buffer |-> 0, files |-> {}]
SomeImages == <<
  CornerImage,
  ImageOf(Block(4, 5, 1, 6) \cup Block(3, 6, 1, 4), Cross(2, 2), {}, {}, {}, {}, {}, FALSE),
  ImageOf(Cross(1, 8) \cup Cross(4, 4), {}, {}, {<<1, 1>>}, {}, {}, {}, TRUE),
  ImageOf(Block(1, 3, 4, 5), {}, {}, {<<4, 1>>}, {<<2, 5>>}, {}, {<<2, 5>>}, FALSE),
  ImageOf(Block(2, 1, 3, 3), Block(1, 8, 3, 3), {<<4, 10>>}, {}, {}, Block(1, 8, 4, 3), Block(1, 8, 4, 3), FALSE),
  ImageOf(Block(1, 8, 3, 3), {}, {}, {}, {<<4, 1>>}, {<<4, 1>>} \cup Block(1, 8, 4, 3), {<<4, 1>>} \cup Block(1, 8, 4, 3), FALSE),
  ImageOf(Cross(2, 2), {}, Block(1, 4, 4, 7), {<<1, 1>>}, {<<4, 3>>}, {<<4, 3>>}, {<<4, 3>>}, TRUE) >>

\* Five cells of two images each, and two more images in the last of them, with which
\* another cell comes to be held out.  An image may arrive before its mask.
RegionOf(places, area, elongation, risk) == [places |-> places, area |-> area, elongation |-> elongation, risk |-> risk]
TileOf(class, cell, mask, regions) ==
  [cls |-> class, cell |-> cell, mask |-> mask,
   regions |-> [k \in {30, 40} |-> IF k = 30 THEN regions ELSE {c \in regions : c.area > 10}]]
SomeTiles == [i \in 1 .. 12 |->
  LET cell == (i + 1) \div 2 IN
  CASE i = 1 -> TileOf("oil", 1, {1, 2}, {RegionOf({1, 2, 3}, 40, 3, 20), RegionOf({5}, 5, 1, 60)})
    [] i = 2 -> TileOf("lookalike", 1, {}, {RegionOf({4}, 5, 1, 60)})
    [] i = 3 -> TileOf("oil", 2, {3}, {RegionOf({2}, 20, 1, 30), RegionOf({3}, 20, 2, 30)})
    [] i = 4 -> TileOf("lookalike", 2, {}, {RegionOf({1, 2}, 40, 2, 30)})
    [] i > 10 -> TileOf("no_oil", 5, {}, {})
    [] i \in {5, 7, 9} -> TileOf("oil", cell, {1}, {RegionOf({1}, 5, 3, 20)})
    [] OTHER -> TileOf("lookalike", cell, {}, {RegionOf({2}, 20, 1, 60)})]
OnDisk(images, masks) == [images |-> images, masks |-> masks]
SomeUnpackings == {OnDisk(1 .. 10, 1 .. 9), OnDisk(1 .. 10, 1 .. 10), OnDisk(1 .. 12, 1 .. 12)}
SomeGuesses == {{}, {1, 3}}
SomeRungs == [contrast |-> {30, 40}, area |-> {5, 20}, elongation |-> {0, 2}, risk |-> {100, 30}]
SomeOrders == [unpack |-> 1, split |-> 2, prepare |-> 2, fit |-> 1, measure |-> 2, paper |-> 2, kill |-> 1, all |-> 4]

-----------------------------------------------------------------------------
CONSTANT Exercised   \* the parts a run exercises

VARIABLE part

platformVars == <<part, discoverVars, sessionVars, investigationsVars, intakeVars, aisVars, workspaceVars, reportsVars, reportTextVars, backtrackVars, evidenceVars, deskVars, catalogueVars, detectorVars, evaluationVars>>

\* One case of the workspace has come as far as an estimate of its origin, and the others hold
\* nothing.
OneBegun ==
  {[c \in Cases |-> [k \in Kinds |-> IF c = begun /\ k # "candidates" THEN 1 ELSE 0]] : begun \in Cases}

\* A case is reported on that has two slicks, or none any more: an estimate of the origin of one
\* or the other, the older of two, or none; and rankings of two vessels or none.
EmptyCase == [slicks |-> << >>, origins |-> << >>, vessels |-> [s \in Slicks |-> << >>],
              coverage |-> [vessels |-> "few", sparse |-> FALSE]]
Reported ==
  LET two(v) == RankingOf(<<"STRONG", "INSUFFICIENT_EVIDENCE">>, v)
      est(s, st) == [of |-> s, status |-> st]
  IN [slicks : {<< >>} \cup {[s \in Slicks |-> s = risky] : risky \in Slicks},
      origins : {<< >>} \cup {<<est(o[1], "DEGRADED"), est(o[2], "OK")>> : o \in {x \in Slicks \X Slicks : x[1] # x[2]}},
      vessels : [Slicks -> {<< >>} \cup {two("inseparable"), two("clear")}],
      coverage : {EmptyCase.coverage}]

\* A part at rest stands at one beginning of it.
PlatformInit ==
  /\ part \in Exercised
  /\ IF part = "detector" THEN TRUE ELSE task = CalmTask
  /\ IF part = "backtrack" THEN TRUE ELSE forcingSetup = [cmems |-> TRUE, cds |-> TRUE, gap |-> FALSE, local |-> "none"]
  /\ IF part = "cases" THEN TRUE ELSE folders = [f \in Folders |-> Unmade]
  /\ server \in IF part = "workspace" THEN OneBegun ELSE {[c \in Cases |-> [k \in Kinds |-> 0]]}
  /\ facts \in IF part = "text" THEN Reported ELSE {EmptyCase}
  /\ IF part = "evidence" THEN TRUE ELSE field = << >> /\ setting = CalmSetting
  /\ IF part = "catalogue" THEN holdings \in Holdings ELSE holdings = HeldBy(<< >>, << >>, << >>)
  /\ configured = (holdings[Chain[3]] # << >>)
  /\ unpacked \in {u \in Unpackings : u.images = 1 .. 10 /\ (part # "evaluation" => u \notin Whole)}
  /\ DetectorInit /\ BacktrackInit /\ InvestigationsInit /\ WorkspaceInit /\ ReportTextInit /\ EvidenceInit /\ CatalogueInit
  /\ EvaluationInit /\ (unpacked \in Whole <=> sheet.best = 50)
  /\ DeskInit /\ DiscoverInit /\ SessionsInit /\ IntakeInit /\ AisInit /\ ReportsInit

\* One part moves, and the others rest.
PlatformNext ==
  /\ UNCHANGED part
  /\ \/ part = "discover" /\ DiscoverNext
        /\ UNCHANGED <<sessionVars, investigationsVars, intakeVars, aisVars, workspaceVars, reportsVars, reportTextVars, backtrackVars, evidenceVars, deskVars, catalogueVars, detectorVars, evaluationVars>>
     \/ part = "sessions" /\ SessionsNext
        /\ UNCHANGED <<discoverVars, investigationsVars, intakeVars, aisVars, workspaceVars, reportsVars, reportTextVars, backtrackVars, evidenceVars, deskVars, catalogueVars, detectorVars, evaluationVars>>
     \/ part = "cases" /\ InvestigationsNext
        /\ UNCHANGED <<discoverVars, sessionVars, intakeVars, aisVars, workspaceVars, reportsVars, reportTextVars, backtrackVars, evidenceVars, deskVars, catalogueVars, detectorVars, evaluationVars>>
     \/ part = "intake" /\ IntakeNext
        /\ UNCHANGED <<discoverVars, sessionVars, investigationsVars, aisVars, workspaceVars, reportsVars, reportTextVars, backtrackVars, evidenceVars, deskVars, catalogueVars, detectorVars, evaluationVars>>
     \/ part = "ais" /\ AisNext
        /\ UNCHANGED <<discoverVars, sessionVars, investigationsVars, intakeVars, workspaceVars, reportsVars, reportTextVars, backtrackVars, evidenceVars, deskVars, catalogueVars, detectorVars, evaluationVars>>
     \/ part = "workspace" /\ WorkspaceNext
        /\ UNCHANGED <<discoverVars, sessionVars, investigationsVars, intakeVars, aisVars, reportsVars, reportTextVars, backtrackVars, evidenceVars, deskVars, catalogueVars, detectorVars, evaluationVars>>
     \/ part = "reports" /\ ReportsNext
        /\ UNCHANGED <<discoverVars, sessionVars, investigationsVars, intakeVars, aisVars, workspaceVars, reportTextVars, backtrackVars, evidenceVars, deskVars, catalogueVars, detectorVars, evaluationVars>>
     \/ part = "text" /\ ReportTextNext
        /\ UNCHANGED <<discoverVars, sessionVars, investigationsVars, intakeVars, aisVars, workspaceVars, reportsVars, backtrackVars, evidenceVars, deskVars, catalogueVars, detectorVars, evaluationVars>>
     \/ part = "backtrack" /\ BacktrackNext
        /\ UNCHANGED <<discoverVars, sessionVars, investigationsVars, intakeVars, aisVars, workspaceVars, reportsVars, reportTextVars, evidenceVars, deskVars, catalogueVars, detectorVars, evaluationVars>>
     \/ part = "evidence" /\ EvidenceNext
        /\ UNCHANGED <<discoverVars, sessionVars, investigationsVars, intakeVars, aisVars, workspaceVars, reportsVars, reportTextVars, backtrackVars, deskVars, catalogueVars, detectorVars, evaluationVars>>
     \/ part = "desk" /\ DeskNext
        /\ UNCHANGED <<discoverVars, sessionVars, investigationsVars, intakeVars, aisVars, workspaceVars, reportsVars, reportTextVars, backtrackVars, evidenceVars, catalogueVars, detectorVars, evaluationVars>>
     \/ part = "catalogue" /\ CatalogueNext
        /\ UNCHANGED <<discoverVars, sessionVars, investigationsVars, intakeVars, aisVars, workspaceVars, reportsVars, reportTextVars, backtrackVars, evidenceVars, deskVars, detectorVars, evaluationVars>>
     \/ part = "detector" /\ DetectorNext
        /\ UNCHANGED <<discoverVars, sessionVars, investigationsVars, intakeVars, aisVars, workspaceVars, reportsVars, reportTextVars, backtrackVars, evidenceVars, deskVars, catalogueVars, evaluationVars>>
     \/ part = "evaluation" /\ EvaluationNext
        /\ UNCHANGED <<discoverVars, sessionVars, investigationsVars, intakeVars, aisVars, workspaceVars, reportsVars, reportTextVars, backtrackVars, evidenceVars, deskVars, catalogueVars, detectorVars>>

PlatformSpec == PlatformInit /\ [][PlatformNext]_platformVars

\* A behaviour of the desk goes on to reviews where one scene of two finds came in and all
\* that was to be drifted ahead was queued: neither matters to a review.
FewFinds ==
  part = "desk" => \/ reviewTrail = << >> /\ dialog = NoDialog
                   \/ Len(finds) <= 2 /\ \A i \in DOMAIN finds : ~finds[i].missed

\* Time and sweeps go on where nothing is ingested, as a sweep reads nothing that an ingest
\* or an adoption writes.
SweepOrIngest ==
  part = "discover" => \/ scenes = << >> /\ ingests = {}
                       \/ now = 1 /\ \A s \in Sweepers : tick[s].pc = "idle"

\* The workspace goes on where one job is under way at a time.
FewJobs == part = "workspace" => Cardinality(jobs) <= 1

PlatformSymmetry == Permutations(Pair) \cup Permutations(OtherPair)

-----------------------------------------------------------------------------
(* What holds of each part, evaluated only where that part moves: elsewhere it is as in  *)
(* its first state, with which a behaviour of its own begins as well.                    *)

\* The types of every part.
PlatformTypeOK ==
  /\ part = "discover"  => DiscoverTypeOK
  /\ part = "sessions"  => SessionsTypeOK
  /\ part = "cases"     => InvestigationsTypeOK
  /\ part = "intake"    => IntakeTypeOK
  /\ part = "ais"       => AisTypeOK
  /\ part = "workspace" => WorkspaceTypeOK
  /\ part = "reports"   => ReportsTypeOK
  /\ part = "text"      => ReportTextTypeOK
  /\ part = "backtrack" => BacktrackTypeOK
  /\ part = "evidence"  => EvidenceTypeOK
  /\ part = "desk"      => DeskTypeOK
  /\ part = "catalogue" => CatalogueTypeOK
  /\ part = "detector"  => DetectorTypeOK
  /\ part = "evaluation" => EvaluationTypeOK

\* What is computed from what was read, by folds over its data: the answer of a search over
\* three catalogues (providers/chain.ts), the spots of an image and their outlines
\* (detect/darkspot.py), the tracks and the coverage of the archive (ais/tracks.ts,
\* ais/service.ts), the weights of vessels (attribution/features.ts, separation.ts), and the
\* measure of a detector (eval, models/registry.py).
FindingsHold ==
  /\ part = "catalogue" => CatalogueIsHonest
  /\ part = "detector"  => DetectionIsGrounded
  /\ part = "ais"       => TracksAreFeasible /\ SliceCountedOnce
  /\ part = "evidence"  => EvidenceIsWeighed
  /\ part = "evaluation" => MeasureIsHonest

=============================================================================
