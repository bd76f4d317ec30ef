------------------------------- MODULE Detector -------------------------------
(***************************************************************************)
(* The dark-spot detector of the ML service (detect/darkspot.py,           *)
(* detect/landmask.py) behind its two routes.  A scene is a grid of        *)
(* backscatter; land is taken out by brightness and by a vendored          *)
(* coastline grown by a buffer; what is darker than its surroundings is    *)
(* cleaned, cut into spots, measured, ranked and outlined.  One action is  *)
(* one stage, so that what each leaves to the next can be compared.        *)
(***************************************************************************)
EXTENDS Integers, Sequences, SequencesExt, FiniteSets

CONSTANTS
  GridRows, GridCols,     \* the grid
  Images,         \* a sequence of scenes: backscatter, the coast of either file, the real one, the CRS
  Winds,          \* wind speeds, in dm/s, or NoWind
  Buffers,        \* widths of coastal water given up, in pixels
  BrightDb,       \* above it a pixel is no sea
  BrightClose, BrightGrow,  \* radii of the morphology of the bright mask
  OpenBy, CloseBy,          \* radii of the cleaning
  ContrastDb,     \* below the background by it a pixel is dark
  CoarseStep, MedianHalf,   \* the background: every so many columns, a median over so many to each side
  MinSea,         \* pixels of sea without which nothing is looked for
  MinPixels       \* the smallest feature, in pixels, where the size of a pixel is known

ASSUME DetectorAssumption ==
  /\ GridRows \in 1 .. CoarseStep /\ GridCols \in Nat \ {0, 1}
  /\ Buffers \subseteq Nat

VARIABLES
  task,     \* the request: image, route, wind, buffer, files there are
  stage,    \* how far it is
  coast,    \* the coastline mask
  sea,      \* pixels that are looked at
  dark,     \* pixels darker than their surroundings
  cleaned,  \* what the cleaning makes of them
  spots,    \* the candidates, surest first
  outlines  \* the answer, one outline for each

detectorVars == <<task, stage, coast, sea, dark, cleaned, spots, outlines>>

-----------------------------------------------------------------------------
(* Morphology on the grid: a disk does not reach beyond the edge.           *)

NoData == 99
NoWind == 999
Pixels == (1 .. GridRows) \X (1 .. GridCols)

Square(n) == n * n
Around(n, r) == (n - r) .. (n + r)
Disk(p, r) ==
  {q \in Around(p[1], r) \X Around(p[2], r) :
     q \in Pixels /\ Square(p[1] - q[1]) + Square(p[2] - q[2]) <= Square(r)}

Dilate(S, r)  == {p \in Pixels : Disk(p, r) \cap S # {}}
Erode(S, r)   == {p \in Pixels : Disk(p, r) \subseteq S}
Opening(S, r) == Dilate(Erode(S, r), r)
Closing(S, r) == Erode(Dilate(S, r), r)

Edgewise(p, q)   == Square(p[1] - q[1]) + Square(p[2] - q[2]) <= 1
Cornerwise(p, q) == Square(p[1] - q[1]) <= 1 /\ Square(p[2] - q[2]) <= 1

\* The pieces of a set of pixels, under either notion of touching.
Pieces(S, Touch(_, _)) ==
  FoldSet(LAMBDA p, pieces : LET met == {c \in pieces : \E q \in c : Touch(p, q)}
                             IN (pieces \ met) \cup {{p} \cup UNION met},
          {}, S)

KeepObjects(S, size)        == S
RemoveSmallObjects(S, size) == UNION {c \in Pieces(S, Edgewise) : Cardinality(c) > size}
RemoveSmallHoles(S, size)   == Pixels \ RemoveSmallObjects(Pixels \ S, size)

-----------------------------------------------------------------------------
(* Land and sea.                                                            *)

Valid(image) == {p \in Pixels : image.db[p] # NoData}

LandFromBackscatter(image) ==
  Dilate(Closing({p \in Valid(image) : image.db[p] > BrightDb}, BrightClose), BrightGrow)

\* The detailed file where anything in it meets the scene, or else the global one; without
\* the file that is needed there is no mask, which is not an empty one.
NoCoast == [known |-> FALSE, file |-> "none", bare |-> {}, mask |-> {}]
CoastOf(file, bare, buffer) ==
  [known |-> TRUE, file |-> file, bare |-> bare, mask |-> Dilate(bare, buffer)]
CoastlineMask(t) ==
  CASE "10m" \notin t.files -> NoCoast
    [] "10m" \in t.files /\ Images[t.image].ten # {} -> CoastOf("10m", Images[t.image].ten, t.buffer)
    [] "10m" \in t.files /\ Images[t.image].ten = {} /\ "50m" \notin t.files -> NoCoast
    [] OTHER -> CoastOf("50m", Images[t.image].fifty, t.buffer)

-----------------------------------------------------------------------------
(* The background: the median of a coarse row, drawn out again to the grid.  *)

MedianOver(values, at) ==   \* of a family of integers
  LET below(v) == Cardinality({i \in at : values[i] < v})
      above(v) == Cardinality({i \in at : values[i] > v})
      middle == {v \in {values[i] : i \in at} : 2 * below(v) <= Cardinality(at) /\ 2 * above(v) <= Cardinality(at)}
      low  == CHOOSE v \in middle : \A w \in middle : v <= w
      high == CHOOSE v \in middle : \A w \in middle : v >= w
  IN (low + high) \div 2

Filled(image, valid) ==
  LET fill == IF valid = {} THEN 0 ELSE MedianOver(image.db, valid)
  IN [p \in Pixels |-> IF p \in valid THEN image.db[p] ELSE fill]

CoarseCols == (GridCols + CoarseStep - 1) \div CoarseStep
Clamp(c) == IF c < 1 THEN 1 ELSE IF c > CoarseCols THEN CoarseCols ELSE c
Coarse(filled) ==
  LET sample(c) == filled[<<1, (c - 1) * CoarseStep + 1>>]
      around(c) == [k \in -MedianHalf .. MedianHalf |-> sample(Clamp(c + k))]
  IN [c \in 1 .. CoarseCols |-> MedianOver(around(c), DOMAIN around(c))]

\* Linear between the coarse columns; in units of 1 / (GridCols - 1).
Background(filled) ==
  LET coarse == Coarse(filled)
  IN [p \in Pixels |->
       LET x == (p[2] - 1) * (CoarseCols - 1)
           c == x \div (GridCols - 1) + 1
       IN coarse[c] * (GridCols - 1) + (coarse[Clamp(c + 1)] - coarse[c]) * (x % (GridCols - 1))]

Segment(image, valid) ==
  LET background == Background(Filled(image, valid))
  IN {p \in valid : (GridCols - 1) * (image.db[p] + ContrastDb) < background[p]}

\* Opened, closed, small objects dropped, small holes filled.
MinPx(t) == IF t.route = "segment" /\ Images[t.image].geographic THEN Cardinality(Pixels) + 1 ELSE MinPixels
Clean(S, least) ==
  LET hole == IF least \div 4 > 1 THEN least \div 4 ELSE 1
  IN RemoveSmallHoles(RemoveSmallObjects(Closing(Opening(S, OpenBy), CloseBy), least), hole)

-----------------------------------------------------------------------------
(* Spots: in hundredths, and dB.                                            *)

Clip(n) == IF n < 0 THEN 0 ELSE IF n > 100 THEN 100 ELSE n
Extent(S, i) == Cardinality({p[i] : p \in S})
Longer(S)  == IF Extent(S, 1) > Extent(S, 2) THEN Extent(S, 1) ELSE Extent(S, 2)
Shorter(S) == IF Extent(S, 1) > Extent(S, 2) THEN Extent(S, 2) ELSE Extent(S, 1)
SumOver(f, S) == FoldSet(LAMBDA p, n : n + f[p], 0, S)

\* The mean over all of a spot but what has no value; the background where there is none, too.
ContrastOf(t, S) ==
  LET background == Background(Filled(Images[t.image], sea))
      measured   == S \cap Valid(Images[t.image])
  IN SumOver(background, S) \div ((GridCols - 1) * Cardinality(S)) - SumOver(Images[t.image].db, measured) \div Cardinality(measured)

LookAlikeRisk(S, contrast) ==
  LET shape  == (100 * Shorter(S)) \div Longer(S)
      convex == Clip(4 * ((100 * Cardinality(S)) \div (Extent(S, 1) * Extent(S, 2)) - 75))
      weak   == Clip(25 * (6 - contrast))
  IN (35 * shape + 25 * convex + 25 * weak) \div 100

WindTaken(wind) == IF wind = NoWind THEN 100 ELSE 70
WindSuitability(wind) ==
  CASE wind = NoWind -> 50
    [] wind # NoWind /\ (wind < 20 \/ wind > 140) -> 5
    [] wind \in 20 .. 29 \cup 121 .. 140 -> 30
    [] wind \in 40 .. 90 -> 100
    [] OTHER -> 70

SpotConfidence(S, contrast, wind) ==
  (40 * Clip(10 * contrast) + 35 * (100 - LookAlikeRisk(S, contrast)) + 15 * WindSuitability(wind) + 10 * 20) \div 100

\* The other route answers with a confidence of its own.
DetectionConfidence(S, contrast, wind) ==
  (65 * Clip(10 * contrast) + 20 * WindSuitability(wind) + 15 * (100 - LookAlikeRisk(S, contrast))) \div 100

SpotOf(t, S) ==
  LET contrast == ContrastOf(t, S)
  IN [mask |-> S, contrast |-> contrast, sure |-> SpotConfidence(S, contrast, t.wind),
      told |-> IF t.route = "segment" THEN DetectionConfidence(S, contrast, t.wind)
                                      ELSE SpotConfidence(S, contrast, t.wind)]

FirstPixel(S) == CHOOSE p \in S : \A q \in S : p[1] < q[1] \/ (p[1] = q[1] /\ p[2] <= q[2])
SurerThan(a, b) ==
  \/ a.sure > b.sure
  \/ /\ a.sure = b.sure
     /\ LET p == FirstPixel(a.mask)
            q == FirstPixel(b.mask)
        IN p[1] < q[1] \/ (p[1] = q[1] /\ p[2] < q[2])

\* Pixels that touch at a corner are one spot, and two outlines: the larger is kept.
OutlineOf(S) ==
  CHOOSE c \in Pieces(S, Edgewise) : \A d \in Pieces(S, Edgewise) : Cardinality(c) >= Cardinality(d)

-----------------------------------------------------------------------------
DetectorInit ==
  /\ task \in [image : DOMAIN Images, route : {"detect", "segment"}, wind : Winds, buffer : Buffers,
               files : SUBSET {"10m", "50m"}]
  /\ stage = "asked" /\ coast = NoCoast
  /\ sea = {} /\ dark = {} /\ cleaned = {} /\ spots = << >> /\ outlines = << >>

\* Either route refuses to look for anything on brightness alone.
MaskLand ==
  /\ stage = "asked"
  /\ coast' = CoastlineMask(task)
  /\ IF coast'.known
       THEN /\ stage' = "masked"
            /\ sea' = Valid(Images[task.image]) \ (LandFromBackscatter(Images[task.image]) \cup coast'.mask)
       ELSE stage' = "refused" /\ UNCHANGED sea
  /\ UNCHANGED <<task, dark, cleaned, spots, outlines>>

\* With too little sea the answer is that there is nothing.
Darken ==
  /\ stage = "masked"
  /\ IF Cardinality(sea) < MinSea
       THEN stage' = "answered" /\ UNCHANGED dark
       ELSE stage' = "darkened" /\ dark' = Segment(Images[task.image], sea)
  /\ UNCHANGED <<task, coast, sea, cleaned, spots, outlines>>

CleanUp ==
  /\ stage = "darkened" /\ stage' = "cleaned"
  /\ cleaned' = Clean(dark, MinPx(task))
  /\ UNCHANGED <<task, coast, sea, dark, spots, outlines>>

Measure ==
  /\ stage = "cleaned" /\ stage' = "measured"
  /\ spots' = SetToSortSeq({SpotOf(task, S) : S \in {c \in Pieces(cleaned, Cornerwise) :
                Cardinality(c) >= MinPx(task)}}, SurerThan)
  /\ UNCHANGED <<task, coast, sea, dark, cleaned, outlines>>

Outline ==
  /\ stage = "measured" /\ stage' = "answered"
  /\ outlines' = [i \in DOMAIN spots |-> OutlineOf(spots[i].mask)]
  /\ UNCHANGED <<task, coast, sea, dark, cleaned, spots>>

DetectorNext == MaskLand \/ Darken \/ CleanUp \/ Measure \/ Outline

DetectorSpec == DetectorInit /\ [][DetectorNext]_detectorVars

-----------------------------------------------------------------------------
DetectorTypeOK ==
  /\ stage \in {"asked", "refused", "masked", "darkened", "cleaned", "measured", "answered"}
  /\ coast.known \in BOOLEAN /\ coast.bare \subseteq Pixels /\ coast.mask \subseteq Pixels
  /\ sea \subseteq Pixels /\ dark \subseteq Pixels /\ cleaned \subseteq Pixels

\* Whatever is dark was looked at as sea, which is no land that a file or its brightness
\* shows, nor the water that is given up; and without the file nothing is looked at.
LandIsNotSearched ==
  /\ dark \subseteq sea
  /\ sea \cap (coast.mask \cup coast.bare) = {}
  /\ sea # {} => coast.known
  /\ \A p \in sea : Images[task.image].db[p] # NoData /\ Images[task.image].db[p] <= BrightDb

\* What the cleaning leaves is told, region by region and once: none is dropped, none is
\* cut in two, each has the size that is asked of one, and something in it was seen dark.
EveryRegionIsTold ==
  stage \in {"measured", "answered"} =>
    /\ UNION {spots[i].mask : i \in DOMAIN spots} = cleaned
    /\ \A i, j \in DOMAIN spots : i # j =>
         \A p \in spots[i].mask, q \in spots[j].mask : ~Cornerwise(p, q)
    /\ \A i \in DOMAIN spots : Cardinality(spots[i].mask) >= MinPixels /\ spots[i].mask \cap dark # {}

\* The answer pairs each outline with the spot it was drawn from, in the order of ranks, and
\* no rank is surer than the one before it.
OutlinesAreOfTheirSpots ==
  stage = "answered" =>
    /\ Len(outlines) = Len(spots)
    /\ \A i \in DOMAIN outlines : outlines[i] # {} /\ outlines[i] \subseteq spots[i].mask
    /\ \A i \in 1 .. Len(spots) - 1 : spots[i].sure >= spots[i + 1].sure

\* A wind that is not known makes a spot no surer than a good one would.
UnknownWindIsNotGood ==
  \A i \in DOMAIN spots : \A w \in 40 .. 90 :
    task.wind = NoWind => spots[i].sure <= SpotConfidence(spots[i].mask, spots[i].contrast, w)

DetectionIsGrounded ==
  LandIsNotSearched /\ EveryRegionIsTold /\ OutlinesAreOfTheirSpots /\ UnknownWindIsNotGood

-----------------------------------------------------------------------------
(* What the code does not keep.                                             *)

\* That no land is in a spot: the cleaning fills what was taken out.
NoLandInASpot == \A i \in DOMAIN spots : spots[i].mask \subseteq sea

\* That the land of the scene is masked: the detailed file ends where a region does.
AllLandIsMasked == coast.known => Images[task.image].land \subseteq coast.mask

\* That an outline is the whole of what was measured.
OutlineIsTheSpot == \A i \in DOMAIN outlines : outlines[i] = spots[i].mask

\* That ranks follow the confidence that is told.
RanksFollowWhatIsTold == \A i \in 1 .. Len(spots) - 1 : spots[i].told >= spots[i + 1].told

\* That a dark region of the smallest size is found.
SmallestIsFound ==
  stage = "answered" => \A c \in Pieces(Closing(Opening(dark, OpenBy), CloseBy), Edgewise) :
    Cardinality(c) >= MinPixels => \E i \in DOMAIN spots : c \subseteq spots[i].mask

=============================================================================
