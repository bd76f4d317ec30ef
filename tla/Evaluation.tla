------------------------------ MODULE Evaluation ------------------------------
(***************************************************************************)
(* How a detector is measured (services/ml/varuna_ml/eval, models): a      *)
(* labelled dataset is split by place (make_split.py), cached side by side *)
(* (prepare_cache.py), trained on (train_unet.py), scored                  *)
(* (evaluate_unet.py, detector_eval.py), swept (tuning.py), and what comes *)
(* of it is registered and promoted (registry.py).  Each is a command of   *)
(* its own that an operator gives; all they have in common is files.       *)
(*                                                                         *)
(* An image is a few places, and a mask a set of them; scores are in       *)
(* hundredths.                                                             *)
(***************************************************************************)
EXTENDS Integers, Sequences, FiniteSets, FiniteSetsExt, TLC

CONSTANTS
  Part3,         \* the dataset: of each image its class, its cell, its mask, and the components
                 \* segmented in it at each contrast
  Unpackings,    \* what of its images and masks may be on disk
  Guesses,       \* the masks a trained model may predict
  Ious,          \* the scores a model may have on the validation side
  Epochs,        \* --epochs
  Rungs,         \* the values each parameter is swept over
  MinOilIou, MaxLookAlikeFp,   \* the floor of promotion_allowed
  MaxOrders      \* bound: how many commands of each kind are given, and in all

VARIABLES
  unpacked,    \* the images and masks on disk
  splitDoc,    \* the split file
  cacheDir,    \* the cached arrays of each side
  caching,     \* prepare_cache, under way
  fit,         \* train_unet, under way
  weights,     \* the checkpoint
  sheet,       \* the JSON file beside it
  measured,    \* the scores written
  registry,    \* the registry file, by the hash of the weights
  deployed,    \* the scores of the models promoted, in their order
  givenUp,     \* the training runs that were killed
  orders       \* what is left of the bounds

evaluationVars == <<unpacked, splitDoc, cacheDir, caching, fit, weights, sheet, measured, registry,
                    deployed, givenUp, orders>>

Tiles       == DOMAIN Part3
TileClasses == {"oil", "lookalike", "no_oil"}
SplitSides  == {"train", "val", "test"}
SideRank    == [train |-> 1, val |-> 2, test |-> 3]
SideShare   == [train |-> 70, val |-> 15, test |-> 15]

Orders      == {"unpack", "split", "prepare", "fit", "measure", "paper", "kill", "all"}

ASSUME EvaluationAssumption ==
  /\ \A i \in Tiles : Part3[i].cls \in TileClasses /\ (Part3[i].cls # "oil" => Part3[i].mask = {})
  /\ \A u \in Unpackings : u.images \subseteq Tiles /\ u.masks \subseteq Tiles
  /\ \A i \in Tiles : \A k \in DOMAIN Part3[i].regions : \A c, d \in Part3[i].regions[k] :
       c.places # {} /\ (c # d => c.places \cap d.places = {})
  /\ Ious \subseteq Nat /\ Epochs \in Nat \ {0} /\ MinOilIou \in Nat /\ MaxLookAlikeFp \in Nat
  /\ MaxOrders \in [Orders -> Nat]

-----------------------------------------------------------------------------
(* The split *)

OfClass(S, k) == {i \in S : Part3[i].cls = k}
InCell(S, c)  == {i \in S : Part3[i].cell = c}

\* Largest cells first.
PlacedBefore(S, c, d) ==
  LET m == Cardinality(InCell(S, c))  n == Cardinality(InCell(S, d)) IN m > n \/ (m = n /\ c < d)

\* assign: a cell goes to the side furthest below its share of the classes found in it.
FurthestBelow(S, side, c) ==
  LET placed(s) == {i \in S : Part3[i].cell \in DOMAIN side /\ side[Part3[i].cell] = s}
      below == [s \in SplitSides |->
                  MapThenSumSet(LAMBDA k : SideShare[s] * Cardinality(OfClass(S, k)) - 100 * Cardinality(OfClass(placed(s), k)),
                                {k \in TileClasses : OfClass(InCell(S, c), k) # {}})]
  IN CHOOSE s \in SplitSides : \A t \in SplitSides :
       below[s] > below[t] \/ (below[s] = below[t] /\ SideRank[s] <= SideRank[t])

SideOfCell(S) ==
  LET cells == {Part3[i].cell : i \in S}
      next(done) == CHOOSE c \in cells \ done : \A d \in cells \ (done \cup {c}) : PlacedBefore(S, c, d)
      placed[n \in 0 .. Cardinality(cells)] ==
        IF n = 0 THEN << >>
        ELSE LET side == placed[n - 1]  c == next(DOMAIN side) IN side @@ (c :> FurthestBelow(S, side, c))
  IN placed[Cardinality(cells)]

SplitOf(S) == LET side == SideOfCell(S) IN [s \in SplitSides |-> {i \in S : side[Part3[i].cell] = s}]

\* There is no chance in it: one split of each dataset.
SplitsOf == [S \in {u.images : u \in Unpackings} |-> SplitOf(S)]

-----------------------------------------------------------------------------
(* Scores *)

MeanOf(S, of(_)) == MapThenSumSet(of, S) \div Cardinality(S)
Share(n, S)      == IF S = {} THEN 0 ELSE (100 * n) \div Cardinality(S)
Iou(inter, union) == (100 * inter) \div union

\* What the scores of both detectors are computed from: of each image the number of places
\* predicted, of those that are oil, and whether anything was found at all.
SummaryOf(outcome) ==
  LET oil    == OfClass(DOMAIN outcome, "oil")
      look   == OfClass(DOMAIN outcome, "lookalike")
      joined(i) == outcome[i].pred + Cardinality(Part3[i].mask) - outcome[i].inter
      told   == {i \in oil : joined(i) > 0}
  IN [iou    |-> IF told = {} THEN 0 ELSE MeanOf(told, LAMBDA i : Iou(outcome[i].inter, joined(i))),
      found  |-> Share(Cardinality({i \in oil : outcome[i].inter > 0}), oil),
      missed |-> Cardinality({i \in oil : ~outcome[i].fired}),
      lookFp |-> Share(Cardinality({i \in look : outcome[i].fired}), look)]

\* The outcome of a predicted mask.
OfMask(i, mask) ==
  [pred |-> Cardinality(mask), inter |-> Cardinality(mask \cap Part3[i].mask), fired |-> mask # {}]

\* evaluate_scene: the union of what the classical detector found.
DetectorOutcome(i, contrast) == OfMask(i, UNION {c.places : c \in Part3[i].regions[contrast]})

\* survives, score_scene: the components that pass the gates, by their sums.
Passes(c, cfg) == c.area >= cfg.area /\ c.elongation >= cfg.elongation /\ c.risk <= cfg.risk
SceneOutcome(i, cfg) ==
  LET kept == {c \in Part3[i].regions[cfg.contrast] : Passes(c, cfg)}
  IN [pred  |-> MapThenSumSet(LAMBDA c : Cardinality(c.places), kept),
      inter |-> MapThenSumSet(LAMBDA c : Cardinality(c.places \cap Part3[i].mask), kept),
      fired |-> kept # {}]

\* build_configs
BaseConfig == [contrast |-> 30, area |-> 5, elongation |-> 0, risk |-> 100]
Rung(p)    == {[BaseConfig EXCEPT ![p] = v] : v \in Rungs[p]}
ConfigsOf(stage) ==
  CASE stage = "ladder"  -> UNION {Rung(p) : p \in DOMAIN BaseConfig}
    [] stage = "combine" -> {[BaseConfig EXCEPT !.area = a, !.elongation = e, !.risk = r] :
                               a \in Rungs.area, e \in Rungs.elongation, r \in Rungs.risk}
    [] OTHER             -> Rung(stage)

\* sweep: it reads the split and prints, and leaves all else as it was.
Sweep(over, configs) == [cfg \in configs |-> SummaryOf([i \in over |-> SceneOutcome(i, cfg)])]

-----------------------------------------------------------------------------
NoSplit   == [of |-> {}, items |-> [s \in SplitSides |-> {}]]
NoArrays  == [of |-> {}, items |-> {}]
NoCaching == [doc |-> NoSplit, next |-> 0]
NoFit     == [run |-> 0, on |-> NoArrays, by |-> NoArrays, history |-> << >>, best |-> -1, at |-> 0]
NoWeights == [run |-> 0, on |-> NoArrays, by |-> NoArrays, epoch |-> 0]
NoSheet   == [run |-> 0, epoch |-> 0, best |-> -1, history |-> << >>]

Whole        == {u \in Unpackings : u.images \subseteq u.masks}
SplitDoc(u)  == [of |-> u.images, items |-> SplitsOf[u.images]]
CacheOf(doc) == [s \in SplitSides |-> [of |-> doc.of, items |-> doc.items[s]]]

\* There is nothing but images yet, or an earlier training came to its end.
Nothing ==
  /\ splitDoc = NoSplit /\ cacheDir = CacheOf(NoSplit)
  /\ weights = NoWeights /\ sheet = NoSheet

Trained(iou) ==
  /\ unpacked \in Whole
  /\ splitDoc = SplitDoc(unpacked) /\ cacheDir = CacheOf(splitDoc)
  /\ weights = [run |-> MaxOrders["fit"] + 1, on |-> cacheDir.train, by |-> cacheDir.val, epoch |-> 1]
  /\ sheet = [run |-> weights.run, epoch |-> 1, best |-> iou, history |-> [e \in 1 .. Epochs |-> iou]]

EvaluationInit ==
  /\ unpacked \in Unpackings
  /\ Nothing \/ \E iou \in Ious : Trained(iou)
  /\ caching = NoCaching /\ fit = NoFit
  /\ measured = {} /\ registry = << >> /\ deployed = << >> /\ givenUp = {}
  /\ orders = MaxOrders

Give(b) ==
  /\ orders[b] > 0 /\ orders["all"] > 0
  /\ orders' = [orders EXCEPT ![b] = @ - 1, !["all"] = @ - 1]

\* More of the archive arrives.
Unpack(u) ==
  /\ u # unpacked /\ unpacked.images \subseteq u.images /\ unpacked.masks \subseteq u.masks
  /\ Give("unpack")
  /\ unpacked' = u
  /\ UNCHANGED <<splitDoc, cacheDir, caching, fit, weights, sheet, measured, registry, deployed, givenUp>>

\* make_split: an image without its mask ends it.
MakeSplit ==
  /\ unpacked \in Whole
  /\ Give("split")
  /\ splitDoc' = SplitDoc(unpacked)
  /\ UNCHANGED <<unpacked, cacheDir, caching, fit, weights, sheet, measured, registry, deployed, givenUp>>

\* prepare_cache: the split is read, and the sides are written one after the other.
PrepareCache ==
  /\ splitDoc # NoSplit /\ caching = NoCaching
  /\ Give("prepare")
  /\ caching' = [doc |-> splitDoc, next |-> 1]
  /\ UNCHANGED <<unpacked, splitDoc, cacheDir, fit, weights, sheet, measured, registry, deployed, givenUp>>

WriteSide(s) ==
  /\ caching.next = SideRank[s]
  /\ cacheDir' = [cacheDir EXCEPT ![s] = [of |-> caching.doc.of, items |-> caching.doc.items[s]]]
  /\ caching' = IF s = "test" THEN NoCaching ELSE [caching EXCEPT !.next = @ + 1]
  /\ UNCHANGED <<unpacked, splitDoc, fit, weights, sheet, measured, registry, deployed, givenUp, orders>>

\* train_unet: the training and the validation side are loaded once.
StartFit ==
  /\ fit = NoFit
  /\ cacheDir.train.items # {} /\ cacheDir.val # NoArrays
  /\ Give("fit")
  /\ fit' = [NoFit EXCEPT !.run = orders.fit, !.on = cacheDir.train, !.by = cacheDir.val]
  /\ UNCHANGED <<unpacked, splitDoc, cacheDir, caching, weights, sheet, measured, registry, deployed, givenUp>>

\* An epoch: the weights are kept when they are the best on the validation side so far.
Epoch(iou) ==
  LET n == Len(fit.history) + 1
  IN /\ fit # NoFit /\ n <= Epochs
     /\ fit' = [fit EXCEPT !.history = Append(@, iou), !.best = IF iou > @ THEN iou ELSE @,
                           !.at = IF iou > fit.best THEN n ELSE @]
     /\ weights' = IF iou > fit.best THEN [run |-> fit.run, on |-> fit.on, by |-> fit.by, epoch |-> n] ELSE weights
     /\ UNCHANGED <<unpacked, splitDoc, cacheDir, caching, sheet, measured, registry, deployed, givenUp, orders>>

EndFit ==
  /\ fit # NoFit /\ Len(fit.history) = Epochs
  /\ sheet' = [run |-> fit.run, epoch |-> fit.at, best |-> fit.best, history |-> fit.history]
  /\ fit' = NoFit
  /\ UNCHANGED <<unpacked, splitDoc, cacheDir, caching, weights, measured, registry, deployed, givenUp, orders>>

\* A command is killed, and leaves what it had written.
KillCaching ==
  /\ caching # NoCaching
  /\ Give("kill")
  /\ caching' = NoCaching
  /\ UNCHANGED <<unpacked, splitDoc, cacheDir, fit, weights, sheet, measured, registry, deployed, givenUp>>

KillFit ==
  /\ fit # NoFit
  /\ Give("kill")
  /\ fit' = NoFit /\ givenUp' = givenUp \cup {fit.run}
  /\ UNCHANGED <<unpacked, splitDoc, cacheDir, caching, weights, sheet, measured, registry, deployed>>

\* evaluate_unet: the checkpoint over one cached side, at a threshold that is fixed.
EvaluateUnet(s, predicted) ==
  /\ weights # NoWeights /\ cacheDir[s].items # {}
  /\ DOMAIN predicted = cacheDir[s].items
  /\ Give("measure")
  /\ measured' = measured \cup {[model |-> weights, side |-> s, over |-> cacheDir[s],
                                 says |-> SummaryOf([i \in DOMAIN predicted |-> OfMask(i, predicted[i])])]}
  /\ UNCHANGED <<unpacked, splitDoc, cacheDir, caching, fit, weights, sheet, registry, deployed, givenUp>>

\* register_model: metrics need the manifest they were measured on, and their absence a reason.
Register(metrics, reason, manifest) ==
  /\ weights # NoWeights
  /\ metrics = {} => reason
  /\ metrics # {} => manifest
  /\ Give("paper")
  /\ registry' = [w \in DOMAIN registry \cup {weights} |->
                    IF w = weights THEN [metrics |-> metrics, reason |-> reason, manifest |-> manifest] ELSE registry[w]]
  /\ UNCHANGED <<unpacked, splitDoc, cacheDir, caching, fit, weights, sheet, measured, deployed, givenUp>>

\* promotion_allowed: the floor, and no step back from what is deployed on either count.
Allowed(new, old) ==
  /\ new.iou >= MinOilIou /\ new.lookFp <= MaxLookAlikeFp
  /\ old # << >> => new.iou >= old[Len(old)].iou /\ new.lookFp <= old[Len(old)].lookFp

Promote(m) ==
  /\ Allowed(m.says, deployed)
  /\ Give("paper")
  /\ deployed' = Append(deployed, m.says)
  /\ UNCHANGED <<unpacked, splitDoc, cacheDir, caching, fit, weights, sheet, measured, registry, givenUp>>

EvaluationNext ==
  \/ \E u \in Unpackings : Unpack(u)
  \/ MakeSplit \/ PrepareCache \/ StartFit \/ KillCaching \/ EndFit \/ KillFit
  \/ \E s \in SplitSides : WriteSide(s)
  \/ \E v \in Ious : Epoch(v)
  \/ \E p \in [cacheDir.test.items -> Guesses] : EvaluateUnet("test", p)
  \/ \E m \in measured : Register({m.says}, FALSE, TRUE) \/ Promote(m)
  \/ Register({}, TRUE, FALSE)

EvaluationSpec == EvaluationInit /\ [][EvaluationNext]_evaluationVars

-----------------------------------------------------------------------------
(* Properties *)

Sides(m)   == {m.on, m.by}
CellsOf(S) == {Part3[i].cell : i \in S}
Arrays     == [of : SUBSET Tiles, items : SUBSET Tiles]
Splits     == [of : SUBSET Tiles, items : [SplitSides -> SUBSET Tiles]]

EvaluationTypeOK ==
  /\ unpacked \in Unpackings
  /\ splitDoc \in Splits
  /\ cacheDir \in [SplitSides -> Arrays]
  /\ caching \in [doc : Splits, next : 0 .. 3]
  /\ fit \in [run : Nat, on : Arrays, by : Arrays, history : Seq(Ious), best : Int, at : Nat]
  /\ weights \in [run : Nat, on : Arrays, by : Arrays, epoch : Nat]
  /\ sheet \in [run : Nat, epoch : Nat, best : Int, history : Seq(Ious)]
  /\ \A m \in measured : m.model \in [run : Nat, on : Arrays, by : Arrays, epoch : Nat] /\ m.side \in SplitSides /\ m.over \in Arrays
  /\ givenUp \subseteq Nat
  /\ orders \in [Orders -> Nat]

\* A score on the test side is of no cell that the model was trained on or chosen by
\* (evaluate_unet.py), in whatever order the commands were given and wherever one was killed,
\* so long as the three sides were split from the same images.
TestIsHeldOut ==
  \A m \in measured :
    m.side = "test" /\ (\A side \in Sides(m.model) : side.of = m.over.of) =>
      \A side \in Sides(m.model) : CellsOf(m.over.items) \cap CellsOf(side.items) = {}

\* The file beside the checkpoint (train_unet.py) is of it, and names the first of the epochs
\* that were best on the validation side, unless a later training replaced the one and has not
\* come to, or was killed before, writing the other.
SheetIsOfTheWeights ==
  sheet # NoSheet =>
    \/ weights.run = fit.run \/ weights.run \in givenUp
    \/ /\ weights.run = sheet.run /\ weights.epoch = sheet.epoch
       /\ sheet.epoch \in DOMAIN sheet.history /\ sheet.best = sheet.history[sheet.epoch]
       /\ \A e \in DOMAIN sheet.history :
            sheet.history[e] <= sheet.best /\ (e < sheet.epoch => sheet.history[e] < sheet.best)

\* What a sweep says of a configuration by sums over components (tuning.py) is what its masks
\* say, the base configuration is the detector as it is (detector_eval.py), and a stricter
\* one finds no slick and raises no alarm that a laxer one does not.
StricterThan(a, b) == a.contrast = b.contrast /\ a.area >= b.area /\ a.elongation >= b.elongation /\ a.risk <= b.risk
SweepIsExact ==
  \A which \in {{"train", "val"}, {"test"}} : \A stage \in {"ladder", "combine"} :
    LET over    == UNION {splitDoc.items[s] : s \in which}
        results == Sweep(over, ConfigsOf(stage))
        MaskOf(i, cfg) == UNION {c.places : c \in {d \in Part3[i].regions[cfg.contrast] : Passes(d, cfg)}}
    IN /\ \A a \in DOMAIN results :
            /\ results[a] = SummaryOf([i \in over |-> OfMask(i, MaskOf(i, a))])
            /\ \A b \in DOMAIN results :
                 StricterThan(a, b) => results[a].found <= results[b].found /\ results[a].lookFp <= results[b].lookFp
       /\ BaseConfig \in DOMAIN results
       /\ results[BaseConfig] = SummaryOf([i \in over |-> DetectorOutcome(i, BaseConfig.contrast)])

\* No model that was promoted is worse, on either count, than any promoted before it
\* (registry.py), and none is below the floor.
NoStepBack ==
  \A k \in DOMAIN deployed :
    /\ deployed[k].iou >= MinOilIou /\ deployed[k].lookFp <= MaxLookAlikeFp
    /\ \A j \in 1 .. k - 1 : deployed[k].iou >= deployed[j].iou /\ deployed[k].lookFp <= deployed[j].lookFp

\* How a detector is measured.  A sweep reads nothing but the split, and is looked at before
\* anything else was made of it.
MeasureIsHonest ==
  /\ TestIsHeldOut /\ SheetIsOfTheWeights /\ NoStepBack
  /\ (\A s \in SplitSides : cacheDir[s] = NoArrays) /\ caching = NoCaching => SweepIsExact

=============================================================================
