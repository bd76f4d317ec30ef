-------------------------- MODULE MCSceneDetection --------------------------
(* Small instances of SceneDetection for TLC. *)
EXTENDS SceneDetection, TLC

CONSTANTS w1, w2, a1, a2, o1

TwoWorkers   == {w1, w2}
TwoAnalysts  == {a1, a2}
TwoOutlines  == {Model, o1}

\* A detection confirmed automatically next to a better one left to the analyst; and
\* one rejected automatically that triage would not select.
TwoScenes == {
  <<[auto |-> "AUTO_CONFIRMED", score |-> 1], [auto |-> "UNREVIEWED", score |-> 2]>>,
  <<[auto |-> "AUTO_REJECTED", score |-> 0]>>}

Symmetry == Permutations(TwoWorkers) \cup Permutations(TwoAnalysts)

=============================================================================
