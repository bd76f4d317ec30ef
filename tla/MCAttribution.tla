---------------------------- MODULE MCAttribution ----------------------------
(* Small instances of Attribution for TLC. *)
EXTENDS Attribution

CONSTANTS d1, c1, c2, w1, w2, a1

OneDetection == {d1}
OneCase == {c1}
TwoCases == {c1, c2}
TwoWorkers == {w1, w2}
OneAnalyst == {a1}

\* Bound: one cancel, stall or reweighting in a behaviour (what is promised of a ranking
\* is promised until a stall, so the two need not be combined), and a crash with them;
\* and a reweighting only where one case is at work, as no case touches the rankings of
\* another.
Used(b, max) == max - left[b]
OneAtMost ==
  /\ Used("cancels", MaxCancels) + Used("stalls", MaxStalls)
       + Used("reweights", MaxReweights) <= 1
  /\ Used("reweights", MaxReweights) = 0
       \/ \A k \in Keys : k[2] \notin Ingested => job[k] = NoJob

=============================================================================
