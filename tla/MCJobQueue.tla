----------------------------- MODULE MCJobQueue -----------------------------
(* Small instances of JobQueue for TLC. *)
EXTENDS JobQueue, TLC

CONSTANTS k1, k2, c1, c2, w1, w2

OneKey   == {k1}
TwoKeys  == {k1, k2}
OneCaller  == {c1}
TwoCallers == {c1, c2}
OneWorker  == {w1}
TwoWorkers == {w1, w2}

\* Callers and worker slots are interchangeable in every safety property.
Symmetry == Permutations(Callers) \cup Permutations(Workers)

\* Bound: calls, stalls, evictions and restarts, three in a behaviour together.
Spent(b, bound) == bound - left[b]
FewFaults ==
  Spent("calls", MaxCalls) + Spent("stalls", MaxStalls) + Spent("evictions", MaxEvictions)
    + Spent("restarts", MaxRestarts) <= 3

=============================================================================
