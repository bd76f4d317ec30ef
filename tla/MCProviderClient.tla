--------------------------- MODULE MCProviderClient ---------------------------
(* Small instances of ProviderClient for TLC. *)
EXTENDS ProviderClient, TLC

CONSTANTS r1, r2, s1, s2, s3

OneReplica    == {r1}
TwoReplicas   == {r1, r2}
TwoSearches   == {s1, s2}
ThreeSearches == {s1, s2, s3}

\* Searches and replicas are interchangeable in every safety property.
Symmetry == Permutations(Searches) \cup Permutations(Replicas)

=============================================================================
