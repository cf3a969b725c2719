---------------------------- MODULE MCRerankQueue ----------------------------
(* Instances of RerankQueue for TLC. *)
EXTENDS RerankQueue, TLC

CONSTANTS j1, j2, j3, w1, w2, batcher

Jobs3 == {j1, j2, j3}
Workers2 == {w1, w2}
Batcher == {batcher}

\* Sound where no liveness property is checked.
Symmetry == Permutations(Jobs3) \cup Permutations(Workers2)
=============================================================================
