----------------------------- MODULE MCStatistics -----------------------------
(* Small instances of Statistics for TLC. *)
EXTENDS Statistics, TLC

CONSTANTS a, b, c, r1, r2, j1, j2, f1

Symmetry == Permutations(Students) \cup Permutations(Views) \cup Permutations(Jobs)
=============================================================================
