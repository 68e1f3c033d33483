------------------------- MODULE MCProjectScores -------------------------
(* Two learners who review each other, one criterion. *)
EXTENDS ProjectScores, TLC

CONSTANTS p1, p2, s1, s2, k1, k2

Pairs == {<<s1, s2>>, <<s2, s1>>}
Forms == {[score |-> 1, credit |-> 1, lip |-> 1, total |-> 0,
           enough |-> FALSE, passed |-> TRUE]}
Symmetry == Permutations(Processes) \cup Permutations(Students) \cup Permutations(Keys)
=============================================================================
