--------------------------- MODULE MCProjectVotes ---------------------------
(* Small instances of ProjectVotes for TLC. *)
EXTENDS ProjectVotes, TLC

CONSTANTS v1, v2, a, b, c, d, t1, t2

Symmetry == Permutations(Voters) \cup Permutations(Submissions)
            \cup Permutations(Tabs)

=============================================================================
