---------------------------- MODULE MCPeerReview ----------------------------
(* Small instances of PeerReview for TLC. *)
EXTENDS PeerReview, TLC

CONSTANTS s1, s2, t1, t2, f1, f2, f3

Symmetry == Permutations(Students) \cup Permutations(Tabs)
            \cup Permutations(Staff)

=============================================================================
