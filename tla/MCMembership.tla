---------------------------- MODULE MCMembership ----------------------------
(* Small instances of Membership for TLC. *)
EXTENDS Membership, TLC

CONSTANTS a, b, w1, w2

OneLearner == {a}
TwoLearners == {a, b}
OneRequest == {w1}
TwoRequests == {w1, w2}
Symmetry == Permutations(Web)
=============================================================================
