------------------------------ MODULE MCOutbox ------------------------------
(* Small instances of Outbox for TLC. *)
EXTENDS Outbox, TLC

CONSTANTS o1, o2, w1, w2, r1, r2

Symmetry == Permutations(Objects) \cup Permutations(Web)
            \cup Permutations(Runs)

=============================================================================
