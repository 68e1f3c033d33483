----------------------------- MODULE MCReminders -----------------------------
(* Small instances of Reminders for TLC: a day of two instants, homework due *)
(* on the next day, the project a day later.                                 *)
EXTENDS Reminders, TLC

CONSTANTS a, b, r1, r2, c1, c2

MCFirstDue == [homework |-> 2, project |-> 5, review |-> 1]

\* bound: whoever is enrolled at first has handed in the project and nothing
\* else, and nobody has opted out.
MCInit == Init /\ submitted = [homework |-> {}, project |-> enrolled] /\ optedOut = {}
MCSpec == MCInit /\ [][Next]_vars

Symmetry == Permutations(Learners) \cup Permutations(Runs) \cup Permutations(Callers)
=============================================================================
