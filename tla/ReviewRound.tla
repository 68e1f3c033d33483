----------------------------- MODULE ReviewRound -----------------------------
(***************************************************************************)
(* What peer review promises, without rows, requests or clocks: a round    *)
(* collects work, opens once with a roster of reviewers, and completes     *)
(* once; credit goes to members of the roster, and only on completion.     *)
(* Whoever runs it may spoil it; a void round promises nothing.            *)
(***************************************************************************)
EXTENDS Naturals, FiniteSets

CONSTANTS Workers,    \* whoever may take part
          Quota       \* the reviews each member of the roster owes

VARIABLES phase,      \* "collecting", "reviewing" or "completed"
          roster,     \* who owes reviews
          credited,   \* who got credit for reviewing
          void        \* whether the round is spoilt

roundVars == <<phase, roster, credited, void>>

RoundInit ==
    /\ phase = "collecting"
    /\ roster = {}
    /\ credited = {}
    /\ ~void

\* A round opens only for more members than each of them has reviews to do.
Open ==
    /\ phase = "collecting"
    /\ phase' = "reviewing"
    /\ roster' \in SUBSET Workers
    /\ Cardinality(roster') > Quota
    /\ UNCHANGED credited

\* A late withdrawal costs the member, and whoever had nobody else to
\* review, the place on the roster; nobody joins an open round.
Withdraw ==
    /\ phase = "reviewing"
    /\ roster' \in SUBSET roster
    /\ UNCHANGED <<phase, credited>>

Complete ==
    /\ phase = "reviewing"
    /\ phase' = "completed"
    /\ credited' \in SUBSET roster
    /\ UNCHANGED roster

Spoil == void'

Proceed == /\ ~void /\ ~void'
           /\ Open \/ Withdraw \/ Complete

RoundNext == Spoil \/ Proceed

RoundSpec == RoundInit /\ [][RoundNext]_roundVars

=============================================================================
