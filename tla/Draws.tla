-------------------------------- MODULE Draws --------------------------------
(***************************************************************************)
(* What a draw of peer reviews is, whoever computes it: every member of a  *)
(* set reviews quota others.                                               *)
(***************************************************************************)
EXTENDS FiniteSets

Draws(members, quota) ==
    {a \in [members -> SUBSET members] :
        \A i \in members : i \notin a[i] /\ Cardinality(a[i]) = quota}

=============================================================================
