--------------------------- MODULE MCHomeworkScoring ---------------------------
(* A right answer with links and a contribution, and a wrong one without. *)
EXTENDS HomeworkScoring, TLC

MCContents ==
    {[answer |-> "a", links |-> 1, url |-> TRUE],
     [answer |-> "b", links |-> 0, url |-> FALSE]}
MCKeys == {"a", "b"}

StaffSymmetry == Permutations(Staff)

=============================================================================
