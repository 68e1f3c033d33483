-------------------------- MODULE ReviewAssignment --------------------------
(***************************************************************************)
(* select_random_assignment: who reviews whom.  There is one pool of       *)
(* submissions for each of the NumPeers slots, shared by all reviewers.    *)
(* Reviewer after reviewer draws a submission for each slot from its pool, *)
(* or, when the pool has nothing left that this reviewer may take, from    *)
(* all submissions.  The generator is seeded, but nothing depends on which *)
(* of the candidates it returns: the choice is left open.  A definition    *)
(* marked "mutant" is a plausible bug, referred to by nothing.             *)
(***************************************************************************)
EXTENDS Naturals, FiniteSets, Draws

CONSTANTS N,         \* len(submissions)
          NumPeers   \* num_projects_to_review

\* _validate_peer_review_assignment_size.
ASSUME SizeAssumption == N \in Nat /\ NumPeers \in Nat /\ NumPeers < N

VARIABLES reviewer,   \* reviewer_idx; N at the end
          slot,       \* the slot this reviewer draws for next
          selected,   \* what this reviewer may not draw (again)
          pool,       \* projects_pool
          assigned    \* the submissions each reviewer has got so far

drawVars == <<reviewer, slot, selected, pool, assigned>>

Projects == 0 .. N - 1
Slots == 0 .. NumPeers - 1

Done == reviewer = N

Available == pool[slot] \ selected
Fallback == Projects \ selected
CandidatesInPool ==                                          \* mutant
    IF pool[slot] # {} THEN pool[slot] ELSE Fallback
CandidatesAvailable == Available                             \* mutant
Candidates == IF Available # {} THEN Available ELSE Fallback

ProjectPoolFromOne == 1 .. N                                 \* mutant
ProjectPool == 0 .. N - 1

\* _select_assignment_project_idx, for the slot at hand.
DrawKeepingPool(p) ==                                        \* mutant
    /\ selected' = selected \cup {p}
    /\ UNCHANGED pool
DrawFromAll(p) ==                                            \* mutant
    /\ selected' = selected \cup {p}
    /\ pool' = [s \in Slots |-> pool[s] \ {p}]
Draw(p) ==
    /\ selected' = selected \cup {p}
    /\ pool' = [pool EXCEPT ![slot] = @ \ {p}]

Select ==
    /\ slot < NumPeers
    /\ \E p \in Candidates :
          /\ Draw(p)
          /\ assigned' = [assigned EXCEPT ![reviewer] = @ \cup {p}]
    /\ slot' = slot + 1
    /\ UNCHANGED reviewer

\* The next reviewer starts with itself selected.
NextReviewer ==
    /\ ~Done
    /\ slot = NumPeers
    /\ reviewer' = reviewer + 1
    /\ slot' = IF reviewer' = N THEN NumPeers ELSE 0
    /\ selected' = {reviewer'}
    /\ UNCHANGED <<pool, assigned>>

Return == Done /\ UNCHANGED drawVars

DrawInit ==
    /\ reviewer = 0
    /\ slot = 0
    /\ selected = {0}
    /\ pool = [s \in Slots |-> ProjectPool]
    /\ assigned = [i \in Projects |-> {}]

DrawNext == Select \/ NextReviewer \/ Return

DrawSpec == DrawInit /\ [][DrawNext]_drawVars

-----------------------------------------------------------------------------
(* Properties *)

DrawTypeOK ==
    /\ reviewer \in 0 .. N
    /\ slot \in 0 .. NumPeers
    /\ selected \subseteq 0 .. N
    /\ pool \in [Slots -> SUBSET Projects]
    /\ assigned \in [Projects -> SUBSET Projects]

\* random.choice never gets an empty list, even with one submission more
\* than there are slots.
SomethingToDraw == slot < NumPeers => Candidates # {}

\* The result gives every submission NumPeers others to review: what the
\* assignment of a project relies on.
ResultIsADraw == Done => assigned \in Draws(Projects, NumPeers)

\* Only the last reviewers fall back on all submissions: in the first slot
\* the last one, in the next slot the last two, and so on.
FallbackOnlyAtTheEnd ==
    slot < NumPeers /\ Available = {} => reviewer + slot + 1 >= N

ReviewersOf(p) == {i \in Projects : p \in assigned[i]}

\* So a submission never gets more than twice its share of reviews.
AtMostTwiceTheShare ==
    \A p \in Projects : Cardinality(ReviewersOf(p)) <= 2 * NumPeers

=============================================================================
