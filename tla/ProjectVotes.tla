---------------------------- MODULE ProjectVotes ----------------------------
(***************************************************************************)
(* Votes for the submissions of one project: update_project_vote, which    *)
(* the project list and the review form both call.  It runs outside a      *)
(* transaction and makes three queries, so a vote is three steps: is there *)
(* one already (Look), how many has the voter (Count), insert (Insert).    *)
(* The requests of one voter may run side by side.  Definitions marked     *)
(* "mutant" are plausible bugs, referred to by nothing.                    *)
(***************************************************************************)
EXTENDS Naturals, FiniteSets

CONSTANTS
    Voters,
    Submissions,   \* keys of ProjectSubmission rows of the project
    Tabs,          \* vote requests in flight together
    Limit          \* PROJECT_VOTES_PER_PROJECT

ASSUME LimitAssumption == Limit \in Nat \ {0}
ASSUME FinitelyMany == IsFiniteSet(Submissions) /\ IsFiniteSet(Tabs)

VARIABLES
    shown,   \* the submissions with a row
    votes,   \* the ProjectVote rows, <<voter, submission>>
    req      \* what each vote request in flight is about to do

voteVars == <<shown, votes, req>>

NoRequest == [step |-> "idle"]
Request == {NoRequest} \cup [step : {"count", "insert"}, voter : Voters,
                             submission : Submissions]

VotesOf(v) == {s \in Submissions : <<v, s>> \in votes}

Set(t, r) == req' = [req EXCEPT ![t] = r]

-----------------------------------------------------------------------------

\* The submission is looked up first; a vote that is there is left alone.
Look(t, v, s) ==
    /\ req[t] = NoRequest
    /\ s \in shown
    /\ <<v, s>> \notin votes
    /\ Set(t, [step |-> "count", voter |-> v, submission |-> s])
    /\ UNCHANGED <<shown, votes>>

BelowLimitOrAtIt(v) == Cardinality(VotesOf(v)) <= Limit      \* mutant
BelowLimit(v) == Cardinality(VotesOf(v)) < Limit

Count(t) ==
    /\ req[t].step = "count"
    /\ Set(t, IF BelowLimit(req[t].voter)
              THEN [req[t] EXCEPT !.step = "insert"] ELSE NoRequest)
    /\ UNCHANGED <<shown, votes>>

\* get_or_create: no second vote for a submission, none for a deleted one.
Insert(t) ==
    /\ req[t].step = "insert"
    /\ Set(t, NoRequest)
    /\ votes' = votes \cup {<<req[t].voter, s>> :
                              s \in {req[t].submission} \cap shown}
    /\ UNCHANGED shown

Remove(v, s) ==
    /\ s \in shown
    /\ votes' = votes \ {<<v, s>>}
    /\ UNCHANGED <<shown, req>>

\* Submissions come (or come back, saved by a request that read them before
\* they were deleted) and go, with the votes they got.
SubmitProject(s) ==
    /\ s \notin shown
    /\ shown' = shown \cup {s}
    /\ UNCHANGED <<votes, req>>

DeleteProjectLeavingVotes(s) ==                              \* mutant
    /\ s \in shown
    /\ shown' = shown \ {s}
    /\ UNCHANGED <<votes, req>>
DeleteProject(s) ==
    /\ s \in shown
    /\ shown' = shown \ {s}
    /\ votes' = {w \in votes : w[2] # s}
    /\ UNCHANGED req

VoteInit ==
    /\ shown = {}
    /\ votes = {}
    /\ req = [t \in Tabs |-> NoRequest]

VoteNext ==
    \/ \E t \in Tabs :
          \/ \E v \in Voters, s \in Submissions : Look(t, v, s)
          \/ Count(t)
          \/ Insert(t)
    \/ \E v \in Voters, s \in Submissions : Remove(v, s)
    \/ \E s \in Submissions : SubmitProject(s) \/ DeleteProject(s)

VoteSpec == VoteInit /\ [][VoteNext]_voteVars

-----------------------------------------------------------------------------
(* Properties *)

\* Every vote is of a voter and for a submission that is there, although a
\* submission may be deleted, and come back, while a vote for it is under way.
VoteTypeOK ==
    /\ shown \subseteq Submissions
    /\ votes \subseteq Voters \X shown
    /\ req \in [Tabs -> Request]

\* A voter exceeds the limit only by votes that were in flight together:
\* never by more than the requests there are beside the first.
OvershootBounded ==
    \A v \in Voters :
        Cardinality(VotesOf(v)) + 1 <= Limit + Cardinality(Tabs)

=============================================================================
