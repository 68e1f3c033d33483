---------------------------- MODULE ProjectScores ----------------------------
(***************************************************************************)
(* The marks of the submissions of one project: peer reviews handed in,    *)
(* system evaluations posted over the API, the scoring of the project, the *)
(* edits of staff, the switch of learning in public, what learners set in  *)
(* their enrollment, the totals on the leaderboard, and the leaderboard    *)
(* page each server process caches.                                        *)
(*                                                                         *)
(* A process serves one request at a time (gunicorn's sync worker) and has *)
(* a cache of its own (LocMemCache); the processes share the database at   *)
(* READ COMMITTED, where a row written is locked until its transaction     *)
(* ends.  Peer reviews come in whole: PeerReview is about their rows.      *)
(* Definitions marked "mutant" are plausible bugs, referred to by nothing. *)
(***************************************************************************)
EXTENDS Integers, FiniteSets, FiniteSetsExt, Functions

CONSTANTS
    Processes,
    Students,      \* each has one submission and one enrollment
    Assigned,      \* the peer reviews there are: pairs <<reviewer, reviewed>>
    Criteria,      \* the review criteria of the course
    Scores,        \* what an answer to a criterion may be worth
    MiddleOption,  \* ReviewCriteria.median_score, the same for each criterion
    PointsToPass,
    PeersToReview, \* Project.number_of_peers_to_evaluate
    Links,         \* learning-in-public points a submission has earned
    Keys,          \* idempotency keys
    Edits,         \* what staff enter: marks, bonus and the two flags
    MaxOps         \* bound: requests of staff and of the API

ASSUME AssignedAssumption ==
    /\ IsFiniteSet(Assigned)
    /\ \A pair \in Assigned : pair \in Students \X Students /\ pair[1] # pair[2]
ASSUME MarksAssumption ==
    /\ Scores \subseteq Nat /\ MiddleOption \in Nat /\ Links \in Nat
    /\ PointsToPass \in Nat \ {0} /\ PeersToReview \in Nat /\ MaxOps \in Nat
    /\ IsFiniteSet(Criteria)

VARIABLES
    state,      \* Project.state, once reviews are assigned
    reviews,    \* the answers of each assigned review, when handed in
    evals,      \* SystemProjectEvaluation rows with their responses
    subs,       \* the score columns of each submission
    disabled,   \* the enrollments with disable_learning_in_public
    hidden,     \* the enrollments without display_on_leaderboard
    board,      \* Enrollment.total_score
    page,       \* the leaderboard page each process has cached
    req,        \* the request each process serves
    ops,
    excused     \* history: what is known to be off, and of whom

db == <<state, reviews, evals, subs, disabled, hidden, board>>
vars == <<db, page, req, ops, excused>>

Answers == [Criteria -> Scores]
NotHandedIn == [c \in Criteria |-> -1]
NoPage == [cached |-> FALSE, shown |-> << >>]
Idle == [op |-> "idle", stage |-> "idle", rows |-> << >>, sums |-> << >>]

\* credit: points for reviewing, with the FAQ point; lip: the two
\* learning-in-public scores.
SubRow == [score : Nat, credit : Nat, lip : Nat, total : Nat,
           enough : BOOLEAN, passed : BOOLEAN]
Unscored == [score |-> 0, credit |-> 0, lip |-> 0, total |-> 0,
             enough |-> FALSE, passed |-> FALSE]
ASSUME EditsAssumption == Edits \subseteq SubRow

-----------------------------------------------------------------------------
(* Marks *)

\* sorted(scores)[k - 1], of the scores of the responses.
InPlace(responses, k) ==
    CHOOSE v \in {r[3] : r \in responses} :
        /\ Cardinality({r \in responses : r[3] < v}) < k
        /\ k <= Cardinality({r \in responses : r[3] <= v})

MiddleFloor(responses) ==                                    \* mutant
    LET n == Cardinality(responses) IN
    (InPlace(responses, (n + 1) \div 2) + InPlace(responses, n \div 2 + 1)) \div 2
\* math.ceil(statistics.median(scores)): the one in the middle, or the mean
\* of the two.
Middle(responses) ==
    LET n == Cardinality(responses) IN
    IF n % 2 = 1 THEN InPlace(responses, (n + 1) \div 2)
    ELSE (InPlace(responses, n \div 2) + InPlace(responses, n \div 2 + 1) + 1) \div 2

\* The sum of the marks of the criteria.
SumOver(marks) == FoldFunction(+, 0, marks)

ReviewsOf(s) == {pair \in Assigned : pair[2] = s /\ reviews[pair] # NotHandedIn}
ReviewsBy(s) == {pair \in Assigned : pair[1] = s /\ reviews[pair] # NotHandedIn}
EvalsOf(s) == {e \in evals : e.of = s}

\* The responses to a criterion, of peers and of the system alike.
Responses(s, E, c) ==
    {<<"peer", pair, reviews[pair][c]>> : pair \in ReviewsOf(s)}
    \cup {<<"system", e.key, e.answers[c]>> : e \in {f \in E : f.of = s}}

\* calculate_project_score, and rescore_submission_with_system_evaluations,
\* which does the same with the evaluations E.
Score(s, E) ==
    IF ReviewsOf(s) = {} /\ {e \in E : e.of = s} = {}
    THEN Cardinality(Criteria) * MiddleOption
    ELSE SumOver([c \in Criteria |-> Middle(Responses(s, E, c))])

Total(row) == row.score + row.credit + row.lip
Passes(row) == row.score >= PointsToPass /\ row.enough

LipEarnedByAll(s) == Links                                   \* mutant
LipEarned(s) == IF s \in disabled THEN 0 ELSE Links
\* score_submission: only submissions with a review of them are scored.
UnderEvaluation == {pair[2] : pair \in Assigned}
ScoreSubmission(s) ==
    LET count == Cardinality(ReviewsBy(s))
        marks == [Unscored EXCEPT !.score = Score(s, evals),
                                  !.credit = count,
                                  !.lip = LipEarned(s),
                                  !.enough = count >= PeersToReview]
    IN  [marks EXCEPT !.total = Total(marks), !.passed = Passes(marks)]

RescoredWithoutLip(row, score) ==                            \* mutant
    LET marked == [row EXCEPT !.score = score] IN
    [marked EXCEPT !.total = marked.score + marked.credit, !.passed = Passes(marked)]
RescoredOnMarks(row, score) ==                               \* mutant
    LET marked == [row EXCEPT !.score = score] IN
    [marked EXCEPT !.total = Total(marked), !.passed = score >= PointsToPass]
Rescored(row, score) ==
    LET marked == [row EXCEPT !.score = score] IN
    [marked EXCEPT !.total = Total(marked), !.passed = Passes(marked)]

-----------------------------------------------------------------------------
(* Requests *)

Serving(p, op, stage) == req[p].op = op /\ req[p].stage = stage
Step(p, r) == req' = [req EXCEPT ![p] = r]
Begin(p, r) ==
    /\ req[p] = Idle
    /\ ops < MaxOps
    /\ ops' = ops + 1
    /\ Step(p, r)
Quiet == \A p \in Processes : req[p] = Idle

\* No other transaction holds a lock on one of these submissions.
Locks(q) == IF req[q].stage \in {"locked", "written", "summed"}
            THEN DOMAIN req[q].rows ELSE {}
Free(p, S) == \A q \in Processes \ {p} : Locks(q) \cap S = {}
EnrollmentFree(p, s) ==
    \A q \in Processes \ {p} : ~(req[q].op = "toggle" /\ req[q].of = s)

\* The submissions with what the transaction of p has written.
Seen(p) == [s \in Students |->
               IF s \in DOMAIN req[p].rows THEN req[p].rows[s] ELSE subs[s]]
TotalsOf(rows) == [s \in Students |-> rows[s].total]

Excuse(what, S) == {what} \X S

\* What the leaderboard page shows: totals, and the medals of a completed
\* project.
Shown == [s \in Students \ hidden |-> <<board[s], state = "CO" /\ subs[s].passed>>]

InvalidatedNone(p) == page                                   \* mutant
\* _invalidate_leaderboard_caches and invalidate_leaderboard_cache.
Invalidated(p) == [page EXCEPT ![p] = NoPage]
\* The pages of other processes are not touched.
Foreign(p) == Excuse("page", {q \in Processes \ {p} : page[q] # NoPage})

\* The totals summed before go to the enrollments, which nobody may hold.
Publish(p, known) ==
    /\ \A s \in Students : EnrollmentFree(p, s)
    /\ board' = req[p].sums
    /\ page' = Invalidated(p)
    /\ excused' = (known \ (Excuse("board", Students) \cup Excuse("page", {p})))
                  \cup Excuse("board", {s \in Students : req[p].sums[s] # Seen(p)[s].total})
                  \cup Foreign(p)
    /\ Step(p, Idle)

-----------------------------------------------------------------------------
(* Peers and system evaluations *)

\* A review is taken while reviews are open, or from a request that began
\* then.
HandIn(pair, answers) ==
    /\ reviews[pair] = NotHandedIn
    /\ state = "PR"
    /\ reviews' = [reviews EXCEPT ![pair] = answers]
    /\ UNCHANGED <<state, evals, subs, disabled, hidden, board, page, req, ops,
                   excused>>

\* select_for_update: the row is read when it is locked.
Evaluate(p, s, key, answers) ==
    /\ Free(p, {s})
    /\ Begin(p, [op |-> "evaluate", stage |-> "locked", rows |-> [t \in {s} |-> subs[t]],
                 eval |-> [of |-> s, key |-> key, answers |-> answers]])
    /\ UNCHANGED <<db, page, excused>>

SamePayload(e) == {f \in evals : f = e}                      \* mutant
\* SystemProjectEvaluation: unique_system_evaluation_idempotency_key.
Same(e) == {f \in evals : f.of = e.of /\ f.key = e.key}

\* A key used before: the same payload is answered with the row there is,
\* another one is refused.
EvaluateAgain(p) ==
    /\ Serving(p, "evaluate", "locked")
    /\ Same(req[p].eval) # {}
    /\ Step(p, Idle)
    /\ UNCHANGED <<db, page, ops, excused>>

RecountNever == Idle                                         \* mutant
\* A completed project's totals are recounted after the commit.
RecountNext == IF state = "CO"
               THEN [Idle EXCEPT !.op = "recount", !.stage = "committed"]
               ELSE Idle

EvaluateCommit(p) ==
    LET e == req[p].eval
        s == e.of
    IN  /\ Serving(p, "evaluate", "locked")
        /\ Same(e) = {}
        /\ evals' = evals \cup {e}
        /\ subs' = [subs EXCEPT ![s] = Rescored(req[p].rows[s], Score(s, evals \cup {e}))]
        /\ Step(p, RecountNext)
        /\ excused' = excused \ ({"marks", "passed", "torn"} \X {s})
        /\ UNCHANGED <<state, reviews, disabled, hidden, board, page, ops>>

-----------------------------------------------------------------------------
(* Scoring the project *)

ScoreBegin(p) ==
    /\ state = "PR"
    /\ Assigned # {}
    /\ Begin(p, [Idle EXCEPT !.op = "score", !.stage = "begun"])
    /\ UNCHANGED <<db, page, excused>>

\* What is read is not locked.
Inputs(s) == <<ReviewsOf(s), EvalsOf(s)>>
ScoreCalculate(p) ==
    /\ Serving(p, "score", "begun")
    /\ Step(p, [op |-> "score", stage |-> "read",
                rows |-> [s \in UnderEvaluation |-> ScoreSubmission(s)],
                sums |-> << >>,
                inputs |-> [s \in UnderEvaluation |-> Inputs(s)],
                disabled |-> disabled])
    /\ UNCHANGED <<db, page, ops, excused>>

ScoreWrite(p) ==
    /\ Serving(p, "score", "read")
    /\ Free(p, DOMAIN req[p].rows)
    /\ Step(p, [req[p] EXCEPT !.stage = "written"])
    /\ UNCHANGED <<db, page, ops, excused>>

\* What came in after it was read is not in what scoring writes.
Overlooked(p) == {s \in DOMAIN req[p].rows : req[p].inputs[s] # Inputs(s)}

ScoreCommit(p) ==
    LET scored == DOMAIN req[p].rows
    IN  /\ Serving(p, "score", "summed")
        /\ state' = "CO"
        /\ subs' = Seen(p)
        /\ Publish(p, (excused \ ({"marks", "passed", "torn", "lip"} \X scored))
                      \cup Excuse("marks", Overlooked(p))
                      \cup Excuse("lip", scored \cap (disabled \ req[p].disabled)))
        /\ UNCHANGED <<reviews, evals, disabled, hidden, ops>>

-----------------------------------------------------------------------------
(* Learning in public is switched off or on: set_learning_in_public_disabled *)

\* The enrollment is written, and with it locked; the submission is read.
ToggleRead(p, s) ==
    /\ EnrollmentFree(p, s)
    /\ Begin(p, [op |-> "toggle", stage |-> "read", rows |-> << >>,
                 sums |-> << >>, of |-> s, off |-> s \notin disabled, row |-> subs[s]])
    /\ UNCHANGED <<db, page, excused>>

\* Only two columns are written, computed from the instance read.
ZeroedColumns(current, read) ==
    [current EXCEPT !.lip = 0, !.total = read.score + read.credit]

ToggleWrite(p) ==
    LET r == req[p]
        zero == r.off /\ r.row.lip > 0
    IN  /\ Serving(p, "toggle", "read")
        /\ zero => Free(p, {r.of})
        /\ Step(p, [r EXCEPT !.stage = "written",
                             !.rows = IF zero THEN [t \in {r.of} |-> ZeroedColumns(subs[t], r.row)]
                                      ELSE << >>])
        /\ UNCHANGED <<db, page, ops, excused>>

\* A row scored after it was read keeps its points, or gets a wrong total.
ToggleCommit(p) ==
    LET r == req[p]
        s == r.of
        new == Seen(p)[s]
    IN  /\ Serving(p, "toggle", "summed")
        /\ disabled' = IF r.off THEN disabled \cup {s} ELSE disabled \ {s}
        /\ subs' = Seen(p)
        /\ Publish(p, (excused \ ({"torn", "lip"} \X (DOMAIN r.rows)))
                      \cup Excuse("torn", {t \in DOMAIN r.rows : [r.row EXCEPT !.lip = 0]
                                           # [new EXCEPT !.total = r.row.total,
                                                         !.enough = r.row.enough,
                                                         !.passed = r.row.passed]})
                      \cup Excuse("lip", {t \in {s} : r.off /\ r.row.lip # subs[s].lip}))
        /\ UNCHANGED <<state, reviews, evals, hidden, ops>>

-----------------------------------------------------------------------------
(* update_leaderboard: the totals are summed, then the enrollments written *)
(* and the cached page dropped.                                            *)

Sum(p) ==
    /\ req[p].stage \in {"written", "committed"}
    /\ Step(p, [req[p] EXCEPT !.stage = "summed", !.sums = TotalsOf(Seen(p))])
    /\ UNCHANGED <<db, page, ops, excused>>

RecountEnd(p) ==
    /\ Serving(p, "recount", "summed")
    /\ Publish(p, excused)
    /\ UNCHANGED <<state, reviews, evals, subs, disabled, hidden, ops>>

-----------------------------------------------------------------------------
(* Staff edit a submission, a learner the own row on the leaderboard *)

\* update_project_submission_from_admin: every score from the form, and no
\* recount of the leaderboard.
Edit(p, s, form) ==
    /\ req[p] = Idle
    /\ ops < MaxOps
    /\ ops' = ops + 1
    /\ Free(p, {s})
    /\ subs' = [subs EXCEPT ![s] = [form EXCEPT !.total = Total(form)]]
    /\ excused' = (excused \ Excuse("torn", {s}))
                  \cup ({"marks", "passed", "lip", "board"} \X {s})
                  \cup Excuse("page", Processes)
    /\ UNCHANGED <<state, reviews, evals, disabled, hidden, board, page, req>>

\* enrollment_view, update_enrollment_toggle: the enrollment is read.
OwnRowRead(p, s) ==
    /\ Begin(p, [op |-> "own", stage |-> "read", rows |-> << >>, sums |-> << >>,
                 of |-> s,
                 read |-> [hidden |-> s \in hidden, off |-> s \in disabled,
                           total |-> board[s]]])
    /\ UNCHANGED <<db, page, excused>>

Switched(S, s, on) == IF on THEN S \cup {s} ELSE S \ {s}

\* The pages that a change of what they show leaves in their caches.
LeftBehind == Excuse("page", {q \in Processes : page'[q] # NoPage})

\* update_enrollment_toggle_value: one column; the page is dropped if that is
\* not what was read.
OwnRowSwitch(p) ==
    \E hide \in BOOLEAN :
        LET s == req[p].of
            dropped == hide # req[p].read.hidden
        IN  /\ Serving(p, "own", "read")
            /\ EnrollmentFree(p, s)
            /\ hidden' = Switched(hidden, s, hide)
            /\ page' = IF dropped THEN Invalidated(p) ELSE page
            /\ excused' = (excused \ Excuse("page", {q \in {p} : dropped}))
                          \cup (IF hidden' = hidden THEN {} ELSE LeftBehind)
            /\ Step(p, Idle)
            /\ UNCHANGED <<state, reviews, evals, subs, disabled, board, ops>>

\* _save_enrollment_form: every column, as it was read.  is_valid() has put
\* the new value into the instance whose value is then taken for the previous
\* one, so the page is never dropped.
OwnRowSave(p) ==
    \E hide \in BOOLEAN :
        LET s == req[p].of
            read == req[p].read
        IN  /\ Serving(p, "own", "read")
            /\ EnrollmentFree(p, s)
            /\ hidden' = Switched(hidden, s, hide)
            /\ disabled' = Switched(disabled, s, read.off)
            /\ board' = [board EXCEPT ![s] = read.total]
            /\ page' = page
            /\ excused' = excused
                  \cup Excuse("board", {t \in {s} : board'[t] # board[t]})
                  \cup Excuse("lip", {t \in {s} : t \in disabled' \ disabled
                                                 /\ subs[t].lip # 0})
                  \cup (IF UNCHANGED <<hidden, board>> THEN {} ELSE LeftBehind)
            /\ Step(p, Idle)
            /\ UNCHANGED <<state, reviews, evals, subs, ops>>

\* build_leaderboard_data: on a miss, or when the viewer is not on the page.
View(p) ==
    /\ req[p] = Idle
    /\ \/ page[p] = NoPage
       \/ \E s \in Students \ hidden : s \notin DOMAIN page[p].shown
    /\ page' = [page EXCEPT ![p] = [cached |-> TRUE, shown |-> Shown]]
    /\ excused' = excused \ Excuse("page", {p})
    /\ UNCHANGED <<db, req, ops>>

Expire(p) ==
    /\ page[p] # NoPage
    /\ page' = [page EXCEPT ![p] = NoPage]
    /\ excused' = excused \ Excuse("page", {p})
    /\ UNCHANGED <<db, req, ops>>

\* The request fails: the victim of a deadlock, a lost connection, a killed
\* process.  A transaction is undone; a recount is just missing.
Fail(p) ==
    /\ req[p] # Idle
    /\ Step(p, Idle)
    /\ excused' = IF req[p].op = "recount"
                  THEN excused \cup Excuse("board", Students)
                               \cup Excuse("page", Processes)
                  ELSE excused
    /\ UNCHANGED <<db, page, ops>>

-----------------------------------------------------------------------------
Init ==
    /\ state = "PR"
    /\ reviews = [pair \in Assigned |-> NotHandedIn]
    /\ evals = {}
    /\ subs = [s \in Students |-> Unscored]
    /\ disabled \in SUBSET Students /\ hidden = {}
    /\ board = [s \in Students |-> 0]
    /\ page = [p \in Processes |-> NoPage]
    /\ req = [p \in Processes |-> Idle]
    /\ ops = 0
    /\ excused = {}

Serve(p) ==
    \/ \E s \in Students :
        \/ \E key \in Keys, answers \in Answers : Evaluate(p, s, key, answers)
        \/ \E form \in Edits : Edit(p, s, form)
        \/ ToggleRead(p, s) \/ OwnRowRead(p, s)
    \/ OwnRowSwitch(p) \/ OwnRowSave(p)
    \/ EvaluateAgain(p) \/ EvaluateCommit(p)
    \/ ScoreBegin(p) \/ ScoreCalculate(p) \/ ScoreWrite(p) \/ ScoreCommit(p)
    \/ ToggleWrite(p) \/ ToggleCommit(p)
    \/ Sum(p) \/ RecountEnd(p)
    \/ View(p) \/ Expire(p) \/ Fail(p)

Next == \/ \E p \in Processes : Serve(p)
        \/ \E pair \in Assigned, answers \in Answers : HandIn(pair, answers)

Spec == Init /\ [][Next]_vars

-----------------------------------------------------------------------------
(* Properties *)

\* Types; one evaluation for each submission and key, whoever retries what.
TypeOK ==
    /\ state \in {"PR", "CO"}
    /\ reviews \in [Assigned -> Answers \cup {NotHandedIn}]
    /\ evals \subseteq [of : Students, key : Keys, answers : Answers]
    /\ \A e, f \in evals : e.of = f.of /\ e.key = f.key => e = f
    /\ subs \in [Students -> SubRow]
    /\ disabled \subseteq Students /\ hidden \subseteq Students
    /\ board \in [Students -> Nat]

\* The median by counting: the mean of the least answers that half, and
\* more than half, of the responses do not exceed.
AtMost(R, v) == Cardinality({r \in R : r[3] <= v})
CeilingOfMedian(R) ==
    LET n == Cardinality(R)
        Least(half) == Min({v \in Scores : 2 * AtMost(R, v) >= half})
    IN  (Least(n) + Least(n + 1) + 1) \div 2
MedianScore(s) ==
    IF ReviewsOf(s) = {} /\ EvalsOf(s) = {}
    THEN Cardinality(Criteria) * MiddleOption
    ELSE SumOver([c \in Criteria |-> CeilingOfMedian(Responses(s, evals, c))])

\* The score of a scored submission is the sum over the criteria of the
\* median of all responses, peers' and the system's, unless staff entered
\* another or something came in while scoring was under way: an evaluation
\* then counts for nothing, though the API has answered that it was created.
ScoreIsTheMedian ==
    \A s \in UnderEvaluation :
        state = "CO" /\ <<"marks", s>> \notin excused => subs[s].score = MedianScore(s)

\* passed says that the score reaches points_to_pass and that enough peers
\* were reviewed, whichever of scoring and evaluation wrote it last.
PassingIsEarned ==
    \A s \in Students :
        <<"passed", s>> \notin excused => (subs[s].passed <=> Passes(subs[s]))

\* total_score is the sum of its parts, and who has learning in public
\* switched off has no points from it: unless the switch met a scoring or an
\* evaluation, staff entered such points, or the enrollment form has put the
\* switch back.
TotalIsTheSum ==
    /\ \A s \in Students : <<"torn", s>> \notin excused => subs[s].total = Total(subs[s])
    /\ \A s \in disabled : <<"lip", s>> \notin excused => subs[s].lip = 0

\* With no request under way, the leaderboard of a completed project has the
\* totals of the submissions, unless two recounts overlapped, one failed,
\* staff edited a submission, or the enrollment form, which saves the total
\* as well, was read before a recount; and the page a process has cached is
\* out of date only by what another process has changed, or a staff edit, or
\* a recount that failed, or the enrollment form, which drops no page.
BoardAgrees ==
    Quiet =>
        /\ state = "CO" =>
              \A s \in Students : <<"board", s>> \notin excused => board[s] = subs[s].total
        /\ \A p \in Processes :
              page[p] # NoPage /\ <<"page", p>> \notin excused => page[p].shown = Shown
=============================================================================
