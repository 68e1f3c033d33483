------------------------------ MODULE Statistics ------------------------------
(***************************************************************************)
(* The two kinds of statistics that are computed once and then stored.     *)
(* The statistics of an assignment, a homework or a project, are a row     *)
(* that the first view of their page creates and then fills; scoring a     *)
(* homework and the admin recompute it.  The yearly "wrapped" statistics   *)
(* are a row of the platform with the leaderboard, and a row for each      *)
(* participant, replaced by the admin or by a script.  Nothing of that is  *)
(* in a transaction, but for the scoring of a homework, and requests       *)
(* overlap, with each other and with changes of the scores, and die.       *)
(*                                                                         *)
(* One course with one assignment; a student's total is the score of it.   *)
(* Definitions marked "mutant" are plausible bugs, referred to by nothing. *)
(***************************************************************************)
EXTENDS Naturals, FiniteSetsExt, Functions

CONSTANTS
    Students,
    Scores,       \* what a submission may score
    TopSize,      \* length of the wrapped leaderboard, 100 in the code
    Views,        \* requests of statistics of the assignment
    Jobs,         \* requests and scripts that compute the wrapped statistics
    Forms,        \* pages of the admin with the wrapped row in a form
    MaxEdits,     \* bound: changes of scores and submissions
    MaxViews,     \* bound: requests of statistics
    MaxJobs       \* bound: jobs and forms; a behaviour has these or views

ASSUME StudentsAssumption == IsFiniteSet(Students)
ASSUME ScoresAssumption == Scores \subseteq Nat
ASSUME TopSizeAssumption == TopSize \in Nat

VARIABLES
    kind,      \* is the assignment a homework or a project?
    scored,    \* homework SCORED, project COMPLETED
    score,     \* the score of each submission, by student; 0 before scoring
    stats,     \* HomeworkStatistics, ProjectStatistics: none, or the row
    view,      \* what each request of statistics is in the middle of
    cause,     \* history: something made the row out of date or cause its request
    wrapped,   \* WrappedStatistics of the year: none, or the row
    users,     \* UserWrappedStatistics of the year, by student
    job,       \* what each job is in the middle of
    form,      \* the row each form was opened with
    alone,     \* history: nothing has overlapped the latest job
    edits, viewed, jobs

assignment == <<kind, scored, score>>
page == <<stats, view, cause, viewed>>
year == <<wrapped, users, job, form, alone, jobs>>
vars == <<assignment, page, year, edits>>

None == [row |-> FALSE]
Submitted == DOMAIN score
-----------------------------------------------------------------------------
(* The numbers *)

\* How many submissions score below v, and up to v.
Below(f, v) == Cardinality({s \in DOMAIN f : f[s] < v})
UpTo(f, v) == Cardinality({s \in DOMAIN f : f[s] <= v})

\* The value in place k of the sorted values.
InPlace(f, k) == CHOOSE v \in {f[s] : s \in DOMAIN f} : Below(f, v) < k /\ k <= UpTo(f, v)

NoNumbers == [least |-> 0, twiceMedian |-> 0, largest |-> 0]
Numbers(f) ==
    LET n == Cardinality(DOMAIN f)
        range == {f[s] : s \in DOMAIN f}
    IN  [least |-> Min(range), largest |-> Max(range),
         twiceMedian |-> InPlace(f, (n + 1) \div 2) + InPlace(f, n \div 2 + 1)]

DistributionOfTwo(f) ==                                      \* mutant
    [row |-> TRUE, n |-> Cardinality(DOMAIN f), given |-> Cardinality(DOMAIN f) >= 2,
     numbers |-> IF Cardinality(DOMAIN f) < 2 THEN NoNumbers ELSE Numbers(f)]
\* _field_distribution: of fewer than three values no numbers are given.
Distribution(f) ==
    [row |-> TRUE, n |-> Cardinality(DOMAIN f), given |-> Cardinality(DOMAIN f) >= 3,
     numbers |-> IF Cardinality(DOMAIN f) < 3 THEN NoNumbers ELSE Numbers(f)]

\* The row as get_or_create leaves it.
Blank == [row |-> TRUE, n |-> 0, given |-> FALSE, numbers |-> NoNumbers]

-----------------------------------------------------------------------------
(* The assignment *)

Edit == edits < MaxEdits /\ edits' = edits + 1 /\ UNCHANGED year

Computing == {r \in Views : view[r].at # "idle"}
Calculated == {r \in Views : view[r].at = "calculated"}

\* The row, when there is one, does not follow a change of the scores.
Outdated == cause' = (cause \/ stats # None) /\ UNCHANGED <<stats, view, viewed>>

\* A row is added, with a score of 0: by a student, also one who looked at
\* the state before the assignment was scored and saves later, or as the
\* placeholder of a volunteer reviewer, for which the state is not looked at
\* (projects_eval_add).  bound: one row of each student.
Submit(s) ==
    /\ Edit
    /\ s \notin Submitted
    /\ score' = [t \in Submitted \cup {s} |-> IF t = s THEN 0 ELSE score[t]]
    /\ Outdated
    /\ UNCHANGED <<kind, scored>>

\* Deleted by the student, or later by the admin.
Delete(s) ==
    /\ Edit
    /\ s \in Submitted
    /\ score' = Restrict(score, Submitted \ {s})
    /\ Outdated
    /\ UNCHANGED <<kind, scored>>

\* _mark_homework_scored forces the statistics.
ScoredStats(new) == Distribution(new)

\* score_homework_submissions, again after a rescoring: one transaction.
ScoreHomework ==
    /\ Edit
    /\ kind = "homework"
    /\ scored' = TRUE
    /\ \E new \in [Submitted -> Scores] :
          score' = new /\ stats' = ScoredStats(new)
    /\ cause' = (Computing # {})
    /\ UNCHANGED <<kind, view, viewed>>

\* score_project has nothing to do with statistics.
ScoreProject ==
    /\ Edit
    /\ kind = "project" /\ ~scored
    /\ scored' = TRUE
    /\ \E new \in [Submitted -> Scores] : score' = new
    /\ UNCHANGED <<kind, page>>

\* The pages of staff, evaluations, the switch of learning in public.
EditScore(s, v) ==
    /\ Edit
    /\ scored
    /\ s \in Submitted
    /\ score[s] # v
    /\ score' = [score EXCEPT ![s] = v]
    /\ Outdated
    /\ UNCHANGED <<kind, scored>>

-----------------------------------------------------------------------------
(* calculate_homework_statistics, calculate_project_statistics *)

Idle == [at |-> "idle"]

ComputesForced(force) == force                               \* mutant
\* force or created
Computes(force) == force \/ stats = None

\* The page (force = FALSE) and the action of the admin: get_or_create.
GetOrCreate(r, force) ==
    /\ view[r] = Idle
    /\ viewed < MaxViews /\ jobs = 0
    /\ viewed' = viewed + 1
    /\ scored
    /\ stats' = IF stats = None THEN Blank ELSE stats
    /\ view' = [view EXCEPT ![r] = IF Computes(force) THEN [at |-> "created"] ELSE Idle]
    /\ UNCHANGED <<assignment, cause, year, edits>>

\* calculate_raw_homework_statistics, calculate_raw_project_statistics: what
\* came before is no cause any more, unless older numbers are still to be saved.
Calculate(r) ==
    /\ view[r].at = "created"
    /\ view' = [view EXCEPT ![r] = [at |-> "calculated", result |-> Distribution(score)]]
    /\ cause' = (cause /\ Calculated # {})
    /\ UNCHANGED <<assignment, stats, viewed, year, edits>>

SaveStats(r) ==
    /\ view[r].at = "calculated"
    /\ stats' = view[r].result
    /\ view' = [view EXCEPT ![r] = Idle]
    /\ UNCHANGED <<assignment, cause, viewed, year, edits>>

StopView(r) ==
    /\ view[r] # Idle
    /\ view' = [view EXCEPT ![r] = Idle]
    /\ cause' = TRUE
    /\ UNCHANGED <<assignment, stats, viewed, year, edits>>

-----------------------------------------------------------------------------
(* calculate_wrapped_statistics, which all its callers force *)

BlankWrapped == [row |-> TRUE, visible |-> FALSE, board |-> << >>, points |-> 0]

\* What a job keeps: its caller and its number, is_visible as read, those
\* active in the year with their totals, the row of the platform as saved.
NoJob == [at |-> "idle", caller |-> "admin", serial |-> 0, visible |-> FALSE,
          active |-> {}, totals |-> << >>, saved |-> None]

InFlight == {j \in Jobs : job[j].at # "idle"}
Opened == {f \in Forms : form[f] # None}

\* bound: jobs do not read the statistics of the assignment, nor its kind.
Begun ==
    /\ jobs < MaxJobs /\ viewed = 0 /\ kind = "project"
    /\ jobs' = jobs + 1
    /\ UNCHANGED <<assignment, page, edits>>

JobStep == UNCHANGED <<assignment, page, form, alone, jobs, edits>>

\* get_or_create of the year, by the action of the admin or by the script.
BeginJob(j, caller) ==
    /\ Begun
    /\ job[j] = NoJob
    /\ wrapped' = IF wrapped = None THEN BlankWrapped ELSE wrapped
    /\ job' = [job EXCEPT ![j] = [NoJob EXCEPT !.at = "begun", !.caller = caller,
                                  !.serial = jobs, !.visible = wrapped'.visible]]
    /\ alone' = (InFlight \cup Opened = {})
    /\ UNCHANGED <<users, form>>

\* wrapped_activity_context: first who submitted in the year ...
ReadActivity(j) ==
    /\ job[j].at = "begun"
    /\ job' = [job EXCEPT ![j] = [@ EXCEPT !.at = "active", !.active = Submitted]]
    /\ UNCHANGED <<wrapped, users>>
    /\ JobStep

Total(s) == IF s \in Submitted THEN score[s] ELSE 0

\* ... then their enrollments, kept for all that follows ...
ReadEnrollments(j) ==
    /\ job[j].at = "active"
    /\ job' = [job EXCEPT ![j] = [@ EXCEPT !.at = "read",
                                  !.totals = [s \in job[j].active |-> Total(s)]]]
    /\ UNCHANGED <<wrapped, users>>
    /\ JobStep

\* wrapped_leaderboard: places for the best, ties in any order.
Boards(totals) ==
    LET length == IF Cardinality(DOMAIN totals) < TopSize
                  THEN Cardinality(DOMAIN totals) ELSE TopSize
    IN  {board \in UNION {[top -> 1 .. length] : top \in SUBSET DOMAIN totals} :
            /\ Cardinality(DOMAIN board) = length
            /\ \A s \in DOMAIN board : \A t \in DOMAIN totals \ {s} :
                  IF t \in DOMAIN board THEN /\ board[s] # board[t]
                                             /\ board[s] < board[t] => totals[s] >= totals[t]
                  ELSE totals[s] >= totals[t]}

RankedAnew(j) == [s \in job[j].active |-> Total(s)]          \* mutant
\* The leaderboard is of the enrollments as they were read.
Ranked(j) == job[j].totals

SumOver(f) == FoldFunction(+, 0, f)
\* ... but for the sum, which the database computes anew.
SumNow(j) == SumOver([s \in job[j].active |-> Total(s)])

\* persist_wrapped_platform_statistics: all columns are saved.
SavePlatform(j) ==
    /\ job[j].at = "read"
    /\ \E board \in Boards(Ranked(j)) :
          LET row == [row |-> TRUE, visible |-> job[j].visible, points |-> SumNow(j),
                      board |-> [s \in DOMAIN board |->
                                    [rank |-> board[s], points |-> Ranked(j)[s]]]]
          IN  /\ wrapped' = row
              /\ job' = [job EXCEPT ![j] = [@ EXCEPT !.at = "platform", !.saved = row]]
    /\ UNCHANGED users
    /\ JobStep

\* build_user_wrapped_stat
UserRow(j, s) ==
    LET board == job[j].saved.board
    IN  [rank |-> IF s \in DOMAIN board THEN board[s].rank ELSE 0,
         points |-> job[j].totals[s], by |-> job[j].serial, among |-> job[j].active]

\* replace_user_wrapped_statistics: a delete ...
DeleteUsers(j) ==
    /\ job[j].at = "platform"
    /\ users' = << >>
    /\ job' = [job EXCEPT ![j].at = "deleted"]
    /\ UNCHANGED wrapped
    /\ JobStep

Conflicting(j) == DOMAIN users \cap job[j].active # {}

WithRows(j) == [s \in job[j].active \cup DOMAIN users |->
                   IF s \in job[j].active THEN UserRow(j, s) ELSE users[s]]
\* An exception ends the script, which goes on to publish what it has saved.
AfterRows(j) == IF ~Conflicting(j) /\ job[j].caller = "script"
                THEN [NoJob EXCEPT !.at = "created", !.saved = job[j].saved]
                ELSE NoJob

\* ... and a bulk_create of its own, of all or, when another job's rows are
\* there (unique_together), of none.
CreateUsers(j) ==
    /\ job[j].at = "deleted"
    /\ users' = IF Conflicting(j) THEN users ELSE WithRows(j)
    /\ job' = [job EXCEPT ![j] = AfterRows(j)]
    /\ UNCHANGED wrapped
    /\ JobStep

\* scripts/wrapped.py makes the row visible that it has computed.
Publish(j) ==
    /\ job[j].at = "created"
    /\ wrapped' = [job[j].saved EXCEPT !.visible = TRUE]
    /\ job' = [job EXCEPT ![j] = NoJob]
    /\ UNCHANGED users
    /\ JobStep

StopJob(j) ==
    /\ job[j] # NoJob
    /\ job' = [job EXCEPT ![j] = NoJob]
    /\ alone' = FALSE
    /\ UNCHANGED <<assignment, page, wrapped, users, form, jobs, edits>>

\* The admin's page of the row, to show or to hide it; saving it writes back
\* all it was opened with.
OpenForm(f) ==
    /\ Begun
    /\ form[f] = None
    /\ wrapped # None
    /\ form' = [form EXCEPT ![f] = wrapped]
    /\ alone' = (alone /\ InFlight = {})
    /\ UNCHANGED <<wrapped, users, job>>

SaveForm(f) ==
    /\ form[f] # None
    /\ wrapped' = [form[f] EXCEPT !.visible = ~@]
    /\ form' = [form EXCEPT ![f] = None]
    /\ UNCHANGED <<assignment, page, users, job, alone, jobs, edits>>

-----------------------------------------------------------------------------
Init ==
    /\ kind \in {"homework", "project"}
    /\ scored = FALSE /\ score = << >>
    /\ stats = None /\ cause = FALSE
    /\ view = [r \in Views |-> Idle]
    /\ wrapped = None /\ users = << >>
    /\ job = [j \in Jobs |-> NoJob]
    /\ form = [f \in Forms |-> None]
    /\ alone = TRUE
    /\ edits = 0 /\ viewed = 0 /\ jobs = 0

Next ==
    \/ \E s \in Students : Submit(s) \/ Delete(s) \/ \E v \in Scores : EditScore(s, v)
    \/ ScoreHomework \/ ScoreProject
    \/ \E r \in Views :
          \/ \E force \in BOOLEAN : GetOrCreate(r, force)
          \/ Calculate(r) \/ SaveStats(r) \/ StopView(r)
    \/ \E j \in Jobs :
          \/ \E caller \in {"admin", "script"} : BeginJob(j, caller)
          \/ ReadActivity(j) \/ ReadEnrollments(j) \/ SavePlatform(j)
          \/ DeleteUsers(j) \/ CreateUsers(j) \/ Publish(j) \/ StopJob(j)
    \/ \E f \in Forms : OpenForm(f) \/ SaveForm(f)

Spec == Init /\ [][Next]_vars

-----------------------------------------------------------------------------
(* Properties *)

\* Types; numbers are given of three submissions or more, the least, the
\* median and the largest in this order; ranks go from one without a gap.
TypeOK ==
    /\ kind \in {"homework", "project"}
    /\ Submitted \subseteq Students /\ \A s \in Submitted : score[s] \in Scores \cup {0}
    /\ stats # None =>
          /\ stats.given <=> stats.n >= 3
          /\ 2 * stats.numbers.least <= stats.numbers.twiceMedian
          /\ stats.numbers.twiceMedian <= 2 * stats.numbers.largest
    /\ wrapped # None =>
          {wrapped.board[s].rank : s \in DOMAIN wrapped.board}
              = 1 .. Cardinality(DOMAIN wrapped.board)

\* The page of statistics shows the numbers of the submissions there are,
\* placeholders of volunteer reviewers included, unless a request is about to
\* fill the row; or, since the row was there, one was stopped, a score was
\* changed, a submission added late or as a placeholder, or deleted, or a
\* scoring overlapped a request.  And all of that is made good by one forced
\* calculation that no request with older numbers overlaps.
NumbersHaveACause ==
    stats # None /\ ~cause =>
        \/ stats = Distribution(score)
        \/ Calculated # {}
        \/ stats = Blank /\ Computing # {}

\* The rows of the participants agree with the leaderboard of the platform,
\* rank and points, though scores change meanwhile, when the latest job was
\* not stopped and nothing overlapped it; and whatever overlapped, the rows
\* are of one job, or of jobs that had no participant in common.
WrappedAgrees ==
    /\ alone /\ InFlight = {} /\ wrapped # None =>
          /\ DOMAIN wrapped.board \subseteq DOMAIN users
          /\ \A s \in DOMAIN users :
                IF s \in DOMAIN wrapped.board
                THEN /\ users[s].rank = wrapped.board[s].rank
                     /\ users[s].points = wrapped.board[s].points
                ELSE users[s].rank = 0
    /\ \A s, t \in DOMAIN users :
          users[s].by # users[t].by => users[s].among \cap users[t].among = {}
=============================================================================
