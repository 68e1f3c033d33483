---------------------------- MODULE HomeworkScoring ----------------------------
(***************************************************************************)
(* One homework of a course with one multiple-choice question: students    *)
(* hand in and change their submissions, staff score, rescore, edit single *)
(* submissions, set the correct answer, extend the deadline, switch        *)
(* learning in public off and, over the API, open, close or mark the       *)
(* homework as they like; every change of a score recomputes the totals on *)
(* the leaderboard.                                                        *)
(*                                                                         *)
(* Scoring, editing and switching run in database transactions at READ     *)
(* COMMITTED: each statement sees what has been committed by then and what *)
(* its own transaction has written, and a row written is locked until the  *)
(* end of the transaction.  A transaction is a record in req with its      *)
(* stage and the rows it has read or written; the variables hold what is   *)
(* committed.                                                              *)
(***************************************************************************)
EXTENDS Integers, FiniteSets, FiniteSetsExt

CONSTANTS
    NumStudents,  \* enrollments, numbered in the order of their keys
    Tabs,         \* student requests in flight together
    Staff,        \* staff requests in flight together
    Operations,   \* the staff operations in use
    Contents,     \* what students and staff enter into the form
    Keys,         \* correct answers that staff set
    FaqPoints,    \* values of faq_score that staff enter
    MaxRows,      \* bound: Submission rows
    MaxOps        \* bound: staff operations

ASSUME SizeAssumption ==
    /\ NumStudents \in Nat \ {0}
    /\ MaxRows \in Nat
    /\ MaxOps \in Nat
ASSUME RequestsAssumption == Tabs \cap Staff = {}
ASSUME FaqPointsAssumption == FaqPoints \subseteq Nat
ASSUME ContentsAssumption ==
    \A c \in Contents : /\ DOMAIN c = {"answer", "links", "url"}
                        /\ c.links \in Nat
                        /\ c.url \in BOOLEAN
ASSUME OperationsAssumption ==
    Operations \subseteq {"score", "rescore", "edit", "toggle", "extend", "patch",
                    "key"}

VARIABLES
    homework,   \* the Homework row
    key,        \* Question.correct_answer
    disabled,   \* the enrollments with disable_learning_in_public
    subs,       \* Submission rows, each with its Answer
    board,      \* total_score and position_on_leaderboard of the enrollments
    req,        \* the requests in flight
    left,       \* history: for a request that scores, the rows nothing but
                \* scoring has changed since it began
    graded,     \* history: of the rows that the scoring to commit last had
                \* left, those nothing else has changed since
    unseen,     \* history: for a request that has read points, the students
                \* whose points others have changed since
    behind,     \* history: the students for whom the leaderboard was written
                \* from points unseen, or whose late save has changed them
    ops         \* how many staff operations have begun

history == <<left, graded, unseen, behind>>
vars == <<homework, key, disabled, subs, board, req, history, ops>>

Students == 1 .. NumStudents
SubIds == 1 .. MaxRows
NoId == 0
NoAnswer == "none"

HomeworkRow == [state : {"CL", "OP", "SC"}, overdue : BOOLEAN]

\* right is Answer.is_correct; the four scores are in the columns
\* questions_score, learning_in_public_score, faq_score and total_score.
Row == [id : SubIds \cup {NoId}, student : Students,
        answer : {c.answer : c \in Contents} \cup {NoAnswer},
        right : BOOLEAN, links : Nat, url : BOOLEAN,
        questions : Nat, lip : Nat, faq : Nat, total : Nat]

Idle == [op |-> "idle"]
Ids == {x.id : x \in subs}

-----------------------------------------------------------------------------
(* Scores *)

IsCorrect(answer) == answer = key

\* update_learning_in_public_score: without links the old score stays, but
\* does not count.
LipCounted(x) == IF x.student \in disabled THEN 0 ELSE x.links
LipKept(x) == IF x.student \in disabled THEN 0
              ELSE IF x.links > 0 THEN x.links ELSE x.lip

\* update_faq_score, in the same way.
FaqCounted(x) == IF x.url THEN 1 ELSE 0
FaqKept(x) == IF x.url THEN 1 ELSE x.faq

\* update_score: the answer is worth one point.
GradedKeepingBonus(x, isRight) ==                            \* mutant
    LET points == IF isRight THEN 1 ELSE 0 IN
    [x EXCEPT !.right = isRight, !.questions = points, !.lip = LipKept(x),
              !.faq = FaqKept(x), !.total = points + LipKept(x) + FaqKept(x)]
Graded(x, isRight) ==
    LET points == IF isRight THEN 1 ELSE 0 IN
    [x EXCEPT !.right = isRight,
              !.questions = points,
              !.lip = LipKept(x),
              !.faq = FaqKept(x),
              !.total = points + LipCounted(x) + FaqCounted(x)]

-----------------------------------------------------------------------------
(* Transactions *)

Receive(p, r) == /\ req[p] = Idle
                 /\ req' = [req EXCEPT ![p] = r]
Respond(p) == req' = [req EXCEPT ![p] = Idle]
NoTotals == [s \in Students |-> 0]

At(f, op, stage) == req[f].op = op /\ req[f].stage = stage
Writing(f) == req[f] # Idle /\ req[f].stage \in {"written", "summed"}

\* A row another transaction has written is locked until it ends.
Free(p, ids) ==
    \A f \in Staff \ {p} : Writing(f) => {x.id : x \in req[f].rows} \cap ids = {}
HomeworkFree(p) ==
    \A f \in Staff \ {p} : ~(req[f].op = "score" /\ Writing(f))
EnrollmentsFree(p, students) ==
    \A f \in Staff \ {p} :
        req[f].op = "toggle" /\ req[f].stage # "begun" => req[f].student \notin students

\* The table with the rows a transaction has written in it.
Overlaid(rows) ==
    {x \in subs : x.id \notin {y.id : y \in rows}} \cup rows
Current(i) == CHOOSE x \in subs : x.id = i

\* The points of a student, by submission.
Points(table, s) ==
    {<<x.id, x.total>> : x \in {y \in table : y.student = s /\ y.total # 0}}
Sum(table, s) == MapThenSumSet(LAMBDA p : p[2], Points(table, s))

\* _rank_enrollments: by descending total, then by key.
PositionNoTies(totals, s) ==                                 \* mutant
    1 + Cardinality({u \in Students : totals[u] >= totals[s]})
Position(totals, s) ==
    1 + Cardinality({u \in Students : \/ totals[u] > totals[s]
                                      \/ totals[u] = totals[s] /\ u < s})
Ranked(totals) ==
    [s \in Students |-> [total |-> totals[s],
                         position |-> Position(totals, s)]]

-----------------------------------------------------------------------------
(* History: who has changed what behind whose back *)

Without(ids) == /\ left' = [f \in Staff |-> left[f] \ ids]
                /\ graded' = graded \ ids

\* The students to whom the table gives other points than there are now.
Moved(table) == {s \in Students : Points(table, s) # Points(subs, s)}

\* An edit has read the points it compares, a recount those it adds up.
Relies(f) == req[f] # Idle /\ (req[f].op = "edit" \/ req[f].stage = "summed")
Overtaken(moved) ==
    [f \in Staff |-> IF Relies(f) THEN unseen[f] \cup moved ELSE unseen[f]]

-----------------------------------------------------------------------------
(* A student hands in the homework or changes it.  The state and the row   *)
(* are read before the transaction begins, and the deadline is not looked  *)
(* at; saving writes every column of the instance read, the scores too.    *)

FirstOf(s) ==
    {x \in subs : x.student = s
                  /\ \A y \in subs : y.student = s => x.id <= y.id}
Unsaved(s) ==
    [id |-> NoId, student |-> s, answer |-> NoAnswer, right |-> FALSE,
     links |-> 0, url |-> FALSE, questions |-> 0, lip |-> 0, faq |-> 0,
     total |-> 0]

PostBegin(t, s) ==
    /\ homework.state = "OP"
    /\ \E x \in (IF FirstOf(s) = {} THEN {Unsaved(s)} ELSE FirstOf(s)) :
           Receive(t, [op |-> "post", row |-> x])
    /\ UNCHANGED <<homework, key, disabled, subs, board, history>>

NextIds == {i \in SubIds : /\ \A j \in Ids : j < i
                           /\ \A j \in SubIds \ Ids : i <= j}

\* Answer.is_correct is not among the defaults of update_or_create.
PostSave(t, i, c) ==
    LET x == req[t].row
        isRight == IF x.id = NoId THEN FALSE ELSE Current(i).right
    IN /\ Free(t, {i})
       /\ subs' = Overlaid({[x EXCEPT !.id = i, !.right = isRight,
                                      !.answer = c.answer, !.links = c.links,
                                      !.url = c.url]})
       /\ Without({i})
       /\ unseen' = Overtaken(Moved(subs'))
       /\ behind' = behind \cup Moved(subs')

PostEnd(t) ==
    /\ req[t].op = "post"
    /\ Respond(t)
    /\ \/ \E c \in Contents :
           \E i \in (IF req[t].row.id = NoId THEN NextIds
                     ELSE {req[t].row.id}) : PostSave(t, i, c)
       \/ UNCHANGED <<subs, history>>    \* ValidationError: all is undone
    /\ UNCHANGED <<homework, key, disabled, board>>

-----------------------------------------------------------------------------
(* Scoring *)

Scoreable == homework.overdue /\ homework.state = "OP"

Reopened == [op |-> "reopened", stage |-> "reopened"]

\* homework_rescore sets the state back in a save of its own.
RescoreBegin(f) ==
    /\ homework.state = "SC"
    /\ Receive(f, [op |-> "rescore", stage |-> "begun"])
    /\ UNCHANGED <<homework, key, disabled, subs, board, history>>

Reopen(f) ==
    /\ At(f, "rescore", "begun")
    /\ HomeworkFree(f)
    /\ homework' = [homework EXCEPT !.state = "OP"]
    /\ req' = [req EXCEPT ![f] = Reopened]
    /\ UNCHANGED <<key, disabled, subs, board, history>>

BeginScoring(f) ==
    /\ req' = [req EXCEPT ![f] = [op |-> "score", stage |-> "begun",
                                  homework |-> homework]]
    /\ left' = [left EXCEPT ![f] = Ids]
    /\ UNCHANGED <<graded, unseen, behind>>

ScoreBegin(f) ==
    /\ req[f] = Idle
    /\ Scoreable
    /\ BeginScoring(f)
    /\ UNCHANGED <<homework, key, disabled, subs, board>>

\* A homework that cannot be scored stays as it is: reopened.
ScoreAgain(f) ==
    /\ req[f] = Reopened
    /\ IF Scoreable THEN BeginScoring(f) ELSE Respond(f) /\ UNCHANGED history
    /\ UNCHANGED <<homework, key, disabled, subs, board>>

\* The answers with their questions are one query ...
ScoreAnswers(f) ==
    /\ At(f, "score", "begun")
    /\ req' = [req EXCEPT ![f] =
                 [op |-> "score", stage |-> "answers",
                  homework |-> @.homework,
                  right |-> {x.id : x \in {y \in subs : IsCorrect(y.answer)}}]]
    /\ UNCHANGED <<homework, key, disabled, subs, board, history>>

\* ... and the submissions with their enrollments the next.
ScoreRows(f) ==
    /\ At(f, "score", "answers")
    /\ req' = [req EXCEPT ![f] =
                 [op |-> "score", stage |-> "read", recount |-> TRUE,
                  totals |-> NoTotals, homework |-> @.homework,
                  rows |-> {Graded(x, x.id \in @.right) : x \in subs}]]
    /\ UNCHANGED <<homework, key, disabled, subs, board, history>>

\* bulk_update of the scores, and of is_correct: the other columns are those
\* of the row as it is now.
AllColumns(x) == x                                           \* mutant
OnlyScores(x) ==
    LET now == Current(x.id) IN
    [x EXCEPT !.answer = now.answer, !.links = now.links, !.url = now.url]

Written(f, rows) ==
    /\ Free(f, {x.id : x \in rows})
    /\ req' = [req EXCEPT ![f].stage = "written", ![f].rows = rows]

ScoreWrite(f) ==
    /\ At(f, "score", "read")
    /\ HomeworkFree(f)
    /\ Written(f, {OnlyScores(x) : x \in req[f].rows})
    /\ UNCHANGED <<homework, key, disabled, subs, board, history>>

-----------------------------------------------------------------------------
(* Staff edit one submission; the scores follow, and staff have the last   *)
(* word on the point for the FAQ.                                          *)

EditBegin(f) ==
    /\ \E x \in subs : Receive(f, [op |-> "edit", stage |-> "read",
                                    rows |-> {x}, totals |-> NoTotals,
                                    recount |-> FALSE])
    /\ UNCHANGED <<homework, key, disabled, subs, board, history>>

Edited(x, c, points) ==
    LET y == Graded([x EXCEPT !.answer = c.answer, !.links = c.links,
                              !.url = c.url], IsCorrect(c.answer))
    IN [y EXCEPT !.faq = points, !.total = y.questions + y.lip + points]

EditWrite(f) ==
    /\ At(f, "edit", "read")
    /\ \E x \in req[f].rows, c \in Contents, points \in FaqPoints \cup {0} :
         LET y == Edited(x, c, points) IN
         /\ Free(f, {x.id})
         /\ req' = [req EXCEPT ![f].stage = "written", ![f].rows = {y},
                               ![f].recount = y.total # x.total]
    /\ UNCHANGED <<homework, key, disabled, subs, board, history>>

-----------------------------------------------------------------------------
(* Learning in public is switched off, and the points for it taken away,   *)
(* or on again (set_learning_in_public_disabled).                          *)

ToggleBegin(f, s) ==
    /\ Receive(f, [op |-> "toggle", stage |-> "begun", student |-> s,
                   off |-> s \notin disabled])
    /\ UNCHANGED <<homework, key, disabled, subs, board, history>>

ToggleRows(f) ==
    /\ At(f, "toggle", "begun")
    /\ EnrollmentsFree(f, {req[f].student})
    /\ req' = [req EXCEPT ![f] =
                 [op |-> "toggle", stage |-> "read", recount |-> TRUE,
                  totals |-> NoTotals, student |-> @.student, off |-> @.off,
                  rows |-> {x \in subs : /\ @.off
                                         /\ x.student = @.student
                                         /\ x.lip > 0}]]
    /\ UNCHANGED <<homework, key, disabled, subs, board, history>>

WithoutLip(x) ==
    [Current(x.id) EXCEPT !.lip = 0, !.total = x.questions + x.faq]

ToggleWrite(f) ==
    /\ At(f, "toggle", "read")
    /\ Written(f, {WithoutLip(x) : x \in req[f].rows})
    /\ UNCHANGED <<homework, key, disabled, subs, board, history>>

-----------------------------------------------------------------------------
(* update_leaderboard, and the end of a transaction *)

ScoresSeenOutside(f) == subs                                 \* mutant
ScoresSeen(f) == Overlaid(req[f].rows)

Recount(f) ==
    /\ Writing(f)
    /\ req[f].stage = "written" /\ req[f].recount
    /\ LET totals == [s \in Students |-> Sum(ScoresSeen(f), s)]
       IN req' = [req EXCEPT ![f].stage = "summed",
                                ![f].totals = totals]
    /\ unseen' = [unseen EXCEPT ![f] = {}]
    /\ UNCHANGED <<homework, key, disabled, subs, board, left, graded, behind>>

\* What a transaction has changed besides scores that scoring sets.
Changed(f) ==
    CASE req[f].op = "edit" -> {x.id : x \in req[f].rows}
      [] req[f].op = "toggle" ->
            {x.id : x \in {y \in subs : y.student = req[f].student}}
      [] OTHER -> {}

Recorded(f) ==
    /\ left' = [g \in Staff |-> IF g = f THEN {} ELSE left[g] \ Changed(f)]
    /\ graded' = IF req[f].op = "score" THEN left[f] ELSE graded \ Changed(f)
    /\ unseen' = [Overtaken(Moved(subs')) EXCEPT ![f] = {}]
    /\ behind' = IF req[f].recount THEN unseen[f] ELSE behind \cup unseen[f]

\* The leaderboard and, in scoring, all columns of the homework are written.
Commit(f) ==
    /\ Writing(f)
    /\ req[f].recount => req[f].stage = "summed"
    /\ req[f].recount => EnrollmentsFree(f, Students)
    /\ Respond(f)
    /\ subs' = Overlaid(req[f].rows)
    /\ board' = IF req[f].recount THEN Ranked(req[f].totals) ELSE board
    /\ homework' = IF req[f].op = "score"
                   THEN [req[f].homework EXCEPT !.state = "SC"]
                   ELSE homework
    /\ disabled' = IF req[f].op # "toggle" THEN disabled
                   ELSE IF req[f].off THEN disabled \cup {req[f].student}
                   ELSE disabled \ {req[f].student}
    /\ Recorded(f)
    /\ UNCHANGED key

\* An exception, or a deadlock the database resolves, undoes a transaction.
Abort(f) ==
    /\ req[f] # Idle
    /\ Respond(f)
    /\ left' = [left EXCEPT ![f] = {}]
    /\ unseen' = [unseen EXCEPT ![f] = {}]
    /\ UNCHANGED <<homework, key, disabled, subs, board, graded, behind>>

-----------------------------------------------------------------------------
(* Other staff operations on the homework *)

\* homework_save_answers, homework_clear_correct_answers.
SetKey ==
    /\ key' \in Keys
    /\ Without(Ids)
    /\ UNCHANGED <<homework, disabled, subs, board, req, unseen, behind>>

\* homework_extend_deadline adds days to the due date it has read, and
\* writes the due date only.
ExtendBegin(f) ==
    /\ homework.state = "OP"
    /\ Receive(f, [op |-> "extend", stage |-> "begun"])
    /\ UNCHANGED <<homework, key, disabled, subs, board, history>>

ExtendEnd(f) ==
    /\ At(f, "extend", "begun")
    /\ HomeworkFree(f)
    /\ Respond(f)
    /\ \E overdue \in BOOLEAN :
           homework' = [homework EXCEPT !.overdue = overdue]
    /\ UNCHANGED <<key, disabled, subs, board, history>>

\* PATCH and PUT of the API save all columns of the homework read earlier,
\* any state and any due date put in, or those of the instance read: which
\* may have been reopened, closed or scored in between.
PutIn(row, state, overdue) ==
    [row EXCEPT !.state = state, !.overdue = overdue]

PatchBegin(f) ==
    /\ Receive(f, [op |-> "patch", stage |-> "begun", homework |-> homework])
    /\ UNCHANGED <<homework, key, disabled, subs, board, history>>

PatchEnd(f) ==
    /\ At(f, "patch", "begun")
    /\ HomeworkFree(f)
    /\ Respond(f)
    /\ \E state \in {"CL", "OP", "SC"}, overdue \in BOOLEAN :
           homework' = PutIn(req[f].homework, state, overdue)
    /\ UNCHANGED <<key, disabled, subs, board, history>>

DeadlinePasses ==
    /\ ~homework.overdue
    /\ homework' = [homework EXCEPT !.overdue = TRUE]
    /\ UNCHANGED <<key, disabled, subs, board, req, history>>

Init ==
    /\ homework = [state |-> "OP", overdue |-> FALSE]
    /\ key \in Keys
    /\ disabled = {}
    /\ subs = {}
    /\ board = [s \in Students |-> [total |-> 0, position |-> 0]]
    /\ req = [p \in Tabs \cup Staff |-> Idle]
    /\ left = [f \in Staff |-> {}]
    /\ graded = {}
    /\ unseen = [f \in Staff |-> {}]
    /\ behind = {}
    /\ ops = 0

StudentNext ==
    \E t \in Tabs : \/ \E s \in Students : PostBegin(t, s)
                    \/ PostEnd(t)

Begun == ops < MaxOps /\ ops' = ops + 1

Continue(f) ==
    /\ \/ Reopen(f)
       \/ ScoreAgain(f)
       \/ ScoreAnswers(f)
       \/ ScoreRows(f)
       \/ ScoreWrite(f)
       \/ EditWrite(f)
       \/ ToggleRows(f)
       \/ ToggleWrite(f)
       \/ Recount(f)
       \/ Commit(f)
       \/ Abort(f)
       \/ ExtendEnd(f)
       \/ PatchEnd(f)
    /\ UNCHANGED ops

StaffNext ==
    \E f \in Staff :
        \/ "score" \in Operations /\ Begun /\ ScoreBegin(f)
        \/ "rescore" \in Operations /\ Begun /\ RescoreBegin(f)
        \/ "edit" \in Operations /\ Begun /\ EditBegin(f)
        \/ "toggle" \in Operations /\ Begun /\ \E s \in Students : ToggleBegin(f, s)
        \/ "extend" \in Operations /\ Begun /\ ExtendBegin(f)
        \/ "patch" \in Operations /\ Begun /\ PatchBegin(f)
        \/ Continue(f)

Next ==
    \/ StudentNext /\ UNCHANGED ops
    \/ StaffNext
    \/ "key" \in Operations /\ Begun /\ SetKey
    \/ DeadlinePasses /\ UNCHANGED ops

Spec == Init /\ [][Next]_vars

-----------------------------------------------------------------------------
(* Properties *)

TypeOK ==
    /\ homework \in HomeworkRow
    /\ key \in Keys
    /\ disabled \subseteq Students
    /\ \A x \in subs : x \in Row /\ x.id # NoId
    /\ \A x, y \in subs : x.id = y.id => x = y
    /\ \A s \in Students : /\ board[s].total \in Nat
                           /\ board[s].position \in 0 .. NumStudents
    /\ left \in [Staff -> SUBSET Ids]
    /\ graded \subseteq Ids
    /\ unseen \in [Staff -> SUBSET Students]
    /\ behind \subseteq Students
    /\ \A t \in Tabs : req[t] # Idle => req[t] \in [op : {"post"}, row : Row]
    /\ \A f \in Staff :
         /\ req[f].op \in {"idle", "reopened", "score"} \cup Operations
         /\ Writing(f) => \A x \in req[f].rows : x \in Row /\ x.id \in Ids

\* A submission that was there when the scoring to commit last began, and
\* that no student, edit or switch has changed since, is graded by the answer,
\* the links and the contribution in it: whatever is saved, edited, switched,
\* rescored or patched while the scoring runs, and whatever became of the
\* state of the homework.
ScoredAreGraded ==
    \A x \in subs : x.id \in graded =>
        /\ x.right = IsCorrect(x.answer)
        /\ x.questions = (IF x.right THEN 1 ELSE 0)
        /\ x.total = x.questions + LipCounted(x) + FaqCounted(x)

\* At any time, not only of a scored homework: the leaderboard counts all the
\* points of every student, and places the students by them, unless a save of
\* the student put back points read before they were changed, or a request
\* that had counted the points was overtaken by another one that changed them.
LeaderboardAgrees ==
    \A s, u \in Students \ behind :
        /\ board[s].total = Sum(subs, s)
        /\ Sum(subs, s) > Sum(subs, u)
           => board[s].position < board[u].position

\* What a student has handed in.
Work(x) == <<x.answer, x.links, x.url>>

\* Scoring leaves what students hand in as it is, what they save while it
\* runs too.
ScoringKeepsWork ==
    [][\A f \in Staff : req[f].op = "score" /\ req'[f] = Idle =>
         \A x \in subs : \E y \in subs' :
            y.id = x.id /\ Work(y) = Work(x)]_vars

=============================================================================
