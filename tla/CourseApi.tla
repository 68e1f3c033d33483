------------------------------ MODULE CourseApi ------------------------------
(***************************************************************************)
(* The staff's API for a homework with its questions, a project, a course  *)
(* or a registration campaign, under requests of students.  A request      *)
(* checks what it has read (does the slug exist, is the assignment closed, *)
(* has it submissions, has the question answers) and writes afterwards.    *)
(* Only PUT of a homework is in a transaction; all others commit statement *)
(* by statement, and instance.save() writes back the whole row that was    *)
(* read, inserting it anew if it is gone.                                  *)
(*                                                                         *)
(* The rows of one slug, of which there is at most one at a time; rows and *)
(* questions get a new id whenever they are created.  Only a homework has  *)
(* questions, and a transaction for PUT.  Courses and campaigns are only   *)
(* created and patched; their state says whether a course is visible and   *)
(* whether a campaign takes registrations, which are its submissions.      *)
(* Definitions marked "mutant" are plausible bugs, referred to by nothing. *)
(***************************************************************************)
EXTENDS Naturals, FiniteSets, Functions

CONSTANTS
    Workers,       \* requests of the API in flight
    Students,
    MaxRows,       \* bound: ids of assignments
    MaxQuestions,  \* bound: ids of questions
    MaxRequests,   \* bound: requests of the API
    MaxItems,      \* bound: items of a request that creates
    MaxGiven       \* bound: questions given in a request

\* What happens beside students' submissions is noticed under a name of its own.
ASSUME NamesAssumption == "saved" \notin Students /\ "none" \notin Workers
ASSUME BoundsAssumption == MaxItems \in Nat /\ MaxGiven \in Nat

VARIABLES
    kind,      \* is it a homework, a project, a course or a campaign?
    rows,      \* the rows: their state, by id
    quests,    \* the questions: the id of their homework, by id
    subs,      \* the submissions: pairs of a student and a row
    answers,   \* the answers: pairs of a student and a question
    lastRow, lastQuest,    \* the ids given so far
    req,       \* the request each worker is in the middle of, or has replied to
    form,      \* the submission each student has under way: what it has read
    requests

data == <<rows, quests, subs, answers>>
ids == <<lastRow, lastQuest>>
vars == <<kind, data, ids, req, form, requests>>

States == {"CL", "OP", "SC"}
Keep == "keep"                  \* a payload without a state

Assignment == kind \in {"homework", "project"}
OneStates == {"CL", "OP"}       \* of a course or a campaign

Ops == {"none", "create", "patch", "delete", "put", "add", "qdelete", "qpatch"}
Steps == {"done", "item", "insert", "questions", "patch", "count", "delete",
          "create", "save", "commit", "qdelete", "qpatch"}
Request ==
    [op : Ops, at : Steps, row : Nat, quest : Nat, state : States,
     wanted : States \cup {Keep}, replaces : BOOLEAN, given : Nat, left : Nat,
     items : Nat, made : BOOLEAN,
     said : {"nothing", "ok", "refused", "failed", "died"},
     wrote : BOOLEAN, since : SUBSET (Students \cup {"saved"})]
Form == [row : Nat, quests : SUBSET Nat]

Idle == [op |-> "none", at |-> "done", row |-> 0, quest |-> 0, state |-> "CL",
         wanted |-> Keep, replaces |-> FALSE, given |-> 0, left |-> 0,
         items |-> 0, made |-> FALSE, said |-> "nothing",
         wrote |-> FALSE,       \* history: the request has changed a table
         since |-> {}]          \* history: what others did since it last checked
NoForm == [row |-> 0, quests |-> {}]
-----------------------------------------------------------------------------
(* Tables *)

QuestionsOf(r) == {q \in DOMAIN quests : quests[q] = r}

\* ensure_no_related_records_for_delete, of an assignment and of a question.
HasSubmissions(r) == \E s \in Students : <<s, r>> \in subs
HasAnswers(q) == \E s \in Students : <<s, q>> \in answers

MaySaveSecond(r) == r \in 1 .. MaxRows                        \* mutant
\* save(): an UPDATE, and an INSERT when it found no row; the pair of course
\* and slug is unique.
MaySave(r) == r \in DOMAIN rows \/ DOMAIN rows = {}
Saved(r, state) == [i \in DOMAIN rows \cup {r} |-> IF i = r THEN state ELSE rows[i]]

\* Question.objects.create, with the ids that are free.
WithQuestions(new, r) == [q \in DOMAIN quests \cup new |-> IF q \in new THEN r ELSE quests[q]]

\* homework_questions_replace_error: not closed, or submissions, or answers.
Blocked(r, state) ==
    \/ state # "CL"
    \/ HasSubmissions(r)
    \/ \E q \in QuestionsOf(r) : HasAnswers(q)

\* Deletion takes along what refers to the deleted.
DropQuestions(gone) ==
    /\ quests' = Restrict(quests, DOMAIN quests \ gone)
    /\ answers' = {a \in answers : a[2] \notin gone}

\* A row of an assignment that a transaction has written is locked, and so is
\* its slug, until the transaction ends.
RowFree(w) == \A v \in Workers \ {w} : req[v].at # "commit"

\* Other requests see that something was done (history).
Noticed(w, e) ==
    [v \in Workers |-> IF v = w \/ req[v].at = "done" THEN req[v]
                       ELSE [req[v] EXCEPT !.since = @ \cup {e}]]

Go(w, at) == req' = [req EXCEPT ![w] = [@ EXCEPT !.at = at]]
Replied(r, said) ==
    [Idle EXCEPT !.op = r.op, !.wanted = r.wanted, !.wrote = r.wrote,
                 !.since = r.since, !.said = said]
Reply(w, said) == req' = [req EXCEPT ![w] = Replied(@, said)]

Begin(w, r) ==
    /\ req[w].at = "done" /\ requests < MaxRequests
    /\ requests' = requests + 1
    /\ req' = [req EXCEPT ![w] = r]
    /\ UNCHANGED <<kind, data, ids, form>>
-----------------------------------------------------------------------------
(* Create: POST of one item, or of a list of assignments *)

CreateBegin(w, items, given) ==
    /\ Assignment
    /\ kind # "homework" => given = 0
    /\ Begin(w, [Idle EXCEPT !.op = "create", !.at = "item", !.items = items, !.given = given])

\* A course or a campaign, in the state given.
CreateOne(w, state) ==
    /\ ~Assignment
    /\ Begin(w, [Idle EXCEPT !.op = "create", !.at = "item", !.items = 1, !.state = state])

\* The next item, or the reply when there is none left: 201 if any was
\* created, else 400.
AfterItem(r) ==
    IF r.items > 1 THEN [r EXCEPT !.at = "item", !.items = @ - 1]
    ELSE Replied(r, IF r.made THEN "ok" ELSE "refused")

\* homework_create_slug: an item whose slug exists is an error of that item.
\* A course's slug is looked up too, a campaign's by full_clean.
CheckSlug(w) ==
    /\ req[w].at = "item"
    /\ IF DOMAIN rows # {} THEN req' = [req EXCEPT ![w] = AfterItem(@)]
       ELSE Go(w, "insert")
    /\ UNCHANGED <<kind, data, ids, form, requests>>

\* Homework.objects.create; a row that another request has created meanwhile
\* is an IntegrityError, which nothing handles: what was created stays.
InsertRow(w) ==
    /\ req[w].at = "insert" /\ RowFree(w)
    /\ IF DOMAIN rows # {}
       THEN Reply(w, "failed") /\ UNCHANGED <<data, ids>>
       ELSE /\ lastRow < MaxRows
            /\ lastRow' = lastRow + 1
            /\ rows' = [i \in {lastRow + 1} |-> req[w].state]
            /\ req' = [Noticed(w, "saved") EXCEPT
                  ![w] = [@ EXCEPT !.at = "questions", !.row = lastRow + 1,
                                   !.left = req[w].given, !.wrote = TRUE, !.made = TRUE]]
            /\ UNCHANGED <<quests, subs, answers, lastQuest>>
    /\ UNCHANGED <<kind, form, requests>>

\* create_question; the homework may be gone.
InsertQuestion(w) ==
    LET r == req[w] IN
    /\ r.at = "questions" /\ r.left > 0
    /\ IF r.row \notin DOMAIN rows
       THEN Reply(w, "failed") /\ UNCHANGED <<data, ids>>
       ELSE /\ lastQuest < MaxQuestions
            /\ lastQuest' = lastQuest + 1
            /\ quests' = WithQuestions({lastQuest + 1}, r.row)
            /\ req' = [req EXCEPT ![w] = [@ EXCEPT !.left = r.left - 1, !.wrote = TRUE, !.made = TRUE]]
            /\ UNCHANGED <<rows, subs, answers, lastRow>>
    /\ UNCHANGED <<kind, form, requests>>

QuestionsDone(w) ==
    /\ req[w].at = "questions" /\ req[w].left = 0
    /\ req' = [req EXCEPT ![w] = AfterItem(@)]
    /\ UNCHANGED <<kind, data, ids, form, requests>>
-----------------------------------------------------------------------------
(* Update: PATCH, by id or slug *)

PatchRow(w, wanted) ==
    \E r \in DOMAIN rows :
        Begin(w, [Idle EXCEPT !.op = "patch", !.at = "patch", !.row = r, !.wanted = wanted,
                              !.state = IF wanted = Keep THEN rows[r] ELSE wanted])

PatchBegin(w, wanted) == Assignment /\ PatchRow(w, wanted)

\* A course or a campaign.
PatchOne(w, wanted) == ~Assignment /\ PatchRow(w, wanted)

\* patch_instance_response: the whole row is saved as it was read.
PatchEnd(w) ==
    LET r == req[w] IN
    /\ r.at = "patch" /\ RowFree(w)
    /\ IF ~MaySave(r.row) THEN Reply(w, "failed") /\ UNCHANGED rows
       ELSE /\ rows' = Saved(r.row, r.state)
            /\ req' = [Noticed(w, "saved") EXCEPT ![w] = Replied([@ EXCEPT !.wrote = TRUE], "ok")]
    /\ UNCHANGED <<kind, quests, subs, answers, ids, form, requests>>
-----------------------------------------------------------------------------
(* Delete *)

\* The row is loaded and must be closed.
DeleteBegin(w) ==
    /\ Assignment
    /\ \E r \in DOMAIN rows :
          LET d == [Idle EXCEPT !.op = "delete", !.at = "count", !.row = r]
          IN  Begin(w, IF rows[r] = "CL" THEN d ELSE Replied(d, "refused"))

DeleteCountQuestions(w) ==                                   \* mutant
    /\ req[w].at = "count"
    /\ IF \E q \in QuestionsOf(req[w].row) : HasAnswers(q) THEN Reply(w, "refused")
       ELSE req' = [req EXCEPT ![w] = [@ EXCEPT !.at = "delete", !.since = req[w].since \ Students]]
    /\ UNCHANGED <<kind, data, ids, form, requests>>
\* No submissions must be there.
DeleteCount(w) ==
    /\ req[w].at = "count"
    /\ IF HasSubmissions(req[w].row) THEN Reply(w, "refused")
       ELSE req' = [req EXCEPT ![w] = [@ EXCEPT !.at = "delete", !.since = req[w].since \ Students]]
    /\ UNCHANGED <<kind, data, ids, form, requests>>

\* instance.delete(), which looks at neither again.
DeleteEnd(w) ==
    LET r == req[w].row IN
    /\ req[w].at = "delete" /\ RowFree(w)
    /\ rows' = Restrict(rows, DOMAIN rows \ {r})
    /\ subs' = {s \in subs : s[2] # r}
    /\ DropQuestions(QuestionsOf(r))
    /\ req' = [Noticed(w, "saved") EXCEPT ![w] = Replied([@ EXCEPT !.wrote = TRUE], "ok")]
    /\ UNCHANGED <<kind, ids, form, requests>>
-----------------------------------------------------------------------------
(* Upsert: PUT by slug *)

\* The state the row will be saved with.
StateOrClosed(r, wanted) == IF wanted = Keep THEN "CL" ELSE wanted   \* mutant
PutState(r, wanted) ==
    IF wanted # Keep THEN wanted ELSE IF r \in DOMAIN rows THEN rows[r] ELSE "CL"

NeverRefused(r, replaces) == FALSE                           \* mutant
\* validate_homework_questions, before anything is written.
RefusedAtOnce(r, replaces) == r \in DOMAIN rows /\ replaces /\ Blocked(r, rows[r])

\* Without a row the request creates one; the questions given are to replace
\* those there, which must be possible.
PutBegin(w, wanted, replaces, given) ==
    /\ Assignment
    /\ kind # "homework" => ~replaces
    /\ ~replaces => given = 0
    /\ LET new == DOMAIN rows = {}
           r == IF new THEN 0 ELSE CHOOSE i \in DOMAIN rows : TRUE
           p == [Idle EXCEPT !.op = "put", !.row = r, !.wanted = wanted,
                             !.state = PutState(r, wanted),
                             !.replaces = replaces, !.given = given,
                             !.at = IF kind # "homework" /\ new THEN "create" ELSE "save"]
       IN  Begin(w, IF RefusedAtOnce(r, replaces) THEN Replied(p, "refused") ELSE p)

\* create_project_from_upsert, a statement of its own.
PutCreate(w) ==
    /\ req[w].at = "create"
    /\ IF DOMAIN rows # {} THEN Reply(w, "failed") /\ UNCHANGED <<rows, lastRow>>
       ELSE /\ lastRow < MaxRows
            /\ lastRow' = lastRow + 1
            /\ rows' = [i \in {lastRow + 1} |-> "CL"]
            /\ req' = [Noticed(w, "saved") EXCEPT
                  ![w] = [@ EXCEPT !.at = "save", !.row = lastRow + 1, !.wrote = TRUE]]
    /\ UNCHANGED <<kind, quests, subs, answers, lastQuest, form, requests>>

\* The row is created or saved; then the state just given and the submissions
\* of now decide whether the questions may be replaced.  If they may not, the
\* error is returned and the transaction commits what it has saved.
PutSave(w) ==
    LET r == req[w]
        new == r.row = 0
        id == IF new THEN lastRow + 1 ELSE r.row
    IN
    /\ r.at = "save" /\ RowFree(w)
    /\ IF (new /\ DOMAIN rows # {}) \/ ~MaySave(id)
       THEN Reply(w, "failed") /\ UNCHANGED <<rows, lastRow>>
       ELSE /\ id <= MaxRows
            /\ IF r.replaces /\ ~Blocked(id, r.state)
               THEN /\ req' = [req EXCEPT ![w] = [@ EXCEPT !.at = "commit", !.since = req[w].since \ Students]]
                    /\ UNCHANGED <<rows, lastRow>>
               ELSE /\ rows' = Saved(id, r.state)
                    /\ lastRow' = IF new THEN id ELSE lastRow
                    /\ req' = [Noticed(w, "saved") EXCEPT
                          ![w] = Replied([@ EXCEPT !.wrote = TRUE],
                                         IF r.replaces THEN "refused" ELSE "ok")]
    /\ UNCHANGED <<kind, quests, subs, answers, lastQuest, form, requests>>

\* replace_homework_questions: all questions go, with the answers there are
\* by now, and those given come; the transaction ends.
PutCommit(w) ==
    LET r == req[w]
        new == r.row = 0
        id == IF new THEN lastRow + 1 ELSE r.row
        fresh == lastQuest + 1 .. lastQuest + r.given
        gone == QuestionsOf(id)
    IN
    /\ r.at = "commit" /\ lastQuest + r.given <= MaxQuestions
    /\ rows' = Saved(id, r.state)
    /\ lastRow' = IF new THEN id ELSE lastRow
    /\ quests' = [q \in (DOMAIN quests \ gone) \cup fresh |->
                    IF q \in fresh THEN id ELSE quests[q]]
    /\ answers' = {a \in answers : a[2] \notin gone}
    /\ lastQuest' = lastQuest + r.given
    /\ req' = [Noticed(w, "saved") EXCEPT ![w] = Replied([@ EXCEPT !.wrote = TRUE], "ok")]
    /\ UNCHANGED <<kind, subs, form, requests>>
-----------------------------------------------------------------------------
(* Questions *)

\* POST of questions, whatever the state of the homework.
AddBegin(w, given) ==
    /\ kind = "homework"
    /\ \E r \in DOMAIN rows :
          Begin(w, [Idle EXCEPT !.op = "add", !.at = "questions", !.row = r,
                                !.items = 1, !.left = given])

\* A question that has answers is not deleted, whatever the state.
QuestionDeleteBegin(w) ==
    \E q \in DOMAIN quests :
        LET d == [Idle EXCEPT !.op = "qdelete", !.at = "qdelete", !.quest = q]
        IN  Begin(w, IF HasAnswers(q) THEN Replied(d, "refused") ELSE d)

QuestionDeleteEnd(w) ==
    /\ req[w].at = "qdelete"
    /\ DropQuestions({req[w].quest})
    /\ req' = [req EXCEPT ![w] = Replied([@ EXCEPT !.wrote = TRUE], "ok")]
    /\ UNCHANGED <<kind, rows, subs, ids, form, requests>>

QuestionPatchBegin(w) ==
    \E q \in DOMAIN quests :
        Begin(w, [Idle EXCEPT !.op = "qpatch", !.at = "qpatch", !.quest = q, !.row = quests[q]])

\* question.save(): a question deleted meanwhile is inserted again, if its
\* homework is still there.
QuestionPatchEnd(w) ==
    LET r == req[w] IN
    /\ r.at = "qpatch"
    /\ IF r.row \notin DOMAIN rows THEN Reply(w, "failed") /\ UNCHANGED quests
       ELSE /\ quests' = WithQuestions({r.quest}, r.row)
            /\ req' = [req EXCEPT ![w] = Replied([@ EXCEPT !.wrote = TRUE], "ok")]
    /\ UNCHANGED <<kind, rows, subs, answers, ids, form, requests>>

\* The process of a request dies, or the database ends it to break a deadlock;
\* what it has committed stays.
Stop(w) ==
    /\ req[w].at # "done"
    /\ Reply(w, "died")
    /\ UNCHANGED <<kind, data, ids, form, requests>>
-----------------------------------------------------------------------------
(* Students *)

\* A submission is taken when the assignment is open, or the campaign active,
\* as read at the start, with the questions read then.
SubmitBegin(s) ==
    /\ form[s] = NoForm
    /\ kind # "course"
    /\ \E r \in DOMAIN rows :
          /\ rows[r] = "OP"
          /\ form' = [form EXCEPT ![s] = [row |-> r, quests |-> QuestionsOf(r)]]
    /\ UNCHANGED <<kind, data, ids, req, requests>>

\* The submission and an answer to each question, in one transaction, which
\* fails if the assignment or a question is gone.
SubmitEnd(s) ==
    LET f == form[s] IN
    /\ f # NoForm
    /\ IF f.row \in DOMAIN rows /\ f.quests \subseteq DOMAIN quests
       THEN /\ subs' = subs \cup {<<s, f.row>>}
            /\ answers' = answers \cup ({s} \X f.quests)
            /\ req' = Noticed("none", s)
       ELSE UNCHANGED <<subs, answers, req>>
    /\ form' = [form EXCEPT ![s] = NoForm]
    /\ UNCHANGED <<kind, rows, quests, ids, requests>>
-----------------------------------------------------------------------------
Init ==
    /\ kind \in {"homework", "project", "course", "campaign"}
    /\ rows \in {<<>>} \cup [{1} -> {"CL", "OP"}]
    /\ lastRow = Cardinality(DOMAIN rows)
    /\ quests = IF kind = "homework" THEN [q \in DOMAIN rows |-> 1] ELSE <<>>
    /\ lastQuest = Cardinality(DOMAIN quests)
    /\ subs = {} /\ answers = {}
    /\ req = [w \in Workers |-> Idle]
    /\ form = [s \in Students |-> NoForm]
    /\ requests = 0

Given == 0 .. MaxGiven

Next ==
    \/ \E w \in Workers :
          \/ \E items \in 1 .. MaxItems, given \in Given : CreateBegin(w, items, given)
          \/ \E state \in OneStates : CreateOne(w, state)
          \/ CheckSlug(w) \/ InsertRow(w) \/ InsertQuestion(w) \/ QuestionsDone(w)
          \/ \E wanted \in States \cup {Keep} : PatchBegin(w, wanted)
          \/ \E wanted \in OneStates \cup {Keep} : PatchOne(w, wanted)
          \/ PatchEnd(w)
          \/ DeleteBegin(w) \/ DeleteCount(w) \/ DeleteEnd(w)
          \/ \E wanted \in States \cup {Keep}, replaces \in BOOLEAN, given \in Given :
                PutBegin(w, wanted, replaces, given)
          \/ PutCreate(w) \/ PutSave(w) \/ PutCommit(w)
          \/ \E given \in Given \ {0} : AddBegin(w, given)
          \/ QuestionDeleteBegin(w) \/ QuestionDeleteEnd(w)
          \/ QuestionPatchBegin(w) \/ QuestionPatchEnd(w)
          \/ Stop(w)
    \/ \E s \in Students : SubmitBegin(s) \/ SubmitEnd(s)

Spec == Init /\ [][Next]_vars
-----------------------------------------------------------------------------
(* Properties *)

\* What the tables hold: one row of the slug, questions of a homework that is
\* there, submissions to a row that is there, and answers to questions that
\* are there by students who have submitted.
TypeOK ==
    /\ req \in [Workers -> Request]
    /\ form \in [Students -> Form]
    /\ lastRow \in Nat /\ lastQuest \in Nat
    /\ DOMAIN rows \subseteq 1 .. lastRow
    /\ \A i, r \in DOMAIN rows : i = r
    /\ \A r \in DOMAIN rows : rows[r] \in States
    /\ DOMAIN quests \subseteq 1 .. lastQuest
    /\ \A q \in DOMAIN quests : quests[q] \in DOMAIN rows
    /\ subs \subseteq Students \X DOMAIN rows
    /\ answers \subseteq Students \X DOMAIN quests
    /\ \A a \in answers : <<a[1], quests[a[2]]>> \in subs
    /\ kind # "homework" => DOMAIN quests = {}

\* A student loses a submission or an answer only to a deletion or a
\* replacement that had counted none before the student submitted, and an
\* open assignment goes only if it was opened after the deletion had begun.
LossKnown ==
    /\ \A s \in Students :
          (\E x \in (subs \ subs') \cup (answers \ answers') : x[1] = s) =>
              \E w \in Workers : req[w].at \in {"delete", "commit", "qdelete"}
                                 /\ req'[w].at = "done" /\ s \in req[w].since
    /\ \A r \in DOMAIN rows :
          rows[r] = "OP" /\ r \notin DOMAIN rows' =>
              \E w \in Workers : req[w].at = "delete" /\ req[w].row = r
                                 /\ req'[w].at = "done" /\ "saved" \in req[w].since
LossHasACause == [][LossKnown]_vars

\* A request that is answered with an error of the client's has changed
\* nothing, but for a PUT that gives a state other than closed, or that a
\* submission met between its two checks: the second check refuses, and what
\* was saved before it is committed.
RefusedChangesNothing ==
    \A w \in Workers :
        req[w].said = "refused" /\ req[w].wrote =>
            /\ req[w].op = "put"
            /\ req[w].wanted \notin {"CL", Keep} \/ req[w].since \cap Students # {}

\* The state changes to what the request that changes it asked for, and a row
\* comes back only by being created, unless another request saved or deleted
\* the row after this one had read it.
AsAsked ==
    \A w \in Workers :
        req[w].at \in {"patch", "save", "commit"} /\ req'[w].said \in {"ok", "refused"} =>
            \A r \in DOMAIN rows' :
                \/ r \in DOMAIN rows /\ rows'[r] = rows[r]
                \/ r \in DOMAIN rows /\ rows'[r] = req[w].wanted
                \/ r \notin DOMAIN rows /\ r = lastRow' /\ r > lastRow
                \/ "saved" \in req[w].since
StateAsAsked == [][AsAsked]_vars
=============================================================================
