----------------------------- MODULE PeerReview -----------------------------
(***************************************************************************)
(* One project of a course, from the moment it collects submissions to     *)
(* its completion: the rows of ProjectSubmission and PeerReview, the       *)
(* project row itself, and the web requests that read and write them.      *)
(*                                                                         *)
(* The application runs without ATOMIC_REQUESTS, and no operation of this  *)
(* lifecycle locks the project.  A request therefore has two steps: ...Begin *)
(* reads the project (and the rows it decides on) and ...End writes.       *)
(* Between the two, other requests run.  A staff request carries the whole *)
(* project row it has read, because Project.save() writes every column of  *)
(* that stale copy back.                                                   *)
(*                                                                         *)
(* A definition marked "mutant" is a plausible bug in the one it precedes: *)
(* nothing refers to it, it shows what the properties would catch.         *)
(***************************************************************************)
EXTENDS Naturals, FiniteSets, Draws

CONSTANTS
    Students,     \* users who submit, review and volunteer
    Tabs,         \* student requests that may be in flight together
    Staff,        \* staff requests (cadmin or API) in flight together
    NumPeers,     \* Project.number_of_peers_to_evaluate
    PatchFields,  \* project columns the API's PATCH and PUT are used for
    MaxRows,      \* bound: ProjectSubmission rows ever created
    MaxCopies,    \* bound: PeerReview rows with equal ends
    MaxTime       \* bound: clock ticks

ASSUME NumPeersAssumption == NumPeers \in Nat \ {0}
ASSUME BoundsAssumption ==
    /\ MaxRows \in Nat
    /\ MaxCopies \in Nat \ {0}
    /\ MaxTime \in Nat
ASSUME PatchAssumption ==
    PatchFields \subseteq
        {"title", "state", "submission_due_date", "peer_review_due_date"}

VARIABLES
    project,   \* the Project row
    subs,      \* the ProjectSubmission rows
    reviews,   \* the PeerReview rows
    nextId,    \* the next ProjectSubmission primary key
    req,       \* what each request in flight has read
    now,       \* the clock: one tick is longer than any request
    opened,    \* history: the tick of the last assignment of reviews
    amiss      \* history: what staff and API requests have done to each other

vars == <<project, subs, reviews, nextId, req, now, opened, amiss>>

ProjectStates == {"CL", "CS", "PR", "CO"}
Times == 0 .. MaxTime + 1
ReviewWindow == 1     \* PEER_REVIEW_WINDOW, in ticks
SubIds == 1 .. MaxRows
NoId == 0

ProjectRow == [state : ProjectStates,
               submission_due_date : Times,
               peer_review_due_date : Times]
SubRow == [id : SubIds, student : Students, volunteer : BOOLEAN,
           enough : BOOLEAN]
SubInstance == [id : SubIds \cup {NoId}, student : Students,
                volunteer : BOOLEAN, enough : BOOLEAN]
ReviewKey == [under : SubIds, reviewer : SubIds, optional : BOOLEAN,
              copy : 1 .. MaxCopies]
ReviewRow == [key : ReviewKey, submitted : BOOLEAN]

Idle == [op |-> "idle"]
StudentRequest ==
    {Idle}
    \cup [op : {"submit"}, row : SubInstance]
    \cup [op : {"delete"}, student : Students]
    \cup [op : {"add"}, student : Students, id : SubIds \cup {NoId},
          target : SubIds, found : BOOLEAN]
    \cup [op : {"review"}, key : ReviewKey]
StaffRequest ==
    {Idle}
    \cup [op : {"assign", "score", "extend"}, project : ProjectRow]
    \cup [op : {"patch"}, project : ProjectRow, field : PatchFields]

\* "again": reviews assigned, or scores given, by a request that has read
\* the project in another state than it has by then; "state": the state
\* changed by a save of the API; "dates": the review date changed by such a
\* save, or computed by an extension of a project that had another state.
Causes == {"again", "state", "dates"}
Spared(causes) == amiss \cap causes = {}

-----------------------------------------------------------------------------
(* Queries *)

Ids == {x.id : x \in subs}
Real(s) == {x \in subs : x.student = s /\ ~x.volunteer}
Placeholders(s) == {x \in subs : x.student = s /\ x.volunteer}

\* .first() of a queryset without an order: the row with the lowest key.
FirstId(rows) ==
    IF rows = {} THEN NoId
    ELSE CHOOSE i \in {x.id : x \in rows} : \A x \in rows : i <= x.id

\* The mandatory reviews a submission row owes, and those handed in.
Owed(i) == {r \in reviews : r.key.reviewer = i /\ ~r.key.optional}
HandedIn(i) == {r \in Owed(i) : r.submitted}

Keys == {r.key : r \in reviews}

\* on_delete=CASCADE: a deleted submission takes its reviews along.
WithoutSubject(i) == {r \in reviews : r.key.under # i}    \* mutant
Without(i) == {r \in reviews : r.key.under # i /\ r.key.reviewer # i}

\* A ProjectSubmission instance that has no row yet.
Unsaved(s, v) == [id |-> NoId, student |-> s, volunteer |-> v,
                  enough |-> FALSE]

\* Model.save(): an instance without a key is inserted under the next one;
\* any other replaces all columns of its row, and is inserted again if the
\* row is gone.
Key(inst) == IF inst.id = NoId THEN nextId ELSE inst.id
Saved(inst) == {x \in subs : x.id # Key(inst)}
               \cup {[inst EXCEPT !.id = Key(inst)]}
SaveSub(inst) ==
    /\ Key(inst) \in SubIds
    /\ subs' = Saved(inst)
    /\ nextId' = IF inst.id = NoId THEN nextId + 1 ELSE nextId

Receive(t, r) == /\ req[t] = Idle
                 /\ req' = [req EXCEPT ![t] = r]
Respond(t) == req' = [req EXCEPT ![t] = Idle]

-----------------------------------------------------------------------------
(* A student submits or updates the project: handle_project_post checks    *)
(* the state and project_submission_for_update picks the row; saving comes *)
(* after full_clean(), which fetches the repository URL over the network.  *)

AcceptingSubmissions == project.state = "CS"

SubmitBegin(t, s) ==
    /\ AcceptingSubmissions
    /\ \E inst \in (IF Real(s) = {} THEN {Unsaved(s, FALSE)}
                     ELSE {x \in subs : x.id = FirstId(Real(s))}) :
           Receive(t, [op |-> "submit", row |-> inst])
    /\ UNCHANGED <<project, subs, reviews, nextId, now, opened, amiss>>

SubmitEnd(t) ==
    /\ req[t].op = "submit"
    /\ Respond(t)
    /\ \/ SaveSub(req[t].row)
       \/ UNCHANGED <<subs, nextId>>     \* ValidationError: nothing is saved
    /\ UNCHANGED <<project, reviews, now, opened, amiss>>

(* The student deletes the submission (action=delete of the same form). *)
DeleteBegin(t, s) ==
    /\ AcceptingSubmissions
    /\ Receive(t, [op |-> "delete", student |-> s])
    /\ UNCHANGED <<project, subs, reviews, nextId, now, opened, amiss>>

DeleteEnd(t) ==
    /\ req[t].op = "delete"
    /\ Respond(t)
    /\ LET i == FirstId(Real(req[t].student)) IN
       /\ subs' = {x \in subs : x.id # i}
       /\ reviews' = Without(i)
    /\ UNCHANGED <<project, nextId, now, opened, amiss>>

-----------------------------------------------------------------------------
(* A student picks a further submission to review (projects_eval_add): the *)
(* project's state is not looked at.  Whoever has no submission gets a     *)
(* placeholder row with volunteer_review_only; two placeholders make       *)
(* get_or_create raise, so the request never gets to its second step.      *)

ReviewerChoices(s) ==
    IF Real(s) # {} THEN {FirstId(Real(s))}
    ELSE IF Placeholders(s) = {} THEN {NoId}
    ELSE IF Cardinality(Placeholders(s)) = 1 THEN {FirstId(Placeholders(s))}
    ELSE {}

OptionalKey(under, i, n) == [under |-> under, reviewer |-> i,
                             optional |-> TRUE, copy |-> n]
Picked(under, i) ==
    {r \in reviews : /\ r.key.under = under /\ r.key.reviewer = i
                     /\ r.key.optional}

AddReviewBegin(t, s, target) ==
    /\ \E i \in ReviewerChoices(s) :
           Receive(t, [op |-> "add", student |-> s, id |-> i,
                       target |-> target, found |-> Picked(target, i) # {}])
    /\ UNCHANGED <<project, subs, reviews, nextId, now, opened, amiss>>

\* add_optional_project_review: the submission must be there and not be the
\* reviewer's own; a reviewer's row that is gone breaks the foreign key.
MayReview(i, target) ==
    /\ i # target
    /\ \E x \in subs : x.id = target /\ ~x.volunteer
    /\ i = NoId \/ i \in Ids

\* get_or_create, with no unique constraint behind it: a request that has
\* looked before another has created the same review creates a second one.
FreeCopies(under, i) ==
    {n \in 1 .. MaxCopies : OptionalKey(under, i, n) \notin Keys}
WithReview(under, i) ==
    reviews \cup {[key |-> OptionalKey(under, i, n), submitted |-> FALSE] :
                      n \in {m \in FreeCopies(under, i) :
                               \A k \in FreeCopies(under, i) : m <= k}}

\* The placeholder stays even when the submission to review is gone.
AddReviewEnd(t) ==
    /\ req[t].op = "add"
    /\ Respond(t)
    /\ LET r == req[t]
           inst == [Unsaved(r.student, TRUE) EXCEPT !.id = r.id]
       IN /\ IF r.id = NoId THEN SaveSub(inst)
             ELSE UNCHANGED <<subs, nextId>>
          /\ \/ /\ MayReview(r.id, r.target)
                /\ ~r.found \/ Picked(r.target, Key(inst)) = {}
                /\ reviews' = WithReview(r.target, Key(inst))
             \/ /\ \/ ~MayReview(r.id, r.target)
                   \/ r.found \/ Picked(r.target, Key(inst)) # {}
                /\ UNCHANGED reviews
    /\ UNCHANGED <<project, now, opened, amiss>>

(* projects_eval_delete: works only for a student with exactly one row in  *)
(* the project, whatever its volunteer flag; removes an optional review.   *)
DropReview(s, r) ==
    /\ Cardinality(Real(s) \cup Placeholders(s)) = 1
    /\ r.key.optional
    /\ r.key.reviewer = FirstId(Real(s) \cup Placeholders(s))
    /\ reviews' = reviews \ {r}
    /\ UNCHANGED <<project, subs, nextId, req, now, opened, amiss>>

(* A reviewer hands in a review (projects_eval_submit); the form stays     *)
(* open for changes while the project is in peer review.                   *)
ReviewBegin(t, r) ==
    /\ project.state = "PR"
    /\ Receive(t, [op |-> "review", key |-> r.key])
    /\ UNCHANGED <<project, subs, reviews, nextId, now, opened, amiss>>

\* Saving the criteria responses of a deleted review fails: nothing stays.
ReviewEnd(t) ==
    /\ req[t].op = "review"
    /\ Respond(t)
    /\ reviews' = {IF r.key = req[t].key THEN [r EXCEPT !.submitted = TRUE]
                   ELSE r : r \in reviews}
    /\ UNCHANGED <<project, subs, nextId, now, opened, amiss>>

-----------------------------------------------------------------------------
(* Staff requests.  Each loads the project (get_object_or_404) before it   *)
(* does anything; a request whose precondition fails writes nothing and is *)
(* left out.  Time does not pass a deadline while a request is in flight,  *)
(* so the deadline is compared in the first step.                          *)

Load(f, op) == Receive(f, [op |-> op, project |-> project])

\* The project has moved on to another state since the request read it.
Belated(f, cause) ==
    IF req[f].project.state = project.state THEN {} ELSE {cause}

AssignBeginAgain(f) ==                                       \* mutant
    /\ project.state \in {"CS", "PR"}
    /\ project.submission_due_date <= now
    /\ Load(f, "assign")
    /\ UNCHANGED <<project, subs, reviews, nextId, now, opened, amiss>>
AssignBegin(f) ==
    /\ project.state = "CS"
    /\ project.submission_due_date <= now
    /\ Load(f, "assign")
    /\ UNCHANGED <<project, subs, reviews, nextId, now, opened, amiss>>

\* select_random_assignment: every row reviews NumPeers other rows.
Assignments(ids) == Draws(ids, NumPeers)

MandatoryKey(under, i) ==
    [under |-> under, reviewer |-> i, optional |-> FALSE,
     copy |-> 1 + Cardinality({r \in Owed(i) : r.key.under = under})]

NewReviews(a) ==
    UNION {{[key |-> MandatoryKey(u, i), submitted |-> FALSE] : u \in a[i]} :
              i \in DOMAIN a}

\* _open_peer_review_window, on the project read earlier.
OpenedFromDueDate(stale) ==                                  \* mutant
    [stale EXCEPT !.state = "PR", !.peer_review_due_date = @ + ReviewWindow]
OpenedKeepingDate(stale) == [stale EXCEPT !.state = "PR"]      \* mutant
Opened(stale) == [stale EXCEPT !.state = "PR",
                               !.peer_review_due_date = now + ReviewWindow]

\* The submissions are queried only now, and placeholders are among them.
AssignEnd(f) ==
    /\ req[f].op = "assign"
    /\ Respond(f)
    /\ IF Cardinality(Ids) <= NumPeers
       THEN UNCHANGED <<project, reviews, opened, amiss>>
       ELSE \E a \in Assignments(Ids) :
              /\ \A r \in NewReviews(a) : r.key.copy <= MaxCopies
              /\ reviews' = reviews \cup NewReviews(a)
              /\ project' = Opened(req[f].project)
              /\ opened' = now
              /\ amiss' = amiss \cup Belated(f, "again")
    /\ UNCHANGED <<subs, nextId, now>>

ScoreBegin(f) ==
    /\ project.state = "PR"
    /\ project.peer_review_due_date <= now
    /\ Load(f, "score")
    /\ UNCHANGED <<project, subs, reviews, nextId, now, opened, amiss>>

\* assign_peer_review_scores: optional reviews earn no credit.
ReviewedEnough(i) == Cardinality(HandedIn(i)) >= NumPeers

\* Only the submissions some review is about are scored.
UnderEvaluation == {r.key.under : r \in reviews}

ScoredOwed ==                                                \* mutant
    {IF x.id \in UnderEvaluation
     THEN [x EXCEPT !.enough = Owed(x.id) # {}] ELSE x : x \in subs}
Scored == {IF x.id \in UnderEvaluation
           THEN [x EXCEPT !.enough = ReviewedEnough(x.id)] ELSE x : x \in subs}

ScoreEnd(f) ==
    /\ req[f].op = "score"
    /\ Respond(f)
    /\ IF reviews = {}
       THEN UNCHANGED <<project, subs, amiss>>
       ELSE /\ subs' = Scored
            /\ project' = [req[f].project EXCEPT !.state = "CO"]
            /\ amiss' = amiss \cup Belated(f, "again")
    /\ UNCHANGED <<reviews, nextId, now, opened>>

(* project_extend_deadline saves with update_fields: the state and the     *)
(* other columns of the stale copy do not reach the database.              *)
ExtendBegin(f) ==
    /\ project.state \in {"CS", "PR"}
    /\ project.submission_due_date <= MaxTime      \* bound on the dates
    /\ project.peer_review_due_date <= MaxTime
    /\ Load(f, "extend")
    /\ UNCHANGED <<project, subs, reviews, nextId, now, opened, amiss>>

Extended(stale) ==
    IF stale.state = "CS"
    THEN [project EXCEPT
            !.submission_due_date = stale.submission_due_date + 1,
            !.peer_review_due_date = stale.peer_review_due_date + 1]
    ELSE [project EXCEPT
            !.peer_review_due_date = stale.peer_review_due_date + 1]

ExtendEnd(f) ==
    /\ req[f].op = "extend"
    /\ Respond(f)
    /\ project' = Extended(req[f].project)
    /\ amiss' = amiss \cup Belated(f, "dates")
    /\ UNCHANGED <<subs, reviews, nextId, now, opened>>

(* PATCH and PUT of the API set the supplied fields on the project read    *)
(* earlier and save all of it.  "title" stands for a column this model     *)
(* leaves out.                                                             *)
PatchBegin(f, field) ==
    /\ Receive(f, [op |-> "patch", project |-> project, field |-> field])
    /\ UNCHANGED <<project, subs, reviews, nextId, now, opened, amiss>>

Patched(stale, field) ==
    IF field = "title" THEN {stale}
    ELSE {p \in ProjectRow :
            \A c \in DOMAIN p \ {field} : p[c] = stale[c]}

PatchEnd(f) ==
    /\ req[f].op = "patch"
    /\ Respond(f)
    /\ \E p \in Patched(req[f].project, req[f].field) :
         /\ project' = p
         /\ amiss' = amiss
                \cup (IF p.state = project.state THEN {} ELSE {"state"})
                \cup (IF p.peer_review_due_date = project.peer_review_due_date
                      THEN {} ELSE {"dates"})
    /\ UNCHANGED <<subs, reviews, nextId, now, opened>>

-----------------------------------------------------------------------------
(* A tick of the clock is longer than the life of a request, so none is in *)
(* flight when it happens.                                                 *)
Tick ==
    /\ now < MaxTime
    /\ \A p \in Tabs \cup Staff : req[p] = Idle
    /\ now' = now + 1
    /\ UNCHANGED <<project, subs, reviews, nextId, req, opened, amiss>>

(* A project that is open for submissions until the first tick.  Nothing   *)
(* orders the two dates: the review date may be a leftover.                *)
Init ==
    /\ project \in [state : {"CS"}, submission_due_date : {0},
                    peer_review_due_date : {0, 1}]
    /\ subs = {}
    /\ reviews = {}
    /\ nextId = 1
    /\ req = [p \in Tabs \cup Staff |-> Idle]
    /\ now = 0
    /\ opened = 0
    /\ amiss = {}

StudentNext ==
    \E t \in Tabs :
        \/ \E s \in Students :
              \/ SubmitBegin(t, s)
              \/ DeleteBegin(t, s)
              \/ \E target \in Ids : AddReviewBegin(t, s, target)
        \/ \E r \in reviews : ReviewBegin(t, r)
        \/ SubmitEnd(t)
        \/ DeleteEnd(t)
        \/ AddReviewEnd(t)
        \/ ReviewEnd(t)

StaffNext ==
    \E f \in Staff :
        \/ AssignBegin(f)
        \/ AssignEnd(f)
        \/ ScoreBegin(f)
        \/ ScoreEnd(f)
        \/ ExtendBegin(f)
        \/ ExtendEnd(f)
        \/ \E field \in PatchFields : PatchBegin(f, field)
        \/ PatchEnd(f)

Next ==
    \/ StudentNext
    \/ \E s \in Students, r \in reviews : DropReview(s, r)
    \/ StaffNext
    \/ Tick

Spec == Init /\ [][Next]_vars

-----------------------------------------------------------------------------
(* Properties *)

TypeOK ==
    /\ project \in ProjectRow
    /\ subs \subseteq SubRow
    /\ reviews \subseteq ReviewRow
    /\ nextId \in 1 .. MaxRows + 1
    /\ req \in [Tabs \cup Staff -> StudentRequest \cup StaffRequest]
    /\ now \in 0 .. MaxTime
    /\ opened \in 0 .. MaxTime
    /\ amiss \subseteq Causes

\* Both ends of a review are rows of the project, and different ones:
\* neither the draw of the assignment nor a student picking a further
\* project, racing with deletions and with saves that re-insert a deleted
\* row, makes a row review itself or leaves a review without its rows.
ReviewsJoinTwoRows ==
    \A r \in reviews :
        /\ r.key.under \in Ids
        /\ r.key.reviewer \in Ids
        /\ r.key.under # r.key.reviewer

\* However many staff and API requests overlap, reviews are assigned once
\* unless two assignments overlapped or the API changed the state: no row
\* owes more than number_of_peers_to_evaluate mandatory reviews, or one of
\* them twice.
AssignedOnce ==
    Spared({"again", "state"}) =>
        \A i \in Ids :
            /\ Cardinality(Owed(i)) <= NumPeers
            /\ \A r, q \in Owed(i) : r.key.under = q.key.under => r = q

\* In a completed project, reviewed_enough_peers is backed by the reviews on
\* record: a submission that counts as having reviewed enough peers has
\* handed in number_of_peers_to_evaluate mandatory reviews.  Overlapping
\* assignments and overlapping scorings do not change that; a state or a
\* review date that is set over what others have done does.
CreditIsBacked ==
    /\ project.state = "CO"
    /\ Spared({"state", "dates"})
    => \A x \in subs : x.enough => ReviewedEnough(x.id)

\* Assigning the reviews gives the reviewers a full window: while the
\* project is in peer review its review date is at least the window away
\* from the last assignment, however assignments, scorings, extensions and
\* saves of the API overlap, unless one of these set the date, or computed
\* it from the dates before the assignment.
FullReviewWindow ==
    /\ project.state = "PR"
    /\ Spared({"state", "dates"})
    => project.peer_review_due_date >= opened + ReviewWindow

-----------------------------------------------------------------------------
(* The project as a round of peer review. *)

Phase == [CL |-> "closed", CS |-> "collecting", PR |-> "reviewing",
          CO |-> "completed"]

Round == INSTANCE ReviewRound WITH
    Workers <- SubIds,
    Quota <- NumPeers,
    phase <- Phase[project.state],
    roster <- {i \in Ids : Owed(i) # {}},
    credited <- {x.id : x \in {y \in subs : y.enough}},
    void <- amiss # {}

\* The rows and requests implement a round: it opens once for a roster
\* larger than the quota, loses members only to submissions withdrawn too
\* late, and credits on completion nobody outside the roster.  The round is
\* void from the moment a request has assigned or scored again, or the API
\* or a belated extension has set the state or the review date.
ImplementsRound == Round!RoundSpec

=============================================================================
