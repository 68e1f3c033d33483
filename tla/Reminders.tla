------------------------------ MODULE Reminders ------------------------------
(***************************************************************************)
(* The reminders of deadlines.  A scheduled command looks for deadlines on *)
(* certain UTC days ahead, computes who still owes the work, one kind of   *)
(* work after the other, builds all its events from that, and then sends   *)
(* one list after the other to the mail service, whatever becomes of the   *)
(* earlier ones.  The mail service passes over those who have opted out.   *)
(* Learners go on working and staff go on moving deadlines while it runs;  *)
(* it may run again on the same day, overlap itself, or die.  Each send    *)
(* leaves a row in the audit.  The mail service reports on its mails with  *)
(* callbacks, each of them once or several times.                          *)
(*                                                                         *)
(* One homework and one project of one course.  Every learner has an       *)
(* e-mail address; the others are left out by the code.  Definitions       *)
(* marked "mutant" are plausible bugs, referred to by nothing.             *)
(***************************************************************************)
EXTENDS Naturals, FiniteSets, Sequences

CONSTANTS
    Learners,
    Runs,          \* runs of send_deadline_reminders
    Callers,       \* requests of the webhook that may run side by side
    Ticks,         \* instants in a UTC day
    WeekAhead,     \* days ahead of the "7d" reminder, 8 in the code
    FirstDue,      \* the deadlines at first, by kind
    MovedDue,      \* what deadlines are moved to
    ReviewDays,    \* peer_review_due_date: days after the assignment
    MaxTime,       \* bound: the last instant
    MaxChanges,    \* bound: changes of the course
    MaxRuns,       \* bound: runs started
    MaxCallbacks   \* bound: callbacks delivered

ASSUME LearnersAssumption == IsFiniteSet(Learners)
ASSUME TimesAssumption ==
    /\ Ticks \in Nat \ {0} /\ WeekAhead \in Nat \ {0, 1}
    /\ ReviewDays \in Nat /\ MaxTime \in Nat
    /\ FirstDue \in [{"homework", "project", "review"} -> Nat]
    /\ MovedDue \subseteq Nat

VARIABLES
    now,
    due,        \* the deadline of each kind
    homework,   \* Homework.state
    project,    \* Project.state
    enrolled,
    submitted,  \* who has submitted the homework, and who the project
    volunteers, \* who has a placeholder (volunteer_review_only) of a submission
    reviewing,  \* who has a mandatory review to do
    run,        \* what each run of the command is in the middle of
    optedOut,   \* Datamailer: whom it does not deliver to, by wish or suppression
    mails,      \* Datamailer: the mails it has sent out
    skipped,    \* Datamailer: the mails it has not made, as nobody may get them
    audit,      \* DatamailerSendAudit, by the key of the event
    contact,    \* DatamailerContactEvent, by the mail it reports on
    hook,       \* the requests of the webhook
    changes, started, delivered,
    counted     \* history: callbacks recorded, by mail

course == <<due, homework, project, enrolled, submitted, volunteers, reviewing>>
command == <<run, mails, skipped, audit, started>>
webhook == <<contact, hook, delivered, counted>>
vars == <<now, course, optedOut, command, webhook, changes>>

Kinds == {"homework", "project", "review"}
Times == 0 .. MaxTime
Day(t) == t \div Ticks

-----------------------------------------------------------------------------
(* What is due, and who owes it *)

\* reminder_window, is_within_window: the whole of a UTC day ahead.
DueForReminder(t, day, reminder) ==
    Day(t) = day + (IF reminder = "24h" THEN 1 ELSE WeekAhead)

RemindersOf(kind) == IF kind = "project" THEN {"24h", "7d"} ELSE {"24h"}

Active(kind) == CASE kind = "homework" -> homework = "OP"
                  [] kind = "project" -> project = "CS"
                  [] OTHER -> project = "PR"

\* pending_homework_enrollments, pending_project_submission_enrollments (of
\* which a placeholder is none) and pending_peer_review_submissions.
PendingHomework == enrolled \ submitted.homework

PendingSubmissionVolunteersToo ==                            \* mutant
    enrolled \ (submitted.project \cup volunteers)
PendingSubmission == enrolled \ submitted.project

PendingReview == submitted.project \cap reviewing

Pending == [homework |-> PendingHomework, project |-> PendingSubmission,
            review |-> PendingReview]

EventKeyOfTheDay(kind, reminder) == <<kind, reminder, Day(now)>>   \* mutant
\* reminder_event_key: neither the time nor the deadline is part of it.
EventKey(kind, reminder) == <<kind, reminder, 0>>

\* build_reminder_event
Event(kind, reminder) == [key |-> EventKey(kind, reminder), members |-> Pending[kind]]

\* matching_reminder_key: the days ahead differ, so at most one.
Matching(kind, day) ==
    {reminder \in RemindersOf(kind) : DueForReminder(due[kind], day, reminder)}

\* homework_events and its like: what is due that somebody gets.
EventsOf(kind, day) ==
    IF Active(kind) /\ Matching(kind, day) # {} /\ Pending[kind] # {}
    THEN << Event(kind, CHOOSE reminder \in Matching(kind, day) : TRUE) >>
    ELSE << >>

-----------------------------------------------------------------------------
(* The course goes on *)

Before == delivered = 0   \* bound, see CallbackBound

Change == Before /\ changes < MaxChanges /\ changes' = changes + 1
          /\ UNCHANGED <<now, optedOut, command, webhook>>

Enroll(l) ==
    /\ Change
    /\ l \notin enrolled
    /\ enrolled' = enrolled \cup {l}
    /\ UNCHANGED <<due, homework, project, submitted, volunteers, reviewing>>

SubmitHomework(l) ==
    /\ Change
    /\ homework = "OP"
    /\ l \notin submitted.homework
    /\ enrolled' = enrolled \cup {l}
    /\ submitted' = [submitted EXCEPT !.homework = @ \cup {l}]
    /\ UNCHANGED <<due, homework, project, volunteers, reviewing>>

\* A placeholder the learner has becomes neither a submission nor goes.
SubmitProject(l) ==
    /\ Change
    /\ project = "CS"
    /\ l \notin submitted.project
    /\ enrolled' = enrolled \cup {l}
    /\ submitted' = [submitted EXCEPT !.project = @ \cup {l}]
    /\ UNCHANGED <<due, homework, project, volunteers, reviewing>>

DeleteProject(l) ==
    /\ Change
    /\ project = "CS"
    /\ l \in submitted.project
    /\ submitted' = [submitted EXCEPT !.project = @ \ {l}]
    /\ UNCHANGED <<due, homework, project, enrolled, volunteers, reviewing>>

\* projects_eval_add, of a learner without a submission.
Volunteer(l) ==
    /\ Change
    /\ project \in {"CS", "PR"}
    /\ l \notin volunteers \cup submitted.project
    /\ volunteers' = volunteers \cup {l}
    /\ enrolled' = enrolled \cup {l}
    /\ UNCHANGED <<due, homework, project, submitted, reviewing>>

\* assign_peer_reviews_for_project: everybody with a row gets reviews.
AssignReviews ==
    /\ Change
    /\ project = "CS"
    /\ submitted.project \cup volunteers # {}
    /\ project' = "PR"
    /\ reviewing' = submitted.project \cup volunteers
    /\ due' = [due EXCEPT !.review = now + ReviewDays * Ticks]
    /\ UNCHANGED <<homework, enrolled, submitted, volunteers>>

\* The last of the mandatory reviews of a learner is handed in.
FinishReviews(l) ==
    /\ Change
    /\ project = "PR"
    /\ l \in reviewing
    /\ reviewing' = reviewing \ {l}
    /\ UNCHANGED <<due, homework, project, enrolled, submitted, volunteers>>

ScoreHomework ==
    /\ Change
    /\ homework = "OP"
    /\ due.homework < now
    /\ homework' = "SC"
    /\ UNCHANGED <<due, project, enrolled, submitted, volunteers, reviewing>>

CompleteProject ==
    /\ Change
    /\ project = "PR"
    /\ project' = "CO"
    /\ UNCHANGED <<due, homework, enrolled, submitted, volunteers, reviewing>>

MoveDeadline(kind, t) ==
    /\ Change
    /\ t # due[kind]
    /\ due' = [due EXCEPT ![kind] = t]
    /\ UNCHANGED <<homework, project, enrolled, submitted, volunteers, reviewing>>

Tick ==
    /\ Before
    /\ now < MaxTime
    /\ now' = now + 1
    /\ UNCHANGED <<course, optedOut, command, webhook, changes>>

\* Somebody unsubscribes, bounces or comes back: the settings are Datamailer's
\* own, the platform builds its lists without a look at them.
OptOut(l) ==
    /\ Before /\ changes < MaxChanges /\ changes' = changes + 1
    /\ optedOut' = IF l \in optedOut THEN optedOut \ {l} ELSE optedOut \cup {l}
    /\ UNCHANGED <<now, course, command, webhook>>

-----------------------------------------------------------------------------
(* The command *)

NoRow == [status |-> "none"]
Resting == [at |-> "rest", events |-> << >>, failed |-> {}]

\* Who has not done what is due: history, for the properties only.
Owed == [homework |-> {l \in enrolled : homework = "OP" /\ l \notin submitted.homework},
         project |-> {l \in enrolled : project = "CS" /\ l \notin submitted.project},
         review |-> {l \in submitted.project : project = "PR" /\ l \in reviewing}]
Owing(kind, day) == {[key |-> <<kind, reminder>>, learner |-> l] :
                        reminder \in Matching(kind, day), l \in Owed[kind]}

\* handle: the clock is read once, for all kinds.
StartRun(r) ==
    /\ Before
    /\ run[r].at = "rest"
    /\ started < MaxRuns
    /\ started' = started + 1
    /\ run' = [run EXCEPT ![r] =
                  [at |-> "homework", day |-> Day(now), events |-> << >>, failed |-> {},
                   outcome |-> "accepted", row |-> NoRow, owing |-> {}]]
    /\ UNCHANGED <<now, course, optedOut, mails, skipped, audit, webhook, changes>>

AfterKind == [homework |-> "project", project |-> "review", review |-> "sending"]

\* build_reminder_events: one kind after the other, and all of them before
\* the first event is sent.  The deadlines of a kind and those who owe the
\* work are read as one.
LookUp(r) ==
    LET kind == run[r].at
        day == run[r].day
    IN  /\ kind \in Kinds
        /\ run' = [run EXCEPT ![r] = [@ EXCEPT
                      !.at = AfterKind[kind], !.events = run[r].events \o EventsOf(kind, day),
                      !.owing = run[r].owing \cup Owing(kind, day)]]
        /\ UNCHANGED <<now, course, optedOut, mails, skipped, audit, started, webhook, changes>>

\* Datamailer appends the recipient to the key and sends each but once ...
Recipients(event) == {[key |-> event.key, learner |-> l] : l \in event.members}
\* ... and makes none for those it does not deliver to.
ToSkip(event) == {m \in Recipients(event) \ mails : m.learner \in optedOut}

AuditStatusSucceeded(outcome) == "succeeded"                 \* mutant
\* datamailer_audit_status: any error, a timeout too, is a failure.
AuditStatus(outcome) ==
    IF outcome \in {"lost", "unavailable"} THEN "failed" ELSE "succeeded"

\* datamailer_send_counts: none without an answer, but for the intended.  The
\* number it has queued (enqueued_count) is copied as well, and left out here.
Counts(event, answered) ==
    LET Number(S) == IF answered THEN Cardinality(S) ELSE 0
    IN  [intended |-> Cardinality(event.members),
         created |-> Number(Recipients(event) \ (mails \cup ToSkip(event))),
         replayed |-> Number(Recipients(event) \cap mails),
         skipped |-> Number(ToSkip(event))]

\* record_datamailer_send_audit: a row for each key, overwritten by later
\* sends.
AuditRow(event, outcome) ==
    [status |-> AuditStatus(outcome), counts |-> Counts(event, outcome = "accepted")]

\* send_to_transient_list.  "lost": mailed, and the answer did not come; in
\* "unavailable" nothing was mailed.
SendEvent(r, outcome) ==
    LET event == Head(run[r].events)
        done == outcome # "unavailable"
    IN  /\ run[r].at = "sending"
        /\ run[r].events # << >>
        /\ mails' = mails \cup (IF done THEN Recipients(event) \ ToSkip(event) ELSE {})
        /\ skipped' = skipped \cup (IF done THEN ToSkip(event) ELSE {})
        /\ run' = [run EXCEPT ![r] = [@ EXCEPT
                      !.at = "answered", !.outcome = outcome, !.row = AuditRow(event, outcome)]]
        /\ UNCHANGED <<now, course, optedOut, audit, started, webhook, changes>>

\* The next event is sent whether this one failed or not.
EventsLeft(r) == Tail(run[r].events)

\* The rest of send_events for an event: the audit; a failure is remembered.
AuditEvent(r) ==
    LET key == Head(run[r].events).key
    IN  /\ run[r].at = "answered"
        /\ audit' = [k \in DOMAIN audit \cup {key} |->
                        IF k = key THEN run[r].row ELSE audit[k]]
        /\ run' = [run EXCEPT ![r] = [@ EXCEPT
                      !.at = "sending", !.events = EventsLeft(r), !.row = NoRow,
                      !.outcome = "accepted",
                      !.failed = IF run[r].outcome = "accepted" THEN run[r].failed
                                 ELSE run[r].failed \cup {key}]]
        /\ UNCHANGED <<now, course, optedOut, mails, skipped, started, webhook, changes>>

\* The command exits, with an error if something failed.
EndRun(r) ==
    /\ run[r].at = "sending"
    /\ run[r].events = << >>
    /\ run' = [run EXCEPT ![r] = Resting]
    /\ UNCHANGED <<now, course, optedOut, mails, skipped, audit, started, webhook, changes>>

\* The task is stopped, perhaps between the answer and its audit.
Stop(r) ==
    /\ run[r].at # "rest"
    /\ run' = [run EXCEPT ![r] = Resting]
    /\ UNCHANGED <<now, course, optedOut, mails, skipped, audit, started, webhook, changes>>

-----------------------------------------------------------------------------
(* datamailer_event_webhook: Datamailer reports a mail at least once *)

NoCall == [at |-> "rest"]
Duplicate(m) == [at |-> "duplicate", mail |-> m, seen |-> contact[m]]

\* bound: nothing else reads what callbacks write, so those on the first mail
\* of a first run, with which a behaviour then ends, stand for all.
CallbackBound == /\ started = 1 /\ changes = 0 /\ Cardinality(mails) = 1
                 /\ \A r \in Runs : run[r] = Resting

\* record_datamailer_event, get_or_create: first it looks.
Deliver(c, m) ==
    /\ CallbackBound
    /\ hook[c] = NoCall
    /\ delivered < MaxCallbacks
    /\ delivered' = delivered + 1
    /\ hook' = [hook EXCEPT ![c] = IF m \in DOMAIN contact THEN Duplicate(m)
                                   ELSE [at |-> "create", mail |-> m]]
    /\ UNCHANGED <<now, course, optedOut, command, contact, counted, changes>>

\* Then it inserts, unless the unique event_id is taken by now.
Create(c) ==
    LET m == hook[c].mail
    IN  /\ hook[c].at = "create"
        /\ IF m \in DOMAIN contact
           THEN /\ hook' = [hook EXCEPT ![c] = Duplicate(m)]
                /\ UNCHANGED <<contact, counted>>
           ELSE /\ contact' = [n \in DOMAIN contact \cup {m} |->
                                  IF n = m THEN 0 ELSE contact[n]]
                /\ counted' = [n \in DOMAIN contact' |->
                                  IF n = m THEN 1 ELSE counted[n]]
                /\ hook' = [hook EXCEPT ![c] = NoCall]
        /\ UNCHANGED <<now, course, optedOut, command, delivered, changes>>

IncrementedInstance(c) == hook[c].seen + 1                   \* mutant
\* F("duplicate_count") + 1, in the database.
Incremented(c) == contact[hook[c].mail] + 1

CountDuplicate(c) ==
    LET m == hook[c].mail
    IN  /\ hook[c].at = "duplicate"
        /\ contact' = [contact EXCEPT ![m] = Incremented(c)]
        /\ counted' = [counted EXCEPT ![m] = @ + 1]
        /\ hook' = [hook EXCEPT ![c] = NoCall]
        /\ UNCHANGED <<now, course, optedOut, command, delivered, changes>>

-----------------------------------------------------------------------------
Init ==
    /\ now = 0
    /\ due = FirstDue
    /\ homework = "OP" /\ project = "CS"
    /\ enrolled \in SUBSET Learners
    /\ submitted \in [homework : SUBSET enrolled, project : SUBSET enrolled]
    /\ volunteers = {} /\ reviewing = {}
    /\ run = [r \in Runs |-> Resting]
    /\ optedOut \in SUBSET Learners
    /\ mails = {} /\ skipped = {}
    /\ audit = << >>
    /\ contact = << >> /\ counted = << >>
    /\ hook = [c \in Callers |-> NoCall]
    /\ changes = 0 /\ started = 0 /\ delivered = 0

CourseNext ==
    \/ \E l \in Learners :
        \/ Enroll(l) \/ SubmitHomework(l) \/ SubmitProject(l) \/ DeleteProject(l)
        \/ Volunteer(l) \/ FinishReviews(l)
    \/ AssignReviews \/ ScoreHomework \/ CompleteProject
    \/ \E kind \in Kinds, t \in MovedDue : MoveDeadline(kind, t)

CommandNext ==
    \E r \in Runs :
        \/ StartRun(r) \/ LookUp(r) \/ AuditEvent(r) \/ EndRun(r) \/ Stop(r)
        \/ \E outcome \in {"accepted", "lost", "unavailable"} : SendEvent(r, outcome)

WebhookNext ==
    \E c \in Callers :
        \/ \E m \in mails : Deliver(c, m)
        \/ Create(c) \/ CountDuplicate(c)

Next ==
    \/ CourseNext \/ CommandNext \/ WebhookNext \/ Tick
    \/ \E l \in Learners : OptOut(l)

Spec == Init /\ [][Next]_vars

-----------------------------------------------------------------------------
(* Properties *)

\* Types; and a learner gets each reminder of each piece of work once,
\* however often the command runs, overlaps itself, fails or is stopped
\* (docs/datamailer-integration.md: "the command can run repeatedly without
\* duplicating").
TypeOK ==
    /\ now \in Times
    /\ due \in [Kinds -> Nat]
    /\ homework \in {"OP", "SC"} /\ project \in {"CS", "PR", "CO"}
    /\ submitted.homework \cup submitted.project \cup volunteers \subseteq enrolled
    /\ \A m, n \in mails :
          m.learner = n.learner /\ m.key[1] = n.key[1] /\ m.key[2] = n.key[2] => m = n

\* When a run has been through its events, nobody was forgotten who owed the
\* work when it looked: of every deadline on the UTC day of the reminder, each
\* of them has the mail or has opted out of it with Datamailer, unless the
\* sending of just that event failed.
RunLeavesNobody ==
    \A r \in Runs : run[r].at = "sending" /\ run[r].events = << >> =>
        \A o \in run[r].owing :
            \/ \E k \in run[r].failed : k[1] = o.key[1] /\ k[2] = o.key[2]
            \/ \E m \in mails \cup skipped : /\ m.learner = o.learner
                                               /\ m.key[1] = o.key[1] /\ m.key[2] = o.key[2]

\* The audit does not claim too much: after a send on record as succeeded,
\* each one it was intended for is counted as sent to or as skipped; there
\* are as many mails as it says there are, and as many were skipped, though
\* another run, with other lists of people, may have overwritten the row.
AuditIsTrue ==
    \A k \in DOMAIN audit : audit[k].status = "succeeded" =>
        LET counts == audit[k].counts
        IN  /\ counts.created + counts.replayed + counts.skipped = counts.intended
            /\ Cardinality({m \in mails : m.key = k}) >= counts.created + counts.replayed
            /\ Cardinality({m \in skipped : m.key = k}) >= counts.skipped

\* Callbacks on one mail that come side by side leave one row, which counts
\* every one of them after the first.
DuplicatesCounted ==
    \A m \in DOMAIN contact : contact[m] = counted[m] - 1
=============================================================================
