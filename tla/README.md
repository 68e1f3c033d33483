# Formal model of the course management platform

TLA+ models of the parts of the platform where requests, staff operations and
background jobs interleave, TLC runs over small instances of them, and TLAPS
proofs of what holds for instances of any size.

## 1. The system

A Django application over one relational database.  Students enroll in courses,
hand in homework, submit projects, review each other's projects and vote; staff
open, assign, score, rescore, edit and extend, in the staff pages (`cadmin`) or
through a token API (`api`).  Every change of who takes part in what is
forwarded to a mail service, Datamailer, through a table of outbox events.

**Concurrency.**  `ATOMIC_REQUESTS` is off: each query of a request sees what
others have committed in the meantime, and only the blocks under
`transaction.atomic()` are undone together.  A web container may well run a
single synchronous worker; requests still interleave because several containers
serve at a time (always during a rolling deployment) and because one-off tasks
and management commands (`process_datamailer_outbox`, `send_deadline_reminders`)
use the same database.  Rows are read into instances and `save()` writes every
column back unless `update_fields` is given, so an instance read early undoes
what others have written since.  This, rather than threads in one process, is
where the hard behaviours come from.

### Components

| Component | State | Operations | Hard behaviours |
|---|---|---|---|
| Project peer-review lifecycle (`courses/project_assignment.py`, `project_scoring.py`, `project_score_groups.py`, `views/project*.py`, `cadmin/views/projects.py`) | `Project` state and dates, `ProjectSubmission`, `PeerReview` | submit, delete, volunteer, pick and drop a review, hand a review in, assign, score, extend, API update | stale project rows saved in full, deletion against re-inserting saves, late reviews |
| Draw of reviews (`project_assignment_selection.py`) | pools per slot, the assignment so far | one draw per reviewer and slot | the last reviewers find pools empty |
| Project votes (`votes.py`) | `ProjectVote` | vote, withdraw | count, then insert |
| Datamailer outbox (`course_management/datamailer_outbox*.py`) | `DatamailerOutboxEvent` | enqueue, claim, send, record, retry, requeue | overlapping runs, crashes, lost answers, order |
| Homework submission and scoring (`courses/scoring.py`, `homework_score_calculation.py`, `views/homework_*.py`, `cadmin/services.py`) | `Homework`, `Question`, `Submission`, `Answer` | hand in, change, score, rescore, edit, set answers, extend, API update | saves of all columns against bulk updates |
| Leaderboard and learning in public (`leaderboard.py`, `services/enrollment_flags.py`) | totals and positions of `Enrollment`, caches | recount, switch learning in public | overlapping recounts, cached pages |
| Submission scoring, system evaluations (`project_submission_scoring.py`, `project_review_scores.py`, `system_project_evaluations.py`) | scores of `ProjectSubmission`, `SystemProjectEvaluation` | median of reviews, totals, passing | evaluation recorded while scoring runs |
| Membership sync (`courses/signals.py`, `course_management/datamailer/sync/`, the commands `sync_` and `audit_datamailer_recipient_lists`) | the lists Datamailer holds | which list a change of which row touches, callbacks after the commit, batches | callbacks that raise, events older than the row |
| Datamailer webhooks (`api/views/webhooks.py`) | `DatamailerContactEvent` | record a callback | duplicated, concurrent callbacks |
| Deadline reminders (`deadline_reminder_*.py`) | `DatamailerSendAudit` | find what is due and who owes it, send, audit | overlapping, failing and stopped runs |
| Registration and campaigns (`views/registration*.py`) | `CourseRegistration` | register, sync | memberships of learners who left |
| Certificates (`api/views/enrollment_certificate*.py`) | `Enrollment.certificate_url` | update, announce | membership before the mail |
| API for courses, homework, questions (`api/views/`, `api/crud.py`, `api/safety.py`) | `Course`, `Homework`, `Project`, `Question`, `RegistrationCampaign` | create, PATCH, PUT, delete | checks that are over by the time of the write, full-row saves, errors after a write |
| Statistics and wrapped (`assignment_statistics.py`, `wrapped_statistics/`) | `HomeworkStatistics`, `ProjectStatistics`, `WrappedStatistics`, `UserWrappedStatistics` | compute once, recompute, replace, publish | rows created first and filled later, delete then insert |
| Accounts (`accounts/`) | users, tokens | sign in, impersonate, merge social accounts | library protocols |
| Pages, observability, scripts | read-only or caches | render, log | - |

`PROJECT.json` lists every component with its sources and status, and under
`hazards` what is hard to test in this code, each at its line.

**Interaction.**  Staff pages and API call the same services; scoring of homework
and projects calls the leaderboard; saving an `Enrollment`, `Submission` or
`ProjectSubmission` triggers signal handlers that enqueue outbox events after the
commit; deleting a `ProjectSubmission` cascades to its reviews and votes.

**What makes each component right**, in short.  Lifecycle: reviews are assigned
once, with a full window, to others, and credit is backed by reviews on record.
Draw: everybody reviews the requested number of others and nobody is reviewed
far more often.  Votes: the limit, one vote per submission, none for deleted
ones.  Outbox: no event is lost, sent by two at once, or called delivered without
being so.  Homework: what is scored is graded by what is there, the work of
students survives scoring, the leaderboard agrees with the scores.  Marks: a
score is the median of all responses, a total the sum of its parts.  Membership:
a list is off only for a reason that is known.  Reminders: everybody who owes the
work is reminded, once.  Statistics: the numbers shown are those of the
submissions.  API: what students hand in is not lost to a check that was over, and
an error means that nothing was changed.

## 2. Modules

A definition marked "mutant" is a plausible bug in the definition it precedes.
Nothing refers to it; put in the other's place, it breaks the property named in
`PROJECT.json`.

### PeerReview, ReviewRound, Draws

`PeerReview` has the project row, the submission and review rows, and the requests
in flight.  A request has two actions: `...Begin` reads the project and the rows
it decides on, `...End` writes.  Staff requests carry the whole project row that
they read, since `Project.save()` writes it back in full (`Load`, `AssignEnd`,
`ScoreEnd`, `PatchEnd`); extension writes only the dates, computed from those it has
read.  Several staff and API requests overlap.  What they do to each other is
recorded in `amiss`: reviews assigned, or scores given, by a request that has read the
project in another state than it has by then (`again`), a state changed by a save of
the API (`state`), and a review date changed by such a save or extended from before the
assignment (`dates`).  A submission that is saved after being deleted is inserted again
under its old key, as Django does (`SaveSub`); deleting one takes its reviews along
(`Without`).  `Placeholders` are the rows of volunteers who only review; picking a
review looks first and inserts later (`AddReviewBegin`, `AddReviewEnd`), with no unique
constraint in between, so that two requests make two equal reviews.  `now` ticks more
slowly than any request, and `opened` records the last assignment.

`Draws` is the definition of a draw; `AssignEnd` takes any draw.  `ReviewRound` is
the abstract specification: a round collects, opens once with a roster larger than
the quota, loses members to late withdrawals only, and credits members of the
roster on completion, and is void once `amiss` has recorded something.  `PeerReview`
implements it under the mapping at its end.

### ReviewAssignment

The algorithm that computes a draw: reviewer by reviewer and slot by slot, from the
pool of the slot, or from all submissions once the pool has no candidate.  The
seeded generator is a free choice, so every seed is covered.  `ResultIsADraw` links
it to `PeerReview`, which takes any member of `Draws`.

### ProjectVotes

Vote requests look the submission up, count the votes, and insert: three steps
without a transaction.  `get_or_create` and the unique constraint are in `Insert`.

### Outbox, AtLeastOnce

The rows of `DatamailerOutboxEvent`, web requests that commit a change and enqueue
an event in an `on_commit` callback, runs of `process_datamailer_outbox` that list
due events and then claim (`select_for_update` on one row), send and record each,
retries, requeueing by staff, and crashes between any two steps.  Datamailer
itself is external: what it accepted and, per object, last.  An answer may be lost
after the request was carried out.  `AtLeastOnce` is the abstract promise for each
event.

### Membership

Rows of one course (`rows`: registrations, enrollments, a homework's and a project's
submissions) and the memberships Datamailer holds (`members`), with the key each
payload function makes: from the user, or from the row.  A request commits (`Commit`)
and then runs its callbacks one by one (`RunCallback`), each with the payload of the
instance it holds.  A callback that has to load a row that is gone raises (`Raises`)
and so do failed e-mails in strict mode; those behind it are dropped (`Abandon`), as
Django's `on_commit` does.  Some requests change what a list should hold and sync
nothing: the row of a volunteer reviewer (`Volunteer`), staff's edit of `passed`
(`EditPassed`), and the saves of all columns of a row read before, which put `passed`
or the certificate back (`Read`, then `SubmitAgain` or `SaveEnrollment`, or
`GiveUp`).  Deletion in the admin is in a transaction, so the instances have lost
their keys when the callbacks run (`Lost`).  `BuildBatch`, `SendBatch` and
`AuditList` are the commands.  A batch imported by reference (`ImportByReference`)
becomes a job of Datamailer's, which runs when the command may be long gone, fails,
or is taken for an earlier one of the same content (`RunImport`); a member who joined
or left in between is put back or removed, and that is one of the causes recorded.
Events are carried out in the order they are enqueued: what else can happen is in
`Outbox`. `excused` records why a membership may be off.

Left out: a look-up and the insert after it are one step, so that a learner has at most
one row of a kind; one request at a time holds a row it has read; a row that was deleted
is saved again only while its learner has no other for the project; `passed` of a
volunteer's row is not edited; the homework and the course stay; the admin adds nothing;
and the one-off scripts do not run.

### ProjectScores

The marks of one project: medians of peers' and the system's responses per
criterion, the scoring of the project (read, write, commit), system evaluations
with idempotency keys, the edit of staff, the switch of learning in public, the
recount of the leaderboard, and the page each server process has cached.  A process
serves one request at a time and a written row is locked until the commit.  Learners
change their own enrollment in two ways: the switch writes one column and drops the
cached page (`OwnRowSwitch`), the form writes all columns as it has read them, the total
included, and drops no page (`OwnRowSave`, see section 5).  `excused` names what is off
and of whom, by the race that did it; the properties say that nothing else is.

### Reminders

`StartRun` reads the clock.  `LookUp` then builds the events of one kind of work after the
other, from what is due on the UTC day ahead and from who owes it; only then
`SendEvent` and `AuditEvent` carry out one list at a time, whether it was accepted,
carried out without an answer, or not carried out.  Learners, staff and deadlines go on
meanwhile; runs overlap and may be stopped between the answer and its audit.  The
deadlines of a kind and those who owe the work are read as one.  Datamailer is external:
it mails each recipient and event key once, and passes over those who have opted out or
are suppressed (`OptOut`, `ToSkip`), which the platform neither knows nor asks; `skipped`
keeps them.  Its counts come back in the answer (`Counts`), all but the number queued.
`owing` is history: who owed what when the run looked.  `Deliver`, `Create` and
`CountDuplicate` are the webhook that is told of a mail, at least once.

### Statistics

The row of an assignment's statistics, created by the first view of its page and
filled by a later save, recomputed by the admin and by the scoring of a homework;
and the wrapped statistics of the year, whose platform row is saved in full and
whose participants' rows are deleted and created, by the admin's action or by a
script.  Requests and jobs overlap and die.  Rows are added at any time (`Submit`): a
homework by a student who looked at its state before it was scored, a placeholder of a
volunteer reviewer in any state of the project.  A student has one row of the assignment.
`cause` records that the numbers may be off; a calculation that no older one overlaps
clears it.

### CourseApi

The rows of one slug: a homework with its questions, a project, a course or a
campaign, with the requests of the API in flight and the students who submit, or
register.  Each request is split where the code reads the database again:
`DeleteBegin` loads the row and looks at its state, `DeleteCount` counts the
submissions, `DeleteEnd` deletes.  `PatchEnd` saves the row as `PatchRow` has read it,
inserting it anew if it is gone.  A list of items is created one by one
(`CheckSlug`, `InsertRow`, `InsertQuestion`).  PUT of a homework is a transaction:
`PutSave` writes the row and checks again, `PutCommit` replaces the questions; an
error between the two is returned, not raised, so that what was written is
committed.  `since` records what others have done since a request last checked.

### HomeworkScoring

One homework with one multiple-choice question.  `subs` are the committed
submissions, each with its answer.  A transaction is a record in `req` with its
stage: `begun`, `answers`, `read`, `written` (its rows are written, locked and
visible to itself only), `summed` (the leaderboard is recomputed from what the
transaction sees), then `Commit` publishes everything.  This is READ COMMITTED, one
action per statement.  `PostEnd` is one action although it is a transaction of its
own: it reads nothing that it does not lock, and its writes appear together. It saves
every column of the instance read in `PostBegin`, the score columns too, except
`Answer.is_correct`, which belongs to another row.  `ScoreWrite` is the `bulk_update`
of score columns: other columns are taken from the row as it is at that moment
(`OnlyScores`).  `homework_rescore` sets the state back in a save of its own
(`Reopen`) before scoring, which may refuse.  PATCH and PUT of the API save the
homework as they have read it, with any state and date put in (`PatchEnd`), so that a
homework is opened, closed or marked as scored at any moment, before, during and
after a scoring.  Links taken back leave the old sub-score in its column but out of
the total (`LipKept`, `LipCounted`), and an edit by staff then adds the column
(`Edited`); the model keeps both.  Four history variables say what was changed behind
whose back: `graded` holds the rows that the last scoring has left and nothing else
has changed since (`left` is what it will be), and `behind` the students whose place
on the leaderboard was written from points that others had changed by then
(`unseen`), or whose late save has put old ones back.  `Abort` is an exception or a
deadlock that the database resolves.

Left out: all students are enrolled from the start; `course.save()` and the
statistics at the end of scoring, which no property looks at; choice of the most
popular answer is `SetKey` with any key; one question worth one point; projects'
part of the totals.

### Modules for TLC and for proofs

The `MC...` modules declare model values and the symmetry, and the constants that a
`.cfg` cannot write (the contents of a form, who reviews whom, the deadlines); the
`.cfg` files give the others.  `MCReminders` narrows the courses it starts from
(`MCInit`); every other run checks the specification of its module as it stands.  The
modules `...Proofs` hold the theorems about the module they are named after, and
`CountingProofs` those about `ReviewAssignment`, `ProjectVotes` and `Statistics`; it
extends all three, hence the names `DrawSpec`, `VoteSpec` and the like.  No module
declares a recursive operator.

## 3. Runs

| Run | Question | Result |
|---|---|---|
| `overlap` | Two overlapping requests of staff or the API, beside a student's, each with the project row it has read: are reviews assigned once (`AssignedOnce`), credit backed (`CreditIsBacked`), the window full (`FullReviewWindow`), the whole a round (`ImplementsRound`)? | holds, but for the overlaps the properties name |
| `races` | Two student requests and a staff or API request that may write any state, deletion and re-insertion: does every review join two different rows that exist (`ReviewsJoinTwoRows`)? | holds |
| `votes` | By how much can the vote limit be exceeded (`OvershootBounded`), can a vote outlive its submission (`VoteTypeOK`)? | by the requests in flight beside the first; no |
| `draw` | Every course of the draw: is there always a candidate, is the result a draw, when does the fallback happen, how often is one drawn? | holds; at most twice the share |
| `outbox` | Overlapping runs that stop at the first error, a web request, a crash, lost answers, a requeueing: one sender (`OneSender`), bounded attempts (`AttemptsBounded`), at-least-once (`DeliversAtLeastOnce`), and does each event come to an end (`EventsSettle`)? | holds; an event whose process died after the claim stays `processing` for ever |
| `homework` | Two overlapping requests of staff or the API, of any kind, with students saving meanwhile: is what scoring found graded by what is there (`ScoredAreGraded`), does the leaderboard agree (`LeaderboardAgrees`), does students' work survive (`ScoringKeepsWork`)? | holds, but for the races the properties name |
| `membership` | Two requests side by side, changes with and without a sync, saves of rows read before, callbacks that raise, a process that dies, the commands: is every membership that is off excused (`DriftHasACause`)? | holds |
| `erasure` | Is a learner who is deleted erased in Datamailer (`ErasureReachesDatamailer`)? | **no**: the callback of the enrollment raises, and takes the erasure with it |
| `scores` | Two processes among scoring, evaluations, edits, switches, the enrollment form and views: medians (`ScoreIsTheMedian`), passing (`PassingIsEarned`), totals (`TotalIsTheSum`), leaderboard and pages (`BoardAgrees`)? | holds, but for the races the properties name |
| `reminders` | Two overlapping runs over two days, sends that fail or get no answer, runs stopped, a deadline moved, learners who opt out, callbacks repeated: nobody twice (`TypeOK`), nobody forgotten (`RunLeavesNobody`), a true audit (`AuditIsTrue`), all callbacks counted (`DuplicatesCounted`)? | holds |
| `statistics` | Requests and jobs that overlap and die while scores change: are the numbers those of the submissions (`NumbersHaveACause`), do the rows of the participants agree with the leaderboard (`WrappedAgrees`)? | holds, but for the causes the properties name |
| `courseapi` | Two requests of the API in flight, two students: what can be lost (`LossHasACause`), what does an error leave behind (`RefusedChangesNothing`), is the state the one asked for (`StateAsAsked`)? | holds, but for the races the properties name |

The answer in bold is a finding, quoted in `PROJECT.json` with the line of the
repository that says otherwise.  Section 5 lists the other places where the code
does something that a reader of its documents may not expect.

Several properties have the form "this holds, unless ...".  What comes after "unless"
is a race or a failure that the code does not exclude, recorded in a history variable
(`amiss`, `graded`, `behind`, `excused`, `cause`, `alone`, `since`) by the very step
that makes it. Such a property says that the list of causes is complete: a further
way to get there, such as a mutant adds, violates it.

**Bounds.**  A bound is a constant named `Max...`.  `overlap` has two students, two
rows, two staff requests and one of a student: an assignment of two rows that review
each other is the least there is to assign twice, to score twice and to extend, and
the single tick separates the deadlines from the window.  A third row, with which a
late submission meets the reviews of two others, is left to the proofs.  `races` has
a second student request in place of the second of staff, and the API sets the state;
deletion, re-insertion and a review of the row need no more.  Two equal reviews
(`MaxCopies = 2`) are what a double assignment would make.  Four submissions and two
votes per voter let two votes in flight exceed the limit by one.  Six submissions
with two reviews each are enough for the pools to run empty in both slots and for a
submission to be drawn twice too often; the proofs take over from there.  Two events,
one object, two runs and a web request let runs overlap, events overtake each other
and a retry follow a later event; two attempts is the least number with a retry, and
with one crash and one requeueing each way out of `processing` is taken.  In
`homework`, two students and two rows are what a comparison of positions needs; two
staff requests overlap in every pair of operations, so that two recounts, a scoring
and an edit, or a scoring and a reopening meet; one student request, because the row
is locked while it is written.  The proofs have none of these bounds. `membership`:
one learner suffices, since no membership of one depends on another's; four rows are
one of each kind, three changes let a row be created, changed and deleted, or saved
by a request that has read it before, with another request's callbacks in between;
`erasure` takes a fourth to delete the learner.  `scores`: two learners who review
each other are the least that makes passing depend on reviewing; three requests let
scoring, an evaluation and a recount meet; who begins with learning in public
switched off is open.  `reminders`: a day has two instants, so that a deadline can be
nearer or farther than 24 hours on the same day, the week ahead is two days, and time
runs into the second day; learners who are enrolled have handed in the project at
first (`MCInit`), which owes them the homework and leaves two changes for the rest;
callbacks are counted for the first mail only, which nothing else reads.
`statistics`: numbers are given of three submissions or more, so there are three
students, and a leaderboard of two leaves one of them out. `courseapi`: two requests,
a check and its write, with another request and a submission in between; three
requests are needed to create, open and delete; two ids of rows let a row be deleted
and created again.  The proofs about it have no bound. Symmetry is used in runs
without liveness properties only: model values of one set are permuted, and no
definition chooses among them.

**Deadlock** is not checked where a system may stop: after the bounded number of
operations all requests can be idle with nothing left to do.  `draw` checks it
(`ReviewAssignment` has an explicit step when it is done).

**Fairness** appears in `Outbox` only (`FairSpec`): a process that is alive goes on
(requests have timeouts, see `Outcomes`), the scheduler keeps starting
runs, and retry delays end.  Nothing is assumed of Datamailer, which may answer with
errors for ever, nor of staff, who need never requeue; this is why `EventsSettle`
ends in "acknowledged or left to the operator", with the one exception of an event
whose process died after the claim: no code looks for it.

## 4. Proofs

All theorems are checked by TLAPS, for any values of the constants that satisfy the
assumptions named in the modules (numbers are natural; students, criteria,
votes and reviews that are counted or summed are finitely many; students' and staff
requests are different; settings and what staff enter have their type; nobody reviews
themselves in `ProjectScores`; and the names used for history in `CourseApi` are no
students' or requests').

* `PeerReviewProofs`: `Typing` and `ReviewEndsDiffer` (`[]ReviewsJoinTwoRows`).  The
  property alone is not inductive, because a request in flight may save a submission
  under a key it has read.  The invariant adds that all keys, those in flight
  included, are below the next key, so that a re-inserted row is never another's.
  `ReviewsAssignedOnce`, `CompletionCreditIsBacked`, `ReviewersGetAFullWindow` and
  `ProjectIsARound` (the refinement of `ReviewRound`, step by step) hold for any number of
  overlapping staff, API and student requests, up to what `amiss` records; none of it may
  be left out, since two assignments side by side do assign twice.  Their invariant,
  `FullInv`, adds what each request in flight knows of the project when it writes: staff,
  in which state it was read and what it can have become since, while time stands still
  (`StaffKnows`); students, that the state has moved on by one step at most and in this
  very instant (`StudentsKnow`), so that a late save or deletion meets the roster of the
  assignment and never a completed project.
* `CountingProofs`, about the three components whose arguments count finite sets:
  * *Draw*: `DrawTyping`, `NeverStuck`, `ReturnsADraw`, `FallbackIsLate`,
    `ShareAtMostDoubled`.  A pool loses at most one submission per reviewer, so only
    the last `NumPeers` reviewers can find theirs used up; each of them adds at most
    one review to a submission whose pools gave it one per slot.
  * *Votes*: `OvershootIsBounded` and `VoteTyping`.  The invariant counts votes and
    requests that have found the count below the limit together: whoever counts last
    leaves at most the others behind.
  * *Statistics*: `Typing`, `DifferentNumbersHaveACause` and
    `RowsAgreeWithTheLeaderboard`.  That there is a score in each place of the sorted
    scores, and ranks without a gap, is counting; the rest is what a request has in its
    hands: rows may be added in any state, and each one added is a cause.  Without a recorded cause, whatever has been calculated is what would be
    calculated now (`PageInv`), which is why a calculation clears the causes before it.  A job that nothing has overlapped is the only one, has
    saved the leaderboard there is, and puts its rows beside no others; a form opened
    after it holds the same leaderboard (`OnlyJob`).  Rows of a job are there together
    or not at all (`UsersTogether`), so the unique constraint keeps two jobs apart.
* `OutboxProofs`: `Typing`, `OneSenderAlways`, `AttemptsAreBounded`, and
  `OutboxDeliversAtLeastOnce`, the refinement of `AtLeastOnce`.  The invariant says
  that a claimed event is in `processing` until its outcome is recorded, that an
  answer was preceded by the request being carried out, and that an event waits
  for a retry only with an attempt left.
* `HomeworkScoringProofs`: `WorkIsKept` (`ScoringKeepsWork`).  Scoring computes scores
  from rows it read without a lock; what it writes agrees with the row as it is,
  because the comparison and the lock are one statement.  The invariant: rows have
  different keys, requests carry rows of the table, no two transactions hold the
  same row, and the rows a scoring transaction holds agree with the committed ones
  in answer, links and contribution.
  `Typing` needs that a sum over any finite set of rows is a number, though the fold that
  makes it is a choice among functions; a smallest set without a sum is taken to
  contradiction.  `ScoresAreRight` and `LeaderboardIsRight` hold for any number of overlapping
  staff and API requests.  `ScoreInv` says what each request in flight knows: of the rows that
  nothing but scoring has changed since the scoring began (`left`), which of their answers
  are right and that what it is about to write there is graded and the work of now
  (`KnowsAnswers`, `KnowsGrades`); and that the totals it has summed, or will compare, are those
  of the table, but for the students it has been overtaken on (`unseen`; `KnowsTotals`,
  `KnowsEdited`).  The state of the homework does not occur in it, so no write of the state
  matters.
* `MembershipProofs`: `Typing` and `MembershipsDriftOnlyForACause` (`DriftHasACause`).  Each
  change is numbered by its commit.  The invariant says that a callback, a batch or an
  import carries out what the database says of its row (`Tells`, `Names`), unless the row
  was changed by a later commit; that no two rows share a key, the one a request has
  read included (`HeldOK`); and, with `DriftHasACause` itself, that a membership is off only
  while something is pending that will touch it, or is excused.
* `RemindersProofs`: `Typing`, `RunsReachEverybody`, `TheAuditIsTrue` and
  `EveryDuplicateCounts`.  The invariant follows each learner who owed the work when the run
  looked it up (`owing`): Datamailer has mailed or passed over them, or their event is still
  in the list of the run, or the sending has failed (`AllReached`).  The events of a kind go to
  the end of the list and leave the others where they are (`Behind`).  The audit rests on an
  answer dividing those it was intended for into three: mailed now, mailed before, and
  passed over (`ThreeParts`).
* `ProjectScoresProofs`: `Typing`, `ScoresAreMedians`, `PassesAreEarned`, `TotalsAreSums` and
  `TheBoardIsRight`.  First the functions: the k-th of the sorted scores is the least one
  that k responses do not exceed, so the one in the middle is the median as the property
  defines it by counting, and the marks are a sum over the criteria.  Then the requests:
  no row is locked by two (`Locked`); an evaluation works on the row as it is, scoring on
  reviews and evaluations of which none is gone, so that its score is right unless some
  have been added (`Known`, `InputsGrow`); and a recount is pending, or leaderboard and
  pages are right but for what is excused (`BoardStands`), which the saves of the enrollment
  form add to (`OwnRowBoard`).
* `CourseApiProofs`: `Typing`, `Refusals`, `Losses` and `StatesAsked`, so all four properties
  of the run.  The invariant gives each request in flight what it knows (`Sound`): that
  every submission its write would take along was made after its check
  (`KnowsLosses`), that the row is as it has read it unless it was told of a save
  (`KnowsSaves`), what its fields mean at each stage (`Carries`), and that it has written
  only where it may still say so (`Written`).  `CommitAlone` says that the transaction of
  a PUT has the slug to itself, and `OneHome` that a question has one homework for good,
  in the table, in a request that will save it and in the form of a student: without
  it, a re-inserted question could turn up under another homework, and its answers
  without a submission.  Most actions are covered by one lemma, `StepKeeps`, from what
  they leave of the tables; the action properties follow from the invariant action by
  action.

`AttemptsBounded`, `OvershootBounded` and `AtMostTwiceTheShare` are bounds that the code
keeps without stating them.

**Only model-checked:** `EventsSettle`, which is liveness under fairness.  Every other
property of the passing runs is a theorem.  `ErasureReachesDatamailer` is refuted by its
run.

## 5. What the code does and a reader may not expect

The models contain these; each can be seen by adding the obvious stronger property.

* *A review of the own project.*  Whoever volunteers to review before submitting has
  two rows, and the draw may give the one to the other (`project_assignment.py:89`);
  only optional reviews exclude it.
* *A PATCH without a state writes one.*  The whole row is saved as it was read
  (`api/crud.py:88`), over a state set meanwhile; a row deleted meanwhile comes back.
* *A late homework.*  A save that began while the homework was open overwrites the
  scores of a scoring that ended before it (`views/homework_submission.py:146`).  Two
  first submissions of a student at once make two rows, both counted.
* *A form that keeps the old page.*  `is_valid()` of the enrollment form has put the new
  values into the instance by the time the previous ones are read from it
  (`courses/views/course_enrollment.py:116`), so the cached leaderboard is never
  dropped; and `form.save()` writes every column, the total of a recount that came in
  between included.
* *Passing, unknown to Datamailer.*  Staff's edit of a project submission writes `passed`
  without a sync (`cadmin/services.py:84`), and a student's save of a submission read
  before puts the old value back; the list of those who passed is off until the
  outcome is next synced, or the list is.
* *Volunteers are submissions.*  Whoever volunteers to review gets a row in any state of
  the project (`courses/views/project_eval_actions.py:36`), which nothing syncs; the
  statistics count it, and `sync_datamailer_recipient_lists` puts the volunteer on the list
  of the project.
* *A reminder that is sent need not be a mail.*  Datamailer passes over those who have
  opted out; the audit row of a send that succeeded counts them as skipped.
* *An event that stays.*  A process that dies between claim and record leaves its event
  in `processing`, which no command looks at (`datamailer_outbox_dispatch.py:50`).
* *Drift by retry.*  A retried event may be carried out after a later one of the same
  object (`datamailer_outbox_runs.py:50`).
* *Edits of project marks are not recounted.*  The leaderboard keeps the old totals
  until the next recount, see also `docs/refactoring-plan.md:1176`.
* *An evaluation may count for nothing.*  One posted while a project is scored is
  answered as created, and scoring writes marks without it
  (`project_scoring.py:52`).
* *A PUT that fails has changed something.*  When the second check refuses, the error is
  returned inside `transaction.atomic()`, which then commits: the new state and title
  stay, or a homework is created without its questions
  (`homework_upsert_save.py:35`; `test_homework_upserts.py:99` and `endpoints.md:280` only
  have the first check in view).
* *Reminders of up to 48 hours ahead.*  The window is the next UTC day, though the mail
  says "within 24 hours" (`deadline_reminder_items.py:21`).
* *Statistics that stay empty.*  A request that dies between creating the row and
  filling it leaves zeros until the admin recomputes them
  (`assignment_statistics.py:144`).

## 6. Not modelled

*Formatting, templates, payload layout and HTTP plumbing*, pages that only read, logging
and metrics, scripts for development and end-to-end tests, the OpenAPI description and
the migrations: they keep no state that others change.  These make up most of the
repository's lines.

*Accounts.*  Signing in is a protocol of django-allauth, whose tables and constraints
are not in the repository.  The one piece of it here,
`ConsolidatingSocialAccountAdapter` (`accounts/auth.py`), looks an address up,
creates a user and an address row in separate statements, and leaves it to those
constraints that two first sign-ins at once do not make two users; a model would rest
on assumptions about the library.  Impersonation and the static token change nothing
that others read.

*Within modelled components*: the validation of forms and payloads other than by its
outcome; a deployment without Datamailer; free edits in the Django admin, but for the
wrapped row; several questions and the other checks of an answer; the upload of an
import file to the storage; the campaigns' pages for staff, which save as the API
does; a slug changed by PATCH of a campaign; the export of the leaderboard and the
leaderboard of complaints.

## 7. Plan

What seems worth adding, in order of importance:

1. What heals: that a recount without a race makes the leaderboard of `HomeworkScoring` and
   `ProjectScores` agree again for everybody, and that a reconciling sync empties `excused` of
   its list, as `NumbersHaveACause` already says of the statistics.
2. **Answers**: the answer checks as operators, against a reference definition over
   small inputs; correct answers filled from the most popular.
3. `Membership` composed with `Outbox` through the events it enqueues, to bound how long
   a list may be off.
4. A second learner in `membership`, and reviews handed in one by one in `scores`.
