----------------------------- MODULE Membership -----------------------------
(***************************************************************************)
(* Which learner is on which recipient list of the mail service, and how   *)
(* the rows of the course database get there.  A request commits a change  *)
(* and then runs its on_commit callbacks one after the other: each builds  *)
(* its payload from the instance the request holds and enqueues an event.  *)
(* An exception in a callback drops the ones behind it.  Some requests     *)
(* change what a list should hold without a callback that says so, and     *)
(* some save every column of a row they have read before.  The management  *)
(* commands build a batch from the database and later send it.             *)
(*                                                                         *)
(* Events are carried out in the order they are enqueued; Outbox shows     *)
(* when they are not.  One course with one homework and one project.  One  *)
(* request at a time holds a row it has read, and a row that was deleted   *)
(* is saved again only while its learner has no other for the project.     *)
(* Definitions marked "mutant" are plausible bugs, referred to by nothing. *)
(***************************************************************************)
EXTENDS Naturals, FiniteSets, Sequences, SequencesExt

CONSTANTS
    Learners,      \* the users
    Web,           \* requests that may run side by side
    Strict,        \* DATAMAILER_STRICT: a failed e-mail is an exception
    MaxRows,       \* bound: rows ever created
    MaxChanges,    \* bound: commits that change a row
    MaxSends,      \* bound: score notifications and batches of the commands
    MaxDeaths      \* bound: processes that die

ASSUME StrictAssumption == Strict \in BOOLEAN
ASSUME BoundsAssumption ==
    /\ MaxRows \in Nat /\ MaxChanges \in Nat
    /\ MaxSends \in Nat /\ MaxDeaths \in Nat

VARIABLES
    learners,   \* the users there are
    project,    \* whether the project is there
    rows,       \* the rows there are: a set of records with their keys
    made,       \* how many rows were ever created
    clock,      \* how many commits there were
    changed,    \* when the row of a kind and a learner last changed
    held,       \* the row that a request has read and will save
    pending,    \* the callbacks each request has yet to run
    members,    \* Datamailer: the memberships and contacts it holds
    batch,      \* a management command: the batch it is about to send
    imports,    \* Datamailer: the import jobs it has yet to run
    sends,
    excused,    \* history: memberships with a known reason to be off
    deaths

db == <<learners, project, rows, made>>
vars == <<db, held, clock, changed, pending, members, batch, imports, sends,
          excused, deaths>>

Kinds == {"registration", "enrollment", "homework", "project"}
RowKinds == Kinds \cup {"volunteer"}   \* a project row for reviewing only
Lists == {"registrants", "enrolled", "graduates", "homework", "project",
          "passed"}
KindOf(list) == CASE list = "registrants" -> "registration"
                  [] list \in {"enrolled", "graduates"} -> "enrollment"
                  [] list = "homework" -> "homework"
                  [] OTHER -> "project"
Ids == 1 .. MaxRows
ByLearner == 0            \* a source key made from the user, not from a row
Lost == MaxRows + 1       \* "None": the key of an instance already deleted

\* mark: passed, of a project submission; certified, of an enrollment.
Row == [kind : RowKinds, learner : Learners, id : Ids, mark : BOOLEAN]
Key == [list : Lists \cup {"contact"}, learner : Learners,
        source : ByLearner .. Lost]
Contact(l) == [list |-> "contact", learner |-> l, source |-> ByLearner]
NoBatch == [keys |-> {}]
NoRow == [id |-> Lost]

\* The kind of the lists a row counts on, and whose place it is.
Family(kind) == IF kind = "volunteer" THEN "project" ELSE kind
Place(r) == <<Family(r.kind), r.learner>>

-----------------------------------------------------------------------------
(* Payloads *)

\* The memberships the payload functions name for an instance.
Of(list, r, source) == [list |-> list, learner |-> r.learner, source |-> source]
RegistrantMember(r, id) == {Of("registrants", r, id)}
EnrolledMember(r) == {Of("enrolled", r, ByLearner)}
GraduateMember(r, id) == IF r.mark THEN {Of("graduates", r, id)} ELSE {}
HomeworkMember(r, id) == {Of("homework", r, id)}
ProjectMember(r, id) == {Of("project", r, id)}
PassedMember(r, id) == IF r.mark THEN {Of("passed", r, id)} ELSE {}

Payload(r, id) ==
    CASE r.kind = "registration" -> RegistrantMember(r, id)
      [] r.kind = "enrollment" -> EnrolledMember(r) \cup GraduateMember(r, id)
      [] r.kind = "homework" -> HomeworkMember(r, id)
      [] OTHER -> ProjectMember(r, id) \cup PassedMember(r, id)

Outcome(r) == Of("passed", r, r.id)
Main(r) == {k \in Payload(r, r.id) : k.list \notin {"graduates", "passed"}}

\* What the sources of the management commands say should be there.
Wanted == UNION {Payload(r, r.id) : r \in rows}

Drift == {k \in members \ Wanted : k.list # "contact" \/ k.learner \notin learners}
         \cup (Wanted \ members)

-----------------------------------------------------------------------------
(* Callbacks.  "cached": the instance holds its student and its project, *)
(* so that the callback need not load them.                              *)

Callback(do, keys, l, kind, cached) ==
    [do |-> do, keys |-> keys, learner |-> l, kind |-> kind,
     cached |-> cached, at |-> clock + 1]

\* sync_contact_and_membership: the contact goes with the membership.
Sync(r, cached) ==
    Callback("upsert", Main(r) \cup {Contact(r.learner)}, r.learner, r.kind, cached)
Email(r) == Callback("email", {}, r.learner, r.kind, TRUE)

SyncOutcomeUpsertOnly(r) ==                                  \* mutant
    Callback("upsert", IF r.mark THEN {Outcome(r), Contact(r.learner)} ELSE {},
             r.learner, r.kind, FALSE)

\* sync_project_passed_outcome_to_datamailer.
SyncOutcome(r) ==
    IF r.mark
    THEN Callback("upsert", {Outcome(r), Contact(r.learner)}, r.learner, r.kind, FALSE)
    ELSE Callback("remove", {Outcome(r)}, r.learner, r.kind, FALSE)
\* The post_delete receivers, of an instance whose key is then "id".
Removal(r, id) ==
    Callback("remove", Payload(r, id), r.learner, Family(r.kind), FALSE)

Touched(p) == UNION {pending[p][i].keys : i \in DOMAIN pending[p]}
Idle(p) == pending[p] = << >>
Quiet(k) == \A p \in Web : k \notin Touched(p)

\* A callback that loads a student or a project that is gone raises.
Raises(c) ==
    /\ c.do # "email" /\ c.kind # "registration" /\ ~c.cached
    /\ c.learner \notin learners \/ (c.kind = "project" /\ ~project)

\* Set by an event for a row that a later commit has changed already.
Late(keys, at, after) ==
    {k \in keys : /\ k.list # "contact" =>
                        changed[<<KindOf(k.list), k.learner>>] > at
                  /\ k \in (after \ Wanted) \cup (Wanted \ after)}

\* A commit that changes the rows of some kinds and learners.
Commit(p, touched, callbacks) ==
    /\ Idle(p)
    /\ clock < MaxChanges
    /\ clock' = clock + 1
    /\ changed' = [t \in DOMAIN changed |->
                      IF t \in touched THEN clock' ELSE changed[t]]
    /\ pending' = [pending EXCEPT ![p] = callbacks]
    /\ UNCHANGED <<members, batch, imports, sends, deaths>>

RowsOf(kind, l) == {r \in rows : r.kind = kind /\ r.learner = l}
NewRow(kind, l, id) == [kind |-> kind, learner |-> l, id |-> id, mark |-> FALSE]

-----------------------------------------------------------------------------
(* Requests *)

RegisterAgain(p, l) ==                                       \* mutant
    LET r == NewRow("registration", l, made + 1)
    IN  /\ l \in learners
        /\ made < MaxRows
        /\ rows' = rows \cup {r}
        /\ made' = made + 1
        /\ Commit(p, {<<r.kind, l>>}, <<Sync(r, TRUE), Email(r)>>)
        /\ UNCHANGED <<learners, project, held, excused>>

\* CourseRegistrationForm.save, one registration for each address.
Register(p, l) ==
    LET r == NewRow("registration", l, made + 1)
    IN  /\ l \in learners
        /\ RowsOf("registration", l) = {}
        /\ made < MaxRows
        /\ rows' = rows \cup {r}
        /\ made' = made + 1
        /\ Commit(p, {<<r.kind, l>>}, <<Sync(r, TRUE), Email(r)>>)
        /\ UNCHANGED <<learners, project, held, excused>>

\* Enrollment.objects.get_or_create, on its own or on the way to a
\* submission; its receiver syncs only a row it has created.
Enrolled(l) ==
    IF RowsOf("enrollment", l) = {}
    THEN {NewRow("enrollment", l, made + 1)} ELSE {}

Enroll(p, l) ==
    /\ l \in learners
    /\ Enrolled(l) # {}
    /\ made < MaxRows
    /\ rows' = rows \cup Enrolled(l)
    /\ made' = made + 1
    /\ \E r \in Enrolled(l) : Commit(p, {<<r.kind, l>>}, <<Sync(r, TRUE)>>)
    /\ UNCHANGED <<learners, project, held, excused>>

\* The homework sends its e-mail first, the project syncs first.
SubmissionCallbacks(r) ==
    IF r.kind = "homework" THEN <<Email(r), Sync(r, TRUE)>>
    ELSE <<Sync(r, TRUE), Email(r)>>

\* save_homework_submission_data; project_submit_post of a first submission.
Submit(p, l, kind) ==
    LET new == Enrolled(l)
        fresh == RowsOf(kind, l) = {}
        id == made + Cardinality(new) + 1
        r == IF fresh THEN NewRow(kind, l, id)
             ELSE CHOOSE q \in RowsOf(kind, l) : TRUE
    IN  /\ kind \in {"homework", "project"}
        /\ l \in learners
        /\ kind = "project" => project /\ fresh
        /\ rows' = rows \cup new \cup {r}
        /\ made' = made + Cardinality(rows' \ rows)
        /\ made' <= MaxRows
        /\ Commit(p, {<<q.kind, l>> : q \in new \cup {r}},
                  SetToSeq({Sync(q, TRUE) : q \in new}) \o SubmissionCallbacks(r))
        /\ UNCHANGED <<learners, project, held, excused>>

\* projects_eval_add, by a learner without a submission: the row is for the
\* review only, counts on the project's list, and nothing syncs it.
Volunteer(p, l) ==
    LET new == Enrolled(l)
        r == NewRow("volunteer", l, made + Cardinality(new) + 1)
    IN  /\ l \in learners
        /\ project
        /\ RowsOf("project", l) = {} /\ RowsOf("volunteer", l) = {}
        /\ rows' = rows \cup new \cup {r}
        /\ made' = made + Cardinality(rows' \ rows)
        /\ made' <= MaxRows
        /\ Commit(p, {Place(q) : q \in new \cup {r}},
                  SetToSeq({Sync(q, TRUE) : q \in new}))
        /\ excused' = excused \cup ProjectMember(r, r.id)
        /\ UNCHANGED <<learners, project, held>>

\* project_delete_submission: the callback runs while the instance still
\* has its key, since the delete is not inside another transaction.
DeleteSubmission(p, l) ==
    \E r \in RowsOf("project", l) :
        /\ l \in learners
        /\ rows' = rows \ {r}
        /\ Commit(p, {<<"project", l>>}, <<Removal(r, r.id)>>)
        /\ UNCHANGED <<learners, project, made, held, excused>>

\* score_project: every submission, whatever it got; or, with one row, a
\* system evaluation of it.
Scored(S, pass) ==
    {[r EXCEPT !.mark = (r.id \in pass)] : r \in S}

Score(p) ==
    \E S \in (SUBSET {r \in rows : r.kind = "project"}) \ {{}} :
    \E pass \in SUBSET {r.id : r \in S} :
        LET after == Scored(S, pass)
            order == SetToSeq(after)
        IN  /\ project
            /\ rows' = (rows \ S) \cup after
            /\ Commit(p, {<<"project", r.learner>> : r \in S},
                      [i \in 1 .. 2 * Cardinality(after) |->
                          IF i % 2 = 1 THEN Sync(order[(i + 1) \div 2], FALSE)
                          ELSE SyncOutcome(order[i \div 2])])
            /\ UNCHANGED <<learners, project, made, held, excused>>

\* The members of a list, read from the database, are upserted before the
\* list is sent to, the last row of each learner: scores of the homework, the assignment of reviews, and
\* scores of the project, which come with those who passed.
Bulk(list) ==
    LET all == {k \in Wanted : k.list = list}
    IN  [do |-> "upsert",
         keys |-> {k \in all : \A j \in all :
                                j.learner = k.learner => j.source <= k.source},
         learner |-> CHOOSE l \in Learners : TRUE, kind |-> KindOf(list),
         cached |-> TRUE, at |-> clock]

SendTo(p, lists) ==
    /\ Idle(p)
    /\ sends < MaxSends
    /\ sends' = sends + 1
    /\ Bulk(Head(lists)).keys # {}
    /\ pending' = [pending EXCEPT ![p] = [i \in DOMAIN lists |-> Bulk(lists[i])]]
    /\ UNCHANGED <<db, held, clock, changed, members, batch, imports, excused,
                   deaths>>

SendHomeworkScores(p) == SendTo(p, <<"homework">>)
SendAssignments(p) == SendTo(p, <<"project">>)
SendProjectScores(p) == SendTo(p, <<"project", "passed">>)

\* bulk_update of the certificates; each new one is announced, and the
\* graduate's membership goes first.
Certify(p, l) ==
    \E r \in RowsOf("enrollment", l) :
        /\ ~r.mark
        /\ rows' = (rows \ {r}) \cup {[r EXCEPT !.mark = TRUE]}
        /\ Commit(p, {<<"enrollment", l>>},
                  <<Callback("upsert",
                             {[list |-> "graduates", learner |-> l, source |-> r.id]},
                             l, "enrollment", TRUE),
                    Email(r)>>)
        /\ UNCHANGED <<learners, project, made, held, excused>>

-----------------------------------------------------------------------------
(* Requests that read a row and later save every column of it: the mark is *)
(* then what it was, whatever others have made of it in between.           *)

Read ==
    /\ held = NoRow
    /\ held' \in {r \in rows : r.kind \in {"project", "enrollment"}}
    /\ UNCHANGED <<db, clock, changed, pending, members, batch, imports, sends,
                   excused, deaths>>

\* The form is not valid, or the save fails.
GiveUp ==
    /\ held # NoRow
    /\ held' = NoRow
    /\ UNCHANGED <<db, clock, changed, pending, members, batch, imports, sends,
                   excused, deaths>>

Stored(r) == \E q \in rows : q.id = r.id

\* Model.save: the row is updated, or inserted again under its key.
Save(r) ==
    /\ rows' = {q \in rows : q.id # r.id} \cup {r}
    /\ held' = NoRow
    /\ UNCHANGED <<learners, project, made>>

MaySave(r) ==
    /\ r.learner \in learners
    /\ project
    /\ Stored(r) \/ \A q \in rows : Place(q) # Place(r)

\* project_submit_post of a submission that is there; it syncs no outcome.
SubmitAgain(p) ==
    /\ held # NoRow /\ held.kind = "project"
    /\ MaySave(held)
    /\ Save(held)
    /\ Commit(p, {Place(held)}, SubmissionCallbacks(held))
    /\ excused' = excused \cup (IF held \in rows THEN {} ELSE {Outcome(held)})

\* update_project_submission_from_admin, which takes "passed" from the form
\* and syncs nothing.
EditPassed(p) ==
    \E passed \in BOOLEAN :
        LET r == [held EXCEPT !.mark = passed]
        IN  /\ held # NoRow /\ held.kind = "project"
            /\ MaySave(r)
            /\ Save(r)
            /\ Commit(p, {Place(r)}, << >>)
            /\ excused' = excused
                  \cup (IF r \in rows THEN {} ELSE {Outcome(r)})
                  \cup (IF Stored(r) THEN {} ELSE Main(r))

\* The enrollment form, with the certificate as it was read.
SaveEnrollment(p) ==
    /\ held # NoRow /\ held.kind = "enrollment"
    /\ Stored(held)
    /\ Save(held)
    /\ Commit(p, {Place(held)}, << >>)
    /\ excused' = excused \cup
          (IF held \in rows THEN {} ELSE {Of("graduates", held, held.id)})

-----------------------------------------------------------------------------
(* Deletions in the Django admin, which wraps them in a transaction: the *)
(* callbacks run when the instances have lost their keys.                *)

AdminDeleteRegistration(p, l) ==
    \E r \in RowsOf("registration", l) :
        /\ rows' = rows \ {r}
        /\ Commit(p, {<<"registration", l>>}, <<Removal(r, Lost)>>)
        /\ excused' = excused \cup Payload(r, r.id)
        /\ UNCHANGED <<learners, project, made, held>>

\* The registration stays (SET_NULL), everything else cascades; the erasure
\* is the last receiver to be called.
AdminDeleteUser(p, l) ==
    LET gone == {r \in rows : r.learner = l /\ r.kind # "registration"}
        order == SetToSeq(gone)
    IN  /\ l \in learners
        /\ learners' = learners \ {l}
        /\ rows' = rows \ gone
        /\ Commit(p, {Place(r) : r \in gone},
                  Append([i \in DOMAIN order |-> Removal(order[i], Lost)],
                         Callback("erase", {Contact(l)}, l, "user", TRUE)))
        /\ excused' = excused \cup UNION {Payload(r, r.id) : r \in gone}
        /\ UNCHANGED <<project, made, held>>

AdminDeleteProject(p) ==
    LET gone == {r \in rows : Family(r.kind) = "project"}
        order == SetToSeq(gone)
    IN  /\ project
        /\ project' = FALSE
        /\ rows' = rows \ gone
        /\ Commit(p, {Place(r) : r \in gone},
                  [i \in DOMAIN order |-> Removal(order[i], Lost)])
        /\ excused' = excused \cup UNION {Payload(r, r.id) : r \in gone}
        /\ UNCHANGED <<learners, made, held>>

-----------------------------------------------------------------------------
(* The callbacks run, raise, or are lost with their process. *)

Carried(c) == IF c.do \in {"remove", "erase"} THEN members \ c.keys
              ELSE members \cup c.keys

RunCallback(p) ==
    LET c == Head(pending[p])
    IN  /\ ~Idle(p)
        /\ ~Raises(c)
        /\ members' = Carried(c)
        /\ excused' = excused \cup Late(c.keys, c.at, members')
        /\ pending' = [pending EXCEPT ![p] = Tail(@)]
        /\ UNCHANGED <<db, held, clock, changed, batch, imports, sends, deaths>>

Abandon(p) ==
    /\ excused' = excused \cup Touched(p)
    /\ pending' = [pending EXCEPT ![p] = << >>]
    /\ UNCHANGED <<db, held, clock, changed, members, batch, imports, sends>>

\* The related row cannot be loaded, or the e-mail failed in strict mode.
CallbackRaises(p) ==
    /\ ~Idle(p)
    /\ \/ Raises(Head(pending[p]))
       \/ Strict /\ Head(pending[p]).do = "email"
    /\ Abandon(p)
    /\ UNCHANGED deaths

Die(p) ==
    /\ ~Idle(p)
    /\ deaths < MaxDeaths
    /\ deaths' = deaths + 1
    /\ Abandon(p)

-----------------------------------------------------------------------------
(* sync_datamailer_recipient_lists, audit_datamailer_recipient_lists *)

\* build_batches: there is no batch for a list without members.
BuildBatch(list) ==
    LET keys == {k \in Wanted : k.list = list}
    IN  /\ batch = NoBatch
        /\ keys # {}
        /\ sends < MaxSends
        /\ sends' = sends + 1
        /\ batch' = [keys |-> keys, list |-> list, at |-> clock, repair |-> FALSE]
        /\ UNCHANGED <<db, held, clock, changed, pending, members, imports, excused,
                       deaths>>

\* Datamailer takes over a list of members, and with --reconcile removes
\* those the batch does not name.
TakeOver(b, reconcile) ==
    LET absent == {k \in members : reconcile /\ k.list = b.list}
    IN  /\ members' = (members \ absent) \cup b.keys
        /\ excused' = excused \cup Late(absent \cup b.keys, b.at, members')

\* sync_inline_batch.
SendBatch(reconcile) ==
    /\ batch # NoBatch
    /\ batch.repair => reconcile
    /\ TakeOver(batch, reconcile)
    /\ batch' = NoBatch
    /\ UNCHANGED <<db, held, clock, changed, pending, imports, sends, deaths>>

\* --import-by-reference: the file is uploaded and a job created.  Waiting
\* for the job changes nothing, and a time-out does not call the job off.
ImportByReference(reconcile) ==
    /\ batch # NoBatch
    /\ ~batch.repair
    /\ imports' = imports \cup {[keys |-> batch.keys, list |-> batch.list,
                                 at |-> batch.at, absent |-> reconcile]}
    /\ batch' = NoBatch
    /\ UNCHANGED <<db, held, clock, changed, pending, members, excused, sends,
                   deaths>>

\* The job succeeds, whenever Datamailer gets to it; or it fails, or is
\* taken for an earlier one with the same content, and nothing changes.
RunImport ==
    \E i \in imports :
        /\ \/ TakeOver(i, i.absent)
           \/ UNCHANGED <<members, excused>>
        /\ imports' = imports \ {i}
        /\ UNCHANGED <<db, held, clock, changed, pending, batch, sends, deaths>>

\* A call to Datamailer or to the storage fails: the command ends there.
CommandFails ==
    /\ batch # NoBatch
    /\ batch' = NoBatch
    /\ UNCHANGED <<db, held, clock, changed, pending, members, imports, excused,
                   sends, deaths>>

\* audit_list: compares the batch with the members; --repair reconciles.
AuditList ==
    LET actual == {k \in members : k.list = batch.list}
    IN  /\ batch # NoBatch
        /\ ~batch.repair
        /\ batch' = IF actual = batch.keys THEN NoBatch
                    ELSE [batch EXCEPT !.repair = TRUE]
        /\ UNCHANGED <<db, held, clock, changed, pending, members, imports, excused,
                       sends, deaths>>

-----------------------------------------------------------------------------
Init ==
    /\ learners = Learners
    /\ project = TRUE
    /\ rows = {} /\ made = 0
    /\ held = NoRow
    /\ clock = 0
    /\ changed = [t \in Kinds \X Learners |-> 0]
    /\ pending = [p \in Web |-> << >>]
    /\ members = {}
    /\ batch = NoBatch
    /\ imports = {}
    /\ sends = 0
    /\ excused = {}
    /\ deaths = 0

Request(p) ==
    \/ \E l \in Learners :
        \/ Register(p, l) \/ Enroll(p, l) \/ Certify(p, l)
        \/ \E kind \in {"homework", "project"} : Submit(p, l, kind)
        \/ Volunteer(p, l) \/ DeleteSubmission(p, l)
        \/ AdminDeleteRegistration(p, l) \/ AdminDeleteUser(p, l)
    \/ SubmitAgain(p) \/ EditPassed(p) \/ SaveEnrollment(p)
    \/ Score(p) \/ AdminDeleteProject(p)
    \/ SendHomeworkScores(p) \/ SendAssignments(p) \/ SendProjectScores(p)
    \/ RunCallback(p) \/ CallbackRaises(p) \/ Die(p)

Command ==
    \/ \E list \in Lists : BuildBatch(list)
    \/ \E reconcile \in BOOLEAN :
        SendBatch(reconcile) \/ ImportByReference(reconcile)
    \/ RunImport
    \/ AuditList \/ CommandFails

Next == (\E p \in Web : Request(p)) \/ Read \/ GiveUp \/ Command

Spec == Init /\ [][Next]_vars

-----------------------------------------------------------------------------
(* Properties *)

\* Types; a source key is never shared by two rows of a kind.
TypeOK ==
    /\ learners \subseteq Learners
    /\ rows \subseteq Row
    /\ \A q, r \in rows : q # r => q.id # r.id
    /\ \A q, r \in rows : q # r => <<q.kind, q.learner>> # <<r.kind, r.learner>>
    /\ members \subseteq Key
    /\ made \in 0 .. MaxRows /\ clock \in 0 .. MaxChanges

\* When every callback that touches a membership has run, Datamailer has it
\* exactly if the course database says so, unless it is known why not: a
\* process died or a callback raised (and the callbacks behind it were
\* dropped), the admin deleted an instance that lost its key, an event was
\* enqueued after a later commit had changed the row, a staff member edited
\* whether a submission passed or a save of a row read before set that or
\* the certificate back (neither is synced), or the row is a volunteer's.
\* The code is the receivers and the membership events of
\* course_management/datamailer/sync, and the views that call neither.
DriftHasACause ==
    \A k \in Drift : Quiet(k) => k \in excused

\* docs/datamailer-integration.md:286: a learner who is erased is erased in
\* Datamailer, once every callback has run.
ErasureReachesDatamailer ==
    \A l \in Learners \ learners :
        (\A p \in Web : Idle(p)) => Contact(l) \notin members
=============================================================================
