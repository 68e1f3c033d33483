------------------------------- MODULE Outbox -------------------------------
(***************************************************************************)
(* The outbox of events for the mail service (Datamailer): which learner   *)
(* joins or leaves which recipient list.  A web request commits a change   *)
(* of the course and, in an on_commit callback, enqueues an event.  The    *)
(* event is dispatched at once by the same process, or later by a run of   *)
(* process_datamailer_outbox, several of which may overlap.  A dispatch    *)
(* claims the event under a row lock, makes the HTTP request, and records  *)
(* its outcome; a process may die between any two of these steps.          *)
(*                                                                         *)
(* The deployment is configured for Datamailer throughout: the branch that *)
(* fails every event of an unconfigured one is left out.  Definitions      *)
(* marked "mutant" are plausible bugs, referred to by nothing.             *)
(***************************************************************************)
EXTENDS Naturals, FiniteSets

CONSTANTS
    Objects,       \* rows whose learner is on a list, one ordering key each
    Web,           \* web requests that may run side by side
    Runs,          \* runs of process_datamailer_outbox
    Outcomes,      \* what may come of an HTTP request
    Strict,        \* DATAMAILER_STRICT: an error ends the run
    DispatchImmediately,   \* DATAMAILER_OUTBOX_DISPATCH_IMMEDIATELY
    Limit,         \* --limit of a run
    MaxAttempts,   \* DatamailerOutboxEvent.max_attempts
    MaxEvents,     \* bound: events ever enqueued
    MaxCrashes,    \* bound: processes that die
    MaxRequeues    \* bound: requeue operations

ASSUME SettingsAssumption ==
    Strict \in BOOLEAN /\ DispatchImmediately \in BOOLEAN
ASSUME OutcomesAssumption ==
    Outcomes \subseteq {"accepted", "lost", "unavailable", "rejected"}
ASSUME CountsAssumption ==
    /\ Limit \in Nat \ {0}
    /\ MaxAttempts \in Nat \ {0}
    /\ MaxEvents \in Nat
    /\ MaxCrashes \in Nat
    /\ MaxRequeues \in Nat

VARIABLES
    joined,     \* the objects that are there in the course database
    events,     \* the DatamailerOutboxEvent rows, by key
    created,    \* how many of them there are
    proc,       \* what each process is in the middle of
    accepted,   \* Datamailer: the events it has carried out
    latest,     \* Datamailer: the last of them for each object
    crashes,
    requeues

vars == <<joined, events, created, proc, accepted, latest, crashes, requeues>>

Processes == Web \cup Runs
EventIds == 1 .. MaxEvents
NoEvent == 0
Ops == {"upsert", "remove"}
Statuses == {"pending", "processing", "acked", "retrying", "failed", "dead"}
RetryableStatuses == {"pending", "retrying"}

EventRow == [status : Statuses, object : Objects, op : Ops,
             attempts : Nat, due : BOOLEAN]
NoRow == [status |-> "none", object |-> "none", op |-> "none",
          attempts |-> 0, due |-> FALSE]
Idle == [at |-> "idle"]
Step ==
    {Idle}
    \cup [at : {"commit"}, object : Objects, op : Ops]
    \cup [at : {"run"}, batch : (SUBSET EventIds) \ {{}}]
    \cup [at : {"send"}, event : EventIds, batch : SUBSET EventIds]
    \cup [at : {"record"}, event : EventIds, batch : SUBSET EventIds,
          outcome : Outcomes]

-----------------------------------------------------------------------------
(* Queries *)

Retryable(e) == events[e].status \in RetryableStatuses
DueForTheFirstTime ==                                        \* mutant
    {e \in EventIds : events[e].status = "pending" /\ events[e].due}
Due == {e \in EventIds : Retryable(e) /\ events[e].due}

Settled(e) == events[e].status \in {"acked", "failed", "dead"}

Earliest(S) == CHOOSE e \in S : \A f \in S : e <= f

\* due_outbox_event_ids: the due events created first, at most Limit.
Batches ==
    {S \in SUBSET Due :
        /\ \A e \in S, f \in Due \ S : e < f
        /\ Cardinality(S) <= Limit
        /\ S # Due => Cardinality(S) = Limit}

\* A process goes on with the rest of its batch, or is done.
Continue(batch) == IF batch = {} THEN Idle ELSE [at |-> "run", batch |-> batch]

Set(p, step) == proc' = [proc EXCEPT ![p] = step]

-----------------------------------------------------------------------------
(* A change of the course, and the callback after its commit. *)

Change(w, o, op) ==
    /\ proc[w] = Idle
    /\ op = "remove" => o \in joined
    /\ joined' = IF op = "upsert" THEN joined \cup {o} ELSE joined \ {o}
    /\ Set(w, [at |-> "commit", object |-> o, op |-> op])
    /\ UNCHANGED <<events, created, accepted, latest, crashes, requeues>>

NewRow(o, op) == [status |-> "pending", object |-> o, op |-> op,
                  attempts |-> 0, due |-> TRUE]

\* enqueue_datamailer_outbox_event.
AddRow(o, op) ==
    /\ created < MaxEvents
    /\ created' = created + 1
    /\ events' = [events EXCEPT ![created'] = NewRow(o, op)]

Enqueue(w) ==
    /\ proc[w].at = "commit"
    /\ AddRow(proc[w].object, proc[w].op)
    /\ Set(w, Continue(IF DispatchImmediately THEN {created'} ELSE {}))
    /\ UNCHANGED <<joined, accepted, latest, crashes, requeues>>

\* Before it sends to a list, a staff request upserts the members in bulk,
\* an event for what is there already; this one is always dispatched at once.
BulkUpsert(w, o) ==
    /\ proc[w] = Idle
    /\ o \in joined
    /\ AddRow(o, "upsert")
    /\ Set(w, Continue({created'}))
    /\ UNCHANGED <<joined, accepted, latest, crashes, requeues>>

-----------------------------------------------------------------------------
(* A run, and the dispatch of one event. *)

StartRun(r) ==
    /\ proc[r] = Idle
    /\ Due # {}
    /\ \E batch \in Batches : Set(r, Continue(batch))
    /\ UNCHANGED <<joined, events, created, accepted, latest, crashes,
                   requeues>>

\* claim_outbox_event, under select_for_update.  The date of the next attempt
\* is not looked at again.
ClaimableUnlessSettled(e) == ~Settled(e)                     \* mutant
Claimable(e) == Retryable(e)

Claim(p) ==
    /\ proc[p].at = "run"
    /\ LET e == Earliest(proc[p].batch)
           rest == proc[p].batch \ {e}
       IN IF Claimable(e)
          THEN /\ events' = [events EXCEPT ![e].status = "processing",
                                           ![e].attempts = @ + 1]
               /\ Set(p, [at |-> "send", event |-> e, batch |-> rest])
          ELSE /\ Set(p, Continue(rest))
               /\ UNCHANGED events
    /\ UNCHANGED <<joined, created, accepted, latest, crashes, requeues>>

\* The request: carried out and answered, carried out without an answer
\* (a timeout), not carried out (an error worth a retry), or refused.
Send(p, outcome) ==
    /\ proc[p].at = "send"
    /\ LET e == proc[p].event IN
       /\ IF outcome \in {"accepted", "lost"}
          THEN /\ accepted' = accepted \cup {e}
               /\ latest' = [latest EXCEPT ![events[e].object] = e]
          ELSE UNCHANGED <<accepted, latest>>
       /\ Set(p, [at |-> "record", event |-> e, batch |-> proc[p].batch,
                  outcome |-> outcome])
    /\ UNCHANGED <<joined, events, created, crashes, requeues>>

\* status_for_error
StatusForErrorOneMore(e, outcome) ==                         \* mutant
    IF events[e].attempts > MaxAttempts \/ outcome = "rejected"
    THEN "failed" ELSE "retrying"
StatusForError(e, outcome) ==
    IF events[e].attempts >= MaxAttempts \/ outcome = "rejected"
    THEN "failed" ELSE "retrying"

\* mark_acked and mark_retry_or_failed; a retry is due after a delay.  In
\* strict mode the error is raised again and ends the run.
Record(p) ==
    /\ proc[p].at = "record"
    /\ LET e == proc[p].event
           answered == proc[p].outcome = "accepted"
           status == IF answered THEN "acked"
                     ELSE StatusForError(e, proc[p].outcome)
       IN /\ events' = [events EXCEPT ![e].status = status,
                                      ![e].due = status # "retrying"]
          /\ Set(p, IF Strict /\ ~answered THEN Idle
                    ELSE Continue(proc[p].batch))
    /\ UNCHANGED <<joined, created, accepted, latest, crashes, requeues>>

\* The delay of retry_delay is over.
BecomeDue(e) ==
    /\ events[e].status = "retrying"
    /\ ~events[e].due
    /\ events' = [events EXCEPT ![e].due = TRUE]
    /\ UNCHANGED <<joined, created, proc, accepted, latest, crashes, requeues>>

-----------------------------------------------------------------------------
(* Operators, and processes that die. *)

RequeueableSettled(e) == Settled(e)                          \* mutant
Requeueable(e) == events[e].status \in {"failed", "dead"}

\* requeue_datamailer_outbox_events: all of them; the attempts stay.
RequeuedAfresh(e) ==                                         \* mutant
    [events[e] EXCEPT !.status = "retrying", !.due = TRUE,
                      !.attempts = @ - MaxAttempts]
Requeued(e) == [events[e] EXCEPT !.status = "retrying", !.due = TRUE]
Requeue ==
    /\ requeues < MaxRequeues
    /\ \E e \in EventIds : Requeueable(e)
    /\ events' = [e \in EventIds |->
                    IF Requeueable(e) THEN Requeued(e) ELSE events[e]]
    /\ requeues' = requeues + 1
    /\ UNCHANGED <<joined, created, proc, accepted, latest, crashes>>

\* The operator closes a failed event in the admin.
Close(e) ==
    /\ events[e].status = "failed"
    /\ events' = [events EXCEPT ![e].status = "dead"]
    /\ UNCHANGED <<joined, created, proc, accepted, latest, crashes, requeues>>

\* Nothing notices that a process is gone: an event it had claimed keeps its
\* status.
Crash(p) ==
    /\ crashes < MaxCrashes
    /\ proc[p] # Idle
    /\ Set(p, Idle)
    /\ crashes' = crashes + 1
    /\ UNCHANGED <<joined, events, created, accepted, latest, requeues>>

Init ==
    /\ joined = {}
    /\ events = [e \in EventIds |-> NoRow]
    /\ created = 0
    /\ proc = [p \in Processes |-> Idle]
    /\ accepted = {}
    /\ latest = [o \in Objects |-> NoEvent]
    /\ crashes = 0
    /\ requeues = 0

Dispatch(p) ==
    \/ Claim(p)
    \/ \E outcome \in Outcomes : Send(p, outcome)
    \/ Record(p)

Next ==
    \/ \E w \in Web :
          \/ \E o \in Objects, op \in Ops : Change(w, o, op)
          \/ \E o \in Objects : BulkUpsert(w, o)
          \/ Enqueue(w)
    \/ \E r \in Runs : StartRun(r)
    \/ \E p \in Processes : Dispatch(p) \/ Crash(p)
    \/ \E e \in EventIds : BecomeDue(e) \/ Close(e)
    \/ Requeue

Spec == Init /\ [][Next]_vars

\* A process that has not died goes on; the scheduler keeps starting runs;
\* delays end.  Nothing is assumed of Datamailer's answers, of operators or
\* of the course.
Fairness ==
    /\ \A p \in Processes : WF_vars(Dispatch(p))
    /\ \A r \in Runs : WF_vars(StartRun(r))
    /\ \A e \in EventIds : WF_vars(BecomeDue(e))

FairSpec == Spec /\ Fairness

-----------------------------------------------------------------------------
(* Properties *)

TypeOK ==
    /\ joined \subseteq Objects
    /\ created \in 0 .. MaxEvents
    /\ DOMAIN events = EventIds
    /\ \A e \in EventIds :
          IF e <= created THEN events[e] \in EventRow ELSE events[e] = NoRow
    /\ proc \in [Processes -> Step]
    /\ accepted \subseteq EventIds
    /\ latest \in [Objects -> EventIds \cup {NoEvent}]
    /\ crashes \in 0 .. MaxCrashes
    /\ requeues \in 0 .. MaxRequeues

Holds(p, e) == proc[p].at \in {"send", "record"} /\ proc[p].event = e

\* An event is in the hands of one process at a time, although overlapping
\* runs list the same events, a request dispatches its own, and events come
\* back from retries and from the operator's requeueing.
OneSender ==
    \A p, q \in Processes : \A e \in EventIds :
        Holds(p, e) /\ Holds(q, e) => p = q

\* An event is attempted max_attempts times, and once more for each time the
\* operator has requeued, which leaves its count of attempts as it is.
AttemptsBounded ==
    \A e \in EventIds : events[e].attempts <= MaxAttempts + requeues

\* Every event is settled in the end: Datamailer has carried it out, or it is
\* left to the operator.  The one exception is an event whose process died
\* after claiming it: nothing sends, retries or requeues it.
Orphaned(e) ==
    events[e].status = "processing" /\ \A p \in Processes : ~Holds(p, e)
EventsSettle ==
    \A e \in EventIds : (e <= created) ~> (Settled(e) \/ Orphaned(e))

-----------------------------------------------------------------------------
(* The promise: delivery at least once, with a human as the last resort. *)

Standing(status) ==
    CASE status = "none" -> "absent"
      [] status \in {"pending", "retrying", "processing"} -> "waiting"
      [] status = "acked" -> "delivered"
      [] status \in {"failed", "dead"} -> "given up"

Delivery == INSTANCE AtLeastOnce WITH
    Ids <- EventIds,
    standing <- [e \in EventIds |-> Standing(events[e].status)],
    done <- accepted

\* The outbox delivers at least once: an event counts as delivered only if
\* Datamailer has carried it out, and that is final; one that is given up is
\* carried out no more, unless an operator reopens it.
DeliversAtLeastOnce == Delivery!DeliverySpec

=============================================================================
