----------------------------- MODULE OutboxProofs -----------------------------
(***************************************************************************)
(* Theorems about Outbox, for any objects, requests, runs, bounds and      *)
(* settings: its typing, that an event has one sender, how often it is     *)
(* attempted, and that the outbox implements AtLeastOnce.                  *)
(***************************************************************************)
EXTENDS Outbox, WellFoundedInduction, TLAPS

-----------------------------------------------------------------------------
(* The inductive invariant *)

\* Whoever has claimed an event finds it in processing until the outcome is
\* recorded: no claim, requeueing or closing touches it meanwhile.
HeldIsProcessing ==
    \A p \in Processes, e \in EventIds :
        Holds(p, e) => events[e].status = "processing"

\* A process that records an answer, or the lack of one, has been served.
AnsweredIsDone ==
    \A p \in Processes :
        proc[p].at = "record" /\ proc[p].outcome \in {"accepted", "lost"}
            => proc[p].event \in accepted

\* An event waits for a retry only with an attempt left.
AttemptLeft ==
    \A e \in EventIds :
        /\ events[e].status \in {"none", "pending"} => events[e].attempts = 0
        /\ events[e].status = "retrying"
              => events[e].attempts < MaxAttempts + requeues

IInv ==
    /\ TypeOK
    /\ HeldIsProcessing
    /\ OneSender
    /\ AnsweredIsDone
    /\ AttemptLeft
    /\ AttemptsBounded

-----------------------------------------------------------------------------
(* Lemmas about steps of a process *)

\* A nonempty set of natural numbers has a least element.
LEMMA LeastNumber ==
    ASSUME NEW T, T \subseteq Nat, T # {}
    PROVE  \E m \in T : \A n \in T : m <= n
<1> DEFINE R == {ss \in Nat \X Nat : ss[1] < ss[2]}
<1>1. IsWellFoundedOn(R, Nat)
    BY NatLessThanWellFounded DEF OpToRel
<1> HIDE DEF R
<1>2. PICK m \in T : \A n \in T : ~(<<n, m>> \in R)
    BY <1>1, WFMin
<1>3. \A n \in T : ~(n < m)
    BY <1>2 DEF R
<1> QED BY <1>3

\* The earliest event of a batch is one of them.
LEMMA EarliestIsThere ==
    ASSUME NEW S \in SUBSET EventIds, S # {}
    PROVE  Earliest(S) \in S
<1>1. S \subseteq Nat
    BY CountsAssumption DEF EventIds
<1>2. \E m \in S : \A n \in S : m <= n
    BY <1>1, LeastNumber
<1> QED BY <1>2 DEF Earliest

\* What a process carries, by what it is in the middle of.
LEMMA StepFields ==
    ASSUME NEW s \in Step
    PROVE  /\ s.at = "commit" => s.object \in Objects /\ s.op \in Ops
           /\ s.at = "run" => s.batch \in SUBSET EventIds /\ s.batch # {}
           /\ s.at = "send" => s.event \in EventIds /\ s.batch \in SUBSET EventIds
           /\ s.at = "record" => /\ s.event \in EventIds
                                 /\ s.batch \in SUBSET EventIds
                                 /\ s.outcome \in Outcomes
           /\ s.at \in {"idle", "commit", "run", "send", "record"}
BY DEF Step, Idle

\* Going on with a batch is a step, in which no event is held.
LEMMA ContinueHoldsNothing ==
    ASSUME NEW batch \in SUBSET EventIds
    PROVE  /\ Continue(batch) \in Step
           /\ Continue(batch).at \in {"idle", "run"}
BY DEF Continue, Step, Idle

\* A process that moves to a step leaves the others where they are.
LEMMA OthersStay ==
    ASSUME TypeOK, NEW p \in Processes, NEW step \in Step, Set(p, step)
    PROVE  /\ proc' \in [Processes -> Step]
           /\ proc'[p] = step
           /\ \A q \in Processes : q # p => proc'[q] = proc[q]
BY DEF TypeOK, Set

\* When no event is held that was not before, and the events held keep
\* their status, an event has one sender still.
LEMMA HoldersStay ==
    ASSUME HeldIsProcessing, OneSender,
           \A q \in Processes, e \in EventIds : Holds(q, e)' => Holds(q, e),
           \A e \in EventIds : events[e].status = "processing"
               => events'[e].status = "processing"
                  \/ \A q \in Processes : ~Holds(q, e)'
    PROVE  HeldIsProcessing' /\ OneSender'
BY DEF HeldIsProcessing, OneSender

\* A row is changed where it is created.
LEMMA RowOf ==
    ASSUME TypeOK, NEW e \in EventIds
    PROVE  /\ events[e].status # "none" => events[e] \in EventRow /\ e <= created
           /\ events[e].status = "none" => events[e] = NoRow /\ e > created
           /\ events[e].attempts \in Nat
           /\ events[e].status \in Statuses \cup {"none"}
BY CountsAssumption DEF TypeOK, EventRow, NoRow, Statuses, EventIds

\* A row that is claimed stays a row.
LEMMA ClaimedRow ==
    ASSUME NEW r \in EventRow
    PROVE  [r EXCEPT !.status = "processing", !.attempts = @ + 1] \in EventRow
<1>1. "processing" \in Statuses /\ r.attempts + 1 \in Nat
    BY DEF EventRow, Statuses
<1> QED BY <1>1 DEF EventRow

-----------------------------------------------------------------------------

LEMMA InitEstablishes == Init => IInv
<1> SUFFICES ASSUME Init PROVE IInv
    OBVIOUS
<1> USE CountsAssumption DEF Init
<1>1. TypeOK
    BY DEF TypeOK, EventIds, Step, NoEvent
<1>2. \A p \in Processes, e \in EventIds : ~Holds(p, e)
    BY DEF Holds, Idle
<1>3. HeldIsProcessing /\ OneSender
    BY <1>2 DEF HeldIsProcessing, OneSender
<1>4. AnsweredIsDone
    BY DEF AnsweredIsDone, Idle
<1>5. AttemptLeft /\ AttemptsBounded
    BY DEF AttemptLeft, AttemptsBounded, NoRow
<1> QED BY <1>1, <1>3, <1>4, <1>5 DEF IInv

-----------------------------------------------------------------------------
(* Typing *)

\* Changing the row of an event that is there keeps the rows typed.
LEMMA RowsTyped ==
    ASSUME TypeOK, NEW e \in EventIds, events[e].status # "none",
           NEW row \in EventRow, events' = [events EXCEPT ![e] = row],
           created' = created
    PROVE  /\ DOMAIN events' = EventIds
           /\ \A f \in EventIds :
                 IF f <= created' THEN events'[f] \in EventRow
                 ELSE events'[f] = NoRow
<1>1. e <= created
    BY RowOf
<1> QED BY <1>1 DEF TypeOK

LEMMA WebTyped ==
    ASSUME TypeOK, NEW w \in Web,
           \/ \E o \in Objects, op \in Ops : Change(w, o, op)
           \/ \E o \in Objects : BulkUpsert(w, o)
           \/ Enqueue(w)
    PROVE  TypeOK'
<1>1. w \in Processes /\ proc[w] \in Step
    BY DEF TypeOK, Processes
<1>2. ASSUME NEW o \in Objects, NEW op \in Ops, Change(w, o, op)
      PROVE  TypeOK'
  <2>1. [at |-> "commit", object |-> o, op |-> op] \in Step
      BY DEF Step
  <2>2. proc' \in [Processes -> Step]
      BY <1>1, <1>2, <2>1, OthersStay DEF Change
  <2> QED BY <1>2, <2>2 DEF Change, TypeOK
<1>3. ASSUME NEW o \in Objects, NEW op \in Ops, AddRow(o, op),
             NEW batch \in SUBSET {created'}, Set(w, Continue(batch)),
             UNCHANGED <<joined, accepted, latest, crashes, requeues>>
      PROVE  TypeOK'
  <2>1. created' \in EventIds /\ created' \in 0 .. MaxEvents
      BY <1>3, CountsAssumption DEF AddRow, TypeOK, EventIds
  <2>2. proc' \in [Processes -> Step]
      BY <1>1, <1>3, <2>1, ContinueHoldsNothing, OthersStay
  <2>3. NewRow(o, op) \in EventRow
      BY CountsAssumption DEF NewRow, EventRow, Statuses
  <2>4. ASSUME NEW e \in EventIds
        PROVE  IF e <= created' THEN events'[e] \in EventRow
               ELSE events'[e] = NoRow
    <3>1. CASE e = created'
        BY <1>3, <2>1, <2>3, <3>1, CountsAssumption
           DEF AddRow, TypeOK, EventIds
    <3>2. CASE e # created'
      <4>1. events'[e] = events[e]
          BY <1>3, <3>2 DEF AddRow, TypeOK
      <4>2. e <= created' <=> e <= created
          BY <1>3, <3>2, CountsAssumption DEF AddRow, TypeOK, EventIds
      <4> QED BY <4>1, <4>2 DEF TypeOK
    <3> QED BY <3>1, <3>2
  <2>5. DOMAIN events' = EventIds
      BY <1>3 DEF AddRow, TypeOK
  <2> QED BY <1>3, <2>1, <2>2, <2>4, <2>5 DEF TypeOK
<1>4. CASE Enqueue(w)
  <2>1. proc[w].object \in Objects /\ proc[w].op \in Ops
      BY <1>1, <1>4, StepFields DEF Enqueue
  <2> QED BY <1>3, <1>4, <2>1 DEF Enqueue
<1>5. ASSUME NEW o \in Objects, BulkUpsert(w, o)
      PROVE  TypeOK'
    BY <1>3, <1>5 DEF BulkUpsert, Ops
<1> QED BY <1>2, <1>4, <1>5

LEMMA DispatchTyped ==
    ASSUME TypeOK, HeldIsProcessing, NEW p \in Processes, Dispatch(p)
    PROVE  TypeOK'
<1>1. proc[p] \in Step
    BY DEF TypeOK
<1>2. CASE Claim(p)
  <2> DEFINE e == Earliest(proc[p].batch)
             rest == proc[p].batch \ {e}
  <2>1. e \in EventIds /\ rest \in SUBSET EventIds
      BY <1>1, <1>2, StepFields, EarliestIsThere DEF Claim
  <2> HIDE DEF e, rest
  <2>2. CASE Claimable(e)
    <3> DEFINE row == [events[e] EXCEPT !.status = "processing",
                                        !.attempts = @ + 1]
    <3>1. events[e].status # "none"
        BY <2>2 DEF Claimable, Retryable, RetryableStatuses
    <3>2. row \in EventRow
      <4>1. events[e] \in EventRow
          BY <2>1, <3>1, RowOf
      <4> QED BY <4>1, ClaimedRow
    <3>3. events' = [events EXCEPT ![e] = row]
        BY <1>2, <2>1, <2>2 DEF Claim, e, TypeOK
    <3>4. [at |-> "send", event |-> e, batch |-> rest] \in Step
        BY <2>1 DEF Step
    <3>5. proc' \in [Processes -> Step]
        BY <1>2, <2>2, <3>4, OthersStay DEF Claim, e, rest
    <3> HIDE DEF row
    <3> QED BY <1>2, <2>1, <3>1, <3>2, <3>3, <3>5, RowsTyped
            DEF Claim, TypeOK
  <2>3. CASE ~Claimable(e)
    <3>1. proc' \in [Processes -> Step]
        BY <1>2, <2>1, <2>3, ContinueHoldsNothing, OthersStay
           DEF Claim, e, rest
    <3> QED BY <1>2, <2>3, <3>1 DEF Claim, TypeOK, e
  <2> QED BY <2>2, <2>3
<1>3. ASSUME NEW outcome \in Outcomes, Send(p, outcome)
      PROVE  TypeOK'
  <2>1. proc[p].event \in EventIds /\ proc[p].batch \in SUBSET EventIds
      BY <1>1, <1>3, StepFields DEF Send
  <2>2. [at |-> "record", event |-> proc[p].event, batch |-> proc[p].batch,
         outcome |-> outcome] \in Step
      BY <2>1 DEF Step
  <2>3. proc' \in [Processes -> Step]
      BY <1>3, <2>2, OthersStay DEF Send
  <2>4. accepted' \subseteq EventIds
        /\ latest' \in [Objects -> EventIds \cup {NoEvent}]
      BY <1>3, <2>1 DEF Send, TypeOK
  <2> QED BY <1>3, <2>3, <2>4 DEF Send, TypeOK
<1>4. CASE Record(p)
  <2> DEFINE e == proc[p].event
             status == IF proc[p].outcome = "accepted" THEN "acked"
                       ELSE StatusForError(e, proc[p].outcome)
             row == [events[e] EXCEPT !.status = status,
                                      !.due = status # "retrying"]
  <2>1. e \in EventIds /\ proc[p].batch \in SUBSET EventIds
      BY <1>1, <1>4, StepFields DEF Record
  <2>2. status \in Statuses
      BY DEF StatusForError, Statuses
  <2>3. Idle \in Step /\ Continue(proc[p].batch) \in Step
      BY <2>1, ContinueHoldsNothing DEF Step
  <2>4. proc' \in [Processes -> Step]
      BY <1>4, <2>3, OthersStay DEF Record
  <2>5. events[e].status = "processing"
      BY <1>4, <2>1 DEF HeldIsProcessing, Holds, Record
  <2> HIDE DEF status
  <2>6. row \in EventRow
      BY <2>1, <2>2, <2>5, RowOf DEF EventRow
  <2>7. events' = [events EXCEPT ![e] = row]
      BY <1>4, <2>1 DEF Record, status, TypeOK
  <2> HIDE DEF row, e
  <2> QED BY <1>4, <2>1, <2>4, <2>5, <2>6, <2>7, RowsTyped DEF Record, TypeOK
<1> QED BY <1>2, <1>3, <1>4 DEF Dispatch

LEMMA OthersTyped ==
    ASSUME TypeOK,
           \/ \E r \in Runs : StartRun(r)
           \/ \E p \in Processes : Crash(p)
           \/ \E e \in EventIds : BecomeDue(e) \/ Close(e)
           \/ Requeue
    PROVE  TypeOK'
<1>1. ASSUME NEW r \in Runs, StartRun(r)
      PROVE  TypeOK'
  <2>1. PICK batch \in Batches : Set(r, Continue(batch))
      BY <1>1 DEF StartRun
  <2>2. batch \in SUBSET EventIds
      BY DEF Batches, Due
  <2>3. proc' \in [Processes -> Step]
      BY <2>1, <2>2, ContinueHoldsNothing, OthersStay DEF Processes
  <2> QED BY <1>1, <2>3 DEF StartRun, TypeOK
<1>2. ASSUME NEW p \in Processes, Crash(p)
      PROVE  TypeOK'
  <2>1. proc' \in [Processes -> Step]
      BY <1>2, OthersStay DEF Crash, Step
  <2> QED BY <1>2, <2>1, CountsAssumption DEF Crash, TypeOK
<1>3. ASSUME NEW e \in EventIds, BecomeDue(e)
      PROVE  TypeOK'
  <2>1. [events[e] EXCEPT !.due = TRUE] \in EventRow
      BY <1>3, RowOf DEF BecomeDue, EventRow
  <2>2. events' = [events EXCEPT ![e] = [events[e] EXCEPT !.due = TRUE]]
      BY <1>3 DEF BecomeDue, TypeOK
  <2> QED BY <1>3, <2>1, <2>2, RowsTyped DEF BecomeDue, TypeOK
<1>4. ASSUME NEW e \in EventIds, Close(e)
      PROVE  TypeOK'
  <2>1. [events[e] EXCEPT !.status = "dead"] \in EventRow
      BY <1>4, RowOf DEF Close, EventRow, Statuses
  <2>2. events' = [events EXCEPT ![e] = [events[e] EXCEPT !.status = "dead"]]
      BY <1>4 DEF Close, TypeOK
  <2> QED BY <1>4, <2>1, <2>2, RowsTyped DEF Close, TypeOK
<1>5. CASE Requeue
  <2>1. DOMAIN events' = EventIds
      BY <1>5 DEF Requeue
  <2>2. ASSUME NEW e \in EventIds
        PROVE  IF e <= created' THEN events'[e] \in EventRow
               ELSE events'[e] = NoRow
    <3>1. CASE Requeueable(e)
      <4>1. events[e] \in EventRow /\ e <= created
          BY <3>1, RowOf DEF Requeueable
      <4>2. Requeued(e) \in EventRow
          BY <4>1 DEF Requeued, EventRow, Statuses
      <4> QED BY <1>5, <3>1, <4>1, <4>2 DEF Requeue
    <3>2. CASE ~Requeueable(e)
        BY <1>5, <3>2 DEF Requeue, TypeOK
    <3> QED BY <3>1, <3>2
  <2>3. requeues' \in 0 .. MaxRequeues
      BY <1>5, CountsAssumption DEF Requeue, TypeOK
  <2> QED BY <1>5, <2>1, <2>2, <2>3 DEF Requeue, TypeOK
<1> QED BY <1>1, <1>2, <1>3, <1>4, <1>5

-----------------------------------------------------------------------------
(* Who holds an event *)

\* A process whose step is neither a request nor its record holds nothing,
\* and the others hold what they held.
LEMMA Released ==
    ASSUME TypeOK, NEW p \in Processes, NEW step \in Step, Set(p, step),
           step.at \in {"idle", "commit", "run"}
    PROVE  /\ \A q \in Processes, e \in EventIds :
                 Holds(q, e)' <=> q # p /\ Holds(q, e)
           /\ \A q \in Processes : proc'[q].at = "record" => proc'[q] = proc[q]
<1>1. proc'[p] = step /\ \A q \in Processes : q # p => proc'[q] = proc[q]
    BY OthersStay
<1> QED BY <1>1 DEF Holds

LEMMA IdleIsAStep == Idle \in Step /\ Idle.at = "idle"
BY DEF Step, Idle

\* A row that is added is of no event that anyone holds.
LEMMA AddingHolds ==
    ASSUME IInv, NEW w \in Web, NEW o \in Objects, NEW op \in Ops,
           AddRow(o, op), NEW batch \in SUBSET {created'},
           Set(w, Continue(batch)), UNCHANGED accepted
    PROVE  HeldIsProcessing' /\ OneSender' /\ AnsweredIsDone'
<1>1. created' \in EventIds /\ ~(created' <= created)
    BY CountsAssumption DEF AddRow, IInv, TypeOK, EventIds
<1>2. Continue(batch) \in Step /\ Continue(batch).at \in {"idle", "run"}
    BY <1>1, ContinueHoldsNothing
<1>3. w \in Processes
    BY DEF Processes
<1>4. /\ \A q \in Processes, e \in EventIds :
            Holds(q, e)' <=> q # w /\ Holds(q, e)
      /\ \A q \in Processes : proc'[q].at = "record" => proc'[q] = proc[q]
    BY <1>2, <1>3, Released DEF IInv
<1>5. ASSUME NEW e \in EventIds, events[e].status = "processing"
      PROVE  events'[e].status = "processing"
  <2>1. e # created'
      BY <1>1, <1>5, RowOf DEF IInv
  <2> QED BY <1>5, <2>1 DEF AddRow, IInv, TypeOK
<1>6. HeldIsProcessing' /\ OneSender'
    BY <1>4, <1>5, HoldersStay DEF IInv
<1>7. AnsweredIsDone'
    BY <1>4 DEF IInv, AnsweredIsDone
<1> QED BY <1>6, <1>7

LEMMA WebHolds ==
    ASSUME IInv, NEW w \in Web,
           \/ \E o \in Objects, op \in Ops : Change(w, o, op)
           \/ \E o \in Objects : BulkUpsert(w, o)
           \/ Enqueue(w)
    PROVE  HeldIsProcessing' /\ OneSender' /\ AnsweredIsDone'
<1>1. w \in Processes /\ proc[w] \in Step
    BY DEF IInv, TypeOK, Processes
<1>2. ASSUME NEW o \in Objects, NEW op \in Ops, Change(w, o, op)
      PROVE  HeldIsProcessing' /\ OneSender' /\ AnsweredIsDone'
  <2> DEFINE step == [at |-> "commit", object |-> o, op |-> op]
  <2>1. step \in Step /\ step.at = "commit"
      BY DEF Step
  <2>2. Set(w, step) /\ events' = events /\ accepted' = accepted
      BY <1>2 DEF Change
  <2> HIDE DEF step
  <2>3. /\ \A q \in Processes, e \in EventIds : Holds(q, e)' => Holds(q, e)
        /\ \A q \in Processes : proc'[q].at = "record" => proc'[q] = proc[q]
      BY <1>1, <2>1, <2>2, Released DEF IInv
  <2>4. HeldIsProcessing' /\ OneSender'
      BY <2>2, <2>3, HoldersStay DEF IInv
  <2>5. AnsweredIsDone'
      BY <2>2, <2>3 DEF IInv, AnsweredIsDone
  <2> QED BY <2>4, <2>5
<1>3. CASE Enqueue(w)
  <2>1. proc[w].object \in Objects /\ proc[w].op \in Ops
      BY <1>1, <1>3, StepFields DEF Enqueue
  <2> QED BY <1>3, <2>1, AddingHolds DEF Enqueue
<1>4. ASSUME NEW o \in Objects, BulkUpsert(w, o)
      PROVE  HeldIsProcessing' /\ OneSender' /\ AnsweredIsDone'
    BY <1>4, AddingHolds DEF BulkUpsert, Ops
<1> QED BY <1>2, <1>3, <1>4

LEMMA ClaimHolds ==
    ASSUME IInv, NEW p \in Processes, Claim(p)
    PROVE  HeldIsProcessing' /\ OneSender' /\ AnsweredIsDone'
<1> DEFINE e == Earliest(proc[p].batch)
           rest == proc[p].batch \ {e}
           step == [at |-> "send", event |-> e, batch |-> rest]
<1>1. e \in EventIds /\ rest \in SUBSET EventIds
    BY StepFields, EarliestIsThere DEF Claim, IInv, TypeOK
<1>2. accepted' = accepted
    BY DEF Claim
<1> HIDE DEF e, rest
<1>3. CASE Claimable(e)
  <2>1. step \in Step /\ step.at = "send" /\ step.event = e
      BY <1>1 DEF Step
  <2>2. Set(p, step)
      BY <1>3 DEF Claim, e, rest
  <2>3. events' = [events EXCEPT ![e].status = "processing",
                                 ![e].attempts = @ + 1]
      BY <1>3 DEF Claim, e
  <2>4. \A q \in Processes : ~Holds(q, e)
      BY <1>1, <1>3 DEF IInv, HeldIsProcessing, Claimable, Retryable,
                        RetryableStatuses
  <2> HIDE DEF step
  <2>5. /\ proc'[p] = step
        /\ \A q \in Processes : q # p => proc'[q] = proc[q]
      BY <2>1, <2>2, OthersStay DEF IInv
  <2>6. \A q \in Processes, f \in EventIds :
          Holds(q, f)' => IF q = p THEN f = e ELSE Holds(q, f) /\ f # e
      BY <2>1, <2>4, <2>5 DEF Holds
  <2>7. \A f \in EventIds :
          events'[f].status = IF f = e THEN "processing" ELSE events[f].status
      BY <1>1, <1>3, <2>3, RowOf DEF IInv, TypeOK, Claimable, Retryable,
         RetryableStatuses, EventRow
  <2>8. HeldIsProcessing'
      BY <2>6, <2>7 DEF IInv, HeldIsProcessing
  <2>9. OneSender'
      BY <2>6 DEF IInv, OneSender
  <2>10. AnsweredIsDone'
      BY <1>2, <2>1, <2>5 DEF IInv, AnsweredIsDone
  <2> QED BY <2>8, <2>9, <2>10
<1>4. CASE ~Claimable(e)
  <2>1. Set(p, Continue(rest)) /\ events' = events
      BY <1>4 DEF Claim, e, rest
  <2>2. /\ \A q \in Processes, f \in EventIds : Holds(q, f)' => Holds(q, f)
        /\ \A q \in Processes : proc'[q].at = "record" => proc'[q] = proc[q]
      BY <1>1, <2>1, ContinueHoldsNothing, Released DEF IInv
  <2>3. HeldIsProcessing' /\ OneSender'
      BY <2>1, <2>2, HoldersStay DEF IInv
  <2>4. AnsweredIsDone'
      BY <1>2, <2>2 DEF IInv, AnsweredIsDone
  <2> QED BY <2>3, <2>4
<1> QED BY <1>3, <1>4

LEMMA SendHolds ==
    ASSUME IInv, NEW p \in Processes, NEW outcome \in Outcomes, Send(p, outcome)
    PROVE  HeldIsProcessing' /\ OneSender' /\ AnsweredIsDone'
<1> DEFINE e == proc[p].event
           step == [at |-> "record", event |-> e, batch |-> proc[p].batch,
                    outcome |-> outcome]
<1>1. e \in EventIds /\ proc[p].batch \in SUBSET EventIds
    BY StepFields DEF Send, IInv, TypeOK
<1>2. /\ step \in Step /\ step.at = "record" /\ step.event = e
      /\ step.outcome = outcome
    BY <1>1 DEF Step
<1>3. Set(p, step) /\ events' = events /\ proc[p].at = "send"
    BY DEF Send
<1>4. outcome \in {"accepted", "lost"} => e \in accepted'
    BY DEF Send
<1>5. accepted \subseteq accepted'
    BY DEF Send
<1> HIDE DEF step
<1>6. /\ proc'[p] = step
      /\ \A q \in Processes : q # p => proc'[q] = proc[q]
    BY <1>2, <1>3, OthersStay DEF IInv
<1>7. \A q \in Processes, f \in EventIds : Holds(q, f)' => Holds(q, f)
    BY <1>2, <1>3, <1>6 DEF Holds
<1>8. HeldIsProcessing' /\ OneSender'
    BY <1>3, <1>7, HoldersStay DEF IInv
<1>9. AnsweredIsDone'
    BY <1>2, <1>4, <1>5, <1>6 DEF IInv, AnsweredIsDone
<1> QED BY <1>8, <1>9

LEMMA RecordHolds ==
    ASSUME IInv, NEW p \in Processes, Record(p)
    PROVE  HeldIsProcessing' /\ OneSender' /\ AnsweredIsDone'
<1>0. proc[p].event \in EventIds /\ proc[p].batch \in SUBSET EventIds
    BY StepFields DEF Record, IInv, TypeOK
<1>1. PICK e \in EventIds : e = proc[p].event
    BY <1>0
<1>2. PICK step \in {Idle, Continue(proc[p].batch)} : Set(p, step)
    BY DEF Record
<1>3. step \in Step /\ step.at \in {"idle", "run"}
    BY <1>0, ContinueHoldsNothing, IdleIsAStep
<1>4. Holds(p, e)
    BY <1>1 DEF Record, Holds
<1>5. /\ \A q \in Processes, f \in EventIds :
            Holds(q, f)' <=> q # p /\ Holds(q, f)
      /\ \A q \in Processes : proc'[q].at = "record" => proc'[q] = proc[q]
    BY <1>2, <1>3, Released DEF IInv
<1>6. \A q \in Processes : ~Holds(q, e)'
    BY <1>4, <1>5 DEF IInv, OneSender
<1>7. \A f \in EventIds : f # e => events'[f] = events[f]
    BY <1>1 DEF Record, IInv, TypeOK
<1>8. HeldIsProcessing' /\ OneSender'
    BY <1>5, <1>6, <1>7, HoldersStay DEF IInv
<1>9. AnsweredIsDone'
    BY <1>5 DEF Record, IInv, AnsweredIsDone
<1> QED BY <1>8, <1>9

LEMMA OthersHold ==
    ASSUME IInv,
           \/ \E r \in Runs : StartRun(r)
           \/ \E p \in Processes : Crash(p)
           \/ \E e \in EventIds : BecomeDue(e) \/ Close(e)
           \/ Requeue
    PROVE  HeldIsProcessing' /\ OneSender' /\ AnsweredIsDone'
<1>1. ASSUME NEW p \in Processes, NEW step \in Step, Set(p, step),
             step.at \in {"idle", "run"}, events' = events,
             accepted' = accepted
      PROVE  HeldIsProcessing' /\ OneSender' /\ AnsweredIsDone'
  <2>1. /\ \A q \in Processes, f \in EventIds : Holds(q, f)' => Holds(q, f)
        /\ \A q \in Processes : proc'[q].at = "record" => proc'[q] = proc[q]
      BY <1>1, Released DEF IInv
  <2>2. HeldIsProcessing' /\ OneSender'
      BY <1>1, <2>1, HoldersStay DEF IInv
  <2>3. AnsweredIsDone'
      BY <1>1, <2>1 DEF IInv, AnsweredIsDone
  <2> QED BY <2>2, <2>3
<1>2. ASSUME NEW r \in Runs, StartRun(r)
      PROVE  HeldIsProcessing' /\ OneSender' /\ AnsweredIsDone'
  <2>1. PICK batch \in Batches : Set(r, Continue(batch))
      BY <1>2 DEF StartRun
  <2>2. batch \in SUBSET EventIds
      BY DEF Batches, Due
  <2> QED BY <1>1, <1>2, <2>1, <2>2, ContinueHoldsNothing
          DEF StartRun, Processes
<1>3. ASSUME NEW p \in Processes, Crash(p)
      PROVE  HeldIsProcessing' /\ OneSender' /\ AnsweredIsDone'
    BY <1>1, <1>3, IdleIsAStep DEF Crash
<1>4. ASSUME proc' = proc, accepted' = accepted,
             \A f \in EventIds : events[f].status = "processing"
                                   => events'[f] = events[f]
      PROVE  HeldIsProcessing' /\ OneSender' /\ AnsweredIsDone'
    BY <1>4 DEF IInv, HeldIsProcessing, OneSender, AnsweredIsDone, Holds
<1>5. ASSUME NEW e \in EventIds, BecomeDue(e) \/ Close(e)
      PROVE  HeldIsProcessing' /\ OneSender' /\ AnsweredIsDone'
    BY <1>4, <1>5 DEF BecomeDue, Close, IInv, TypeOK
<1>6. CASE Requeue
    BY <1>4, <1>6 DEF Requeue, Requeueable
<1> QED BY <1>2, <1>3, <1>5, <1>6

-----------------------------------------------------------------------------
(* How often an event is attempted *)

\* Rows that only lose their claim to a retry keep within the bounds.
LEMMA AttemptsKept ==
    ASSUME IInv, requeues' = requeues,
           \A e \in EventIds :
              \/ events'[e] = events[e]
              \/ events'[e].attempts = 0
              \/ /\ events'[e].attempts = events[e].attempts
                 /\ events'[e].status \in {"acked", "failed", "dead"}
              \/ /\ events'[e].attempts = events[e].attempts
                 /\ events'[e].status = "retrying"
                 /\ events[e].status = "retrying"
    PROVE  AttemptLeft' /\ AttemptsBounded'
<1>1. MaxAttempts + requeues \in Nat \ {0}
    BY CountsAssumption DEF IInv, TypeOK
<1>2. ASSUME NEW e \in EventIds
      PROVE  /\ events'[e].status \in {"none", "pending"}
                    => events'[e].attempts = 0
             /\ events'[e].status = "retrying"
                    => events'[e].attempts < MaxAttempts + requeues
             /\ events'[e].attempts <= MaxAttempts + requeues
    BY <1>1, RowOf DEF IInv, AttemptLeft, AttemptsBounded
<1> QED BY <1>2 DEF AttemptLeft, AttemptsBounded

LEMMA WebAttempts ==
    ASSUME IInv, NEW w \in Web,
           \/ \E o \in Objects, op \in Ops : Change(w, o, op)
           \/ \E o \in Objects : BulkUpsert(w, o)
           \/ Enqueue(w)
    PROVE  AttemptLeft' /\ AttemptsBounded'
<1>1. requeues' = requeues
    BY DEF Change, BulkUpsert, Enqueue
<1>2. ASSUME NEW o, NEW op, AddRow(o, op), NEW e \in EventIds
      PROVE  events'[e] = events[e] \/ events'[e].attempts = 0
    BY <1>2 DEF AddRow, NewRow, IInv, TypeOK
<1>3. ASSUME NEW e \in EventIds
      PROVE  events'[e] = events[e] \/ events'[e].attempts = 0
    BY <1>2 DEF Change, BulkUpsert, Enqueue
<1> QED BY <1>1, <1>3, AttemptsKept

LEMMA ClaimAttempts ==
    ASSUME IInv, NEW p \in Processes, Claim(p)
    PROVE  AttemptLeft' /\ AttemptsBounded'
<1> DEFINE e == Earliest(proc[p].batch)
<1>1. e \in EventIds
    BY StepFields, EarliestIsThere DEF Claim, IInv, TypeOK
<1>2. requeues' = requeues
    BY DEF Claim
<1>3. CASE ~Claimable(e)
  <2>1. events' = events
      BY <1>3 DEF Claim
  <2> QED BY <1>2, <2>1, AttemptsKept
<1>4. CASE Claimable(e)
  <2>1. events' = [events EXCEPT ![e].status = "processing",
                                 ![e].attempts = @ + 1]
      BY <1>4 DEF Claim
  <2> HIDE DEF e
  <2>2. MaxAttempts + requeues \in Nat \ {0}
      BY CountsAssumption DEF IInv, TypeOK
  <2>3. events[e] \in EventRow /\ events[e].attempts < MaxAttempts + requeues
      BY <1>1, <1>4, <2>2, RowOf
         DEF IInv, AttemptLeft, Claimable, Retryable, RetryableStatuses
  <2>4. /\ events'[e].status = "processing"
        /\ events'[e].attempts = events[e].attempts + 1
      BY <1>1, <2>1, <2>3 DEF EventRow, IInv, TypeOK
  <2>5. \A f \in EventIds : f # e => events'[f] = events[f]
      BY <2>1 DEF IInv, TypeOK
  <2>6. events'[e].attempts <= MaxAttempts + requeues
      BY <1>1, <2>2, <2>3, <2>4, RowOf DEF IInv
  <2>7. AttemptLeft'
      BY <1>2, <2>4, <2>5 DEF IInv, AttemptLeft
  <2>8. AttemptsBounded'
      BY <1>2, <2>5, <2>6 DEF IInv, AttemptsBounded
  <2> QED BY <2>7, <2>8
<1> QED BY <1>3, <1>4

LEMMA RecordAttempts ==
    ASSUME IInv, NEW p \in Processes, Record(p)
    PROVE  AttemptLeft' /\ AttemptsBounded'
<1> DEFINE status == IF proc[p].outcome = "accepted" THEN "acked"
                     ELSE StatusForError(proc[p].event, proc[p].outcome)
<1>1. PICK e \in EventIds : e = proc[p].event
    BY StepFields DEF Record, IInv, TypeOK
<1>2. events[e].status = "processing"
    BY <1>1 DEF Record, Holds, IInv, HeldIsProcessing
<1>3. /\ \A f \in EventIds : f # e => events'[f] = events[f]
      /\ events'[e] = [events[e] EXCEPT !.status = status,
                                        !.due = status # "retrying"]
      /\ requeues' = requeues
    BY <1>1 DEF Record, IInv, TypeOK
<1>4. /\ status \in {"acked", "failed", "retrying"}
      /\ status = "retrying" => ~(events[e].attempts >= MaxAttempts)
    BY <1>1 DEF StatusForError
<1> HIDE DEF status
<1>5. events[e] \in EventRow
    BY <1>2, RowOf DEF IInv
<1>6. events'[e].status = status /\ events'[e].attempts = events[e].attempts
    BY <1>3, <1>5 DEF EventRow
<1>7. requeues \in Nat /\ MaxAttempts \in Nat /\ events[e].attempts \in Nat
    BY <1>5, CountsAssumption DEF EventRow, IInv, TypeOK
<1>8. status = "retrying" => events'[e].attempts < MaxAttempts + requeues
    BY <1>4, <1>6, <1>7
<1>9. AttemptLeft'
    BY <1>3, <1>4, <1>6, <1>8 DEF IInv, AttemptLeft
<1>10. AttemptsBounded'
    BY <1>3, <1>6 DEF IInv, AttemptsBounded
<1> QED BY <1>9, <1>10

LEMMA OthersAttempt ==
    ASSUME IInv,
           \/ \E r \in Runs : StartRun(r)
           \/ \E p \in Processes : Crash(p)
           \/ \E p \in Processes, outcome \in Outcomes : Send(p, outcome)
           \/ \E e \in EventIds : BecomeDue(e) \/ Close(e)
           \/ Requeue
    PROVE  AttemptLeft' /\ AttemptsBounded'
<1>1. ASSUME events' = events, requeues' = requeues
      PROVE  AttemptLeft' /\ AttemptsBounded'
    BY <1>1, AttemptsKept
<1>2. ASSUME NEW e \in EventIds, BecomeDue(e) \/ Close(e)
      PROVE  AttemptLeft' /\ AttemptsBounded'
  <2>1. events[e] \in EventRow /\ requeues' = requeues
      BY <1>2, RowOf DEF BecomeDue, Close, IInv
  <2>2. \A f \in EventIds : f # e => events'[f] = events[f]
      BY <1>2 DEF BecomeDue, Close, IInv, TypeOK
  <2>3. /\ events'[e].attempts = events[e].attempts
        /\ \/ events'[e].status = "dead"
           \/ events'[e].status = "retrying" /\ events[e].status = "retrying"
      BY <1>2, <2>1 DEF BecomeDue, Close, EventRow, IInv, TypeOK
  <2> QED BY <2>1, <2>2, <2>3, AttemptsKept
<1>3. CASE Requeue
  <2>1. requeues' = requeues + 1 /\ requeues \in Nat /\ MaxAttempts \in Nat
      BY <1>3, CountsAssumption DEF Requeue, IInv, TypeOK
  <2>2. ASSUME NEW e \in EventIds
        PROVE  /\ events'[e].attempts = events[e].attempts
               /\ events'[e].status \in {events[e].status, "retrying"}
    <3>1. CASE Requeueable(e)
      <4>1. events[e] \in EventRow
          BY <3>1, RowOf DEF Requeueable, IInv
      <4> QED BY <1>3, <3>1, <4>1 DEF Requeue, Requeued, EventRow
    <3>2. CASE ~Requeueable(e)
        BY <1>3, <3>2 DEF Requeue
    <3> QED BY <3>1, <3>2
  <2>3. ASSUME NEW e \in EventIds
        PROVE  /\ events'[e].attempts < MaxAttempts + requeues'
               /\ events'[e].status \in {"none", "pending"}
                      => events'[e].attempts = 0
    <3>1. events[e].attempts \in Nat
        BY RowOf DEF IInv
    <3>2. events[e].attempts <= MaxAttempts + requeues
        BY DEF IInv, AttemptsBounded
    <3>3. events'[e].attempts < MaxAttempts + requeues'
        BY <2>1, <2>2, <3>1, <3>2
    <3> QED BY <2>2, <3>3 DEF IInv, AttemptLeft
  <2>4. \A e \in EventIds : events'[e].attempts \in Nat
      BY <2>2, RowOf DEF IInv
  <2>5. AttemptLeft'
      BY <2>3 DEF AttemptLeft
  <2>6. AttemptsBounded'
      BY <2>1, <2>3, <2>4 DEF AttemptsBounded
  <2> QED BY <2>5, <2>6
<1> QED BY <1>1, <1>2, <1>3 DEF StartRun, Crash, Send

-----------------------------------------------------------------------------
(* The theorems *)

LEMMA StepKeeps == IInv /\ [Next]_vars => IInv'
<1> SUFFICES ASSUME IInv, [Next]_vars PROVE IInv'
    OBVIOUS
<1>1. ASSUME NEW w \in Web,
             \/ \E o \in Objects, op \in Ops : Change(w, o, op)
             \/ \E o \in Objects : BulkUpsert(w, o)
             \/ Enqueue(w)
      PROVE  IInv'
    BY <1>1, WebTyped, WebHolds, WebAttempts DEF IInv
<1>2. ASSUME NEW p \in Processes, Dispatch(p)
      PROVE  IInv'
  <2>1. TypeOK'
      BY <1>2, DispatchTyped DEF IInv
  <2>2. HeldIsProcessing' /\ OneSender' /\ AnsweredIsDone'
      BY <1>2, ClaimHolds, SendHolds, RecordHolds DEF Dispatch
  <2>3. AttemptLeft' /\ AttemptsBounded'
      BY <1>2, ClaimAttempts, RecordAttempts, OthersAttempt DEF Dispatch
  <2> QED BY <2>1, <2>2, <2>3 DEF IInv
<1>3. ASSUME \/ \E r \in Runs : StartRun(r)
             \/ \E p \in Processes : Crash(p)
             \/ \E e \in EventIds : BecomeDue(e) \/ Close(e)
             \/ Requeue
      PROVE  IInv'
  <2>1. TypeOK'
      BY <1>3, OthersTyped DEF IInv
  <2>2. HeldIsProcessing' /\ OneSender' /\ AnsweredIsDone'
      BY <1>3, OthersHold
  <2>3. AttemptLeft' /\ AttemptsBounded'
      BY <1>3, OthersAttempt
  <2> QED BY <2>1, <2>2, <2>3 DEF IInv
<1>4. CASE UNCHANGED vars
    BY <1>4 DEF vars, IInv, TypeOK, HeldIsProcessing, OneSender, Holds,
                AnsweredIsDone, AttemptLeft, AttemptsBounded
<1> QED BY <1>1, <1>2, <1>3, <1>4 DEF Next

LEMMA Invariance == Spec => []IInv
<1> QED BY InitEstablishes, StepKeeps, PTL DEF Spec

\* Rows, steps of processes and what Datamailer has stay well-typed.
THEOREM Typing == Spec => []TypeOK
<1>1. IInv => TypeOK
    BY DEF IInv
<1> QED BY <1>1, Invariance, PTL

\* However many requests, runs, retries, requeueings and crashes: no event is
\* claimed by two processes at a time.
THEOREM OneSenderAlways == Spec => []OneSender
<1>1. IInv => OneSender
    BY DEF IInv
<1> QED BY <1>1, Invariance, PTL

\* The attempts of an event never exceed max_attempts by more than the number
\* of requeueings.
THEOREM AttemptsAreBounded == Spec => []AttemptsBounded
<1>1. IInv => AttemptsBounded
    BY DEF IInv
<1> QED BY <1>1, Invariance, PTL

-----------------------------------------------------------------------------
(* The outbox implements AtLeastOnce *)

standings == [e \in EventIds |-> Standing(events[e].status)]

\* A step that changes the row of one event changes its standing at most.
LEMMA OneStanding ==
    ASSUME NEW e \in EventIds,
           \A f \in EventIds : f # e => events'[f] = events[f]
    PROVE  standings' = [standings EXCEPT ![e] = Standing(events'[e].status)]
BY DEF standings

\* What the operators of AtLeastOnce say of the events.
LEMMA MoveOf ==
    ASSUME NEW e \in EventIds, NEW to,
           standings' = [standings EXCEPT ![e] = to], accepted' = accepted
    PROVE  /\ to = standings[e] => UNCHANGED <<standings, accepted>>
           /\ standings[e] = "absent" /\ to = "waiting" => Delivery!Add(e)
           /\ standings[e] = "waiting" /\ to = "delivered" /\ e \in accepted
                 => Delivery!Deliver(e)
           /\ standings[e] = "waiting" /\ to = "given up" => Delivery!GiveUp(e)
BY DEF standings, Delivery!Add, Delivery!Deliver, Delivery!GiveUp, Delivery!Move

LEMMA InitDelivers == Init => Delivery!DeliveryInit
BY DEF Init, Delivery!DeliveryInit, NoRow, Standing

LEMMA AddDelivers ==
    ASSUME IInv, NEW o, NEW op, AddRow(o, op), accepted' = accepted
    PROVE  Delivery!DeliveryNext
<1>1. PICK e \in EventIds : e = created' /\ ~(e <= created)
    BY CountsAssumption DEF AddRow, IInv, TypeOK, EventIds
<1>2. events[e].status = "none"
    BY <1>1, RowOf DEF IInv, TypeOK, NoRow
<1>3. \A f \in EventIds : f # e => events'[f] = events[f]
    BY <1>1 DEF AddRow, IInv, TypeOK
<1>4. events'[e].status = "pending"
    BY <1>1 DEF AddRow, NewRow, IInv, TypeOK
<1>5. standings[e] = "absent" /\ Standing(events'[e].status) = "waiting"
    BY <1>2, <1>4 DEF standings, Standing
<1>6. Delivery!Add(e)
    BY <1>3, <1>5, OneStanding, MoveOf
<1> QED BY <1>6 DEF Delivery!DeliveryNext

LEMMA ClaimDelivers ==
    ASSUME IInv, NEW p \in Processes, Claim(p)
    PROVE  UNCHANGED <<standings, accepted>>
<1>1. PICK e \in EventIds : e = Earliest(proc[p].batch)
    BY StepFields, EarliestIsThere DEF Claim, IInv, TypeOK
<1>2. CASE ~Claimable(e)
    BY <1>1, <1>2 DEF Claim, standings
<1>3. CASE Claimable(e)
  <2>1. events' = [events EXCEPT ![e].status = "processing",
                                 ![e].attempts = @ + 1]
      BY <1>1, <1>3 DEF Claim
  <2>2. events[e] \in EventRow /\ events[e].status \in {"pending", "retrying"}
      BY <1>3, RowOf DEF IInv, Claimable, Retryable, RetryableStatuses
  <2>3. events'[e].status = "processing"
      BY <2>1, <2>2 DEF EventRow, IInv, TypeOK
  <2>4. Standing(events'[e].status) = standings[e]
      BY <2>2, <2>3 DEF standings, Standing
  <2>5. \A f \in EventIds : f # e => events'[f] = events[f]
      BY <2>1 DEF IInv, TypeOK
  <2> QED BY <2>4, <2>5, OneStanding, MoveOf DEF Claim
<1> QED BY <1>2, <1>3

LEMMA SendDelivers ==
    ASSUME IInv, NEW p \in Processes, NEW outcome \in Outcomes, Send(p, outcome)
    PROVE  Delivery!DeliveryNext \/ UNCHANGED <<standings, accepted>>
<1>1. PICK e \in EventIds : e = proc[p].event
    BY StepFields DEF Send, IInv, TypeOK
<1>2. events[e].status = "processing"
    BY <1>1 DEF Send, Holds, IInv, HeldIsProcessing
<1>3. events' = events /\ accepted' \in {accepted, accepted \cup {e}}
    BY <1>1 DEF Send
<1>4. standings' = standings /\ standings[e] = "waiting"
    BY <1>2, <1>3 DEF standings, Standing
<1>5. accepted' = accepted \cup {e} => Delivery!CarryOut(e)
    BY <1>4 DEF Delivery!CarryOut, standings
<1> QED BY <1>3, <1>4, <1>5 DEF Delivery!DeliveryNext

LEMMA RecordDelivers ==
    ASSUME IInv, NEW p \in Processes, Record(p)
    PROVE  Delivery!DeliveryNext \/ UNCHANGED <<standings, accepted>>
<1> DEFINE status == IF proc[p].outcome = "accepted" THEN "acked"
                     ELSE StatusForError(proc[p].event, proc[p].outcome)
<1>1. PICK e \in EventIds : e = proc[p].event
    BY StepFields DEF Record, IInv, TypeOK
<1>2. events[e].status = "processing" /\ events[e] \in EventRow
  <2>1. events[e].status = "processing"
      BY <1>1 DEF Record, Holds, IInv, HeldIsProcessing
  <2> QED BY <2>1, RowOf DEF IInv
<1>3. /\ \A f \in EventIds : f # e => events'[f] = events[f]
      /\ events'[e] = [events[e] EXCEPT !.status = status,
                                        !.due = status # "retrying"]
      /\ accepted' = accepted
    BY <1>1 DEF Record, IInv, TypeOK
<1>4. /\ status \in {"acked", "failed", "retrying"}
      /\ status = "acked" => e \in accepted
    BY <1>1 DEF StatusForError, Record, IInv, AnsweredIsDone
<1> HIDE DEF status
<1>5. events'[e].status = status
    BY <1>2, <1>3 DEF EventRow
<1>6. standings[e] = "waiting"
    BY <1>2 DEF standings, Standing
<1>7. standings' = [standings EXCEPT ![e] = Standing(status)]
    BY <1>3, <1>5, OneStanding
<1>8. CASE status = "acked"
  <2>1. Standing(status) = "delivered"
      BY <1>8 DEF Standing
  <2>2. Delivery!Deliver(e)
      BY <1>3, <1>4, <1>6, <1>7, <1>8, <2>1, MoveOf
  <2> QED BY <2>2 DEF Delivery!DeliveryNext
<1>9. CASE status = "failed"
  <2>1. Standing(status) = "given up"
      BY <1>9 DEF Standing
  <2>2. Delivery!GiveUp(e)
      BY <1>3, <1>6, <1>7, <2>1, MoveOf
  <2> QED BY <2>2 DEF Delivery!DeliveryNext
<1>10. CASE status = "retrying"
  <2>1. Standing(status) = "waiting"
      BY <1>10 DEF Standing
  <2> QED BY <1>3, <1>6, <1>7, <2>1, MoveOf
<1> QED BY <1>4, <1>8, <1>9, <1>10

LEMMA OthersDeliver ==
    ASSUME IInv,
           \/ \E e \in EventIds : BecomeDue(e) \/ Close(e)
           \/ Requeue
    PROVE  Delivery!DeliveryNext \/ UNCHANGED <<standings, accepted>>
<1>1. ASSUME NEW e \in EventIds, BecomeDue(e) \/ Close(e)
      PROVE  UNCHANGED <<standings, accepted>>
  <2>1. events[e] \in EventRow /\ accepted' = accepted
      BY <1>1, RowOf DEF BecomeDue, Close, IInv
  <2>2. \A f \in EventIds : f # e => events'[f] = events[f]
      BY <1>1 DEF BecomeDue, Close, IInv, TypeOK
  <2>3. Standing(events'[e].status) = standings[e]
      BY <1>1, <2>1 DEF BecomeDue, Close, EventRow, IInv, TypeOK, standings,
                        Standing
  <2> QED BY <2>1, <2>2, <2>3, OneStanding, MoveOf
<1>2. CASE Requeue
  <2>1. ASSUME NEW e \in EventIds
        PROVE  Standing(events'[e].status)
               = IF standings[e] = "given up" THEN "waiting" ELSE standings[e]
    <3>1. CASE Requeueable(e)
      <4>1. events[e] \in EventRow
          BY <3>1, RowOf DEF Requeueable, IInv
      <4>2. events'[e].status = "retrying"
          BY <1>2, <3>1, <4>1 DEF Requeue, Requeued, EventRow
      <4> QED BY <3>1, <4>2 DEF Requeueable, standings, Standing
    <3>2. CASE ~Requeueable(e)
      <4>1. events[e].status \in (Statuses \cup {"none"}) \ {"failed", "dead"}
          BY <3>2, RowOf DEF Requeueable, IInv
      <4>2. standings[e] # "given up"
          BY <4>1 DEF Statuses, standings, Standing
      <4> QED BY <1>2, <3>2, <4>2 DEF Requeue, standings
    <3> QED BY <3>1, <3>2
  <2>2. standings' = [e \in EventIds |-> IF standings[e] = "given up"
                                        THEN "waiting" ELSE standings[e]]
      BY <2>1 DEF standings
  <2>3. Delivery!Reopen
      BY <1>2, <2>2 DEF Requeue, Delivery!Reopen, standings
  <2> QED BY <2>3 DEF Delivery!DeliveryNext
<1> QED BY <1>1, <1>2

LEMMA StepDelivers ==
    ASSUME IInv, [Next]_vars
    PROVE  Delivery!DeliveryNext \/ UNCHANGED <<standings, accepted>>
<1>1. ASSUME NEW w \in Web, NEW o \in Objects, NEW op \in Ops, Change(w, o, op)
      PROVE  UNCHANGED <<standings, accepted>>
    BY <1>1 DEF Change, standings
<1>2. ASSUME NEW w \in Web,
             Enqueue(w) \/ \E o \in Objects : BulkUpsert(w, o)
      PROVE  Delivery!DeliveryNext
    BY <1>2, AddDelivers DEF Enqueue, BulkUpsert
<1>3. ASSUME \/ \E r \in Runs : StartRun(r)
             \/ \E p \in Processes : Crash(p)
             \/ UNCHANGED vars
      PROVE  UNCHANGED <<standings, accepted>>
    BY <1>3 DEF StartRun, Crash, vars, standings
<1>4. ASSUME NEW p \in Processes, Dispatch(p)
      PROVE  Delivery!DeliveryNext \/ UNCHANGED <<standings, accepted>>
    BY <1>4, ClaimDelivers, SendDelivers, RecordDelivers DEF Dispatch
<1> QED BY <1>1, <1>2, <1>3, <1>4, OthersDeliver DEF Next

\* The outbox, with its claims, processes, retries and crashes, implements the
\* promise of AtLeastOnce: an event is acknowledged only if Datamailer has
\* carried it out, and no operator reopens it then; one that was given up is
\* carried out no more unless it is reopened.
THEOREM OutboxDeliversAtLeastOnce == Spec => DeliversAtLeastOnce
<1>1. IInv /\ [Next]_vars => [Delivery!DeliveryNext]_(Delivery!deliveryVars)
    BY StepDelivers DEF Delivery!deliveryVars, standings
<1> QED BY <1>1, InitDelivers, Invariance, PTL
        DEF Spec, DeliversAtLeastOnce, Delivery!DeliverySpec

=============================================================================
