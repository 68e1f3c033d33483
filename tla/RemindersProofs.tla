---------------------------- MODULE RemindersProofs ----------------------------
(***************************************************************************)
(* The reminders for any number of learners, runs, callers and days.  A    *)
(* run reaches everybody because all its events are built before the first *)
(* is sent: the invariant says of each learner who owed the work when the  *)
(* run looked that the mail is there, or was passed over by Datamailer, or *)
(* its event is still ahead, or its sending has failed.                    *)
(***************************************************************************)
EXTENDS Reminders, FiniteSetTheorems, TLAPS

EventKeys == Kinds \X {"24h", "7d"} \X {0}
Events == [key : EventKeys, members : SUBSET Learners]
Mails == [key : EventKeys, learner : Learners]
Owings == [key : Kinds \X {"24h", "7d"}, learner : Learners]
KeyOf(o) == EventKey(o.key[1], o.key[2])

-----------------------------------------------------------------------------
(* The events of a kind *)

\* People and dates are what they should be.
CourseInv ==
    /\ now \in Times
    /\ due \in [Kinds -> Nat]
    /\ homework \in {"OP", "SC"} /\ project \in {"CS", "PR", "CO"}
    /\ submitted \in [homework : SUBSET Learners, project : SUBSET Learners]
    /\ submitted.homework \cup submitted.project \cup volunteers \subseteq enrolled
    /\ enrolled \subseteq Learners

LEMMA Days ==
    ASSUME NEW t \in Nat
    PROVE  Day(t) \in Nat
BY TimesAssumption DEF Day

\* The days of the two reminders differ.
LEMMA OneMatches ==
    ASSUME NEW kind, NEW day \in Nat, NEW s \in Matching(kind, day),
           NEW t \in Matching(kind, day)
    PROVE  s = t
<1>1. s \in {"24h", "7d"} /\ t \in {"24h", "7d"}
  BY DEF Matching, RemindersOf
<1>2. /\ Day(due[kind]) = day + (IF s = "24h" THEN 1 ELSE WeekAhead)
      /\ Day(due[kind]) = day + (IF t = "24h" THEN 1 ELSE WeekAhead)
  BY DEF Matching, DueForReminder
<1> QED
  BY <1>1, <1>2, TimesAssumption

\* Whoever owes work that is due on the day of a reminder is in its event.
LEMMA WhoOwesIsInvited ==
    ASSUME CourseInv, NEW kind \in Kinds, NEW day \in Nat
    PROVE  /\ EventsOf(kind, day) \in Seq(Events)
           /\ Owing(kind, day) \subseteq Owings
           /\ \A o \in Owing(kind, day) :
                 /\ Len(EventsOf(kind, day)) = 1
                 /\ EventsOf(kind, day)[1].key = KeyOf(o)
                 /\ o.learner \in EventsOf(kind, day)[1].members
<1>1. Pending[kind] \subseteq Learners /\ Owed[kind] \subseteq Learners
  BY DEF CourseInv, Kinds, Pending, PendingHomework, PendingSubmission, PendingReview, Owed
<1>2. \A l \in Owed[kind] : Active(kind) /\ l \in Pending[kind]
  BY DEF Owed, Kinds, Active, Pending, PendingHomework, PendingSubmission, PendingReview
<1>3. \A reminder \in Matching(kind, day) :
          /\ reminder \in {"24h", "7d"}
          /\ Event(kind, reminder) \in Events
          /\ Event(kind, reminder).key = EventKey(kind, reminder)
          /\ Event(kind, reminder).members = Pending[kind]
  <2> SUFFICES ASSUME NEW reminder \in Matching(kind, day)
               PROVE  /\ reminder \in {"24h", "7d"}
                      /\ Event(kind, reminder) \in Events
                      /\ Event(kind, reminder).key = EventKey(kind, reminder)
                      /\ Event(kind, reminder).members = Pending[kind]
    OBVIOUS
  <2>1. reminder \in {"24h", "7d"}
    BY DEF Matching, RemindersOf
  <2>2. EventKey(kind, reminder) \in EventKeys
    BY <2>1 DEF EventKey, EventKeys
  <2> QED
    BY <1>1, <2>1, <2>2 DEF Event, Events
<1> DEFINE first == CHOOSE reminder \in Matching(kind, day) : TRUE
<1>4. CASE Active(kind) /\ Matching(kind, day) # {} /\ Pending[kind] # {}
  <2>1. first \in Matching(kind, day)
    BY <1>4
  <2>2. EventsOf(kind, day) = << Event(kind, first) >>
    BY <1>4 DEF EventsOf
  <2> HIDE DEF first
  <2>3. EventsOf(kind, day) \in Seq(Events) /\ Len(EventsOf(kind, day)) = 1
    BY <1>3, <2>1, <2>2
  <2>4. ASSUME NEW o \in Owing(kind, day)
        PROVE  /\ o \in Owings
               /\ EventsOf(kind, day)[1].key = KeyOf(o)
               /\ o.learner \in EventsOf(kind, day)[1].members
    <3>1. PICK reminder \in Matching(kind, day), l \in Owed[kind] :
              o = [key |-> <<kind, reminder>>, learner |-> l]
      BY DEF Owing
    <3>2. reminder = first
      BY <2>1, OneMatches
    <3>3. o.learner = l /\ KeyOf(o) = EventKey(kind, first)
      BY <3>1, <3>2 DEF KeyOf
    <3>4. EventsOf(kind, day)[1] = Event(kind, first)
      BY <2>2
    <3>5. o \in Owings
      BY <1>1, <1>3, <3>1 DEF Owings
    <3> QED
      BY <1>2, <1>3, <2>1, <3>3, <3>4, <3>5
  <2> QED
    BY <2>3, <2>4
<1>5. CASE ~(Active(kind) /\ Matching(kind, day) # {} /\ Pending[kind] # {})
  <2>1. EventsOf(kind, day) = << >>
    BY <1>5 DEF EventsOf
  <2>2. Owing(kind, day) = {}
    BY <1>2, <1>5 DEF Owing
  <2> QED
    BY <2>1, <2>2
<1> QED
  BY <1>4, <1>5

\* An event leads to as many mails as it has members.
LEMMA MailCounted ==
    ASSUME NEW e \in Events
    PROVE  /\ IsFiniteSet(Recipients(e)) /\ Recipients(e) \subseteq Mails
           /\ Cardinality(Recipients(e)) = Cardinality(e.members)
           /\ Cardinality(e.members) \in Nat
<1>1. e.key \in EventKeys /\ e.members \subseteq Learners
  BY DEF Events
<1>2. IsFiniteSet(e.members)
  BY <1>1, LearnersAssumption, FS_Subset
<1>3. Recipients(e) \subseteq Mails
  BY <1>1 DEF Recipients, Mails
<1> DEFINE f == [l \in e.members |-> [key |-> e.key, learner |-> l]]
<1>4. f \in Surjection(e.members, Recipients(e))
  BY DEF Recipients, Surjection
<1>5. f \in Injection(e.members, Recipients(e))
  <2>1. f \in [e.members -> Recipients(e)]
    BY DEF Recipients
  <2>2. \A l, k \in e.members : f[l] = f[k] => l = k
    <3> SUFFICES ASSUME NEW l \in e.members, NEW k \in e.members, f[l] = f[k]
                 PROVE  l = k
      OBVIOUS
    <3>1. f[l].learner = l /\ f[k].learner = k
      OBVIOUS
    <3> QED
      BY <3>1
  <2> HIDE DEF f
  <2> QED
    BY <2>1, <2>2 DEF Injection, IsInjective
<1> HIDE DEF f
<1>7. IsFiniteSet(Recipients(e)) /\ Cardinality(Recipients(e)) = Cardinality(e.members)
  BY <1>2, <1>4, <1>5, FS_Surjection
<1>6. Cardinality(e.members) \in Nat
  BY <1>2, FS_CardinalityType
<1> QED
  BY <1>3, <1>6, <1>7

-----------------------------------------------------------------------------
(* The inductive invariant *)

Rows == {NoRow} \cup [status : {"succeeded", "failed"},
                      counts : [intended : Nat, created : Nat, replayed : Nat,
                                skipped : Nat]]
Works == [at : Kinds \cup {"sending", "answered"}, day : Nat, events : Seq(Events),
          failed : SUBSET EventKeys, outcome : {"accepted", "lost", "unavailable"},
          row : Rows, owing : SUBSET Owings]

OfKey(S, k) == {m \in S : m.key = k}

\* What a row says of the event with this key.
RowTrue(k, row) ==
    row.status = "succeeded" =>
        /\ row.counts.created + row.counts.replayed + row.counts.skipped = row.counts.intended
        /\ Cardinality(OfKey(mails, k)) >= row.counts.created + row.counts.replayed
        /\ Cardinality(OfKey(skipped, k)) >= row.counts.skipped

\* A run with an answer at hand: what it has been told is so.
Answered(q) ==
    q.at = "answered" =>
        /\ q.events # << >>
        /\ RowTrue(Head(q.events).key, q.row)
        /\ q.outcome = "accepted" => Recipients(Head(q.events)) \subseteq mails \cup skipped

\* Nobody who owed the work is out of the reach of the run: the sending has
\* failed, or Datamailer has been asked, or the event is still to be sent.
Reached(q, o) ==
    \/ KeyOf(o) \in q.failed
    \/ [key |-> KeyOf(o), learner |-> o.learner] \in mails \cup skipped
    \/ \E i \in 1 .. Len(q.events) : /\ q.events[i].key = KeyOf(o)
                                     /\ o.learner \in q.events[i].members
AllReached(q) == \A o \in q.owing : Reached(q, o)

RunInv(q) == q = Resting \/ (q \in Works /\ Answered(q) /\ AllReached(q))

MailsInv ==
    /\ mails \subseteq Mails /\ IsFiniteSet(mails)
    /\ skipped \subseteq Mails /\ IsFiniteSet(skipped)
AuditInv == \A k \in DOMAIN audit : audit[k] \in Rows /\ RowTrue(k, audit[k])
RunsInv == DOMAIN run = Runs /\ \A r \in Runs : RunInv(run[r])

\* A request that counts a duplicate has seen the row, and rows stay.
HookInv ==
    /\ DOMAIN counted = DOMAIN contact
    /\ \A m \in DOMAIN contact :
          contact[m] \in Nat /\ counted[m] \in Nat /\ contact[m] = counted[m] - 1
    /\ DOMAIN hook = Callers
    /\ \A c \in Callers : hook[c].at = "duplicate" => hook[c].mail \in DOMAIN contact

IInv == CourseInv /\ MailsInv /\ AuditInv /\ RunsInv /\ HookInv

-----------------------------------------------------------------------------
(* The course and the clock *)

LEMMA CourseStep ==
    ASSUME CourseInv, CourseNext
    PROVE  CourseInv' /\ UNCHANGED <<command, webhook>>
<1> USE DEF CourseInv, Change
<1>1. ASSUME NEW l \in Learners, Enroll(l)
      PROVE  CourseInv' /\ UNCHANGED <<command, webhook>>
  BY <1>1 DEF Enroll
<1>2. ASSUME NEW l \in Learners, SubmitHomework(l)
      PROVE  CourseInv' /\ UNCHANGED <<command, webhook>>
  BY <1>2 DEF SubmitHomework
<1>3. ASSUME NEW l \in Learners, SubmitProject(l)
      PROVE  CourseInv' /\ UNCHANGED <<command, webhook>>
  BY <1>3 DEF SubmitProject
<1>4. ASSUME NEW l \in Learners, DeleteProject(l)
      PROVE  CourseInv' /\ UNCHANGED <<command, webhook>>
  BY <1>4 DEF DeleteProject
<1>5. ASSUME NEW l \in Learners, Volunteer(l)
      PROVE  CourseInv' /\ UNCHANGED <<command, webhook>>
  BY <1>5 DEF Volunteer
<1>6. ASSUME NEW l \in Learners, FinishReviews(l)
      PROVE  CourseInv' /\ UNCHANGED <<command, webhook>>
  BY <1>6 DEF FinishReviews
<1>7. ASSUME AssignReviews
      PROVE  CourseInv' /\ UNCHANGED <<command, webhook>>
  <2>1. now + ReviewDays * Ticks \in Nat
    BY TimesAssumption DEF Times
  <2> QED
    BY <1>7, <2>1 DEF AssignReviews
<1>8. ASSUME ScoreHomework
      PROVE  CourseInv' /\ UNCHANGED <<command, webhook>>
  BY <1>8 DEF ScoreHomework
<1>9. ASSUME CompleteProject
      PROVE  CourseInv' /\ UNCHANGED <<command, webhook>>
  BY <1>9 DEF CompleteProject
<1>10. ASSUME NEW kind \in Kinds, NEW t \in MovedDue, MoveDeadline(kind, t)
       PROVE  CourseInv' /\ UNCHANGED <<command, webhook>>
  <2>1. t \in Nat
    BY TimesAssumption
  <2> QED
    BY <1>10, <2>1 DEF MoveDeadline
<1> QED
  BY <1>1, <1>2, <1>3, <1>4, <1>5, <1>6, <1>7, <1>8, <1>9, <1>10 DEF CourseNext

LEMMA TickStep ==
    ASSUME CourseInv, Tick
    PROVE  CourseInv' /\ UNCHANGED <<command, webhook>>
BY TimesAssumption DEF CourseInv, Tick, course, Times

\* What is said of the mails and the runs reads nothing of the course.
LEMMA CommandKept ==
    ASSUME MailsInv, AuditInv, RunsInv, UNCHANGED command
    PROVE  MailsInv' /\ AuditInv' /\ RunsInv'
BY DEF command, MailsInv, AuditInv, RunsInv, RunInv, Answered, AllReached, Reached, RowTrue

LEMMA HookKept ==
    ASSUME HookInv, UNCHANGED webhook
    PROVE  HookInv'
BY DEF webhook, HookInv

LEMMA CourseKept ==
    ASSUME CourseInv, UNCHANGED <<now, course>>
    PROVE  CourseInv'
BY DEF CourseInv, course

-----------------------------------------------------------------------------
(* The webhook *)

LEMMA WebhookStep ==
    ASSUME HookInv, WebhookNext
    PROVE  HookInv' /\ UNCHANGED <<now, course, command>>
<1> USE DEF HookInv
<1>1. ASSUME NEW c \in Callers, NEW m \in mails, Deliver(c, m)
      PROVE  HookInv' /\ UNCHANGED <<now, course, command>>
  <2>1. hook' = [hook EXCEPT ![c] = IF m \in DOMAIN contact THEN Duplicate(m)
                                    ELSE [at |-> "create", mail |-> m]]
        /\ UNCHANGED <<now, course, command, contact, counted>>
    BY <1>1 DEF Deliver
  <2> DEFINE q == IF m \in DOMAIN contact THEN Duplicate(m)
                  ELSE [at |-> "create", mail |-> m]
  <2>2. q.at = "duplicate" => q.mail \in DOMAIN contact
    BY DEF Duplicate
  <2> HIDE DEF q
  <2>3. hook' = [hook EXCEPT ![c] = q]
    BY <2>1 DEF q
  <2> QED
    BY <2>1, <2>2, <2>3
<1>2. ASSUME NEW c \in Callers, Create(c)
      PROVE  HookInv' /\ UNCHANGED <<now, course, command>>
  <2> DEFINE m == hook[c].mail
  <2>1. CASE m \in DOMAIN contact
    <3>1. /\ hook' = [hook EXCEPT ![c] = Duplicate(m)]
          /\ UNCHANGED <<now, course, command, contact, counted>>
      BY <1>2, <2>1 DEF Create
    <3>2. Duplicate(m).mail = m
      BY DEF Duplicate
    <3> HIDE DEF m
    <3> QED
      BY <2>1, <3>1, <3>2
  <2>2. CASE m \notin DOMAIN contact
    <3>1. /\ contact' = [n \in DOMAIN contact \cup {m} |-> IF n = m THEN 0 ELSE contact[n]]
          /\ counted' = [n \in DOMAIN contact' |-> IF n = m THEN 1 ELSE counted[n]]
          /\ hook' = [hook EXCEPT ![c] = NoCall]
          /\ UNCHANGED <<now, course, command>>
      BY <1>2, <2>2 DEF Create
    <3> HIDE DEF m
    <3>2. NoCall.at # "duplicate"
      BY DEF NoCall
    <3>3. DOMAIN contact' = DOMAIN contact \cup {m} /\ DOMAIN counted' = DOMAIN contact'
      BY <3>1
    <3>4. \A n \in DOMAIN contact' :
             contact'[n] \in Nat /\ counted'[n] \in Nat /\ contact'[n] = counted'[n] - 1
      BY <3>1
    <3> QED
      BY <3>1, <3>2, <3>3, <3>4
  <2> QED
    BY <2>1, <2>2
<1>3. ASSUME NEW c \in Callers, CountDuplicate(c)
      PROVE  HookInv' /\ UNCHANGED <<now, course, command>>
  <2> DEFINE m == hook[c].mail
  <2>1. /\ m \in DOMAIN contact
        /\ contact' = [contact EXCEPT ![m] = contact[m] + 1]
        /\ counted' = [counted EXCEPT ![m] = @ + 1]
        /\ hook' = [hook EXCEPT ![c] = NoCall]
        /\ UNCHANGED <<now, course, command>>
    BY <1>3 DEF CountDuplicate, Incremented
  <2> HIDE DEF m
  <2>2. NoCall.at # "duplicate"
    BY DEF NoCall
  <2>3. DOMAIN contact' = DOMAIN contact /\ DOMAIN counted' = DOMAIN contact'
    BY <2>1
  <2>4. \A n \in DOMAIN contact' :
           contact'[n] \in Nat /\ counted'[n] \in Nat /\ contact'[n] = counted'[n] - 1
    BY <2>1, <2>3
  <2> QED
    BY <2>1, <2>2, <2>3, <2>4
<1> QED
  BY <1>1, <1>2, <1>3 DEF WebhookNext

-----------------------------------------------------------------------------
(* The command *)

\* Mails that are sent stay sent, those passed over are on record.
Grown == mails \subseteq mails' /\ skipped \subseteq skipped'

LEMMA MoreOfKey ==
    ASSUME NEW S, NEW T, S \subseteq T, IsFiniteSet(T), NEW k
    PROVE  /\ Cardinality(OfKey(S, k)) \in Nat /\ Cardinality(OfKey(T, k)) \in Nat
           /\ Cardinality(OfKey(S, k)) <= Cardinality(OfKey(T, k))
<1>1. OfKey(S, k) \in SUBSET OfKey(T, k) /\ OfKey(T, k) \in SUBSET T
  BY DEF OfKey
<1>2. IsFiniteSet(OfKey(T, k))
  BY <1>1, FS_Subset
<1> QED
  BY <1>1, <1>2, FS_Subset, FS_CardinalityType

\* So what was true of a row or a run remains so.
LEMMA RowKept ==
    ASSUME MailsInv, MailsInv', Grown, NEW k, NEW row \in Rows, RowTrue(k, row)
    PROVE  RowTrue(k, row)'
<1>1. SUFFICES ASSUME row.status = "succeeded"
               PROVE  RowTrue(k, row)'
  BY DEF RowTrue
<1>2. PICK created \in Nat, replayed \in Nat, passed \in Nat :
          created = row.counts.created /\ replayed = row.counts.replayed
          /\ passed = row.counts.skipped
  BY <1>1 DEF Rows, NoRow
<1>3. /\ Cardinality(OfKey(mails, k)) \in Nat /\ Cardinality(OfKey(mails', k)) \in Nat
      /\ Cardinality(OfKey(mails, k)) <= Cardinality(OfKey(mails', k))
  BY MoreOfKey DEF MailsInv, Grown
<1>4. /\ Cardinality(OfKey(skipped, k)) \in Nat /\ Cardinality(OfKey(skipped', k)) \in Nat
      /\ Cardinality(OfKey(skipped, k)) <= Cardinality(OfKey(skipped', k))
  BY MoreOfKey DEF MailsInv, Grown
<1>5. /\ created + replayed + passed = row.counts.intended
      /\ Cardinality(OfKey(mails, k)) >= created + replayed
      /\ Cardinality(OfKey(skipped, k)) >= passed
  BY <1>1, <1>2 DEF RowTrue
<1>6. Cardinality(OfKey(mails', k)) >= created + replayed
  BY <1>3, <1>5
<1>7. Cardinality(OfKey(skipped', k)) >= passed
  BY <1>4, <1>5
<1> QED
  BY <1>2, <1>5, <1>6, <1>7 DEF RowTrue

LEMMA RunKept ==
    ASSUME MailsInv, MailsInv', Grown, NEW q, RunInv(q)
    PROVE  RunInv(q)'
<1>1. CASE q = Resting
  BY <1>1 DEF RunInv
<1>2. CASE q \in Works /\ Answered(q) /\ AllReached(q)
  <2>1. q.row \in Rows
    BY <1>2 DEF Works
  <2>2. Answered(q)'
    BY <1>2, <2>1, RowKept DEF Answered, Grown
  <2>3. AllReached(q)'
    BY <1>2 DEF AllReached, Reached, Grown
  <2> QED
    BY <1>2, <2>2, <2>3 DEF RunInv
<1> QED
  BY <1>1, <1>2 DEF RunInv

LEMMA AuditKept ==
    ASSUME MailsInv, MailsInv', Grown, AuditInv, UNCHANGED audit
    PROVE  AuditInv'
BY RowKept DEF AuditInv

LEMMA OneRunMoves ==
    ASSUME RunsInv, MailsInv, MailsInv', Grown,
           NEW r \in Runs, NEW q, run' = [run EXCEPT ![r] = q], RunInv(q)'
    PROVE  RunsInv'
<1>1. DOMAIN run' = Runs /\ run'[r] = q
  BY DEF RunsInv
<1>2. ASSUME NEW s \in Runs
      PROVE  RunInv(run[s])'
  <2>1. CASE s = r
    BY <1>1, <2>1 DEF RunInv, Answered, AllReached, Reached, RowTrue
  <2>2. CASE s # r
    <3>1. PICK p : p = run[s]
      OBVIOUS
    <3>2. RunInv(p)'
      <4>1. RunInv(p)
        BY <3>1 DEF RunsInv
      <4> QED
        BY <4>1, RunKept
    <3>3. run'[s] = p
      BY <2>2, <3>1 DEF RunsInv
    <3> QED
      BY <3>2, <3>3
  <2> QED
    BY <2>1, <2>2
<1> QED
  BY <1>1, <1>2 DEF RunsInv

\* A run begins with nothing, and owes nothing yet.
LEMMA NewRun ==
    ASSUME CourseInv, NEW q,
           q = [at |-> "homework", day |-> Day(now), events |-> << >>, failed |-> {},
                outcome |-> "accepted", row |-> NoRow, owing |-> {}]
    PROVE  RunInv(q)
<1>1. Day(now) \in Nat
  BY Days, TimesAssumption DEF CourseInv, Times
<1>2. NoRow \in Rows
  BY DEF Rows
<1>3. q \in Works
  BY <1>1, <1>2 DEF Works, Kinds
<1> QED
  BY <1>3 DEF RunInv, Answered, AllReached

\* What a send adds to the mails, and to those passed over.
LEMMA MoreMails ==
    ASSUME MailsInv, NEW e \in Events, NEW done \in BOOLEAN,
           mails' = mails \cup (IF done THEN Recipients(e) \ ToSkip(e) ELSE {}),
           skipped' = skipped \cup (IF done THEN ToSkip(e) ELSE {})
    PROVE  /\ MailsInv' /\ Grown
           /\ done => Recipients(e) \subseteq (mails \cup skipped)'
<1>1. IsFiniteSet(Recipients(e)) /\ Recipients(e) \subseteq Mails
  BY MailCounted
<1>2. ToSkip(e) \subseteq Recipients(e)
  BY DEF ToSkip
<1>3. IsFiniteSet(ToSkip(e)) /\ IsFiniteSet(Recipients(e) \ ToSkip(e))
  BY <1>1, <1>2, FS_Subset
<1>4. IsFiniteSet(mails') /\ IsFiniteSet(skipped')
  <2>1. IsFiniteSet({})
    BY FS_EmptySet
  <2> QED
    BY <1>3, <2>1, FS_Union DEF MailsInv
<1> QED
  BY <1>1, <1>2, <1>4 DEF MailsInv, Grown

\* Everybody a list is intended for has a new mail, or had one, or is passed
\* over, and never two of these.
LEMMA ThreeParts ==
    ASSUME NEW R, IsFiniteSet(R), NEW M, NEW S, S \subseteq R \ M
    PROVE  /\ Cardinality(R \ (M \cup S)) \in Nat /\ Cardinality(R \cap M) \in Nat
           /\ Cardinality(S) \in Nat
           /\ Cardinality(R \ (M \cup S)) + Cardinality(R \cap M) = Cardinality(R \ S)
           /\ Cardinality(R \ (M \cup S)) + Cardinality(R \cap M) + Cardinality(S)
                 = Cardinality(R)
<1> DEFINE kept == R \ S
<1>1. IsFiniteSet(kept) /\ IsFiniteSet(S)
  BY FS_Subset
<1>2. Cardinality(kept) = Cardinality(R) - Cardinality(S)
  <2>1. Cardinality(R \ S) = Cardinality(R) - Cardinality(R \cap S)
    BY FS_Difference
  <2>2. R \cap S = S
    OBVIOUS
  <2> QED
    BY <2>1, <2>2
<1>3. kept \cap M = R \cap M /\ kept \ M = R \ (M \cup S)
  OBVIOUS
<1> HIDE DEF kept
<1>4. Cardinality(kept \ M) = Cardinality(kept) - Cardinality(kept \cap M)
  BY <1>1, FS_Difference
<1>5. IsFiniteSet(kept \ M) /\ IsFiniteSet(kept \cap M)
  <2>1. kept \ M \in SUBSET kept /\ kept \cap M \in SUBSET kept
    OBVIOUS
  <2> QED
    BY <1>1, <2>1, FS_Subset
<1>6. /\ Cardinality(kept) \in Nat /\ Cardinality(S) \in Nat /\ Cardinality(R) \in Nat
      /\ Cardinality(kept \ M) \in Nat /\ Cardinality(kept \cap M) \in Nat
  BY <1>1, <1>5, FS_CardinalityType
<1>7. kept = R \ S
  BY DEF kept
<1>8. /\ Cardinality(kept \ M) + Cardinality(kept \cap M) = Cardinality(kept)
      /\ Cardinality(kept \ M) + Cardinality(kept \cap M) + Cardinality(S) = Cardinality(R)
  BY <1>2, <1>4, <1>6
<1> QED
  BY <1>3, <1>6, <1>7, <1>8

LEMMA RowOfAnAnswer ==
    ASSUME MailsInv, NEW e \in Events, NEW outcome \in {"accepted", "lost", "unavailable"},
           NEW done, done = (outcome # "unavailable"), MailsInv',
           mails' = mails \cup (IF done THEN Recipients(e) \ ToSkip(e) ELSE {}),
           skipped' = skipped \cup (IF done THEN ToSkip(e) ELSE {}),
           NEW row, row = AuditRow(e, outcome)
    PROVE  row \in Rows /\ RowTrue(e.key, row)'
<1>1. PICK R : R = Recipients(e)
  OBVIOUS
<1>2. PICK S : S = ToSkip(e)
  OBVIOUS
<1>3. PICK n : n = Cardinality(e.members)
  OBVIOUS
<1>4. IsFiniteSet(R) /\ Cardinality(R) = n /\ n \in Nat
  BY <1>1, <1>3, MailCounted
<1>5. S \subseteq R \ mails
  BY <1>1, <1>2 DEF ToSkip
<1>6. PICK created \in Nat : created = Cardinality(R \ (mails \cup S))
  BY <1>4, <1>5, ThreeParts
<1>7. PICK replayed \in Nat : replayed = Cardinality(R \cap mails)
  BY <1>4, <1>5, ThreeParts
<1>8. PICK passed \in Nat : passed = Cardinality(S)
  BY <1>4, <1>5, ThreeParts
<1>9. created + replayed = Cardinality(R \ S) /\ created + replayed + passed = n
  BY <1>4, <1>5, <1>6, <1>7, <1>8, ThreeParts
<1>10. row = [status |-> IF outcome = "accepted" THEN "succeeded" ELSE "failed",
              counts |-> [intended |-> n,
                          created |-> IF outcome = "accepted" THEN created ELSE 0,
                          replayed |-> IF outcome = "accepted" THEN replayed ELSE 0,
                          skipped |-> IF outcome = "accepted" THEN passed ELSE 0]]
  BY <1>1, <1>2, <1>3, <1>6, <1>7, <1>8 DEF AuditRow, AuditStatus, Counts
<1>11. row \in Rows
  BY <1>4, <1>10 DEF Rows
<1>12. CASE outcome = "accepted"
  <2>1. mails' = mails \cup (R \ S) /\ skipped' = skipped \cup S
    BY <1>1, <1>2, <1>12
  <2>2. \A m \in R : m.key = e.key
    BY <1>1 DEF Recipients
  <2>3. R \ S \in SUBSET OfKey(mails', e.key) /\ S \in SUBSET OfKey(skipped', e.key)
    BY <1>5, <2>1, <2>2 DEF OfKey
  <2>4. IsFiniteSet(OfKey(mails', e.key)) /\ IsFiniteSet(OfKey(skipped', e.key))
    <3>1. OfKey(mails', e.key) \in SUBSET mails' /\ OfKey(skipped', e.key) \in SUBSET skipped'
      BY DEF OfKey
    <3> QED
      BY <3>1, FS_Subset DEF MailsInv
  <2>5. /\ Cardinality(OfKey(mails', e.key)) >= created + replayed
        /\ Cardinality(OfKey(skipped', e.key)) >= passed
    <3>1. /\ Cardinality(R \ S) <= Cardinality(OfKey(mails', e.key))
          /\ Cardinality(S) <= Cardinality(OfKey(skipped', e.key))
      BY <2>3, <2>4, FS_Subset
    <3>2. /\ Cardinality(OfKey(mails', e.key)) \in Nat
          /\ Cardinality(OfKey(skipped', e.key)) \in Nat
      BY <2>4, FS_CardinalityType
    <3> QED
      BY <1>8, <1>9, <3>1, <3>2
  <2>6. /\ row.counts.intended = n /\ row.counts.created = created
        /\ row.counts.replayed = replayed /\ row.counts.skipped = passed
    BY <1>10, <1>12
  <2>7. RowTrue(e.key, row)'
    BY <1>9, <2>5, <2>6 DEF RowTrue
  <2> QED
    BY <1>11, <2>7
<1>13. CASE outcome # "accepted"
  <2>1. row.status # "succeeded"
    BY <1>10, <1>13
  <2> QED
    BY <1>11, <2>1 DEF RowTrue
<1> QED
  BY <1>12, <1>13

LEMMA StartRunStep ==
    ASSUME IInv, NEW r \in Runs, StartRun(r)
    PROVE  MailsInv' /\ AuditInv' /\ RunsInv'
<1>1. PICK q : q = [at |-> "homework", day |-> Day(now), events |-> << >>, failed |-> {},
                    outcome |-> "accepted", row |-> NoRow, owing |-> {}]
  OBVIOUS
<1>2. run' = [run EXCEPT ![r] = q] /\ UNCHANGED <<mails, skipped, audit>>
  BY <1>1 DEF StartRun
<1>3. MailsInv' /\ Grown
  BY <1>2 DEF IInv, MailsInv, Grown
<1>4. RunInv(q)'
  <2>1. RunInv(q)
    BY <1>1, NewRun DEF IInv
  <2> QED
    BY <1>3, <2>1, RunKept DEF IInv
<1> QED
  BY <1>2, <1>3, <1>4, OneRunMoves, AuditKept DEF IInv

\* Events are added behind those there are.
LEMMA Behind ==
    ASSUME NEW S, NEW old \in Seq(S), NEW new \in Seq(S)
    PROVE  /\ old \o new \in Seq(S)
           /\ \A i \in 1 .. Len(old) : i \in 1 .. Len(old \o new) /\ (old \o new)[i] = old[i]
           /\ Len(new) = 1 => /\ Len(old) + 1 \in 1 .. Len(old \o new)
                              /\ (old \o new)[Len(old) + 1] = new[1]
<1>1. PICK n \in Nat : n = Len(old)
  OBVIOUS
<1>2. PICK k \in Nat : k = Len(new)
  OBVIOUS
<1>3. old \o new \in Seq(S) /\ Len(old \o new) = n + k
  BY <1>1, <1>2
<1>4. \A i \in 1 .. n + k :
          (old \o new)[i] = IF i <= n THEN old[i] ELSE new[i - n]
  BY <1>1, <1>2
<1>5. \A i \in 1 .. n : i \in 1 .. n + k /\ i <= n
  BY <1>1, <1>2
<1>6. k = 1 => n + 1 \in 1 .. n + k /\ ~(n + 1 <= n) /\ n + 1 - n = 1
  BY <1>1, <1>2
<1> QED
  BY <1>1, <1>2, <1>3, <1>4, <1>5, <1>6

\* Whoever is found to owe the work is in the event that is added.
LEMMA LookedUp ==
    ASSUME CourseInv, NEW p \in Works, p.at \in Kinds, AllReached(p), NEW q,
           q = [p EXCEPT !.at = AfterKind[p.at],
                         !.events = p.events \o EventsOf(p.at, p.day),
                         !.owing = p.owing \cup Owing(p.at, p.day)]
    PROVE  RunInv(q)
<1>1. PICK new : new = EventsOf(p.at, p.day)
  OBVIOUS
<1>2. PICK owing : owing = Owing(p.at, p.day)
  OBVIOUS
<1>3. p.events \in Seq(Events) /\ p.day \in Nat /\ p.owing \subseteq Owings
  BY DEF Works
<1>4. /\ new \in Seq(Events) /\ owing \subseteq Owings
      /\ \A o \in owing : Len(new) = 1 /\ new[1].key = KeyOf(o) /\ o.learner \in new[1].members
  BY <1>1, <1>2, <1>3, WhoOwesIsInvited
<1>5. AfterKind[p.at] \in Kinds \cup {"sending"}
  BY DEF AfterKind, Kinds
<1>6. PICK events :
          /\ events = p.events \o new
          /\ events \in Seq(Events)
          /\ \A i \in 1 .. Len(p.events) : i \in 1 .. Len(events) /\ events[i] = p.events[i]
          /\ Len(new) = 1 => /\ Len(p.events) + 1 \in 1 .. Len(events)
                             /\ events[Len(p.events) + 1] = new[1]
  <2>1. PICK old \in Seq(Events) : old = p.events
    BY <1>3
  <2>2. PICK events : events = old \o new
    OBVIOUS
  <2>3. /\ events \in Seq(Events)
        /\ \A i \in 1 .. Len(old) : i \in 1 .. Len(events) /\ events[i] = old[i]
        /\ Len(new) = 1 => /\ Len(old) + 1 \in 1 .. Len(events)
                           /\ events[Len(old) + 1] = new[1]
    BY <1>4, <2>2, Behind
  <2> QED
    BY <2>1, <2>2, <2>3
<1>7. q = [p EXCEPT !.at = AfterKind[p.at], !.events = events,
                    !.owing = p.owing \cup owing]
  BY <1>1, <1>2, <1>6
<1>8. q \in Works
  BY <1>3, <1>4, <1>5, <1>6, <1>7 DEF Works
<1>9. /\ q.at # "answered" /\ q.events = events /\ q.owing = p.owing \cup owing
      /\ q.failed = p.failed
  BY <1>5, <1>7 DEF Works, Kinds
<1>10. AllReached(q)
  <2> SUFFICES ASSUME NEW o \in q.owing
               PROVE  Reached(q, o)
    BY DEF AllReached
  <2>2. CASE o \in p.owing
    <3>1. Reached(p, o)
      BY <2>2 DEF AllReached
    <3> QED
      BY <1>6, <1>9, <3>1 DEF Reached
  <2>3. CASE o \in owing
    <3>1. Len(new) = 1 /\ new[1].key = KeyOf(o) /\ o.learner \in new[1].members
      BY <1>4, <2>3
    <3>2. PICK i : i = Len(p.events) + 1
      OBVIOUS
    <3>3. i \in 1 .. Len(q.events) /\ q.events[i] = new[1]
      BY <1>6, <1>9, <3>1, <3>2
    <3> QED
      BY <3>1, <3>3 DEF Reached
  <2> QED
    BY <1>9, <2>2, <2>3
<1> QED
  BY <1>8, <1>9, <1>10 DEF RunInv, Answered

LEMMA LookUpStep ==
    ASSUME IInv, NEW r \in Runs, LookUp(r)
    PROVE  MailsInv' /\ AuditInv' /\ RunsInv'
<1>1. PICK p : p = run[r]
  OBVIOUS
<1>2. p.at \in Kinds
  BY <1>1 DEF LookUp
<1>3. p \in Works /\ AllReached(p)
  <2>1. RunInv(p)
    BY <1>1 DEF IInv, RunsInv
  <2> QED
    BY <1>2, <2>1 DEF RunInv, Resting, Kinds
<1>4. PICK q : q = [p EXCEPT !.at = AfterKind[p.at],
                             !.events = p.events \o EventsOf(p.at, p.day),
                             !.owing = p.owing \cup Owing(p.at, p.day)]
  OBVIOUS
<1>5. run' = [run EXCEPT ![r] = q] /\ UNCHANGED <<mails, skipped, audit>>
  BY <1>1, <1>4 DEF LookUp
<1>6. MailsInv' /\ Grown
  BY <1>5 DEF IInv, MailsInv, Grown
<1>7. RunInv(q)'
  <2>1. RunInv(q)
    BY <1>2, <1>3, <1>4, LookedUp DEF IInv
  <2> QED
    BY <1>6, <2>1, RunKept DEF IInv
<1> QED
  BY <1>5, <1>6, <1>7, OneRunMoves, AuditKept DEF IInv

LEMMA SendEventStep ==
    ASSUME IInv, NEW r \in Runs, NEW outcome \in {"accepted", "lost", "unavailable"},
           SendEvent(r, outcome)
    PROVE  MailsInv' /\ AuditInv' /\ RunsInv'
<1>1. PICK p : p = run[r]
  OBVIOUS
<1>2. p.at = "sending" /\ p.events # << >>
  BY <1>1 DEF SendEvent
<1>3. p \in Works /\ AllReached(p)
  <2>1. RunInv(p)
    BY <1>1 DEF IInv, RunsInv
  <2> QED
    BY <1>2, <2>1 DEF RunInv, Resting
<1>4. PICK e : e = Head(p.events)
  OBVIOUS
<1>5. e \in Events
  BY <1>2, <1>3, <1>4 DEF Works
<1>6. PICK row : row = AuditRow(e, outcome)
  OBVIOUS
<1>7. PICK q : q = [p EXCEPT !.at = "answered", !.outcome = outcome, !.row = row]
  OBVIOUS
<1> DEFINE done == outcome # "unavailable"
<1>8. /\ mails' = mails \cup (IF done THEN Recipients(e) \ ToSkip(e) ELSE {})
      /\ skipped' = skipped \cup (IF done THEN ToSkip(e) ELSE {})
      /\ run' = [run EXCEPT ![r] = q]
      /\ UNCHANGED audit
  BY <1>1, <1>4, <1>6, <1>7 DEF SendEvent
<1>9. /\ MailsInv' /\ Grown
      /\ done => Recipients(e) \subseteq (mails \cup skipped)'
  BY <1>5, <1>8, MoreMails DEF IInv
<1>10. row \in Rows /\ RowTrue(e.key, row)'
  BY <1>5, <1>6, <1>8, <1>9, RowOfAnAnswer DEF IInv
<1>11. /\ q \in Works /\ q.at = "answered" /\ q.outcome = outcome /\ q.row = row
       /\ q.events = p.events /\ q.failed = p.failed /\ q.owing = p.owing
  BY <1>3, <1>7, <1>10 DEF Works
<1>12. Answered(q)'
  <2>1. outcome = "accepted" => Recipients(e) \subseteq (mails \cup skipped)'
    BY <1>9
  <2> QED
    BY <1>2, <1>4, <1>10, <1>11, <2>1 DEF Answered
<1>13. AllReached(q)'
  BY <1>3, <1>9, <1>11 DEF AllReached, Reached, Grown
<1>14. RunInv(q)'
  BY <1>11, <1>12, <1>13 DEF RunInv
<1> QED
  BY <1>8, <1>9, <1>14, OneRunMoves, AuditKept DEF IInv

\* The event that goes has reached its members, or its key is remembered.
LEMMA NextEventReaches ==
    ASSUME NEW p \in Works, NEW q \in Works, p.events # << >>,
           p.outcome = "accepted" => Recipients(Head(p.events)) \subseteq mails \cup skipped,
           q.events = Tail(p.events), q.owing = p.owing,
           q.failed = IF p.outcome = "accepted" THEN p.failed
                      ELSE p.failed \cup {Head(p.events).key},
           AllReached(p)
    PROVE  AllReached(q)
<1> SUFFICES ASSUME NEW o \in q.owing
             PROVE  Reached(q, o)
  BY DEF AllReached
<1>1. Reached(p, o)
  BY DEF AllReached
<1> DEFINE key == KeyOf(o)
           mail == [key |-> key, learner |-> o.learner]
<1>2. CASE key \in p.failed
  BY <1>2 DEF Reached
<1>3. CASE mail \in mails \cup skipped
  BY <1>3 DEF Reached
<1>4. ASSUME NEW i \in 1 .. Len(p.events), p.events[i].key = key,
             o.learner \in p.events[i].members
      PROVE  Reached(q, o)
  <2>1. p.events \in Seq(Events)
    BY DEF Works
  <2>2. CASE i = 1
    <3>1. Head(p.events) = p.events[1]
      BY <2>1
    <3>2. CASE p.outcome = "accepted"
      <4>1. mail \in Recipients(p.events[1])
        BY <1>4, <2>2 DEF Recipients
      <4> QED
        BY <3>1, <3>2, <4>1 DEF Reached
    <3>3. CASE p.outcome # "accepted"
      BY <1>4, <2>2, <3>1, <3>3 DEF Reached
    <3> QED
      BY <3>2, <3>3
  <2>3. CASE i # 1
    <3>1. i - 1 \in 1 .. Len(Tail(p.events)) /\ Tail(p.events)[i - 1] = p.events[i]
      BY <2>1, <2>3
    <3> QED
      BY <1>4, <3>1 DEF Reached
  <2> QED
    BY <2>2, <2>3
<1> HIDE DEF key, mail
<1> QED
  BY <1>1, <1>2, <1>3, <1>4 DEF Reached, key, mail

LEMMA AuditEventStep ==
    ASSUME IInv, NEW r \in Runs, AuditEvent(r)
    PROVE  MailsInv' /\ AuditInv' /\ RunsInv'
<1>1. PICK p : p = run[r]
  OBVIOUS
<1>2. p.at = "answered"
  BY <1>1 DEF AuditEvent
<1>3. p \in Works /\ Answered(p) /\ AllReached(p)
  <2>1. RunInv(p)
    BY <1>1 DEF IInv, RunsInv
  <2> QED
    BY <1>2, <2>1 DEF RunInv, Resting
<1>4. /\ p.events # << >> /\ RowTrue(Head(p.events).key, p.row)
      /\ p.outcome = "accepted" => Recipients(Head(p.events)) \subseteq mails \cup skipped
  BY <1>2, <1>3 DEF Answered
<1>5. PICK key : key = Head(p.events).key
  OBVIOUS
<1>6. Head(p.events) \in Events /\ Tail(p.events) \in Seq(Events)
  BY <1>3, <1>4 DEF Works
<1>7. PICK failed : failed = IF p.outcome = "accepted" THEN p.failed ELSE p.failed \cup {key}
  OBVIOUS
<1>8. PICK q : q = [p EXCEPT !.at = "sending", !.events = Tail(p.events), !.row = NoRow,
                             !.outcome = "accepted", !.failed = failed]
  OBVIOUS
<1>9. /\ audit' = [k \in DOMAIN audit \cup {key} |-> IF k = key THEN p.row ELSE audit[k]]
      /\ run' = [run EXCEPT ![r] = q]
      /\ UNCHANGED <<mails, skipped>>
  BY <1>1, <1>5, <1>7, <1>8 DEF AuditEvent, EventsLeft
<1>10. /\ q.at = "sending" /\ q.events = Tail(p.events) /\ q.failed = failed
       /\ q.owing = p.owing
  BY <1>3, <1>8 DEF Works
<1>11. q \in Works
  <2>1. failed \in SUBSET EventKeys
    BY <1>3, <1>5, <1>6, <1>7 DEF Works, Events
  <2>2. NoRow \in Rows
    BY DEF Rows
  <2> QED
    BY <1>3, <1>6, <1>8, <2>1, <2>2 DEF Works
<1>12. AllReached(q)
  BY <1>3, <1>4, <1>5, <1>7, <1>10, <1>11, NextEventReaches DEF IInv
<1>13. RunInv(q)
  BY <1>10, <1>11, <1>12 DEF RunInv, Answered
<1>14. MailsInv' /\ Grown
  BY <1>9 DEF IInv, MailsInv, Grown
<1>15. RunsInv'
  <2>1. RunInv(q)'
    BY <1>13, <1>14, RunKept DEF IInv
  <2> QED
    BY <1>9, <1>14, <2>1, OneRunMoves DEF IInv
<1>16. AuditInv'
  <2>1. p.row \in Rows /\ RowTrue(key, p.row)
    BY <1>3, <1>4, <1>5 DEF Works
  <2>2. \A k \in DOMAIN audit' : audit'[k] \in Rows /\ RowTrue(k, audit'[k])
    BY <1>9, <2>1 DEF IInv, AuditInv
  <2> QED
    BY <1>9, <2>2 DEF AuditInv, RowTrue
<1> QED
  BY <1>14, <1>15, <1>16

LEMMA StoppedStep ==
    ASSUME IInv, NEW r \in Runs, EndRun(r) \/ Stop(r)
    PROVE  MailsInv' /\ AuditInv' /\ RunsInv'
<1>1. run' = [run EXCEPT ![r] = Resting] /\ UNCHANGED <<mails, skipped, audit>>
  BY DEF EndRun, Stop
<1>2. MailsInv' /\ Grown
  BY <1>1 DEF IInv, MailsInv, Grown
<1>3. PICK q : q = Resting
  OBVIOUS
<1>4. RunInv(q)'
  BY <1>3 DEF RunInv
<1> QED
  BY <1>1, <1>2, <1>3, <1>4, OneRunMoves, AuditKept DEF IInv

LEMMA CommandStep ==
    ASSUME IInv, CommandNext
    PROVE  MailsInv' /\ AuditInv' /\ RunsInv' /\ UNCHANGED <<now, course, webhook>>
<1>1. PICK r \in Runs :
          \/ StartRun(r) \/ LookUp(r) \/ AuditEvent(r) \/ EndRun(r) \/ Stop(r)
          \/ \E outcome \in {"accepted", "lost", "unavailable"} : SendEvent(r, outcome)
  BY DEF CommandNext
<1>2. UNCHANGED <<now, course, webhook>>
  BY <1>1 DEF StartRun, LookUp, AuditEvent, EndRun, Stop, SendEvent
<1> QED
  BY <1>1, <1>2, StartRunStep, LookUpStep, AuditEventStep, StoppedStep, SendEventStep

-----------------------------------------------------------------------------
(* The theorems *)

LEMMA InitInv ==
    ASSUME Init
    PROVE  IInv
<1>1. CourseInv
  BY TimesAssumption DEF Init, CourseInv, Times, Kinds
<1>2. MailsInv
  BY FS_EmptySet DEF Init, MailsInv
<1>3. AuditInv
  BY DEF Init, AuditInv
<1>4. RunsInv
  BY DEF Init, RunsInv, RunInv
<1>5. HookInv
  BY DEF Init, HookInv, NoCall
<1> QED
  BY <1>1, <1>2, <1>3, <1>4, <1>5 DEF IInv

LEMMA NextInv ==
    ASSUME IInv, [Next]_vars
    PROVE  IInv'
<1>1. CASE CourseNext
  BY <1>1, CourseStep, CommandKept, HookKept DEF IInv
<1>2. CASE CommandNext
  BY <1>2, CommandStep, CourseKept, HookKept DEF IInv
<1>3. CASE WebhookNext
  BY <1>3, WebhookStep, CourseKept, CommandKept DEF IInv
<1>4. CASE Tick
  BY <1>4, TickStep, CommandKept, HookKept DEF IInv
<1>5. CASE \E l \in Learners : OptOut(l)
  BY <1>5, CourseKept, CommandKept, HookKept DEF IInv, OptOut
<1>6. CASE UNCHANGED vars
  BY <1>6, CourseKept, CommandKept, HookKept DEF IInv, vars
<1> QED
  BY <1>1, <1>2, <1>3, <1>4, <1>5, <1>6 DEF Next

\* The invariant of the commands and the webhook holds in every behaviour.
THEOREM Invariant == Spec => []IInv
<1>1. Init => IInv
  BY InitInv
<1>2. IInv /\ [Next]_vars => IInv'
  BY NextInv
<1> QED
  BY <1>1, <1>2, PTL DEF Spec

LEMMA OneMailEach ==
    ASSUME IInv
    PROVE  TypeOK
<1>1. \A m, n \in mails :
          m.learner = n.learner /\ m.key[1] = n.key[1] /\ m.key[2] = n.key[2] => m = n
  <2> SUFFICES ASSUME NEW m \in mails, NEW n \in mails,
                      m.learner = n.learner, m.key[1] = n.key[1], m.key[2] = n.key[2]
               PROVE  m = n
    OBVIOUS
  <2>1. m \in Mails /\ n \in Mails
    BY DEF IInv, MailsInv
  <2>2. m.key \in EventKeys /\ n.key \in EventKeys
    BY <2>1 DEF Mails
  <2>3. m.key = n.key
    BY <2>2 DEF EventKeys
  <2> QED
    BY <2>1, <2>3 DEF Mails
<1> QED
  BY <1>1 DEF IInv, CourseInv, TypeOK

\* Values are what they should be; and however often the command runs,
\* overlaps itself, fails or is stopped (send_events, reminder_event_key), no
\* learner has a mail twice of one reminder of one piece of work.
THEOREM Typing == Spec => []TypeOK
<1>1. IInv => TypeOK
  BY OneMailEach
<1> QED
  BY <1>1, Invariant, PTL

LEMMA NobodyIsLeft ==
    ASSUME IInv
    PROVE  RunLeavesNobody
<1> SUFFICES ASSUME NEW r \in Runs, run[r].at = "sending", run[r].events = << >>,
                    NEW o \in run[r].owing
             PROVE  \/ \E k \in run[r].failed : k[1] = o.key[1] /\ k[2] = o.key[2]
                    \/ \E m \in mails \cup skipped :
                          /\ m.learner = o.learner
                          /\ m.key[1] = o.key[1] /\ m.key[2] = o.key[2]
  BY DEF RunLeavesNobody
<1>1. AllReached(run[r])
  <2>1. RunInv(run[r])
    BY DEF IInv, RunsInv
  <2> QED
    BY <2>1 DEF RunInv, Resting
<1> DEFINE key == KeyOf(o)
           mail == [key |-> key, learner |-> o.learner]
<1>2. key \in run[r].failed \/ mail \in mails \cup skipped
  BY <1>1 DEF AllReached, Reached
<1>3. key[1] = o.key[1] /\ key[2] = o.key[2]
  BY DEF KeyOf, EventKey
<1>4. mail.learner = o.learner /\ mail.key = key
  OBVIOUS
<1> HIDE DEF key, mail
<1> QED
  BY <1>2, <1>3, <1>4

\* Whoever owed the work when the command looked for it (build_reminder_events)
\* and whose deadline is on the day of a reminder has its mail, or has opted
\* out with Datamailer, when the command has been through its events
\* (send_events); or it knows that the sending of that one event failed.
THEOREM RunsReachEverybody == Spec => []RunLeavesNobody
<1>1. IInv => RunLeavesNobody
  BY NobodyIsLeft
<1> QED
  BY <1>1, Invariant, PTL

\* A send on record as succeeded (record_datamailer_send_audit) has sent to
\* or skipped all it was intended for, and no more was sent or skipped on its
\* account than there is (datamailer_send_counts), whichever of several runs
\* wrote the row last and whoever opts out or comes back in between.
THEOREM TheAuditIsTrue == Spec => []AuditIsTrue
<1>1. IInv => AuditIsTrue
  BY DEF IInv, AuditInv, RowTrue, OfKey, AuditIsTrue
<1> QED
  BY <1>1, Invariant, PTL

\* The row of a callback counts each of its repetitions once, also those that
\* come side by side with the first (record_datamailer_event).
THEOREM EveryDuplicateCounts == Spec => []DuplicatesCounted
<1>1. IInv => DuplicatesCounted
  BY DEF IInv, HookInv, DuplicatesCounted
<1> QED
  BY <1>1, Invariant, PTL

=============================================================================
