--------------------------- MODULE CourseApiProofs ---------------------------
(***************************************************************************)
(* Theorems about CourseApi, for any workers, students and bounds: what    *)
(* the tables hold, what may take a submission away, what a refused        *)
(* request leaves behind, and what a request does to the state.            *)
(***************************************************************************)
EXTENDS CourseApi, FiniteSetTheorems, TLAPS

-----------------------------------------------------------------------------
(* The inductive invariant *)

\* A request between its check and its write knows of every submission and
\* answer that its write would take along: it was made after the check.
KnowsLosses(r) ==
    /\ r.at \in {"delete", "commit"} \/ (r.at = "save" /\ r.replaces)
          => \A s \in Students : <<s, r.row>> \in subs => s \in r.since
    /\ r.at = "qdelete" => \A s \in Students : <<s, r.quest>> \in answers => s \in r.since

\* A request that has read the row finds it as it was, or was told.
KnowsSaves(r) ==
    /\ r.at \in {"count", "delete"} /\ r.row \in DOMAIN rows /\ rows[r.row] = "OP"
          => "saved" \in r.since
    /\ r.at \in {"patch", "save", "commit"} /\ r.row # 0
          => \/ "saved" \in r.since
             \/ r.row \in DOMAIN rows /\ (r.wanted = Keep => rows[r.row] = r.state)

\* What a request carries, by what it is in the middle of.
Carries(r) ==
    /\ r.at # "done" => r.said = "nothing"
    /\ r.at \in {"create", "save", "commit"} =>
          /\ r.op = "put"
          /\ r.row = 0 /\ r.wanted = Keep => r.state = "CL"
          /\ r.replaces /\ r.wanted \in {Keep, "CL"} => r.state = "CL"
    /\ r.at \in {"patch", "create", "save", "commit"} /\ r.wanted # Keep => r.state = r.wanted
    /\ r.at \in {"patch", "count", "delete"} => r.row # 0
    /\ r.at = "commit" => r.replaces
    /\ r.at = "create" => kind # "homework" /\ r.row = 0
    /\ kind # "homework" =>
          /\ r.given = 0 /\ r.left = 0 /\ ~r.replaces
          /\ r.at \notin {"qdelete", "qpatch"}

\* A request has written only where it goes on to say so.
Written(r) ==
    /\ r.wrote /\ r.at # "done" =>
          \/ r.at \in {"item", "insert", "questions"} /\ r.made
          \/ r.at = "save" /\ ~r.replaces
    /\ r.said = "refused" /\ r.wrote =>
          /\ r.op = "put"
          /\ r.wanted \notin {"CL", Keep} \/ r.since \cap Students # {}

Sound(r) ==
    /\ r.row <= lastRow
    /\ KnowsLosses(r) /\ KnowsSaves(r) /\ Carries(r) /\ Written(r)

\* The transaction that is about to commit has the slug to itself.
Target(r) == IF r.row = 0 THEN lastRow + 1 ELSE r.row
CommitAlone ==
    \A v \in Workers : req[v].at = "commit" =>
        /\ DOMAIN rows \subseteq {Target(req[v])}
        /\ \A w \in Workers : req[w].at = "commit" => w = v

\* A question belongs to one assignment for good: in the table, in the hands
\* of a request that will save it and of a student who answers it.
Home(q, h) ==
    \/ q \in DOMAIN quests /\ quests[q] = h
    \/ \E w \in Workers : req[w].at = "qpatch" /\ req[w].quest = q /\ req[w].row = h
    \/ \E s \in Students : q \in form[s].quests /\ form[s].row = h
OneHome ==
    \A q \in Nat, h \in Nat :
        Home(q, h) => q \in 1 .. lastQuest /\ \A k \in Nat : Home(q, k) => h = k

IInv ==
    /\ TypeOK
    /\ \A w \in Workers : Sound(req[w])
    /\ \A s \in Students : form[s].row <= lastRow
    /\ CommitAlone
    /\ OneHome
-----------------------------------------------------------------------------
(* Lemmas about requests *)

LEMMA IdleFields ==
    /\ Idle \in Request
    /\ Idle.at = "done" /\ Idle.said = "nothing" /\ ~Idle.wrote /\ Idle.row = 0
    /\ Idle.given = 0 /\ Idle.left = 0 /\ ~Idle.replaces
BY DEF Idle, Request, Ops, Steps, States, Keep

LEMMA RepliedFields ==
    ASSUME NEW r \in Request, NEW said \in {"nothing", "ok", "refused", "failed", "died"}
    PROVE  LET n == Replied(r, said) IN
           /\ n \in Request
           /\ n.at = "done" /\ n.said = said /\ n.row = 0
           /\ n.op = r.op /\ n.wanted = r.wanted /\ n.wrote = r.wrote /\ n.since = r.since
           /\ n.given = 0 /\ n.left = 0 /\ ~n.replaces
<1>1. r.op \in Ops /\ r.wanted \in States \cup {Keep} /\ r.wrote \in BOOLEAN
      /\ r.since \in SUBSET (Students \cup {"saved"})
    BY DEF Request
<1> QED BY <1>1, IdleFields DEF Replied, Request

\* A reply is sound if a refusal of a request that has written is one of a
\* PUT with a reason.
LEMMA ReplySound ==
    ASSUME NEW r \in Request, NEW said \in {"nothing", "ok", "refused", "failed", "died"},
           lastRow \in Nat,
           said = "refused" /\ r.wrote =>
              /\ r.op = "put"
              /\ r.wanted \notin {"CL", Keep} \/ r.since \cap Students # {}
    PROVE  Sound(Replied(r, said))
<1> DEFINE n == Replied(r, said)
<1>1. /\ n.at = "done" /\ n.said = said /\ n.row = 0
      /\ n.op = r.op /\ n.wanted = r.wanted /\ n.wrote = r.wrote /\ n.since = r.since
      /\ n.given = 0 /\ n.left = 0 /\ ~n.replaces
    BY RepliedFields
<1> HIDE DEF n
<1>2. KnowsLosses(n) /\ KnowsSaves(n)
    BY <1>1 DEF KnowsLosses, KnowsSaves
<1>3. Carries(n) /\ Written(n)
    BY <1>1 DEF Carries, Written
<1> QED BY <1>1, <1>2, <1>3 DEF Sound, n

\* A worker's step that no other request notices.
LEMMA StepFields ==
    ASSUME req \in [Workers -> Request], NEW w \in Workers, NEW n \in Request,
           req' = [req EXCEPT ![w] = n]
    PROVE  /\ req' \in [Workers -> Request]
           /\ req'[w] = n
           /\ \A v \in Workers : v # w => req'[v] = req[v]
OBVIOUS

\* A request as it is when it has noticed e.
Told(r, e) == IF r.at = "done" THEN r ELSE [r EXCEPT !.since = @ \cup {e}]

LEMMA ToldFields ==
    ASSUME NEW r \in Request, NEW e \in Students \cup {"saved"}
    PROVE  LET n == Told(r, e) IN
           /\ n \in Request
           /\ n.op = r.op /\ n.at = r.at /\ n.row = r.row /\ n.quest = r.quest
           /\ n.state = r.state /\ n.wanted = r.wanted /\ n.replaces = r.replaces
           /\ n.given = r.given /\ n.left = r.left /\ n.items = r.items
           /\ n.made = r.made /\ n.said = r.said /\ n.wrote = r.wrote
           /\ r.since \subseteq n.since
           /\ r.at # "done" => n.since = r.since \cup {e}
BY DEF Told, Request

\* A worker's step that the other requests notice.
LEMMA NoticedFields ==
    ASSUME req \in [Workers -> Request], NEW w \in Workers, NEW n \in Request,
           NEW e \in Students \cup {"saved"}, req' = [Noticed(w, e) EXCEPT ![w] = n]
    PROVE  /\ req' \in [Workers -> Request]
           /\ req'[w] = n
           /\ \A v \in Workers : v # w => req'[v] = Told(req[v], e)
<1>1. \A v \in Workers : Told(req[v], e) \in Request
    BY ToldFields
<1> QED BY <1>1 DEF Noticed, Told

LEMMA NoticedOwn ==
    ASSUME NEW w \in Workers, NEW e
    PROVE  Noticed(w, e)[w] = req[w]
BY DEF Noticed

-----------------------------------------------------------------------------
(* Lemmas about the steps of a worker *)

\* The part of TypeOK that is about the tables.
Tables ==
    /\ lastRow \in Nat /\ lastQuest \in Nat
    /\ DOMAIN rows \subseteq 1 .. lastRow
    /\ \A i, r \in DOMAIN rows : i = r
    /\ \A r \in DOMAIN rows : rows[r] \in States
    /\ DOMAIN quests \subseteq 1 .. lastQuest
    /\ \A q \in DOMAIN quests : quests[q] \in DOMAIN rows
    /\ subs \subseteq Students \X DOMAIN rows
    /\ answers \subseteq Students \X DOMAIN quests
    /\ \A a \in answers : <<a[1], quests[a[2]]>> \in subs
    /\ kind # "homework" => DOMAIN quests = {}

LEMMA TablesTyped ==
    TypeOK <=> req \in [Workers -> Request] /\ form \in [Students -> Form] /\ Tables
BY DEF TypeOK, Tables

\* A step of w to n, which the others notice or which leaves their rows be.
QuietStep(w, n) ==
    /\ req' = [req EXCEPT ![w] = n]
    /\ UNCHANGED <<rows, subs, lastRow>>
SavingStep(w, n) == req' = [Noticed(w, "saved") EXCEPT ![w] = n]
StepOf(w, n) == QuietStep(w, n) \/ SavingStep(w, n)

LEMMA StepShape ==
    ASSUME req \in [Workers -> Request], NEW w \in Workers, NEW n \in Request, StepOf(w, n)
    PROVE  /\ req' \in [Workers -> Request]
           /\ req'[w] = n
           /\ \A v \in Workers : v # w =>
                 /\ req'[v].at = req[v].at
                 /\ req'[v].row = req[v].row
                 /\ req'[v].quest = req[v].quest
<1>1. CASE QuietStep(w, n)
    BY <1>1, StepFields DEF QuietStep
<1>2. CASE SavingStep(w, n)
  <2>1. /\ req' \in [Workers -> Request]
        /\ req'[w] = n
        /\ \A v \in Workers : v # w => req'[v] = Told(req[v], "saved")
    BY <1>2, NoticedFields DEF SavingStep
  <2>2. \A v \in Workers : LET m == Told(req[v], "saved") IN
            m.at = req[v].at /\ m.row = req[v].row /\ m.quest = req[v].quest
    BY ToldFields
  <2> QED BY <2>1, <2>2
<1> QED BY <1>1, <1>2 DEF StepOf

\* What the other requests know stays true.
LEMMA OthersSound ==
    ASSUME IInv, NEW w \in Workers, NEW n \in Request, StepOf(w, n), kind' = kind,
           subs' \subseteq subs, answers' \subseteq answers,
           lastRow' \in Nat, lastRow <= lastRow',
           NEW v \in Workers, v # w
    PROVE  Sound(req[v])'
<1> USE DEF IInv
<1>0. req \in [Workers -> Request] /\ req[v] \in Request /\ Sound(req[v]) /\ lastRow \in Nat
    BY TablesTyped DEF Tables
<1>1. CASE QuietStep(w, n)
  <2>1. req'[v] = req[v]
    BY <1>0, <1>1, StepFields DEF QuietStep
  <2>2. KnowsLosses(req[v])' /\ KnowsSaves(req[v])'
    BY <1>0, <1>1, <2>1 DEF QuietStep, Sound, KnowsLosses, KnowsSaves
  <2>3. Carries(req[v])' /\ Written(req[v])'
    BY <1>0, <2>1 DEF Sound, Carries, Written
  <2> QED BY <1>0, <1>1, <2>1, <2>2, <2>3 DEF QuietStep, Sound
<1>2. CASE SavingStep(w, n)
  <2>1. req'[v] = Told(req[v], "saved")
    BY <1>0, <1>2, NoticedFields DEF SavingStep
  <2> DEFINE m == req'[v]
             r == req[v]
  <2>2. /\ m.op = r.op /\ m.at = r.at /\ m.row = r.row /\ m.quest = r.quest
        /\ m.state = r.state /\ m.wanted = r.wanted /\ m.replaces = r.replaces
        /\ m.given = r.given /\ m.left = r.left /\ m.items = r.items
        /\ m.made = r.made /\ m.said = r.said /\ m.wrote = r.wrote
        /\ r.since \subseteq m.since
        /\ r.at # "done" => m.since = r.since \cup {"saved"}
    BY <1>0, <2>1, ToldFields
  <2>3. r.row \in Nat
    BY <1>0 DEF Request
  <2>4. KnowsLosses(req[v])'
    BY <1>0, <2>2 DEF Sound, KnowsLosses
  <2>5. KnowsSaves(req[v])'
    BY <1>0, <2>2 DEF Sound, KnowsSaves
  <2>6. Carries(req[v])'
    BY <1>0, <2>2 DEF Sound, Carries
  <2>7. Written(req[v])'
    BY <1>0, <2>2 DEF Sound, Written
  <2>8. req'[v].row <= lastRow'
    BY <1>0, <2>2, <2>3 DEF Sound
  <2> QED BY <2>4, <2>5, <2>6, <2>7, <2>8 DEF Sound
<1> QED BY <1>1, <1>2 DEF StepOf

LEMMA CommitKept ==
    ASSUME IInv, NEW w \in Workers, NEW n \in Request, StepOf(w, n),
           \/ UNCHANGED <<rows, lastRow>>
           \/ RowFree(w) /\ n.at # "commit"
           \/ kind # "homework" /\ n.at # "commit",
           n.at = "commit" => RowFree(w) /\ DOMAIN rows \subseteq {Target(n)}
    PROVE  CommitAlone'
<1>1. /\ req'[w] = n
      /\ \A v \in Workers : v # w => req'[v].at = req[v].at /\ req'[v].row = req[v].row
    BY StepShape, TablesTyped DEF IInv
<1>2. kind # "homework" => \A v \in Workers : req[v].at # "commit"
    BY DEF IInv, Sound, Carries
<1>3. CASE UNCHANGED <<rows, lastRow>>
    BY <1>1, <1>3 DEF IInv, CommitAlone, Target, RowFree
<1>4. CASE n.at # "commit" /\ (RowFree(w) \/ kind # "homework")
    BY <1>1, <1>2, <1>4 DEF CommitAlone, RowFree
<1> QED BY <1>3, <1>4

\* New questions are those of one assignment, with ids not given before.
LEMMA HomesKept ==
    ASSUME IInv, NEW w \in Workers, NEW n \in Request, StepOf(w, n), form' = form,
           lastQuest' \in Nat, lastQuest <= lastQuest', NEW r \in Nat,
           DOMAIN quests' \subseteq 1 .. lastQuest',
           \A q \in DOMAIN quests' :
              Home(q, quests'[q]) \/ (q \in lastQuest + 1 .. lastQuest' /\ quests'[q] = r),
           n.at = "qpatch" => Home(n.quest, n.row)
    PROVE  OneHome'
<1>1. /\ req'[w] = n
      /\ \A v \in Workers : v # w =>
            req'[v].at = req[v].at /\ req'[v].row = req[v].row /\ req'[v].quest = req[v].quest
    BY StepShape, TablesTyped DEF IInv
<1>2. ASSUME NEW q \in Nat, NEW h \in Nat, Home(q, h)'
      PROVE  Home(q, h) \/ (q \in lastQuest + 1 .. lastQuest' /\ h = r)
  <2>1. CASE q \in DOMAIN quests' /\ quests'[q] = h
    BY <2>1
  <2>2. CASE \E v \in Workers : req'[v].at = "qpatch" /\ req'[v].quest = q /\ req'[v].row = h
    BY <1>1, <2>2 DEF Home
  <2>3. CASE \E s \in Students : q \in form'[s].quests /\ form'[s].row = h
    BY <2>3 DEF Home
  <2> QED BY <1>2, <2>1, <2>2, <2>3 DEF Home
<1>3. lastQuest \in Nat /\ OneHome
    BY TablesTyped DEF IInv, Tables
<1>4. ASSUME NEW q \in Nat, NEW h \in Nat, Home(q, h)'
      PROVE  q \in 1 .. lastQuest' /\ \A k \in Nat : Home(q, k)' => h = k
  <2>1. Home(q, h) => q \in 1 .. lastQuest
    BY <1>3 DEF OneHome
  <2>2. q \in 1 .. lastQuest'
    BY <1>2, <1>3, <1>4, <2>1
  <2>3. ASSUME NEW k \in Nat, Home(q, k)'  PROVE h = k
    <3>1. Home(q, k) => q \in 1 .. lastQuest
      BY <1>3 DEF OneHome
    <3>2. CASE Home(q, h) /\ Home(q, k)
      BY <1>3, <3>2 DEF OneHome
    <3>3. CASE ~Home(q, h)
      <4>1. q \in lastQuest + 1 .. lastQuest' /\ h = r
        BY <1>2, <1>4, <3>3
      <4>2. ~Home(q, k)
        BY <1>3, <3>1, <4>1
      <4> QED BY <1>2, <2>3, <4>1, <4>2
    <3>4. CASE ~Home(q, k)
      <4>1. q \in lastQuest + 1 .. lastQuest' /\ k = r
        BY <1>2, <2>3, <3>4
      <4>2. ~Home(q, h)
        BY <1>3, <2>1, <4>1
      <4> QED BY <1>2, <1>4, <4>1, <4>2
    <3> QED BY <3>2, <3>3, <3>4
  <2> QED BY <2>2, <2>3
<1> HIDE DEF Home
<1> QED BY <1>4 DEF OneHome

\* The invariant after a step of w, from what the step does to the tables and
\* to the request of w.
LEMMA StepKeeps ==
    ASSUME IInv, NEW w \in Workers, NEW n \in Request, StepOf(w, n),
           kind' = kind, form' = form,
           Tables', subs' \subseteq subs, answers' \subseteq answers,
           lastRow <= lastRow', lastQuest <= lastQuest',
           Sound(n)',
           \/ UNCHANGED <<rows, lastRow>>
           \/ RowFree(w) /\ n.at # "commit"
           \/ kind # "homework" /\ n.at # "commit",
           n.at = "commit" => RowFree(w) /\ DOMAIN rows \subseteq {Target(n)},
           NEW r \in Nat,
           \A q \in DOMAIN quests' :
              Home(q, quests'[q]) \/ (q \in lastQuest + 1 .. lastQuest' /\ quests'[q] = r),
           n.at = "qpatch" => Home(n.quest, n.row)
    PROVE  IInv'
<1>1. /\ req' \in [Workers -> Request]
      /\ req'[w] = n
    BY StepShape, TablesTyped DEF IInv
<1>2. /\ lastRow' \in Nat /\ lastQuest' \in Nat /\ lastRow \in Nat
      /\ DOMAIN quests' \subseteq 1 .. lastQuest'
    BY TablesTyped DEF IInv, Tables
<1>3. TypeOK'
    BY <1>1, TablesTyped DEF IInv, TypeOK, Tables
<1>4. \A v \in Workers : v # w => Sound(req[v])'
    BY <1>2, OthersSound
<1>5. \A v \in Workers : Sound(req[v])'
    BY <1>1, <1>4 DEF Sound, KnowsLosses, KnowsSaves, Carries, Written
<1>6. \A s \in Students : form'[s].row <= lastRow'
    BY <1>2, TablesTyped DEF IInv, Form
<1>7. CommitAlone'
    BY CommitKept
<1>8. OneHome'
    BY <1>2, HomesKept
<1> QED BY <1>3, <1>5, <1>6, <1>7, <1>8 DEF IInv

\* A step that leaves the tables alone.
LEMMA QuietKeeps ==
    ASSUME IInv, NEW w \in Workers, NEW n \in Request,
           req' = [req EXCEPT ![w] = n], UNCHANGED <<kind, data, ids, form>>,
           Sound(n), n.at # "commit",
           n.at = "qpatch" => Home(n.quest, n.row)
    PROVE  IInv'
<1>1. StepOf(w, n)
    BY DEF StepOf, QuietStep, data, ids
<1>2. Tables /\ quests' = quests /\ lastRow \in Nat /\ lastQuest \in Nat
    BY TablesTyped DEF IInv, Tables, data
<1>3. Tables'
    BY <1>2 DEF Tables, data, ids
<1>4. Sound(n)'
    BY DEF Sound, KnowsLosses, KnowsSaves, Carries, Written, data, ids
<1>5. \A q \in DOMAIN quests' : Home(q, quests'[q])
    BY <1>2 DEF Home
<1> HIDE DEF IInv, Home, Sound, Tables, StepOf
<1> QED BY <1>1, <1>2, <1>3, <1>4, <1>5, StepKeeps DEF data, ids

LEMMA OwnRequest ==
    ASSUME IInv, NEW w \in Workers
    PROVE  /\ req[w] \in Request /\ Sound(req[w])
           /\ Tables /\ lastRow \in Nat /\ lastQuest \in Nat
BY TablesTyped DEF IInv, Tables

\* A reply without a change, which a request that has written gives only as a
\* failure or a success.
LEMMA ReplyKeeps ==
    ASSUME IInv, NEW w \in Workers,
           NEW said \in {"nothing", "ok", "refused", "failed", "died"}, Reply(w, said),
           UNCHANGED <<kind, data, ids, form>>, said = "refused" => ~req[w].wrote
    PROVE  IInv'
<1>1. req[w] \in Request /\ lastRow \in Nat
    BY OwnRequest
<1>2. PICK n \in Request : n = Replied(req[w], said)
    BY <1>1, RepliedFields
<1>3. Sound(n)
    BY <1>1, <1>2, ReplySound
<1>4. n.at = "done"
    BY <1>1, <1>2, RepliedFields
<1> QED BY <1>2, <1>3, <1>4, QuietKeeps DEF Reply

LEMMA BeginKeeps ==
    ASSUME IInv, NEW w \in Workers, NEW n \in Request, Begin(w, n),
           Sound(n), n.at # "commit", n.at = "qpatch" => Home(n.quest, n.row)
    PROVE  IInv'
BY QuietKeeps DEF Begin

\* A reply to what no request has been begun for.
LEMMA BeginReplied ==
    ASSUME IInv, NEW w \in Workers, NEW r \in Request, ~r.wrote,
           Begin(w, Replied(r, "refused"))
    PROVE  IInv'
<1>1. lastRow \in Nat
    BY OwnRequest
<1>2. PICK n \in Request : n = Replied(r, "refused")
    BY RepliedFields
<1>3. Sound(n)
    BY <1>1, <1>2, ReplySound
<1>4. n.at = "done"
    BY <1>2, RepliedFields
<1> QED BY <1>2, <1>3, <1>4, BeginKeeps
-----------------------------------------------------------------------------
(* Create *)

LEMMA CreateBeginKeeps ==
    ASSUME IInv, NEW w \in Workers, NEW items \in Nat, NEW given \in Nat,
           CreateBegin(w, items, given)
    PROVE  IInv'
<1>1. PICK n : n = [Idle EXCEPT !.op = "create", !.at = "item", !.items = items, !.given = given]
    OBVIOUS
<1>2. /\ n \in Request
      /\ n.at = "item" /\ n.given = given /\ n.said = "nothing" /\ ~n.wrote
      /\ n.row = 0 /\ n.left = 0 /\ ~n.replaces
    BY <1>1, IdleFields DEF Request, Ops, Steps
<1>3. lastRow \in Nat
    BY OwnRequest
<1>4. Sound(n)
    BY <1>2, <1>3 DEF CreateBegin, Sound, KnowsLosses, KnowsSaves, Carries, Written
<1> QED BY <1>1, <1>2, <1>4, BeginKeeps DEF CreateBegin

LEMMA CreateOneKeeps ==
    ASSUME IInv, NEW w \in Workers, NEW state \in States, CreateOne(w, state)
    PROVE  IInv'
<1>1. PICK n : n = [Idle EXCEPT !.op = "create", !.at = "item", !.items = 1, !.state = state]
    OBVIOUS
<1>2. /\ n \in Request
      /\ n.at = "item" /\ n.given = 0 /\ n.said = "nothing" /\ ~n.wrote
      /\ n.row = 0 /\ n.left = 0 /\ ~n.replaces
    BY <1>1, IdleFields DEF Request, Ops, Steps
<1>3. lastRow \in Nat
    BY OwnRequest
<1>4. Sound(n)
    BY <1>2, <1>3 DEF Sound, KnowsLosses, KnowsSaves, Carries, Written
<1> QED BY <1>1, <1>2, <1>4, BeginKeeps DEF CreateOne

\* A request that goes from item to item is sound when it comes to the next.
LEMMA AfterItemSound ==
    ASSUME IInv, NEW r \in Request, Sound(r), r.at \in {"item", "questions"}
    PROVE  /\ AfterItem(r) \in Request
           /\ Sound(AfterItem(r))
           /\ AfterItem(r).at \notin {"commit", "qpatch"}
<1>1. CASE r.items > 1
  <2>1. PICK n : n = [r EXCEPT !.at = "item", !.items = @ - 1]
    OBVIOUS
  <2>2. /\ n \in Request
        /\ n.at = "item" /\ n.said = r.said /\ n.wrote = r.wrote /\ n.made = r.made
        /\ n.row = r.row /\ n.left = r.left /\ n.given = r.given /\ n.replaces = r.replaces
        /\ n.op = r.op /\ n.wanted = r.wanted /\ n.since = r.since
    <3>1. r.items - 1 \in Nat
      BY <1>1 DEF Request
    <3> QED BY <2>1, <3>1 DEF Request, Steps
  <2>3. Sound(n)
    BY <2>2 DEF Sound, KnowsLosses, KnowsSaves, Carries, Written
  <2> QED BY <1>1, <2>1, <2>2, <2>3 DEF AfterItem
<1>2. CASE ~(r.items > 1)
  <2>1. lastRow \in Nat
    BY TablesTyped DEF IInv, Tables
  <2>2. r.wrote => r.made
    BY DEF Sound, Written
  <2>3. PICK said \in {"ok", "refused"} : AfterItem(r) = Replied(r, said) /\ (said = "refused" => ~r.made)
    BY <1>2 DEF AfterItem
  <2>4. said \in {"nothing", "ok", "refused", "failed", "died"}
    OBVIOUS
  <2>5. Sound(Replied(r, said))
    BY <2>1, <2>2, <2>3, <2>4, ReplySound
  <2>6. Replied(r, said) \in Request /\ Replied(r, said).at = "done"
    BY <2>4, RepliedFields
  <2> QED BY <2>3, <2>5, <2>6
<1> QED BY <1>1, <1>2

LEMMA CheckSlugKeeps ==
    ASSUME IInv, NEW w \in Workers, CheckSlug(w)
    PROVE  IInv'
<1>1. req[w] \in Request /\ Sound(req[w]) /\ req[w].at = "item"
    BY OwnRequest DEF CheckSlug
<1>2. CASE DOMAIN rows # {}
  <2>1. PICK n \in Request : n = AfterItem(req[w])
    BY <1>1, AfterItemSound
  <2> QED BY <1>1, <1>2, <2>1, AfterItemSound, QuietKeeps DEF CheckSlug
<1>3. CASE DOMAIN rows = {}
  <2>1. PICK n : n = [req[w] EXCEPT !.at = "insert"]
    OBVIOUS
  <2> DEFINE r == req[w]
  <2>2. /\ n \in Request
        /\ n.at = "insert" /\ n.said = r.said /\ n.wrote = r.wrote /\ n.made = r.made
        /\ n.row = r.row /\ n.left = r.left /\ n.given = r.given /\ n.replaces = r.replaces
        /\ n.op = r.op /\ n.wanted = r.wanted /\ n.since = r.since
    BY <1>1, <2>1 DEF Request, Steps
  <2>3. Sound(n)
    BY <1>1, <2>2 DEF Sound, KnowsLosses, KnowsSaves, Carries, Written
  <2>4. req' = [req EXCEPT ![w] = n]
    BY <1>3, <2>1 DEF CheckSlug, Go
  <2> QED BY <2>2, <2>3, <2>4, QuietKeeps DEF CheckSlug
<1> QED BY <1>2, <1>3

LEMMA InsertRowKeeps ==
    ASSUME IInv, NEW w \in Workers, InsertRow(w)
    PROVE  IInv'
<1>1. /\ req[w] \in Request /\ Sound(req[w]) /\ req[w].at = "insert"
      /\ Tables /\ lastRow \in Nat /\ lastQuest \in Nat
    BY OwnRequest DEF InsertRow
<1>2. CASE DOMAIN rows # {}
    BY <1>2, ReplyKeeps DEF InsertRow, data, ids
<1>3. CASE DOMAIN rows = {}
  <2>1. PICK n : n = [req[w] EXCEPT !.at = "questions", !.row = lastRow + 1,
                                    !.left = req[w].given, !.wrote = TRUE, !.made = TRUE]
    OBVIOUS
  <2> DEFINE r == req[w]
  <2>2. /\ n \in Request
        /\ n.at = "questions" /\ n.said = r.said /\ n.wrote /\ n.made
        /\ n.row = lastRow + 1 /\ n.left = r.given /\ n.given = r.given
        /\ n.replaces = r.replaces /\ n.op = r.op /\ n.wanted = r.wanted
    <3>1. lastRow + 1 \in Nat /\ r.given \in Nat
      BY <1>1 DEF Request
    <3> QED BY <1>1, <2>1, <3>1 DEF Request, Steps
  <2>3. SavingStep(w, n)
    BY <1>3, <2>1, NoticedOwn DEF InsertRow, SavingStep
  <2>4. /\ lastRow' = lastRow + 1 /\ rows' = [i \in {lastRow + 1} |-> r.state]
        /\ kind' = kind /\ form' = form /\ lastQuest' = lastQuest
        /\ quests' = quests /\ subs' = subs /\ answers' = answers /\ RowFree(w)
    BY <1>3 DEF InsertRow
  <2>5. DOMAIN quests = {} /\ subs = {} /\ answers = {} /\ r.state \in States
    BY <1>1, <1>3 DEF Tables, Request
  <2>6. Tables'
    BY <1>1, <2>4, <2>5 DEF Tables
  <2>7. Sound(n)'
    BY <1>1, <2>2, <2>4 DEF Sound, KnowsLosses, KnowsSaves, Carries, Written
  <2> QED BY <1>1, <2>2, <2>3, <2>4, <2>5, <2>6, <2>7, StepKeeps DEF StepOf
<1> QED BY <1>2, <1>3

LEMMA InsertQuestionKeeps ==
    ASSUME IInv, NEW w \in Workers, InsertQuestion(w)
    PROVE  IInv'
<1> DEFINE r == req[w]
<1>1. /\ r \in Request /\ Sound(r) /\ r.at = "questions" /\ r.left > 0
      /\ Tables /\ lastRow \in Nat /\ lastQuest \in Nat
    BY OwnRequest DEF InsertQuestion
<1>2. CASE r.row \notin DOMAIN rows
    BY <1>2, ReplyKeeps DEF InsertQuestion, data, ids
<1>3. CASE r.row \in DOMAIN rows
  <2>1. PICK n : n = [r EXCEPT !.left = r.left - 1, !.wrote = TRUE, !.made = TRUE]
    OBVIOUS
  <2>2. /\ n \in Request
        /\ n.at = "questions" /\ n.said = r.said /\ n.wrote /\ n.made
        /\ n.row = r.row /\ n.given = r.given
        /\ n.replaces = r.replaces /\ n.op = r.op /\ n.wanted = r.wanted
    <3>1. r.left - 1 \in Nat
      BY <1>1 DEF Request
    <3> QED BY <1>1, <2>1, <3>1 DEF Request
  <2>3. /\ req' = [req EXCEPT ![w] = n]
        /\ lastQuest' = lastQuest + 1 /\ quests' = WithQuestions({lastQuest + 1}, r.row)
        /\ UNCHANGED <<rows, subs, answers, lastRow, kind, form>>
    BY <1>3, <2>1 DEF InsertQuestion
  <2>4. StepOf(w, n)
    BY <2>3 DEF StepOf, QuietStep
  <2>5. kind = "homework"
    BY <1>1 DEF Sound, Carries
  <2>6. Tables'
    <3>1. /\ DOMAIN quests' = DOMAIN quests \cup {lastQuest + 1}
          /\ \A q \in DOMAIN quests : q # lastQuest + 1
          /\ \A q \in DOMAIN quests : quests'[q] = quests[q]
          /\ quests'[lastQuest + 1] = r.row
      BY <1>1, <2>3 DEF Tables, WithQuestions
    <3>2. DOMAIN quests' \subseteq 1 .. lastQuest'
      <4>1. DOMAIN quests \subseteq 1 .. lastQuest
        BY <1>1 DEF Tables
      <4> QED BY <1>1, <2>3, <3>1, <4>1
    <3>3. \A q \in DOMAIN quests' : quests'[q] \in DOMAIN rows
      BY <1>1, <1>3, <3>1 DEF Tables
    <3>4. answers \subseteq Students \X DOMAIN quests' /\ \A a \in answers : <<a[1], quests'[a[2]]>> \in subs
      BY <1>1, <3>1 DEF Tables
    <3>5. lastQuest' \in Nat
      BY <1>1, <2>3
    <3> QED BY <1>1, <2>3, <2>5, <3>2, <3>3, <3>4, <3>5 DEF Tables
  <2>7. Sound(n)'
    BY <1>1, <2>2, <2>3, <2>5 DEF Sound, KnowsLosses, KnowsSaves, Carries, Written
  <2>8. \A q \in DOMAIN quests' :
           Home(q, quests'[q]) \/ (q \in lastQuest + 1 .. lastQuest' /\ quests'[q] = r.row)
    BY <1>1, <2>3 DEF Home, WithQuestions
  <2>9. /\ r.row \in Nat /\ lastQuest <= lastQuest' /\ lastRow <= lastRow'
        /\ subs' \subseteq subs /\ answers' \subseteq answers
        /\ n.at # "commit" /\ n.at # "qpatch"
    BY <1>1, <2>2, <2>3 DEF Request
  <2>10. PICK h \in Nat : h = r.row
    BY <2>9
  <2> HIDE DEF r
  <2> QED BY <2>2, <2>3, <2>4, <2>6, <2>7, <2>8, <2>9, <2>10, StepKeeps
<1> QED BY <1>2, <1>3

LEMMA QuestionsDoneKeeps ==
    ASSUME IInv, NEW w \in Workers, QuestionsDone(w)
    PROVE  IInv'
<1>1. req[w] \in Request /\ Sound(req[w]) /\ req[w].at = "questions"
    BY OwnRequest DEF QuestionsDone
<1>2. PICK n \in Request : n = AfterItem(req[w])
    BY <1>1, AfterItemSound
<1> QED BY <1>1, <1>2, AfterItemSound, QuietKeeps DEF QuestionsDone
-----------------------------------------------------------------------------
(* Update and delete *)

LEMMA PatchRowKeeps ==
    ASSUME IInv, NEW w \in Workers, NEW wanted \in States \cup {Keep}, PatchRow(w, wanted)
    PROVE  IInv'
<1>1. Tables /\ lastRow \in Nat
    BY OwnRequest
<1>2. PICK r \in DOMAIN rows :
          Begin(w, [Idle EXCEPT !.op = "patch", !.at = "patch", !.row = r, !.wanted = wanted,
                                !.state = IF wanted = Keep THEN rows[r] ELSE wanted])
    BY DEF PatchRow
<1>3. PICK state : state = IF wanted = Keep THEN rows[r] ELSE wanted
    OBVIOUS
<1>4. state \in States /\ r \in Nat /\ r # 0 /\ r <= lastRow
    BY <1>1, <1>3 DEF Tables
<1>5. PICK n : n = [Idle EXCEPT !.op = "patch", !.at = "patch", !.row = r, !.wanted = wanted,
                                !.state = state]
    OBVIOUS
<1>6. /\ n \in Request
      /\ n.op = "patch" /\ n.at = "patch" /\ n.row = r /\ n.wanted = wanted /\ n.state = state
      /\ n.said = "nothing" /\ ~n.wrote
      /\ n.given = 0 /\ n.left = 0 /\ ~n.replaces
    BY <1>4, <1>5, IdleFields DEF Request, Ops, Steps
<1>7. Sound(n)
    BY <1>3, <1>4, <1>6 DEF Sound, KnowsLosses, KnowsSaves, Carries, Written
<1> QED BY <1>2, <1>3, <1>5, <1>6, <1>7, BeginKeeps

\* The tables when the row of an assignment is saved or created.
LEMMA SavedTables ==
    ASSUME Tables, NEW id \in Nat, NEW state \in States, id # 0,
           MaySave(id) \/ DOMAIN rows \subseteq {id},
           rows' = Saved(id, state), lastRow' \in Nat, lastRow <= lastRow', id <= lastRow',
           UNCHANGED <<kind, quests, subs, answers, lastQuest>>
    PROVE  Tables'
<1>1. DOMAIN rows' = DOMAIN rows \cup {id}
    BY DEF Saved
<1>2. \A i, r \in DOMAIN rows' : i = r
    BY <1>1 DEF MaySave, Tables
<1>3. \A r \in DOMAIN rows' : rows'[r] \in States
    BY <1>1 DEF Saved, Tables
<1>4. DOMAIN rows' \subseteq 1 .. lastRow'
    BY <1>1 DEF Tables
<1> QED BY <1>1, <1>2, <1>3, <1>4 DEF Tables

LEMMA PatchEndKeeps ==
    ASSUME IInv, NEW w \in Workers, PatchEnd(w)
    PROVE  IInv'
<1> DEFINE r == req[w]
<1>1. /\ r \in Request /\ Sound(r) /\ r.at = "patch"
      /\ Tables /\ lastRow \in Nat /\ lastQuest \in Nat
    BY OwnRequest DEF PatchEnd
<1>2. CASE ~MaySave(r.row)
    BY <1>2, ReplyKeeps DEF PatchEnd, data, ids
<1>3. CASE MaySave(r.row)
  <2>1. PICK m : m = [r EXCEPT !.wrote = TRUE]
    OBVIOUS
  <2>2. m \in Request
    BY <1>1, <2>1 DEF Request
  <2>3. PICK n \in Request : n = Replied(m, "ok")
    BY <2>2, RepliedFields
  <2>4. n.at = "done"
    BY <2>2, <2>3, RepliedFields
  <2>5. SavingStep(w, n)
    BY <1>3, <2>1, <2>3, NoticedOwn DEF PatchEnd, SavingStep
  <2>6. /\ rows' = Saved(r.row, r.state) /\ RowFree(w)
        /\ UNCHANGED <<kind, quests, subs, answers, lastRow, lastQuest, form>>
    BY <1>3 DEF PatchEnd, ids
  <2>7. r.row \in Nat /\ r.row # 0 /\ r.row <= lastRow /\ r.state \in States
    BY <1>1 DEF Sound, Carries, Request
  <2>8. Tables'
    BY <1>1, <1>3, <2>6, <2>7, SavedTables
  <2>9. Sound(n)'
    <3>1. Sound(n)
      BY <1>1, <2>2, <2>3, ReplySound
    <3> QED BY <2>4, <2>6, <3>1 DEF Sound, KnowsLosses, KnowsSaves, Carries, Written
  <2>10. \A q \in DOMAIN quests' : Home(q, quests'[q])
    BY <2>6 DEF Home
  <2> HIDE DEF r
  <2> QED BY <1>1, <2>4, <2>5, <2>6, <2>8, <2>9, <2>10, StepKeeps DEF StepOf
<1> QED BY <1>2, <1>3

LEMMA DeleteBeginKeeps ==
    ASSUME IInv, NEW w \in Workers, DeleteBegin(w)
    PROVE  IInv'
<1>1. Tables /\ lastRow \in Nat
    BY OwnRequest
<1>2. PICK r \in DOMAIN rows :
          LET d == [Idle EXCEPT !.op = "delete", !.at = "count", !.row = r]
          IN  Begin(w, IF rows[r] = "CL" THEN d ELSE Replied(d, "refused"))
    BY DEF DeleteBegin
<1>3. PICK d : d = [Idle EXCEPT !.op = "delete", !.at = "count", !.row = r]
    OBVIOUS
<1>4. r \in Nat /\ r # 0 /\ r <= lastRow
    BY <1>1 DEF Tables
<1>5. /\ d \in Request
      /\ d.at = "count" /\ d.row = r /\ d.said = "nothing" /\ ~d.wrote
      /\ d.given = 0 /\ d.left = 0 /\ ~d.replaces
    BY <1>3, <1>4, IdleFields DEF Request, Ops, Steps
<1>6. CASE rows[r] = "CL"
  <2>1. Sound(d)
    BY <1>4, <1>5, <1>6 DEF Sound, KnowsLosses, KnowsSaves, Carries, Written
  <2>2. Begin(w, d)
    BY <1>2, <1>3, <1>6
  <2> QED BY <1>5, <2>1, <2>2, BeginKeeps
<1>7. CASE rows[r] # "CL"
  <2>1. Begin(w, Replied(d, "refused"))
    BY <1>2, <1>3, <1>7
  <2> QED BY <1>5, <2>1, BeginReplied
<1> QED BY <1>6, <1>7

LEMMA DeleteCountKeeps ==
    ASSUME IInv, NEW w \in Workers, DeleteCount(w)
    PROVE  IInv'
<1> DEFINE r == req[w]
<1>1. r \in Request /\ Sound(r) /\ r.at = "count"
    BY OwnRequest DEF DeleteCount
<1>2. CASE HasSubmissions(r.row)
  <2>1. ~r.wrote
    BY <1>1 DEF Sound, Written
  <2> QED BY <1>2, <2>1, ReplyKeeps DEF DeleteCount
<1>3. CASE ~HasSubmissions(r.row)
  <2>1. PICK n : n = [r EXCEPT !.at = "delete", !.since = r.since \ Students]
    OBVIOUS
  <2>2. /\ n \in Request
        /\ n.at = "delete" /\ n.since = r.since \ Students
        /\ n.row = r.row /\ n.said = r.said /\ n.wrote = r.wrote
        /\ n.given = r.given /\ n.left = r.left /\ n.replaces = r.replaces
    BY <1>1, <2>1 DEF Request, Steps
  <2>3. Sound(n)
    BY <1>1, <1>3, <2>2, NamesAssumption
       DEF HasSubmissions, Sound, KnowsLosses, KnowsSaves, Carries, Written
  <2>4. req' = [req EXCEPT ![w] = n]
    BY <1>3, <2>1 DEF DeleteCount
  <2> QED BY <2>2, <2>3, <2>4, QuietKeeps DEF DeleteCount
<1> QED BY <1>2, <1>3

\* The tables when questions are deleted.
LEMMA DroppedFields ==
    ASSUME NEW gone, DropQuestions(gone)
    PROVE  /\ DOMAIN quests' = DOMAIN quests \ gone
           /\ \A q \in DOMAIN quests' : quests'[q] = quests[q]
           /\ answers' = {a \in answers : a[2] \notin gone}
BY DEF DropQuestions, Restrict

LEMMA DeleteEndKeeps ==
    ASSUME IInv, NEW w \in Workers, DeleteEnd(w)
    PROVE  IInv'
<1> DEFINE r == req[w]
<1>1. /\ r \in Request /\ Sound(r) /\ r.at = "delete"
      /\ Tables /\ lastRow \in Nat /\ lastQuest \in Nat
    BY OwnRequest DEF DeleteEnd
<1>2. PICK m : m = [r EXCEPT !.wrote = TRUE]
    OBVIOUS
<1>3. m \in Request
    BY <1>1, <1>2 DEF Request
<1>4. PICK n \in Request : n = Replied(m, "ok")
    BY <1>3, RepliedFields
<1>5. n.at = "done"
    BY <1>3, <1>4, RepliedFields
<1>6. SavingStep(w, n)
    BY <1>2, <1>4, NoticedOwn DEF DeleteEnd, SavingStep
<1>7. /\ RowFree(w) /\ UNCHANGED <<kind, lastRow, lastQuest, form>>
      /\ subs' = {s \in subs : s[2] # r.row}
      /\ DOMAIN rows' = DOMAIN rows \ {r.row}
      /\ \A i \in DOMAIN rows' : rows'[i] = rows[i]
    BY DEF DeleteEnd, ids, Restrict
<1>8. /\ DOMAIN quests' = DOMAIN quests \ QuestionsOf(r.row)
      /\ \A q \in DOMAIN quests' : quests'[q] = quests[q]
      /\ answers' = {a \in answers : a[2] \notin QuestionsOf(r.row)}
    BY DroppedFields DEF DeleteEnd
<1>9. Tables'
    BY <1>1, <1>7, <1>8 DEF Tables, QuestionsOf
<1>10. Sound(n)'
  <2>1. Sound(n)
    BY <1>1, <1>3, <1>4, ReplySound
  <2> QED BY <1>5, <1>7, <2>1 DEF Sound, KnowsLosses, KnowsSaves, Carries, Written
<1>11. \A q \in DOMAIN quests' : Home(q, quests'[q])
    BY <1>8 DEF Home
<1>12. subs' \subseteq subs /\ answers' \subseteq answers
    BY <1>7, <1>8
<1> HIDE DEF r
<1> QED BY <1>1, <1>5, <1>6, <1>7, <1>9, <1>10, <1>11, <1>12, StepKeeps DEF StepOf
-----------------------------------------------------------------------------
(* Upsert *)

LEMMA PutBeginKeeps ==
    ASSUME IInv, NEW w \in Workers, NEW wanted \in States \cup {Keep},
           NEW replaces \in BOOLEAN, NEW given \in Nat, PutBegin(w, wanted, replaces, given)
    PROVE  IInv'
<1>1. Tables /\ lastRow \in Nat /\ TypeOK
    BY OwnRequest DEF IInv
<1>2. PICK id : id = IF DOMAIN rows = {} THEN 0 ELSE CHOOSE i \in DOMAIN rows : TRUE
    OBVIOUS
<1>3. DOMAIN rows # {} => id \in DOMAIN rows
    BY <1>2
<1>4. /\ id \in Nat /\ id <= lastRow
      /\ id = 0 <=> DOMAIN rows = {}
  <2>1. DOMAIN rows \subseteq 1 .. lastRow
    BY <1>1 DEF Tables
  <2> QED BY <1>1, <1>2, <1>3, <2>1
<1>5. PutState(id, wanted) \in States
    BY <1>1, <1>3 DEF PutState, Tables, States
<1>6. PICK at \in {"create", "save"} :
          at = IF kind # "homework" /\ DOMAIN rows = {} THEN "create" ELSE "save"
    OBVIOUS
<1>7. PICK n : n = [Idle EXCEPT !.op = "put", !.row = id, !.wanted = wanted,
                                !.state = PutState(id, wanted),
                                !.replaces = replaces, !.given = given, !.at = at]
    OBVIOUS
<1>8. /\ n \in Request
      /\ n.op = "put" /\ n.row = id /\ n.wanted = wanted /\ n.state = PutState(id, wanted)
      /\ n.replaces = replaces /\ n.given = given /\ n.at = at
      /\ n.said = "nothing" /\ ~n.wrote /\ n.left = 0
    BY <1>4, <1>5, <1>7, IdleFields DEF Request, Ops, Steps
<1>9. Begin(w, IF RefusedAtOnce(id, replaces) THEN Replied(n, "refused") ELSE n)
    BY <1>2, <1>6, <1>7 DEF PutBegin
<1>10. /\ kind # "homework" => ~replaces /\ given = 0
    BY DEF PutBegin
<1>11. CASE RefusedAtOnce(id, replaces)
    BY <1>8, <1>9, <1>11, BeginReplied
<1>12. CASE ~RefusedAtOnce(id, replaces)
  <2>1. replaces /\ id # 0 => rows[id] = "CL" /\ ~HasSubmissions(id)
    BY <1>3, <1>4, <1>12 DEF RefusedAtOnce, Blocked
  <2>2. \A s \in Students : <<s, 0>> \notin subs
    BY <1>1 DEF Tables
  <2>3. KnowsLosses(n)
    BY <1>6, <1>8, <2>1, <2>2 DEF KnowsLosses, HasSubmissions
  <2>4. KnowsSaves(n)
    BY <1>3, <1>4, <1>6, <1>8 DEF KnowsSaves, PutState
  <2>5. Carries(n)
    BY <1>3, <1>4, <1>6, <1>8, <1>10, <2>1 DEF Carries, PutState, Keep
  <2>6. Written(n)
    BY <1>6, <1>8 DEF Written
  <2>7. Sound(n)
    BY <1>4, <1>8, <2>3, <2>4, <2>5, <2>6 DEF Sound
  <2> QED BY <1>6, <1>8, <1>9, <1>12, <2>7, BeginKeeps
<1> QED BY <1>11, <1>12

LEMMA PutCreateKeeps ==
    ASSUME IInv, NEW w \in Workers, PutCreate(w)
    PROVE  IInv'
<1> DEFINE r == req[w]
<1>1. /\ r \in Request /\ Sound(r) /\ r.at = "create"
      /\ Tables /\ lastRow \in Nat /\ lastQuest \in Nat
    BY OwnRequest DEF PutCreate
<1>2. CASE DOMAIN rows # {}
    BY <1>2, ReplyKeeps DEF PutCreate, data, ids
<1>3. CASE DOMAIN rows = {}
  <2>1. PICK n : n = [r EXCEPT !.at = "save", !.row = lastRow + 1, !.wrote = TRUE]
    OBVIOUS
  <2>2. /\ n \in Request
        /\ n.at = "save" /\ n.row = lastRow + 1 /\ n.wrote
        /\ n.said = r.said /\ n.op = r.op /\ n.wanted = r.wanted /\ n.state = r.state
        /\ n.given = r.given /\ n.left = r.left /\ n.replaces = r.replaces
    <3>1. lastRow + 1 \in Nat
      BY <1>1
    <3> QED BY <1>1, <2>1, <3>1 DEF Request, Steps
  <2>3. SavingStep(w, n)
    BY <1>3, <2>1, NoticedOwn DEF PutCreate, SavingStep
  <2>4. /\ lastRow' = lastRow + 1 /\ rows' = [i \in {lastRow + 1} |-> "CL"]
        /\ UNCHANGED <<kind, form, lastQuest, quests, subs, answers>>
    BY <1>3 DEF PutCreate
  <2>5. DOMAIN quests = {} /\ subs = {} /\ answers = {}
    BY <1>1, <1>3 DEF Tables
  <2>6. Tables'
    BY <1>1, <2>4, <2>5 DEF Tables, States
  <2>7. kind # "homework" /\ r.row = 0
    BY <1>1 DEF Sound, Carries
  <2>8. KnowsLosses(n)' /\ KnowsSaves(n)'
    BY <1>1, <2>2, <2>4, <2>5, <2>7 DEF Sound, Carries, KnowsLosses, KnowsSaves
  <2>9. Carries(n)' /\ Written(n)'
    BY <1>1, <2>2, <2>4, <2>7 DEF Sound, Carries, Written
  <2>10. Sound(n)'
    BY <1>1, <2>2, <2>4, <2>8, <2>9 DEF Sound
  <2>11. lastRow <= lastRow' /\ n.at # "commit"
    BY <1>1, <2>2, <2>4
  <2> QED BY <1>1, <2>2, <2>3, <2>4, <2>5, <2>6, <2>7, <2>10, <2>11, StepKeeps DEF StepOf
<1> QED BY <1>2, <1>3

\* The reason there is for a PUT that is refused after its save.
LEMMA BlockedLate ==
    ASSUME Tables, NEW r \in Request, Sound(r), r.at = "save", r.replaces,
           Blocked(Target(r), r.state), r.wanted \in {"CL", Keep}
    PROVE  r.since \cap Students # {}
<1>1. r.state = "CL"
    BY DEF Sound, Carries
<1>2. PICK s \in Students : <<s, Target(r)>> \in subs
  <2>1. \A q \in QuestionsOf(Target(r)) : HasAnswers(q) => HasSubmissions(Target(r))
    BY DEF Tables, HasAnswers, HasSubmissions, QuestionsOf
  <2> QED BY <1>1, <2>1 DEF Blocked, HasSubmissions
<1>3. Target(r) = r.row
  <2>1. Target(r) # lastRow + 1
    BY <1>2 DEF Tables
  <2> QED BY <2>1 DEF Target
<1> QED BY <1>2, <1>3 DEF Sound, KnowsLosses

LEMMA PutSaveKeeps ==
    ASSUME IInv, NEW w \in Workers, PutSave(w)
    PROVE  IInv'
<1> DEFINE r == req[w]
<1>1. /\ r \in Request /\ Sound(r) /\ r.at = "save" /\ r.row \in Nat /\ r.state \in States
      /\ Tables /\ lastRow \in Nat /\ lastQuest \in Nat
    BY OwnRequest DEF PutSave, Request
<1>2. PICK id : id = Target(r)
    OBVIOUS
<1>3. CASE (r.row = 0 /\ DOMAIN rows # {}) \/ ~MaySave(id)
    BY <1>2, <1>3, ReplyKeeps DEF PutSave, data, ids, Target
<1>4. CASE ~((r.row = 0 /\ DOMAIN rows # {}) \/ ~MaySave(id)) /\ r.replaces /\ ~Blocked(id, r.state)
  <2>1. PICK n : n = [r EXCEPT !.at = "commit", !.since = r.since \ Students]
    OBVIOUS
  <2>2. /\ n \in Request
        /\ n.at = "commit" /\ n.since = r.since \ Students
        /\ n.row = r.row /\ n.said = r.said /\ n.wrote = r.wrote /\ n.op = r.op
        /\ n.wanted = r.wanted /\ n.state = r.state
        /\ n.given = r.given /\ n.left = r.left /\ n.replaces = r.replaces
    BY <1>1, <2>1 DEF Request, Steps
  <2>3. /\ req' = [req EXCEPT ![w] = n]
        /\ UNCHANGED <<kind, rows, lastRow, quests, subs, answers, lastQuest, form>>
        /\ RowFree(w)
    BY <1>2, <1>4, <2>1 DEF PutSave, Target
  <2>4. \A s \in Students : <<s, r.row>> \notin subs
    BY <1>1, <1>2, <1>4 DEF Blocked, HasSubmissions, Target, Tables
  <2>5. KnowsLosses(n) /\ KnowsSaves(n)
    BY <1>1, <2>2, <2>4, NamesAssumption DEF Sound, KnowsLosses, KnowsSaves
  <2>6. Carries(n)
    BY <1>1, <1>4, <2>2 DEF Sound, Carries
  <2>7. Written(n)
    BY <1>1, <1>4, <2>2 DEF Sound, Carries, Written
  <2>8. Sound(n)'
    BY <1>1, <2>2, <2>3, <2>5, <2>6, <2>7
       DEF Sound, KnowsLosses, KnowsSaves, Carries, Written
  <2>9. Tables'
    BY <1>1, <2>3 DEF Tables
  <2>10. DOMAIN rows \subseteq {Target(n)}
    BY <1>1, <1>2, <1>4, <2>2 DEF Target, MaySave, Tables
  <2>11. \A q \in DOMAIN quests' : Home(q, quests'[q])
    BY <2>3 DEF Home
  <2>12. StepOf(w, n)
    BY <2>3 DEF StepOf, QuietStep
  <2> HIDE DEF r
  <2> QED BY <1>1, <2>2, <2>3, <2>8, <2>9, <2>10, <2>11, <2>12, StepKeeps
<1>5. CASE ~((r.row = 0 /\ DOMAIN rows # {}) \/ ~MaySave(id)) /\ ~(r.replaces /\ ~Blocked(id, r.state))
  <2>1. PICK m : m = [r EXCEPT !.wrote = TRUE]
    OBVIOUS
  <2>2. /\ m \in Request /\ m.wrote /\ m.op = r.op /\ m.wanted = r.wanted /\ m.since = r.since
    BY <1>1, <2>1 DEF Request
  <2>3. PICK said \in {"ok", "refused"} : said = IF r.replaces THEN "refused" ELSE "ok"
    OBVIOUS
  <2>4. said \in {"nothing", "ok", "refused", "failed", "died"}
    OBVIOUS
  <2>5. PICK n \in Request : n = Replied(m, said)
    BY <2>2, <2>4, RepliedFields
  <2>6. n.at = "done"
    BY <2>2, <2>4, <2>5, RepliedFields
  <2>7. SavingStep(w, n)
    BY <1>2, <1>5, <2>1, <2>3, <2>5, NoticedOwn DEF PutSave, SavingStep, Target
  <2>8. /\ rows' = Saved(id, r.state) /\ RowFree(w)
        /\ lastRow' = IF r.row = 0 THEN id ELSE lastRow
        /\ UNCHANGED <<kind, quests, subs, answers, lastQuest, form>>
    BY <1>2, <1>5 DEF PutSave, Target
  <2>9. id \in Nat /\ id # 0 /\ id <= lastRow' /\ lastRow' \in Nat /\ lastRow <= lastRow'
    BY <1>1, <1>2, <2>8 DEF Target, Sound
  <2>10. Tables'
    BY <1>1, <1>5, <2>8, <2>9, SavedTables
  <2>11. said = "refused" =>
           /\ m.op = "put"
           /\ m.wanted \notin {"CL", Keep} \/ m.since \cap Students # {}
    BY <1>1, <1>2, <1>5, <2>2, <2>3, BlockedLate DEF Sound, Carries
  <2>12. Sound(n)'
    <3>1. Sound(n)
      BY <1>1, <2>2, <2>4, <2>5, <2>11, ReplySound
    <3>2. n.row = 0
      BY <2>2, <2>4, <2>5, RepliedFields
    <3> QED BY <2>6, <2>8, <2>9, <3>1, <3>2 DEF Sound, KnowsLosses, KnowsSaves, Carries, Written
  <2>13. \A q \in DOMAIN quests' : Home(q, quests'[q])
    BY <2>8 DEF Home
  <2> HIDE DEF r
  <2> QED BY <1>1, <2>6, <2>7, <2>8, <2>9, <2>10, <2>12, <2>13, StepKeeps DEF StepOf
<1> QED BY <1>3, <1>4, <1>5

LEMMA PutCommitKeeps ==
    ASSUME IInv, NEW w \in Workers, PutCommit(w)
    PROVE  IInv'
<1> DEFINE r == req[w]
<1>1. /\ r \in Request /\ Sound(r) /\ r.at = "commit"
      /\ r.row \in Nat /\ r.state \in States /\ r.given \in Nat
      /\ Tables /\ lastRow \in Nat /\ lastQuest \in Nat
    BY OwnRequest DEF PutCommit, Request
<1>2. PICK id : id = Target(r)
    OBVIOUS
<1>3. PICK fresh : fresh = lastQuest + 1 .. lastQuest + r.given
    OBVIOUS
<1>4. DOMAIN rows \subseteq {id} /\ RowFree(w)
    BY <1>1, <1>2 DEF IInv, CommitAlone, RowFree
<1>5. PICK m : m = [r EXCEPT !.wrote = TRUE]
    OBVIOUS
<1>6. m \in Request
    BY <1>1, <1>5 DEF Request
<1>7. PICK n \in Request : n = Replied(m, "ok")
    BY <1>6, RepliedFields
<1>8. n.at = "done" /\ n.row = 0
    BY <1>6, <1>7, RepliedFields
<1>9. SavingStep(w, n)
    BY <1>5, <1>7, NoticedOwn DEF PutCommit, SavingStep
<1>10. /\ rows' = Saved(id, r.state)
       /\ lastRow' = IF r.row = 0 THEN id ELSE lastRow
       /\ lastQuest' = lastQuest + r.given
       /\ answers' = {a \in answers : a[2] \notin QuestionsOf(id)}
       /\ UNCHANGED <<kind, subs, form>>
    BY <1>2 DEF PutCommit, Target
<1>11. quests' = [q \in (DOMAIN quests \ QuestionsOf(id)) \cup fresh |->
                     IF q \in fresh THEN id ELSE quests[q]]
    BY <1>2, <1>3 DEF PutCommit, Target
<1>12. DOMAIN quests = QuestionsOf(id)
    BY <1>1, <1>4 DEF QuestionsOf, Tables
<1>13. DOMAIN quests' = fresh /\ \A q \in fresh : quests'[q] = id
    BY <1>11, <1>12
<1>14. answers' = {}
    BY <1>1, <1>10, <1>12 DEF Tables
<1>15. id \in Nat /\ id # 0 /\ id <= lastRow' /\ lastRow' \in Nat /\ lastRow <= lastRow'
    BY <1>1, <1>2, <1>10 DEF Target, Sound
<1>16. lastQuest' \in Nat /\ lastQuest <= lastQuest' /\ fresh \subseteq 1 .. lastQuest'
    BY <1>1, <1>3, <1>10
<1>17. DOMAIN rows' = {id} /\ rows'[id] = r.state
    BY <1>4, <1>10 DEF Saved
<1>18. kind = "homework"
    BY <1>1 DEF Sound, Carries
<1>19. Tables'
  <2>1. DOMAIN quests' \subseteq 1 .. lastQuest' /\ \A q \in DOMAIN quests' : quests'[q] \in DOMAIN rows'
    BY <1>13, <1>16, <1>17
  <2>2. DOMAIN rows' \subseteq 1 .. lastRow'
    BY <1>15, <1>17
  <2>3. subs' \subseteq Students \X DOMAIN rows'
    BY <1>1, <1>4, <1>10, <1>17 DEF Tables
  <2> QED BY <1>1, <1>10, <1>14, <1>15, <1>16, <1>17, <1>18, <2>1, <2>2, <2>3 DEF Tables
<1>20. Sound(n)'
  <2>1. Sound(n)
    <3>1. Sound(Replied(m, "ok"))
      BY <1>1, <1>6, ReplySound
    <3> QED BY <1>7, <3>1
  <2> QED BY <1>8, <1>10, <1>15, <2>1 DEF Sound, KnowsLosses, KnowsSaves, Carries, Written
<1>21. \A q \in DOMAIN quests' : q \in lastQuest + 1 .. lastQuest' /\ quests'[q] = id
    BY <1>3, <1>10, <1>13
<1>22. subs' \subseteq subs /\ answers' \subseteq answers
    BY <1>10, <1>14
<1> HIDE DEF r
<1> QED BY <1>1, <1>4, <1>8, <1>9, <1>10, <1>15, <1>16, <1>19, <1>20, <1>21, <1>22, StepKeeps
        DEF StepOf
-----------------------------------------------------------------------------
(* Questions, and requests that stop *)

LEMMA AddBeginKeeps ==
    ASSUME IInv, NEW w \in Workers, NEW given \in Nat, AddBegin(w, given)
    PROVE  IInv'
<1>1. Tables /\ lastRow \in Nat
    BY OwnRequest
<1>2. PICK r \in DOMAIN rows :
          Begin(w, [Idle EXCEPT !.op = "add", !.at = "questions", !.row = r,
                                !.items = 1, !.left = given])
    BY DEF AddBegin
<1>3. PICK n : n = [Idle EXCEPT !.op = "add", !.at = "questions", !.row = r,
                                !.items = 1, !.left = given]
    OBVIOUS
<1>4. r \in Nat /\ r <= lastRow
    BY <1>1 DEF Tables
<1>5. /\ n \in Request
      /\ n.at = "questions" /\ n.row = r /\ n.left = given /\ n.said = "nothing" /\ ~n.wrote
      /\ n.given = 0 /\ ~n.replaces
    BY <1>3, <1>4, IdleFields DEF Request, Ops, Steps
<1>6. kind = "homework"
    BY DEF AddBegin
<1>7. Sound(n)
    BY <1>4, <1>5, <1>6 DEF Sound, KnowsLosses, KnowsSaves, Carries, Written
<1> QED BY <1>2, <1>3, <1>5, <1>7, BeginKeeps

LEMMA QuestionDeleteBeginKeeps ==
    ASSUME IInv, NEW w \in Workers, QuestionDeleteBegin(w)
    PROVE  IInv'
<1>1. Tables /\ lastRow \in Nat /\ lastQuest \in Nat
    BY OwnRequest
<1>2. PICK q \in DOMAIN quests :
          LET d == [Idle EXCEPT !.op = "qdelete", !.at = "qdelete", !.quest = q]
          IN  Begin(w, IF HasAnswers(q) THEN Replied(d, "refused") ELSE d)
    BY DEF QuestionDeleteBegin
<1>3. PICK d : d = [Idle EXCEPT !.op = "qdelete", !.at = "qdelete", !.quest = q]
    OBVIOUS
<1>4. q \in Nat /\ kind = "homework"
    BY <1>1 DEF Tables
<1>5. /\ d \in Request
      /\ d.at = "qdelete" /\ d.quest = q /\ d.row = 0 /\ d.said = "nothing" /\ ~d.wrote
    BY <1>3, <1>4, IdleFields DEF Request, Ops, Steps
<1>6. CASE HasAnswers(q)
  <2>1. Begin(w, Replied(d, "refused"))
    BY <1>2, <1>3, <1>6
  <2> QED BY <1>5, <2>1, BeginReplied
<1>7. CASE ~HasAnswers(q)
  <2>1. Sound(d)
    BY <1>1, <1>4, <1>5, <1>7 DEF HasAnswers, Sound, KnowsLosses, KnowsSaves, Carries, Written
  <2>2. Begin(w, d)
    BY <1>2, <1>3, <1>7
  <2> QED BY <1>5, <2>1, <2>2, BeginKeeps
<1> QED BY <1>6, <1>7

LEMMA QuestionDeleteEndKeeps ==
    ASSUME IInv, NEW w \in Workers, QuestionDeleteEnd(w)
    PROVE  IInv'
<1> DEFINE r == req[w]
<1>1. /\ r \in Request /\ Sound(r) /\ r.at = "qdelete"
      /\ Tables /\ lastRow \in Nat /\ lastQuest \in Nat
    BY OwnRequest DEF QuestionDeleteEnd
<1>2. PICK m : m = [r EXCEPT !.wrote = TRUE]
    OBVIOUS
<1>3. m \in Request
    BY <1>1, <1>2 DEF Request
<1>4. PICK n \in Request : n = Replied(m, "ok")
    BY <1>3, RepliedFields
<1>5. n.at = "done" /\ n.row = 0
    BY <1>3, <1>4, RepliedFields
<1>6. /\ req' = [req EXCEPT ![w] = n]
      /\ UNCHANGED <<kind, rows, subs, lastRow, lastQuest, form>>
    BY <1>2, <1>4 DEF QuestionDeleteEnd, ids
<1>7. /\ DOMAIN quests' = DOMAIN quests \ {r.quest}
      /\ \A q \in DOMAIN quests' : quests'[q] = quests[q]
      /\ answers' = {a \in answers : a[2] \notin {r.quest}}
    BY DroppedFields DEF QuestionDeleteEnd
<1>8. Tables'
    BY <1>1, <1>6, <1>7 DEF Tables
<1>9. Sound(n)'
  <2>1. Sound(Replied(m, "ok"))
    BY <1>1, <1>3, ReplySound
  <2> QED BY <1>1, <1>4, <1>5, <1>6, <2>1 DEF Sound, KnowsLosses, KnowsSaves, Carries, Written
<1>10. \A q \in DOMAIN quests' : Home(q, quests'[q])
    BY <1>7 DEF Home
<1>11. StepOf(w, n) /\ subs' \subseteq subs /\ answers' \subseteq answers
    BY <1>6, <1>7 DEF StepOf, QuietStep
<1> HIDE DEF r
<1> QED BY <1>1, <1>5, <1>6, <1>8, <1>9, <1>10, <1>11, StepKeeps

LEMMA QuestionPatchBeginKeeps ==
    ASSUME IInv, NEW w \in Workers, QuestionPatchBegin(w)
    PROVE  IInv'
<1>1. Tables /\ lastRow \in Nat /\ lastQuest \in Nat
    BY OwnRequest
<1>2. PICK q \in DOMAIN quests :
          Begin(w, [Idle EXCEPT !.op = "qpatch", !.at = "qpatch", !.quest = q, !.row = quests[q]])
    BY DEF QuestionPatchBegin
<1>3. PICK n : n = [Idle EXCEPT !.op = "qpatch", !.at = "qpatch", !.quest = q, !.row = quests[q]]
    OBVIOUS
<1>4. q \in Nat /\ quests[q] \in Nat /\ quests[q] <= lastRow /\ kind = "homework"
    BY <1>1 DEF Tables
<1>5. /\ n \in Request
      /\ n.at = "qpatch" /\ n.quest = q /\ n.row = quests[q] /\ n.said = "nothing" /\ ~n.wrote
    BY <1>3, <1>4, IdleFields DEF Request, Ops, Steps
<1>6. Sound(n)
    BY <1>4, <1>5 DEF Sound, KnowsLosses, KnowsSaves, Carries, Written
<1>7. Home(n.quest, n.row)
    BY <1>5 DEF Home
<1> QED BY <1>2, <1>3, <1>5, <1>6, <1>7, BeginKeeps

LEMMA QuestionPatchEndKeeps ==
    ASSUME IInv, NEW w \in Workers, QuestionPatchEnd(w)
    PROVE  IInv'
<1> DEFINE r == req[w]
<1>1. /\ r \in Request /\ Sound(r) /\ r.at = "qpatch"
      /\ Tables /\ lastRow \in Nat /\ lastQuest \in Nat
      /\ r.quest \in Nat /\ r.row \in Nat /\ OneHome
    BY OwnRequest DEF QuestionPatchEnd, IInv, Request
<1>2. CASE r.row \notin DOMAIN rows
    BY <1>2, ReplyKeeps DEF QuestionPatchEnd, data, ids
<1>3. CASE r.row \in DOMAIN rows
  <2>1. PICK m : m = [r EXCEPT !.wrote = TRUE]
    OBVIOUS
  <2>2. m \in Request
    BY <1>1, <2>1 DEF Request
  <2>3. PICK n \in Request : n = Replied(m, "ok")
    BY <2>2, RepliedFields
  <2>4. n.at = "done" /\ n.row = 0
    BY <2>2, <2>3, RepliedFields
  <2>5. /\ req' = [req EXCEPT ![w] = n]
        /\ quests' = WithQuestions({r.quest}, r.row)
        /\ UNCHANGED <<kind, rows, subs, answers, lastRow, lastQuest, form>>
    BY <1>3, <2>1, <2>3 DEF QuestionPatchEnd, ids
  <2>6. Home(r.quest, r.row)
    BY <1>1 DEF Home
  <2>7. r.quest \in 1 .. lastQuest /\ \A k \in Nat : Home(r.quest, k) => r.row = k
    BY <1>1, <2>6 DEF OneHome
  <2>8. r.quest \in DOMAIN quests => quests[r.quest] = r.row
    <3>1. \A q \in DOMAIN quests : quests[q] \in Nat
      BY <1>1 DEF Tables
    <3>2. r.quest \in DOMAIN quests => Home(r.quest, quests[r.quest])
      BY DEF Home
    <3> QED BY <2>7, <3>1, <3>2
  <2>9. /\ DOMAIN quests' = DOMAIN quests \cup {r.quest}
        /\ \A q \in DOMAIN quests : quests'[q] = quests[q]
        /\ quests'[r.quest] = r.row
    BY <2>5, <2>8 DEF WithQuestions
  <2>10. kind = "homework"
    BY <1>1 DEF Sound, Carries
  <2>11. Tables'
    <3>1. DOMAIN quests' \subseteq 1 .. lastQuest' /\ \A q \in DOMAIN quests' : quests'[q] \in DOMAIN rows
      BY <1>1, <1>3, <2>5, <2>7, <2>9 DEF Tables
    <3>2. answers \subseteq Students \X DOMAIN quests' /\ \A a \in answers : <<a[1], quests'[a[2]]>> \in subs
      BY <1>1, <2>9 DEF Tables
    <3> QED BY <1>1, <2>5, <2>10, <3>1, <3>2 DEF Tables
  <2>12. Sound(n)'
    <3>1. Sound(Replied(m, "ok"))
      BY <1>1, <2>2, ReplySound
    <3> QED BY <1>1, <2>3, <2>4, <2>5, <3>1 DEF Sound, KnowsLosses, KnowsSaves, Carries, Written
  <2>13. \A q \in DOMAIN quests' : Home(q, quests'[q])
    <3>1. \A q \in DOMAIN quests : Home(q, quests[q])
      BY DEF Home
    <3> HIDE DEF Home
    <3> QED BY <2>6, <2>9, <3>1
  <2>14. /\ StepOf(w, n) /\ subs' \subseteq subs /\ answers' \subseteq answers
         /\ lastRow <= lastRow' /\ lastQuest <= lastQuest'
    BY <1>1, <2>5 DEF StepOf, QuietStep
  <2>15. UNCHANGED <<kind, form, rows, lastRow>> /\ n.at \notin {"commit", "qpatch"}
    BY <2>4, <2>5
  <2> HIDE DEF r
  <2> QED BY <1>1, <2>11, <2>12, <2>13, <2>14, <2>15, StepKeeps
<1> QED BY <1>2, <1>3

LEMMA StopKeeps ==
    ASSUME IInv, NEW w \in Workers, Stop(w)
    PROVE  IInv'
BY ReplyKeeps DEF Stop
-----------------------------------------------------------------------------
(* Students *)

LEMMA SubmitBeginKeeps ==
    ASSUME IInv, NEW s \in Students, SubmitBegin(s)
    PROVE  IInv'
<1>1. /\ Tables /\ lastRow \in Nat /\ lastQuest \in Nat
      /\ req \in [Workers -> Request] /\ form \in [Students -> Form] /\ OneHome
    BY TablesTyped DEF IInv, Tables
<1>2. PICK r \in DOMAIN rows : form' = [form EXCEPT ![s] = [row |-> r, quests |-> QuestionsOf(r)]]
    BY DEF SubmitBegin
<1>3. UNCHANGED <<kind, rows, quests, subs, answers, lastRow, lastQuest, req>>
    BY DEF SubmitBegin, data, ids
<1>4. r \in Nat /\ r <= lastRow /\ QuestionsOf(r) \in SUBSET Nat
    BY <1>1 DEF Tables, QuestionsOf
<1>5. PICK f \in Form : f = [row |-> r, quests |-> QuestionsOf(r)]
    BY <1>4 DEF Form
<1>6. /\ form' \in [Students -> Form]
      /\ form'[s] = f
      /\ \A t \in Students : t # s => form'[t] = form[t]
    BY <1>1, <1>2, <1>5
<1>7. TypeOK'
    BY <1>1, <1>3, <1>6, TablesTyped DEF TypeOK, Tables
<1>8. \A w \in Workers : Sound(req[w])'
    BY <1>3 DEF IInv, Sound, KnowsLosses, KnowsSaves, Carries, Written
<1>9. \A t \in Students : form'[t].row <= lastRow'
    BY <1>3, <1>4, <1>5, <1>6 DEF IInv
<1>10. CommitAlone'
    BY <1>3 DEF IInv, CommitAlone, Target
<1>11. ASSUME NEW q \in Nat, NEW h \in Nat, Home(q, h)'
       PROVE  Home(q, h)
  <2>1. CASE q \in f.quests /\ f.row = h
    BY <1>5, <2>1 DEF Home, QuestionsOf
  <2>2. CASE ~(q \in f.quests /\ f.row = h)
    BY <1>3, <1>6, <1>11, <2>2 DEF Home
  <2> QED BY <2>1, <2>2
<1>12. OneHome'
  <2> HIDE DEF Home
  <2> QED BY <1>1, <1>3, <1>11 DEF OneHome
<1> QED BY <1>7, <1>8, <1>9, <1>10, <1>12 DEF IInv

LEMMA SubmitEndKeeps ==
    ASSUME IInv, NEW s \in Students, SubmitEnd(s)
    PROVE  IInv'
<1> DEFINE f == form[s]
<1>1. /\ Tables /\ lastRow \in Nat /\ lastQuest \in Nat
      /\ req \in [Workers -> Request] /\ form \in [Students -> Form] /\ OneHome
      /\ f.row \in Nat /\ f.quests \in SUBSET Nat
    BY TablesTyped DEF IInv, Tables, Form
<1>2. /\ form' = [form EXCEPT ![s] = NoForm]
      /\ UNCHANGED <<kind, rows, quests, lastRow, lastQuest>>
    BY DEF SubmitEnd, ids
<1>3. /\ form' \in [Students -> Form]
      /\ form'[s].quests = {} /\ form'[s].row = 0
      /\ \A t \in Students : t # s => form'[t] = form[t]
    BY <1>1, <1>2 DEF NoForm, Form
<1>4. \A t \in Students : form'[t].row <= lastRow'
    BY <1>1, <1>2, <1>3 DEF IInv
<1>5. CASE ~(f.row \in DOMAIN rows /\ f.quests \subseteq DOMAIN quests)
  <2>1. UNCHANGED <<subs, answers, req>>
    BY <1>5 DEF SubmitEnd
  <2>2. TypeOK'
    BY <1>1, <1>2, <1>3, <2>1, TablesTyped DEF TypeOK, Tables
  <2>3. \A w \in Workers : Sound(req[w])'
    BY <1>2, <2>1 DEF IInv, Sound, KnowsLosses, KnowsSaves, Carries, Written
  <2>4. CommitAlone'
    BY <1>2, <2>1 DEF IInv, CommitAlone, Target
  <2>5. \A q \in Nat, h \in Nat : Home(q, h)' => Home(q, h)
    BY <1>2, <1>3, <2>1 DEF Home
  <2>6. OneHome'
    <3> HIDE DEF Home
    <3> QED BY <1>1, <1>2, <2>5 DEF OneHome
  <2> QED BY <1>4, <2>2, <2>3, <2>4, <2>6 DEF IInv
<1>6. CASE f.row \in DOMAIN rows /\ f.quests \subseteq DOMAIN quests
  <2>1. /\ subs' = subs \cup {<<s, f.row>>}
        /\ answers' = answers \cup ({s} \X f.quests)
        /\ req' = Noticed("none", s)
    BY <1>6 DEF SubmitEnd
  <2>2. \A w \in Workers : req'[w] = Told(req[w], s)
    BY <2>1, NamesAssumption DEF Noticed, Told
  <2>3. req' \in [Workers -> Request]
    <3>1. \A w \in Workers : Told(req[w], s) \in Request
      BY <1>1, ToldFields
    <3> QED BY <2>1, <3>1, NamesAssumption DEF Noticed, Told
  <2>4. \A q \in f.quests : quests[q] = f.row
    <3>1. SUFFICES ASSUME NEW q \in f.quests PROVE quests[q] = f.row
      OBVIOUS
    <3>2. Home(q, f.row)
      BY DEF Home
    <3>3. Home(q, quests[q])
      BY <1>6 DEF Home
    <3>4. q \in Nat /\ quests[q] \in Nat
      BY <1>1, <1>6 DEF Tables
    <3> HIDE DEF Home
    <3> QED BY <1>1, <3>2, <3>3, <3>4 DEF OneHome
  <2>5. Tables'
    <3>1. answers' \subseteq Students \X DOMAIN quests /\ \A a \in answers' : <<a[1], quests[a[2]]>> \in subs'
      BY <1>1, <1>6, <2>1, <2>4 DEF Tables
    <3>2. subs' \subseteq Students \X DOMAIN rows
      BY <1>1, <1>6, <2>1 DEF Tables
    <3> QED BY <1>1, <1>2, <3>1, <3>2 DEF Tables
  <2>6. TypeOK'
    BY <1>3, <2>3, <2>5 DEF TypeOK, Tables
  <2>7. ASSUME NEW w \in Workers PROVE Sound(req[w])'
    <3> DEFINE m == req'[w]
               r == req[w]
    <3>1. r \in Request /\ Sound(r)
      BY <1>1 DEF IInv
    <3>2. /\ m.op = r.op /\ m.at = r.at /\ m.row = r.row /\ m.quest = r.quest
          /\ m.state = r.state /\ m.wanted = r.wanted /\ m.replaces = r.replaces
          /\ m.given = r.given /\ m.left = r.left /\ m.items = r.items
          /\ m.made = r.made /\ m.said = r.said /\ m.wrote = r.wrote
          /\ r.since \subseteq m.since
          /\ r.at # "done" => m.since = r.since \cup {s}
      BY <2>2, <3>1, ToldFields
    <3>3. KnowsLosses(req[w])'
      BY <2>1, <3>1, <3>2 DEF Sound, KnowsLosses
    <3>4. KnowsSaves(req[w])'
      BY <1>2, <3>1, <3>2 DEF Sound, KnowsSaves
    <3>5. Carries(req[w])' /\ Written(req[w])'
      BY <1>2, <3>1, <3>2 DEF Sound, Carries, Written
    <3> QED BY <1>2, <3>1, <3>2, <3>3, <3>4, <3>5 DEF Sound
  <2>8. \A w \in Workers : req'[w].at = req[w].at /\ req'[w].row = req[w].row /\ req'[w].quest = req[w].quest
    BY <1>1, <2>2, ToldFields
  <2>9. CommitAlone'
    BY <1>2, <2>8 DEF IInv, CommitAlone, Target
  <2>10. \A q \in Nat, h \in Nat : Home(q, h)' => Home(q, h)
    BY <1>2, <1>3, <2>8 DEF Home
  <2>11. OneHome'
    <3> HIDE DEF Home
    <3> QED BY <1>1, <1>2, <2>10 DEF OneHome
  <2> QED BY <1>4, <2>6, <2>7, <2>9, <2>11 DEF IInv
<1> QED BY <1>5, <1>6
-----------------------------------------------------------------------------
(* The invariant *)

LEMMA InitHolds == Init => IInv
<1> SUFFICES ASSUME Init PROVE IInv
    OBVIOUS
<1>1. DOMAIN rows \subseteq {1} /\ \A r \in DOMAIN rows : rows[r] \in States
    BY DEF Init, States
<1>2. DOMAIN quests = IF kind = "homework" THEN DOMAIN rows ELSE {}
    BY DEF Init
<1>3. \A q \in DOMAIN quests : quests[q] = 1 /\ 1 \in DOMAIN rows
    BY <1>1, <1>2 DEF Init
<1>4. \A S \in {{}, {1}} : Cardinality(S) \in Nat /\ S \subseteq 1 .. Cardinality(S)
  <2>1. Cardinality({}) = 0 /\ Cardinality({1}) = 1
    BY FS_EmptySet, FS_Singleton
  <2> QED BY <2>1
<1>5. /\ lastRow \in Nat /\ DOMAIN rows \subseteq 1 .. lastRow
      /\ lastQuest \in Nat /\ DOMAIN quests \subseteq 1 .. lastQuest
  <2>1. DOMAIN rows \in {{}, {1}} /\ DOMAIN quests \in {{}, {1}}
    BY <1>1, <1>2
  <2> QED BY <1>4, <2>1 DEF Init
<1>6. Tables
    BY <1>1, <1>2, <1>3, <1>5 DEF Init, Tables
<1>7. /\ req \in [Workers -> Request] /\ form \in [Students -> Form]
      /\ \A w \in Workers : req[w] = Idle
      /\ \A s \in Students : form[s].row = 0 /\ form[s].quests = {}
    BY IdleFields DEF Init, NoForm, Form
<1>8. \A w \in Workers : Sound(req[w])
    BY <1>5, <1>7, IdleFields DEF Sound, KnowsLosses, KnowsSaves, Carries, Written
<1>9. CommitAlone
    BY <1>7, IdleFields DEF CommitAlone
<1>10. OneHome
  <2>1. \A q, h \in Nat : Home(q, h) => q \in DOMAIN quests /\ h = 1
    BY <1>3, <1>7, IdleFields DEF Home
  <2> HIDE DEF Home
  <2> QED BY <1>5, <2>1 DEF OneHome
<1> QED BY <1>5, <1>6, <1>7, <1>8, <1>9, <1>10, TablesTyped DEF IInv

\* What a worker may do in a step, request by request.
LEMMA StepCases ==
    ASSUME Next
    PROVE  \/ \E w \in Workers :
                 \/ \E items \in Nat, given \in Nat : CreateBegin(w, items, given)
                 \/ \E state \in States : CreateOne(w, state)
                 \/ CheckSlug(w) \/ InsertRow(w) \/ InsertQuestion(w) \/ QuestionsDone(w)
                 \/ \E wanted \in States \cup {Keep} : PatchRow(w, wanted)
                 \/ PatchEnd(w)
                 \/ DeleteBegin(w) \/ DeleteCount(w) \/ DeleteEnd(w)
                 \/ \E wanted \in States \cup {Keep}, replaces \in BOOLEAN, given \in Nat :
                       PutBegin(w, wanted, replaces, given)
                 \/ PutCreate(w) \/ PutSave(w) \/ PutCommit(w)
                 \/ \E given \in Nat : AddBegin(w, given)
                 \/ QuestionDeleteBegin(w) \/ QuestionDeleteEnd(w)
                 \/ QuestionPatchBegin(w) \/ QuestionPatchEnd(w)
                 \/ Stop(w)
           \/ \E s \in Students : SubmitBegin(s) \/ SubmitEnd(s)
<1>1. 1 .. MaxItems \subseteq Nat /\ Given \subseteq Nat
    BY BoundsAssumption DEF Given
<1>2. OneStates \subseteq States
    BY DEF OneStates, States
<1> QED BY <1>1, <1>2 DEF Next, PatchBegin, PatchOne

LEMMA NextKeeps == IInv /\ [Next]_vars => IInv'
<1> SUFFICES ASSUME IInv, [Next]_vars PROVE IInv'
    OBVIOUS
<1>1. CASE UNCHANGED vars
    BY <1>1 DEF vars, data, ids, IInv, TypeOK, Sound, KnowsLosses, KnowsSaves, Carries, Written,
             CommitAlone, Target, OneHome, Home
<1>2. CASE Next
    BY <1>2, StepCases, CreateBeginKeeps, CreateOneKeeps, CheckSlugKeeps, InsertRowKeeps, InsertQuestionKeeps,
       QuestionsDoneKeeps, PatchRowKeeps, PatchEndKeeps, DeleteBeginKeeps, DeleteCountKeeps,
       DeleteEndKeeps, PutBeginKeeps, PutCreateKeeps, PutSaveKeeps, PutCommitKeeps, AddBeginKeeps,
       QuestionDeleteBeginKeeps, QuestionDeleteEndKeeps, QuestionPatchBeginKeeps,
       QuestionPatchEndKeeps, StopKeeps, SubmitBeginKeeps, SubmitEndKeeps
<1> QED BY <1>1, <1>2

LEMMA Invariant == Spec => []IInv
BY InitHolds, NextKeeps, PTL DEF Spec

\* The tables hold one assignment of the slug, its questions and submissions,
\* and answers only of students who have submitted, whatever requests of the
\* API and students do side by side.
THEOREM Typing == Spec => []TypeOK
<1>1. IInv => TypeOK
    BY DEF IInv
<1> QED BY <1>1, Invariant, PTL

\* A request that is answered with an error has changed nothing, but for a
\* PUT with one of two reasons.
THEOREM Refusals == Spec => []RefusedChangesNothing
<1>1. IInv => RefusedChangesNothing
    BY DEF IInv, Sound, Written, RefusedChangesNothing
<1> QED BY <1>1, Invariant, PTL
-----------------------------------------------------------------------------
(* What is lost, and what the state becomes *)

LEMMA NothingLost ==
    ASSUME subs \subseteq subs', answers \subseteq answers', DOMAIN rows \subseteq DOMAIN rows'
    PROVE  LossKnown
BY DEF LossKnown

\* The end of a deletion or a replacement of w, when w knows its losses.
LEMMA LossOf ==
    ASSUME NEW w \in Workers, req[w].at \in {"delete", "commit", "qdelete"}, req'[w].at = "done",
           \A x \in (subs \ subs') \cup (answers \ answers') : x[1] \in req[w].since,
           \A r \in DOMAIN rows : rows[r] = "OP" /\ r \notin DOMAIN rows' =>
              req[w].at = "delete" /\ req[w].row = r /\ "saved" \in req[w].since
    PROVE  LossKnown
BY DEF LossKnown

LEMMA Done ==
    ASSUME req \in [Workers -> Request], NEW w \in Workers, NEW r \in Request,
           \/ req' = [req EXCEPT ![w] = Replied(r, "ok")]
           \/ req' = [Noticed(w, "saved") EXCEPT ![w] = Replied(r, "ok")]
    PROVE  req'[w].at = "done" /\ req'[w].said = "ok"
<1>1. PICK n \in Request : n = Replied(r, "ok")
    BY RepliedFields
<1>2. n.at = "done" /\ n.said = "ok"
    BY <1>1, RepliedFields
<1>3. req'[w] = n
  <2>1. CASE req' = [req EXCEPT ![w] = n]
    BY <2>1, StepFields
  <2>2. CASE req' = [Noticed(w, "saved") EXCEPT ![w] = n]
    BY <2>2, NoticedFields
  <2> QED BY <1>1, <2>1, <2>2
<1> QED BY <1>2, <1>3

LEMMA DeleteEndLoss ==
    ASSUME IInv, NEW w \in Workers, DeleteEnd(w)
    PROVE  LossKnown
<1> DEFINE r == req[w]
<1>1. /\ r \in Request /\ Sound(r) /\ r.at = "delete" /\ Tables
      /\ req \in [Workers -> Request]
    BY OwnRequest, TablesTyped DEF DeleteEnd, IInv
<1>2. PICK m \in Request : m = [r EXCEPT !.wrote = TRUE]
    BY <1>1 DEF Request
<1>3. req' = [Noticed(w, "saved") EXCEPT ![w] = Replied(m, "ok")]
    BY <1>2, NoticedOwn DEF DeleteEnd
<1>4. req'[w].at = "done"
    BY <1>1, <1>3, Done
<1>5. /\ subs' = {s \in subs : s[2] # r.row}
      /\ DOMAIN rows' = DOMAIN rows \ {r.row}
    BY DEF DeleteEnd, Restrict
<1>6. answers' = {a \in answers : a[2] \notin QuestionsOf(r.row)}
    BY DroppedFields DEF DeleteEnd
<1>7. \A s \in Students : <<s, r.row>> \in subs => s \in r.since
    BY <1>1 DEF Sound, KnowsLosses
<1>8. \A x \in subs \ subs' : x[1] \in r.since
    BY <1>1, <1>5, <1>7 DEF Tables
<1>9. \A x \in answers \ answers' : x[1] \in r.since
    BY <1>1, <1>6, <1>7 DEF Tables, QuestionsOf
<1>10. \A i \in DOMAIN rows : rows[i] = "OP" /\ i \notin DOMAIN rows' =>
           r.row = i /\ "saved" \in r.since
    BY <1>1, <1>5 DEF Sound, KnowsSaves
<1> QED BY <1>1, <1>4, <1>8, <1>9, <1>10, LossOf

LEMMA PutCommitLoss ==
    ASSUME IInv, NEW w \in Workers, PutCommit(w)
    PROVE  LossKnown
<1> DEFINE r == req[w]
<1>1. /\ r \in Request /\ Sound(r) /\ r.at = "commit" /\ Tables
      /\ req \in [Workers -> Request]
    BY OwnRequest, TablesTyped DEF PutCommit, IInv
<1>2. PICK m \in Request : m = [r EXCEPT !.wrote = TRUE]
    BY <1>1 DEF Request
<1>3. req' = [Noticed(w, "saved") EXCEPT ![w] = Replied(m, "ok")]
    BY <1>2, NoticedOwn DEF PutCommit
<1>4. req'[w].at = "done"
    BY <1>1, <1>3, Done
<1>5. /\ subs' = subs /\ DOMAIN rows \subseteq DOMAIN rows'
      /\ answers' = {a \in answers : a[2] \notin QuestionsOf(Target(r))}
    BY DEF PutCommit, Saved, Target
<1>6. \A s \in Students : <<s, Target(r)>> \in subs => s \in r.since
  <2>1. \A s \in Students : <<s, lastRow + 1>> \notin subs
    BY <1>1 DEF Tables
  <2> QED BY <1>1, <2>1 DEF Sound, KnowsLosses, Target
<1>7. \A x \in answers \ answers' : x[1] \in r.since
    BY <1>1, <1>5, <1>6 DEF Tables, QuestionsOf
<1> QED BY <1>1, <1>4, <1>5, <1>7, LossOf

LEMMA QuestionDeleteEndLoss ==
    ASSUME IInv, NEW w \in Workers, QuestionDeleteEnd(w)
    PROVE  LossKnown
<1> DEFINE r == req[w]
<1>1. /\ r \in Request /\ Sound(r) /\ r.at = "qdelete" /\ Tables
      /\ req \in [Workers -> Request]
    BY OwnRequest, TablesTyped DEF QuestionDeleteEnd, IInv
<1>2. PICK m \in Request : m = [r EXCEPT !.wrote = TRUE]
    BY <1>1 DEF Request
<1>3. req' = [req EXCEPT ![w] = Replied(m, "ok")]
    BY <1>2 DEF QuestionDeleteEnd
<1>4. req'[w].at = "done"
    BY <1>1, <1>3, Done
<1>5. /\ subs' = subs /\ rows' = rows
      /\ answers' = {a \in answers : a[2] \notin {r.quest}}
    BY DroppedFields DEF QuestionDeleteEnd
<1>6. \A x \in answers \ answers' : x[1] \in r.since
  <2>1. \A x \in answers : x[1] \in Students /\ x = <<x[1], x[2]>>
    BY <1>1 DEF Tables
  <2> QED BY <1>1, <1>5, <2>1 DEF Sound, KnowsLosses
<1> QED BY <1>1, <1>4, <1>5, <1>6, LossOf

LEMMA NextLoss == IInv /\ [Next]_vars => LossKnown
<1> SUFFICES ASSUME IInv, [Next]_vars PROVE LossKnown
    OBVIOUS
<1> DEFINE Same == subs' = subs /\ answers' = answers /\ rows' = rows
<1>1. CASE UNCHANGED vars
    BY <1>1, NothingLost DEF vars, data
<1>2. CASE Next
  <2>1. ASSUME Same PROVE LossKnown
    BY <2>1, NothingLost
  <2>2. ASSUME NEW w \in Workers, InsertRow(w) PROVE LossKnown
    <3>1. subs' = subs /\ answers' = answers /\ DOMAIN rows \subseteq DOMAIN rows'
      BY <2>2 DEF InsertRow, data
    <3> QED BY <3>1, NothingLost
  <2>3. ASSUME NEW w \in Workers, PatchEnd(w) PROVE LossKnown
    <3>1. subs' = subs /\ answers' = answers /\ DOMAIN rows \subseteq DOMAIN rows'
      BY <2>3 DEF PatchEnd, Saved
    <3> QED BY <3>1, NothingLost
  <2>4. ASSUME NEW w \in Workers, PutCreate(w) \/ PutSave(w) PROVE LossKnown
    <3>1. subs' = subs /\ answers' = answers /\ DOMAIN rows \subseteq DOMAIN rows'
      BY <2>4 DEF PutCreate, PutSave, Saved
    <3> QED BY <3>1, NothingLost
  <2>5. ASSUME NEW s \in Students, SubmitBegin(s) \/ SubmitEnd(s) PROVE LossKnown
    <3>1. subs \subseteq subs' /\ answers \subseteq answers' /\ rows' = rows
      BY <2>5 DEF SubmitBegin, SubmitEnd, data
    <3> QED BY <3>1, NothingLost
  <2>6. ASSUME NEW w \in Workers, NEW r, Begin(w, r) PROVE Same
    BY <2>6 DEF Begin, data
  <2>7. ASSUME NEW w \in Workers,
               CheckSlug(w) \/ InsertQuestion(w) \/ QuestionsDone(w) \/ DeleteCount(w)
                  \/ QuestionPatchEnd(w) \/ Stop(w)
        PROVE  Same
    BY <2>7 DEF CheckSlug, InsertQuestion, QuestionsDone, DeleteCount, QuestionPatchEnd, Stop, data
  <2>8. ASSUME NEW w \in Workers,
               \/ \E items \in Nat, given \in Nat : CreateBegin(w, items, given)
               \/ \E state \in States : CreateOne(w, state)
               \/ \E wanted \in States \cup {Keep} : PatchRow(w, wanted)
               \/ DeleteBegin(w)
               \/ \E wanted \in States \cup {Keep}, replaces \in BOOLEAN, given \in Nat :
                     PutBegin(w, wanted, replaces, given)
               \/ \E given \in Nat : AddBegin(w, given)
               \/ QuestionDeleteBegin(w)
               \/ QuestionPatchBegin(w)
        PROVE  Same
    BY <2>6, <2>8 DEF CreateBegin, CreateOne, PatchRow, DeleteBegin, PutBegin, AddBegin,
       QuestionDeleteBegin, QuestionPatchBegin
  <2> HIDE DEF Same
  <2> QED BY <1>2, StepCases, <2>1, <2>2, <2>3, <2>4, <2>5, <2>7, <2>8, DeleteEndLoss,
          PutCommitLoss, QuestionDeleteEndLoss
<1> QED BY <1>1, <1>2

\* No student loses work but to a request that had found none of it.
THEOREM Losses == Spec => LossHasACause
BY Invariant, NextLoss, PTL DEF Spec, LossHasACause

\* A step that answers no request that is about to save.
LEMMA OthersAsked ==
    ASSUME IInv, NEW w \in Workers, NEW n,
           \/ req' = [req EXCEPT ![w] = n]
           \/ req' = [Noticed(w, "saved") EXCEPT ![w] = n],
           req[w].at \in {"patch", "save", "commit"} /\ req'[w].said \in {"ok", "refused"} =>
              \A r \in DOMAIN rows' :
                  \/ r \in DOMAIN rows /\ rows'[r] = rows[r]
                  \/ r \in DOMAIN rows /\ rows'[r] = req[w].wanted
                  \/ r \notin DOMAIN rows /\ r = lastRow' /\ r > lastRow
                  \/ "saved" \in req[w].since
    PROVE  AsAsked
<1>1. req \in [Workers -> Request]
    BY TablesTyped DEF IInv
<1>2. \A v \in Workers : v # w => req'[v].said = req[v].said
  <2>1. CASE req' = [req EXCEPT ![w] = n]
    BY <1>1, <2>1
  <2>2. CASE req' = [Noticed(w, "saved") EXCEPT ![w] = n]
    <3>1. \A v \in Workers : v # w => req'[v] = Told(req[v], "saved")
      BY <2>2 DEF Noticed, Told
    <3>2. \A v \in Workers : Told(req[v], "saved").said = req[v].said
      BY <1>1, ToldFields
    <3> QED BY <3>1, <3>2
  <2> QED BY <2>1, <2>2
<1>3. \A v \in Workers : req[v].at \in {"patch", "save", "commit"} => req[v].said = "nothing"
    BY DEF IInv, Sound, Carries
<1> QED BY <1>2, <1>3 DEF AsAsked

\* The save of a row by a request that knows of the saves of others.
LEMMA SavedAsAsked ==
    ASSUME Tables, NEW r \in Request, Sound(r), r.at \in {"patch", "save", "commit"},
           rows' = Saved(Target(r), r.state),
           r.row = 0 => lastRow' = lastRow + 1,
           NEW i \in DOMAIN rows'
    PROVE  \/ i \in DOMAIN rows /\ rows'[i] = rows[i]
           \/ i \in DOMAIN rows /\ rows'[i] = r.wanted
           \/ i \notin DOMAIN rows /\ i = lastRow' /\ i > lastRow
           \/ "saved" \in r.since
<1>1. i \in DOMAIN rows \cup {Target(r)} /\ (i # Target(r) => rows'[i] = rows[i])
      /\ (i = Target(r) => rows'[i] = r.state)
    BY DEF Saved
<1>2. CASE i # Target(r)
    BY <1>1, <1>2
<1>3. CASE i = Target(r) /\ r.row = 0
    BY <1>3 DEF Target, Tables
<1>4. CASE i = Target(r) /\ r.row # 0
  <2>1. \/ "saved" \in r.since
        \/ r.row \in DOMAIN rows /\ (r.wanted = Keep => rows[r.row] = r.state)
    BY <1>4 DEF Sound, KnowsSaves
  <2>2. r.wanted # Keep => r.state = r.wanted
    BY DEF Sound, Carries
  <2> QED BY <1>1, <1>4, <2>1, <2>2 DEF Target
<1> QED BY <1>2, <1>3, <1>4

LEMMA NextAsked == IInv /\ [Next]_vars => AsAsked
<1> SUFFICES ASSUME IInv, [Next]_vars PROVE AsAsked
    OBVIOUS
<1>1. CASE UNCHANGED vars
    BY <1>1 DEF vars, AsAsked, data
<1>2. CASE Next
  <2>1. ASSUME NEW w \in Workers, PatchEnd(w) PROVE AsAsked
    <3>1. req[w] \in Request /\ Sound(req[w]) /\ req[w].at = "patch" /\ Tables
      BY <2>1, OwnRequest DEF PatchEnd
    <3>2. Target(req[w]) = req[w].row
      BY <3>1 DEF Sound, Carries, Target
    <3>3. CASE ~MaySave(req[w].row)
      BY <2>1, <3>3, OthersAsked DEF PatchEnd, Reply
    <3>4. CASE MaySave(req[w].row)
      BY <2>1, <3>1, <3>2, <3>4, SavedAsAsked, OthersAsked DEF PatchEnd, Sound, Carries
    <3> QED BY <3>3, <3>4
  <2>2. ASSUME NEW w \in Workers, PutSave(w) PROVE AsAsked
    <3> DEFINE r == req[w]
               bad == (r.row = 0 /\ DOMAIN rows # {}) \/ ~MaySave(Target(r))
    <3>1. r \in Request /\ Sound(r) /\ r.at = "save" /\ Tables
      BY <2>2, OwnRequest DEF PutSave
    <3>2. CASE bad
      <4>1. Reply(w, "failed") /\ UNCHANGED rows
        BY <2>2, <3>2 DEF PutSave, Target
      <4> QED BY <4>1, OthersAsked DEF Reply
    <3>3. CASE ~bad /\ r.replaces /\ ~Blocked(Target(r), r.state)
      <4>1. /\ req' = [req EXCEPT ![w] = [@ EXCEPT !.at = "commit", !.since = req[w].since \ Students]]
            /\ UNCHANGED rows
        BY <2>2, <3>3 DEF PutSave, Target
      <4> QED BY <4>1, OthersAsked
    <3>4. CASE ~bad /\ ~(r.replaces /\ ~Blocked(Target(r), r.state))
      <4>1. /\ rows' = Saved(Target(r), r.state)
            /\ r.row = 0 => lastRow' = lastRow + 1
            /\ req' = [Noticed(w, "saved") EXCEPT
                  ![w] = Replied([@ EXCEPT !.wrote = TRUE],
                                 IF r.replaces THEN "refused" ELSE "ok")]
        BY <2>2, <3>4 DEF PutSave, Target
      <4> HIDE DEF bad
      <4> QED BY <3>1, <4>1, SavedAsAsked, OthersAsked
    <3> QED BY <3>2, <3>3, <3>4
  <2>3. ASSUME NEW w \in Workers, PutCommit(w) PROVE AsAsked
    <3> DEFINE r == req[w]
    <3>1. r \in Request /\ Sound(r) /\ r.at = "commit" /\ Tables
      BY <2>3, OwnRequest DEF PutCommit
    <3>2. /\ rows' = Saved(Target(r), r.state)
          /\ r.row = 0 => lastRow' = lastRow + 1
          /\ req' = [Noticed(w, "saved") EXCEPT ![w] = Replied([@ EXCEPT !.wrote = TRUE], "ok")]
      BY <2>3 DEF PutCommit, Target
    <3> QED BY <3>1, <3>2, SavedAsAsked, OthersAsked
  <2>4. ASSUME NEW w \in Workers, NEW n, req' = [req EXCEPT ![w] = n], rows' = rows
        PROVE  AsAsked
    BY <2>4, OthersAsked
  <2>5. ASSUME NEW w \in Workers, NEW r, Begin(w, r) PROVE AsAsked
    BY <2>4, <2>5 DEF Begin, data
  <2>6. ASSUME NEW w \in Workers,
               CheckSlug(w) \/ InsertQuestion(w) \/ QuestionsDone(w) \/ DeleteCount(w)
                  \/ QuestionDeleteEnd(w) \/ QuestionPatchEnd(w) \/ Stop(w)
        PROVE  AsAsked
    BY <2>4, <2>6 DEF CheckSlug, InsertQuestion, QuestionsDone, DeleteCount, QuestionDeleteEnd,
       QuestionPatchEnd, Stop, data, Go, Reply
  <2>7. ASSUME NEW w \in Workers, InsertRow(w) \/ PutCreate(w) \/ DeleteEnd(w) PROVE AsAsked
    <3>1. req[w].at \notin {"patch", "save", "commit"}
      BY <2>7 DEF InsertRow, PutCreate, DeleteEnd
    <3>2. PICK n : \/ req' = [req EXCEPT ![w] = n]
                   \/ req' = [Noticed(w, "saved") EXCEPT ![w] = n]
      BY <2>7 DEF InsertRow, PutCreate, DeleteEnd, Reply
    <3> QED BY <3>1, <3>2, OthersAsked
  <2>8. ASSUME NEW w \in Workers,
               \/ \E items \in Nat, given \in Nat : CreateBegin(w, items, given)
               \/ \E state \in States : CreateOne(w, state)
               \/ \E wanted \in States \cup {Keep} : PatchRow(w, wanted)
               \/ DeleteBegin(w)
               \/ \E wanted \in States \cup {Keep}, replaces \in BOOLEAN, given \in Nat :
                     PutBegin(w, wanted, replaces, given)
               \/ \E given \in Nat : AddBegin(w, given)
               \/ QuestionDeleteBegin(w)
               \/ QuestionPatchBegin(w)
        PROVE  AsAsked
    BY <2>5, <2>8 DEF CreateBegin, CreateOne, PatchRow, DeleteBegin, PutBegin, AddBegin,
       QuestionDeleteBegin, QuestionPatchBegin
  <2>9. ASSUME NEW s \in Students, SubmitBegin(s) \/ SubmitEnd(s) PROVE AsAsked
    BY <2>9 DEF SubmitBegin, SubmitEnd, AsAsked, data
  <2> QED BY <1>2, StepCases, <2>1, <2>2, <2>3, <2>6, <2>7, <2>8, <2>9
<1> QED BY <1>1, <1>2

\* The state becomes what was asked, unless the row was saved or deleted by
\* another request after it had been read.
THEOREM StatesAsked == Spec => StateAsAsked
BY Invariant, NextAsked, PTL DEF Spec, StateAsAsked
=============================================================================
