------------------------- MODULE HomeworkScoringProofs -------------------------
(***************************************************************************)
(* Scoring keeps the work of the students, for any number of students,     *)
(* requests and rows.  What a scoring transaction is about to write back   *)
(* agrees with the row as it is now, because the row is locked from the    *)
(* moment the two were compared: so the invariant IInv says which rows a   *)
(* transaction holds, that no two hold the same one, and that rows have    *)
(* different keys.  Types adds what rows, requests and totals range over.  *)
(*                                                                         *)
(* The scores and the leaderboard are right too.  ScoreInv adds what each  *)
(* request knows: of the rows that it has left, which of their answers are *)
(* right and that what it writes there is graded; of the students it is    *)
(* not unaware of, that its totals are those of the table it leaves, and   *)
(* that an edit that does not recount changes no points.                   *)
(***************************************************************************)
EXTENDS HomeworkScoring, FiniteSetTheorems, WellFoundedInduction, TLAPS

Keyed(rows) == \A x, y \in rows : x.id = y.id => x = y
RowsOK(rows) == /\ rows \subseteq Row
                /\ \A x \in rows : x.id \in Ids
                /\ Keyed(rows)
HasRows(r) == r # Idle /\ r.stage \in {"read", "written", "summed"}
Holding(r) == r # Idle /\ r.stage \in {"written", "summed"}
Fields == {"op", "stage", "rows", "recount", "totals"}
IdsOf(rows) == {x.id : x \in rows}
Kept(r) == r.op = "score" =>
             \A y \in r.rows : \E x \in subs : x.id = y.id /\ Work(x) = Work(y)
PostOK(r) == r.op = "post" => r.row \in Row /\ r.row.id \in Ids \cup {NoId}

ReqDomain == /\ DOMAIN req = Tabs \cup Staff
             /\ req = [p \in Tabs \cup Staff |-> req[p]]
Table == subs \subseteq Row /\ NoId \notin Ids /\ Keyed(subs)
PostsOK == \A t \in Tabs : PostOK(req[t])
TxOK == \A f \in Staff :
          HasRows(req[f]) => Fields \subseteq DOMAIN req[f] /\ RowsOK(req[f].rows)
Locks == \A f, g \in Staff :
           f # g /\ Holding(req[f]) /\ Holding(req[g])
           => IdsOf(req[f].rows) \cap IdsOf(req[g].rows) = {}
HeldIsKept == \A f \in Staff : Holding(req[f]) => Kept(req[f])
IInv == ReqDomain /\ Table /\ PostsOK /\ TxOK /\ Locks /\ HeldIsKept

-----------------------------------------------------------------------------
LEMMA CurrentRow ==
    ASSUME Keyed(subs), NEW x \in subs
    PROVE  Current(x.id) = x
BY DEF Keyed, Current

\* A request changes, and nothing is written in the table: it may hold
\* rows only if the caller shows what the invariant says of them.
LEMMA NothingWritten ==
    ASSUME IInv, subs' = subs,
           NEW p \in Tabs \cup Staff, NEW r,
           req' = [req EXCEPT ![p] = r],
           p \in Tabs => PostOK(r),
           p \in Staff => ~Holding(r),
           p \in Staff /\ HasRows(r) => Fields \subseteq DOMAIN r /\ RowsOK(r.rows)
    PROVE  IInv'
<1>1. /\ req'[p] = r
      /\ \A q \in Tabs \cup Staff : q # p => req'[q] = req[q]
  BY DEF IInv, ReqDomain
<1>2. ReqDomain'
  BY DEF IInv, ReqDomain
<1>3. Table'
  BY DEF IInv, Table, Keyed, Ids
<1>4. PostsOK'
  BY <1>1, RequestsAssumption DEF IInv, PostsOK, PostOK, Ids
<1>5. TxOK'
  BY <1>1, RequestsAssumption DEF IInv, TxOK, RowsOK, Ids
<1>6. Locks'
  BY <1>1 DEF IInv, Locks
<1>7. HeldIsKept'
  BY <1>1 DEF IInv, HeldIsKept, Kept
<1> QED
  BY <1>2, <1>3, <1>4, <1>5, <1>6, <1>7 DEF IInv

LEMMA NothingChanges ==
    ASSUME IInv, UNCHANGED <<subs, req>>
    PROVE  IInv'
<1>1. ReqDomain' /\ Table'
  BY DEF IInv, ReqDomain, Table, Keyed, Ids
<1>2. PostsOK' /\ TxOK'
  BY DEF IInv, PostsOK, PostOK, TxOK, RowsOK, Ids
<1>3. Locks' /\ HeldIsKept'
  BY DEF IInv, Locks, HeldIsKept, Kept
<1> QED
  BY <1>1, <1>2, <1>3 DEF IInv

\* A transaction writes rows that are free, and takes their locks.
LEMMA RowsTaken ==
    ASSUME IInv, subs' = subs,
           NEW f \in Staff, NEW r,
           req' = [req EXCEPT ![f] = r],
           Holding(r), Fields \subseteq DOMAIN r, RowsOK(r.rows), Kept(r),
           \A g \in Staff \ {f} :
              Holding(req[g]) => IdsOf(req[g].rows) \cap IdsOf(r.rows) = {}
    PROVE  IInv'
<1>1. /\ req'[f] = r
      /\ \A q \in Tabs \cup Staff : q # f => req'[q] = req[q]
  BY DEF IInv, ReqDomain
<1>2. ReqDomain'
  BY DEF IInv, ReqDomain
<1>3. Table'
  BY DEF IInv, Table, Keyed, Ids
<1>4. PostsOK'
  BY <1>1, RequestsAssumption DEF IInv, PostsOK, PostOK, Ids
<1>5. TxOK'
  BY <1>1 DEF IInv, TxOK, RowsOK, Ids
<1>6. Locks'
  BY <1>1 DEF IInv, Locks
<1>7. HeldIsKept'
  BY <1>1 DEF IInv, HeldIsKept, Kept
<1> QED
  BY <1>2, <1>3, <1>4, <1>5, <1>6, <1>7 DEF IInv

\* Rows go into the table whose keys nobody else holds, and the request
\* that wrote them ends.
LEMMA TableWritten ==
    ASSUME IInv, NEW p \in Tabs \cup Staff, NEW rows,
           subs' = Overlaid(rows),
           req' = [req EXCEPT ![p] = Idle],
           rows \subseteq Row, Keyed(rows), NoId \notin IdsOf(rows),
           \A g \in Staff \ {p} :
              Holding(req[g]) => IdsOf(req[g].rows) \cap IdsOf(rows) = {}
    PROVE  IInv'
<1>1. /\ req'[p] = Idle
      /\ \A q \in Tabs \cup Staff : q # p => req'[q] = req[q]
  BY DEF IInv, ReqDomain
<1>2. Ids' = Ids \cup IdsOf(rows)
  BY DEF Ids, IdsOf, Overlaid
<1>3. ReqDomain'
  BY DEF IInv, ReqDomain
<1>4. Table'
  <2>1. Keyed(Overlaid(rows))
    BY DEF IInv, Table, Keyed, Overlaid
  <2>2. subs' \subseteq Row
    BY DEF IInv, Table, Overlaid
  <2> QED
    BY <1>2, <2>1, <2>2 DEF IInv, Table, Keyed
<1>5. PostsOK'
  BY <1>1, <1>2 DEF IInv, PostsOK, PostOK, Idle
<1>6. TxOK'
  BY <1>1, <1>2 DEF IInv, TxOK, RowsOK, HasRows
<1>7. Locks'
  BY <1>1 DEF IInv, Locks, Holding
<1>8. HeldIsKept'
  <2> SUFFICES ASSUME NEW g \in Staff, g # p, Holding(req[g]),
                      req[g].op = "score", NEW y \in req[g].rows
               PROVE  \E x \in subs' : x.id = y.id /\ Work(x) = Work(y)
    BY <1>1 DEF HeldIsKept, Kept, Holding
  <2>1. PICK x \in subs : x.id = y.id /\ Work(x) = Work(y)
    BY DEF IInv, HeldIsKept, Kept
  <2>2. x.id \notin IdsOf(rows)
    BY <2>1 DEF IdsOf
  <2> QED
    BY <2>1, <2>2 DEF Overlaid, IdsOf
<1> QED
  BY <1>3, <1>4, <1>5, <1>6, <1>7, <1>8 DEF IInv

-----------------------------------------------------------------------------
(* Rows the operations build are rows, with the keys of those they are     *)
(* built from.                                                             *)

LEMMA GradedIsRow ==
    ASSUME NEW x \in Row, NEW b \in BOOLEAN
    PROVE  Graded(x, b) \in Row /\ Graded(x, b).id = x.id
<1>1. /\ LipCounted(x) \in Nat /\ LipKept(x) \in Nat
      /\ FaqCounted(x) \in Nat /\ FaqKept(x) \in Nat
  BY DEF Row, LipCounted, LipKept, FaqCounted, FaqKept
<1>2. PICK points \in {0, 1} : points = IF b THEN 1 ELSE 0
  OBVIOUS
<1>3. points + LipCounted(x) + FaqCounted(x) \in Nat
  BY <1>1
<1> QED
  BY <1>1, <1>2, <1>3 DEF Graded, Row

LEMMA Filled ==
    ASSUME NEW x \in Row, NEW c \in Contents
    PROVE  LET y == [x EXCEPT !.answer = c.answer, !.links = c.links, !.url = c.url]
           IN y \in Row /\ y.id = x.id
BY ContentsAssumption DEF Row

LEMMA EditedIsRow ==
    ASSUME NEW x \in Row, NEW c \in Contents, NEW points \in FaqPoints \cup {0}
    PROVE  Edited(x, c, points) \in Row /\ Edited(x, c, points).id = x.id
<1>1. PICK y \in Row : /\ y = [x EXCEPT !.answer = c.answer, !.links = c.links,
                                        !.url = c.url]
                       /\ y.id = x.id
  BY Filled
<1>2. PICK g \in Row : g = Graded(y, IsCorrect(c.answer)) /\ g.id = x.id
  BY <1>1, GradedIsRow DEF IsCorrect
<1>3. points \in Nat /\ g.questions + g.lip + points \in Nat
  BY <1>2, FaqPointsAssumption DEF Row
<1> QED
  BY <1>1, <1>2, <1>3 DEF Edited, Row

LEMMA WithoutLipIsRow ==
    ASSUME Table, NEW x \in Row, x.id \in Ids
    PROVE  WithoutLip(x) \in Row /\ WithoutLip(x).id = x.id
<1>1. PICK y \in subs : y.id = x.id
  BY DEF Ids
<1>2. Current(x.id) = y /\ y \in Row
  BY <1>1, CurrentRow DEF Table
<1>3. x.questions + x.faq \in Nat
  BY DEF Row
<1> QED
  BY <1>1, <1>2, <1>3 DEF WithoutLip, Row

LEMMA OnlyScoresIsRow ==
    ASSUME Table, NEW x \in Row, x.id \in Ids
    PROVE  /\ OnlyScores(x) \in Row
           /\ OnlyScores(x).id = x.id
           /\ \E y \in subs : y.id = x.id /\ Work(y) = Work(OnlyScores(x))
<1>1. PICK y \in subs : y.id = x.id
  BY DEF Ids
<1>2. Current(x.id) = y /\ y \in Row
  BY <1>1, CurrentRow DEF Table
<1>3. OnlyScores(x) = [x EXCEPT !.answer = y.answer, !.links = y.links,
                                !.url = y.url]
  BY <1>2 DEF OnlyScores
<1> QED
  BY <1>1, <1>2, <1>3 DEF Row, Work

-----------------------------------------------------------------------------
(* The invariant holds at first and is kept by every action. *)

LEMMA Initially == Init => IInv
<1> SUFFICES ASSUME Init PROVE IInv
  OBVIOUS
<1>1. ReqDomain /\ Table
  BY DEF Init, ReqDomain, Table, Keyed, Ids
<1>2. PostsOK /\ TxOK
  BY DEF Init, PostsOK, PostOK, TxOK, HasRows, Idle
<1>3. Locks /\ HeldIsKept
  BY DEF Init, Locks, HeldIsKept, Holding
<1> QED
  BY <1>1, <1>2, <1>3 DEF IInv

LEMMA StepPostBegin ==
    ASSUME IInv, NEW t \in Tabs, NEW s \in Students, PostBegin(t, s)
    PROVE  IInv'
<1>1. PICK x \in {Unsaved(s)} \cup subs :
        req' = [req EXCEPT ![t] = [op |-> "post", row |-> x]]
  BY DEF PostBegin, FirstOf, Receive
<1>2. x \in Row /\ x.id \in Ids \cup {NoId}
  <2>1. CASE x \in subs
    BY <2>1 DEF IInv, Table, Ids
  <2>2. CASE x = Unsaved(s)
    BY <2>2 DEF Unsaved, Row
  <2> QED
    BY <2>1, <2>2
<1> QED
  BY <1>1, <1>2, NothingWritten, RequestsAssumption DEF PostBegin, PostOK

SameStudent(y) == \A x \in subs : x.id = y.id => x.student = y.student

\* What saving a form writes, and leaves alone.
LEMMA Saved ==
    ASSUME IInv, NEW t \in Tabs, PostEnd(t)
    PROVE  \/ UNCHANGED <<subs, history>>
           \/ \E y \in Row : /\ subs' = Overlaid({y})
                             /\ Without({y.id})
                             /\ unseen' = Overtaken(Moved(subs'))
                             /\ behind' = behind \cup Moved(subs')
                             /\ Free(t, {y.id})
                             /\ y.id # NoId
                             /\ SameStudent(req[t].row) => SameStudent(y)
<1>1. CASE \E c \in Contents :
             \E i \in (IF req[t].row.id = NoId THEN NextIds
                       ELSE {req[t].row.id}) : PostSave(t, i, c)
  <2>1. PICK c \in Contents :
          \E i \in (IF req[t].row.id = NoId THEN NextIds
                    ELSE {req[t].row.id}) : PostSave(t, i, c)
    BY <1>1
  <2>2. PICK i \in (IF req[t].row.id = NoId THEN NextIds
                    ELSE {req[t].row.id}) : PostSave(t, i, c)
    BY <2>1
  <2>3. PICK x \in Row : /\ x = req[t].row
                         /\ x.id \in Ids \cup {NoId}
    BY DEF IInv, PostsOK, PostOK, PostEnd
  <2>4. i \in SubIds
    <3>1. \A j \in Ids : j \in SubIds
      BY DEF IInv, Table, Ids, Row
    <3>2. CASE x.id = NoId
      BY <3>2, <2>2, <2>3 DEF NextIds
    <3>3. CASE x.id # NoId
      BY <3>3, <2>2, <2>3, <3>1
    <3> QED
      BY <3>2, <3>3
  <2>5. PICK isRight \in BOOLEAN :
          isRight = IF x.id = NoId THEN FALSE ELSE Current(i).right
    <3>1. CASE x.id = NoId
      BY <3>1
    <3>2. CASE x.id # NoId
      <4>1. PICK y \in subs : y.id = i
        BY <3>2, <2>2, <2>3 DEF Ids
      <4> QED
        BY <4>1, <3>2, CurrentRow DEF IInv, Table, Row
    <3> QED
      BY <3>1, <3>2
  <2>6. PICK y \in Row :
          /\ y = [x EXCEPT !.id = i, !.right = isRight, !.answer = c.answer,
                           !.links = c.links, !.url = c.url]
          /\ y.id = i
          /\ y.student = x.student
    <3> DEFINE y == [x EXCEPT !.id = i, !.right = isRight,
                              !.answer = c.answer, !.links = c.links,
                              !.url = c.url]
    <3>1. c.links \in Nat /\ c.url \in BOOLEAN
      BY ContentsAssumption
    <3>2. y \in Row
      BY <2>4, <3>1 DEF Row
    <3>3. y.id = i /\ y.student = x.student
      BY DEF Row
    <3> QED
      BY <3>2, <3>3
  <2>7. /\ subs' = Overlaid({y}) /\ Without({i}) /\ Free(t, {i})
        /\ unseen' = Overtaken(Moved(subs'))
        /\ behind' = behind \cup Moved(subs')
    BY <2>2, <2>3, <2>5, <2>6 DEF PostSave
  <2>8. i # NoId
    BY <2>4, SizeAssumption DEF SubIds, NoId
  <2>9. SameStudent(x) => SameStudent(y)
    <3>1. CASE x.id = NoId
      <4>1. i \notin Ids
        BY <3>1, <2>2, <2>3 DEF NextIds, Ids, SubIds, IInv, Table, Row
      <4> QED
        BY <4>1, <2>6 DEF SameStudent, Ids
    <3>2. CASE x.id # NoId
      BY <3>2, <2>2, <2>3, <2>6 DEF SameStudent
    <3> QED
      BY <3>1, <3>2
  <2> QED
    BY <2>3, <2>6, <2>7, <2>8, <2>9
<1> QED
  BY <1>1 DEF PostEnd

LEMMA StepPostEnd ==
    ASSUME IInv, NEW t \in Tabs, PostEnd(t)
    PROVE  IInv'
<1>1. req' = [req EXCEPT ![t] = Idle]
  BY DEF PostEnd, Respond
<1>2. CASE UNCHANGED <<subs, history>>
  <2>1. PostOK(Idle)
    BY DEF PostOK, Idle
  <2> QED
    BY <1>1, <1>2, <2>1, NothingWritten, RequestsAssumption
<1>3. CASE ~UNCHANGED <<subs, history>>
  <2>1. PICK y \in Row : /\ subs' = Overlaid({y})
                         /\ Free(t, {y.id})
                         /\ y.id # NoId
    BY <1>3, Saved
  <2>2. IdsOf({y}) = {y.id} /\ NoId \notin IdsOf({y}) /\ Keyed({y})
    BY <2>1 DEF IdsOf, Keyed
  <2>3. \A g \in Staff \ {t} :
          Holding(req[g]) => IdsOf(req[g].rows) \cap IdsOf({y}) = {}
    BY <2>1, <2>2 DEF Free, Writing, Holding, IdsOf
  <2> QED
    BY <1>1, <2>1, <2>2, <2>3, TableWritten
<1> QED
  BY <1>2, <1>3

\* A staff request gets to a stage in which it has no rows, or ends.
LEMMA NoRowsYet ==
    ASSUME IInv, NEW f \in Staff, NEW r, subs' = subs,
           req' = [req EXCEPT ![f] = r],
           r = Idle \/ r.stage \in {"reopened", "begun", "answers"}
    PROVE  IInv'
<1>1. ~HasRows(r) /\ ~Holding(r)
  BY DEF HasRows, Holding
<1> QED
  BY <1>1, NothingWritten, RequestsAssumption

LEMMA StepRequest ==
    ASSUME IInv, NEW f \in Staff,
           \/ ScoreBegin(f) \/ RescoreBegin(f) \/ ExtendBegin(f) \/ PatchBegin(f)
           \/ \E s \in Students : ToggleBegin(f, s)
           \/ Reopen(f) \/ ScoreAgain(f) \/ ScoreAnswers(f)
           \/ ExtendEnd(f) \/ PatchEnd(f) \/ Abort(f)
    PROVE  IInv'
<1>1. CASE ScoreBegin(f)
  BY <1>1, NoRowsYet DEF ScoreBegin, BeginScoring
<1>2. CASE RescoreBegin(f)
  BY <1>2, NoRowsYet DEF RescoreBegin, Receive
<1>3. CASE ExtendBegin(f)
  BY <1>3, NoRowsYet DEF ExtendBegin, Receive
<1>4. CASE PatchBegin(f)
  BY <1>4, NoRowsYet DEF PatchBegin, Receive
<1>5. CASE \E s \in Students : ToggleBegin(f, s)
  BY <1>5, NoRowsYet DEF ToggleBegin, Receive
<1>6. CASE Reopen(f)
  BY <1>6, NoRowsYet DEF Reopen, Reopened
<1>7. CASE ScoreAgain(f)
  BY <1>7, NoRowsYet DEF ScoreAgain, BeginScoring, Respond
<1>8. CASE ScoreAnswers(f)
  BY <1>8, NoRowsYet DEF ScoreAnswers
<1>9. CASE ExtendEnd(f)
  BY <1>9, NoRowsYet DEF ExtendEnd, Respond
<1>10. CASE PatchEnd(f)
  BY <1>10, NoRowsYet DEF PatchEnd, Respond
<1>11. CASE Abort(f)
  BY <1>11, NoRowsYet DEF Abort, Respond
<1> QED
  BY <1>1, <1>2, <1>3, <1>4, <1>5, <1>6, <1>7, <1>8, <1>9, <1>10, <1>11

\* A staff request has read rows.
LEMMA RowsRead ==
    ASSUME IInv, NEW f \in Staff, NEW r, subs' = subs,
           req' = [req EXCEPT ![f] = r],
           r.stage = "read", Fields \subseteq DOMAIN r, RowsOK(r.rows)
    PROVE  IInv'
<1>1. ~Holding(r)
  BY DEF Holding
<1> QED
  BY <1>1, NothingWritten, RequestsAssumption

LEMMA StepScoreRows ==
    ASSUME IInv, NEW f \in Staff, ScoreRows(f)
    PROVE  IInv'
<1> DEFINE rows == {Graded(x, x.id \in req[f].right) : x \in subs}
           r == [op |-> "score", stage |-> "read", recount |-> TRUE,
                 totals |-> NoTotals, homework |-> req[f].homework,
                 rows |-> rows]
<1>1. \A x \in subs : /\ Graded(x, x.id \in req[f].right) \in Row
                      /\ Graded(x, x.id \in req[f].right).id = x.id
  <2> SUFFICES ASSUME NEW x \in subs
               PROVE  /\ Graded(x, x.id \in req[f].right) \in Row
                      /\ Graded(x, x.id \in req[f].right).id = x.id
    OBVIOUS
  <2>1. x \in Row
    BY DEF IInv, Table
  <2>2. (x.id \in req[f].right) \in BOOLEAN
    OBVIOUS
  <2> QED
    BY <2>1, <2>2, GradedIsRow
<1>2. RowsOK(rows)
  <2>1. rows \subseteq Row
    BY <1>1
  <2>2. \A y \in rows : y.id \in Ids
    BY <1>1 DEF Ids
  <2>3. Keyed(rows)
    BY <1>1 DEF IInv, Table, Keyed
  <2> QED
    BY <2>1, <2>2, <2>3 DEF RowsOK
<1>3. r.stage = "read" /\ r.rows = rows /\ Fields \subseteq DOMAIN r
  BY DEF Fields
<1>4. req' = [req EXCEPT ![f] = r] /\ subs' = subs
  BY DEF ScoreRows, IInv, ReqDomain
<1> HIDE DEF r
<1> QED
  BY <1>2, <1>3, <1>4, RowsRead

LEMMA StepEditBegin ==
    ASSUME IInv, NEW f \in Staff, EditBegin(f)
    PROVE  IInv'
<1>1. PICK x \in subs :
        req' = [req EXCEPT ![f] = [op |-> "edit", stage |-> "read",
                                   rows |-> {x}, totals |-> NoTotals,
                                   recount |-> FALSE]]
  BY DEF EditBegin, Receive
<1> DEFINE r == [op |-> "edit", stage |-> "read", rows |-> {x},
                 totals |-> NoTotals, recount |-> FALSE]
<1>2. RowsOK({x})
  BY DEF IInv, Table, RowsOK, Keyed, Ids
<1>3. r.stage = "read" /\ r.rows = {x} /\ Fields \subseteq DOMAIN r
  BY DEF Fields
<1>4. req' = [req EXCEPT ![f] = r] /\ subs' = subs
  BY <1>1 DEF EditBegin
<1> HIDE DEF r
<1> QED
  BY <1>2, <1>3, <1>4, RowsRead

LEMMA StepToggleRows ==
    ASSUME IInv, NEW f \in Staff, ToggleRows(f)
    PROVE  IInv'
<1> DEFINE rows == {x \in subs : /\ req[f].off
                                 /\ x.student = req[f].student
                                 /\ x.lip > 0}
           r == [op |-> "toggle", stage |-> "read", recount |-> TRUE,
                 totals |-> NoTotals, student |-> req[f].student,
                 off |-> req[f].off, rows |-> rows]
<1>1. RowsOK(rows)
  BY DEF IInv, Table, RowsOK, Keyed, Ids
<1>2. r.stage = "read" /\ r.rows = rows /\ Fields \subseteq DOMAIN r
  BY DEF Fields
<1>3. req' = [req EXCEPT ![f] = r] /\ subs' = subs
  BY DEF ToggleRows, IInv, ReqDomain
<1> HIDE DEF r
<1> QED
  BY <1>1, <1>2, <1>3, RowsRead

\* Rows are written that are free, by a request that had read others.
LEMMA StepWritten ==
    ASSUME IInv, NEW f \in Staff, NEW rows, subs' = subs,
           HasRows(req[f]), NEW recount,
           req' = [req EXCEPT ![f] = [req[f] EXCEPT !.stage = "written",
                                                    !.rows = rows,
                                                    !.recount = recount]],
           RowsOK(rows), Free(f, IdsOf(rows)),
           req[f].op = "score" =>
             \A y \in rows : \E x \in subs : x.id = y.id /\ Work(x) = Work(y)
    PROVE  IInv'
<1> DEFINE r == [req[f] EXCEPT !.stage = "written", !.rows = rows,
                               !.recount = recount]
<1>1. Fields \subseteq DOMAIN req[f]
  BY DEF IInv, TxOK
<1>2. /\ r.stage = "written" /\ r.rows = rows /\ r.op = req[f].op
      /\ DOMAIN r = DOMAIN req[f]
  BY <1>1 DEF Fields
<1>3. r # Idle
  <2>1. "stage" \in DOMAIN r
    BY <1>1, <1>2 DEF Fields
  <2>2. "stage" \notin DOMAIN Idle
    BY DEF Idle
  <2> QED
    BY <2>1, <2>2
<1>4. Holding(r)
  BY <1>2, <1>3 DEF Holding
<1>5. Kept(r)
  BY <1>2 DEF Kept
<1>6. \A g \in Staff \ {f} :
        Holding(req[g]) => IdsOf(req[g].rows) \cap IdsOf(r.rows) = {}
  BY <1>2 DEF Free, Writing, Holding, IdsOf
<1>7. req' = [req EXCEPT ![f] = r]
  OBVIOUS
<1> HIDE DEF r
<1> QED
  BY <1>1, <1>2, <1>4, <1>5, <1>6, <1>7, RowsTaken

LEMMA StepScoreWrite ==
    ASSUME IInv, NEW f \in Staff, ScoreWrite(f)
    PROVE  IInv'
<1> DEFINE rows == {OnlyScores(x) : x \in req[f].rows}
<1>1. HasRows(req[f])
  BY DEF ScoreWrite, At, HasRows, Idle
<1>2. Fields \subseteq DOMAIN req[f] /\ RowsOK(req[f].rows)
  BY <1>1 DEF IInv, TxOK
<1>3. \A x \in req[f].rows :
        /\ OnlyScores(x) \in Row
        /\ OnlyScores(x).id = x.id
        /\ \E y \in subs : y.id = x.id /\ Work(y) = Work(OnlyScores(x))
  BY <1>2, OnlyScoresIsRow DEF IInv, RowsOK
<1>4. RowsOK(rows)
  BY <1>2, <1>3 DEF RowsOK, Keyed
<1>5. \A y \in rows : \E x \in subs : x.id = y.id /\ Work(x) = Work(y)
  BY <1>3
<1>6. /\ Free(f, IdsOf(rows))
      /\ subs' = subs
      /\ req' = [req EXCEPT ![f].stage = "written", ![f].rows = rows]
  BY DEF ScoreWrite, Written, IdsOf
<1> HIDE DEF rows
<1>7. [req[f] EXCEPT !.stage = "written", !.rows = rows]
      = [req[f] EXCEPT !.stage = "written", !.rows = rows,
                       !.recount = req[f].recount]
  OBVIOUS
<1> QED
  BY <1>1, <1>4, <1>5, <1>6, <1>7, StepWritten

LEMMA StepToggleWrite ==
    ASSUME IInv, NEW f \in Staff, ToggleWrite(f)
    PROVE  IInv'
<1> DEFINE rows == {WithoutLip(x) : x \in req[f].rows}
<1>1. HasRows(req[f]) /\ req[f].op # "score"
  BY DEF ToggleWrite, At, HasRows, Idle
<1>2. Fields \subseteq DOMAIN req[f] /\ RowsOK(req[f].rows)
  BY <1>1 DEF IInv, TxOK
<1>3. \A x \in req[f].rows : WithoutLip(x) \in Row /\ WithoutLip(x).id = x.id
  BY <1>2, WithoutLipIsRow DEF IInv, RowsOK
<1>4. RowsOK(rows)
  BY <1>2, <1>3 DEF RowsOK, Keyed
<1>5. /\ Free(f, IdsOf(rows))
      /\ subs' = subs
      /\ req' = [req EXCEPT ![f].stage = "written", ![f].rows = rows]
  BY DEF ToggleWrite, Written, IdsOf
<1> HIDE DEF rows
<1>6. [req[f] EXCEPT !.stage = "written", !.rows = rows]
      = [req[f] EXCEPT !.stage = "written", !.rows = rows,
                       !.recount = req[f].recount]
  OBVIOUS
<1> QED
  BY <1>1, <1>4, <1>5, <1>6, StepWritten

LEMMA StepEditWrite ==
    ASSUME IInv, NEW f \in Staff, EditWrite(f)
    PROVE  IInv'
<1>1. HasRows(req[f]) /\ req[f].op # "score"
  BY DEF EditWrite, At, HasRows, Idle
<1>2. Fields \subseteq DOMAIN req[f] /\ RowsOK(req[f].rows)
  BY <1>1 DEF IInv, TxOK
<1>3. PICK x \in req[f].rows, c \in Contents, points \in FaqPoints \cup {0} :
        /\ Free(f, {x.id})
        /\ req' = [req EXCEPT ![f].stage = "written",
                              ![f].rows = {Edited(x, c, points)},
                              ![f].recount = Edited(x, c, points).total # x.total]
  BY DEF EditWrite
<1>4. Edited(x, c, points) \in Row /\ Edited(x, c, points).id = x.id
  BY <1>2, EditedIsRow DEF RowsOK
<1> DEFINE y == Edited(x, c, points)
           recount == y.total # x.total
<1>5. RowsOK({y}) /\ IdsOf({y}) = {x.id}
  BY <1>2, <1>4 DEF RowsOK, Keyed, IdsOf
<1> DEFINE rows == {y}
<1>6. /\ req' = [req EXCEPT ![f] = [req[f] EXCEPT !.stage = "written",
                                                  !.rows = rows,
                                                  !.recount = recount]]
      /\ subs' = subs
  BY <1>3 DEF EditWrite
<1>7. RowsOK(rows) /\ Free(f, IdsOf(rows))
  BY <1>3, <1>5
<1> HIDE DEF y, recount, rows
<1> QED
  BY <1>1, <1>6, <1>7, StepWritten

LEMMA StepRecount ==
    ASSUME IInv, NEW f \in Staff, Recount(f)
    PROVE  IInv'
<1>1. Holding(req[f]) /\ HasRows(req[f])
  BY DEF Recount, Writing, Holding, HasRows
<1>2. Fields \subseteq DOMAIN req[f] /\ RowsOK(req[f].rows) /\ Kept(req[f])
  BY <1>1 DEF IInv, TxOK, HeldIsKept
<1>3. PICK totals :
        req' = [req EXCEPT ![f] = [req[f] EXCEPT !.stage = "summed",
                                                 !.totals = totals]]
  BY DEF Recount
<1> DEFINE r == [req[f] EXCEPT !.stage = "summed", !.totals = totals]
<1>4. /\ r.stage = "summed" /\ r.rows = req[f].rows /\ r.op = req[f].op
      /\ DOMAIN r = DOMAIN req[f]
  BY <1>2 DEF Fields
<1>5. r # Idle
  <2>1. "stage" \in DOMAIN r
    BY <1>2, <1>4 DEF Fields
  <2>2. "stage" \notin DOMAIN Idle
    BY DEF Idle
  <2> QED
    BY <2>1, <2>2
<1>6. Holding(r) /\ Kept(r)
  BY <1>2, <1>4, <1>5 DEF Holding, Kept
<1>7. \A g \in Staff \ {f} :
        Holding(req[g]) => IdsOf(req[g].rows) \cap IdsOf(r.rows) = {}
  BY <1>1, <1>4 DEF IInv, Locks
<1>8. req' = [req EXCEPT ![f] = r] /\ subs' = subs
  BY <1>3 DEF Recount
<1> HIDE DEF r
<1> QED
  BY <1>2, <1>4, <1>6, <1>7, <1>8, RowsTaken

LEMMA StepCommit ==
    ASSUME IInv, NEW f \in Staff, Commit(f)
    PROVE  IInv'
<1>1. Holding(req[f]) /\ HasRows(req[f])
  BY DEF Commit, Writing, Holding, HasRows
<1>2. RowsOK(req[f].rows)
  BY <1>1 DEF IInv, TxOK
<1>3. \A g \in (Staff \ {f}) :
        Holding(req[g]) => IdsOf(req[g].rows) \cap IdsOf(req[f].rows) = {}
  BY <1>1 DEF IInv, Locks
<1>4. NoId \notin IdsOf(req[f].rows)
  BY <1>2 DEF RowsOK, IdsOf, IInv, Table
<1>5. subs' = Overlaid(req[f].rows) /\ req' = [req EXCEPT ![f] = Idle]
  BY DEF Commit, Respond
<1> QED
  BY <1>2, <1>3, <1>4, <1>5, TableWritten DEF RowsOK

LEMMA Steps ==
    ASSUME IInv, [Next]_vars
    PROVE  IInv'
<1>1. CASE StudentNext
  BY <1>1, StepPostBegin, StepPostEnd DEF StudentNext
<1>2. CASE StaffNext
  <2>1. PICK f \in Staff :
          \/ ScoreBegin(f) \/ RescoreBegin(f) \/ EditBegin(f)
          \/ \E s \in Students : ToggleBegin(f, s)
          \/ ExtendBegin(f) \/ PatchBegin(f) \/ Continue(f)
    BY <1>2 DEF StaffNext
  <2>2. CASE EditBegin(f)
    BY <2>2, StepEditBegin
  <2>3. CASE Continue(f)
    BY <2>3, StepRequest, StepScoreRows, StepScoreWrite, StepEditWrite,
       StepToggleRows, StepToggleWrite, StepRecount, StepCommit DEF Continue
  <2> QED
    BY <2>1, <2>2, <2>3, StepRequest
<1>3. CASE SetKey \/ DeadlinePasses \/ UNCHANGED vars
  BY <1>3, NothingChanges DEF SetKey, DeadlinePasses, vars
<1> QED
  BY <1>1, <1>2, <1>3 DEF Next

\* When scoring commits, the work in every row is what it was: the row is
\* not among those scoring writes, or it is and agrees with it.
LEMMA CommitKeepsWork ==
    ASSUME IInv, NEW f \in Staff, Commit(f), req[f].op = "score",
           NEW x \in subs
    PROVE  \E y \in subs' : y.id = x.id /\ Work(y) = Work(x)
<1>1. Kept(req[f]) /\ subs' = Overlaid(req[f].rows)
  BY DEF IInv, HeldIsKept, Commit, Writing, Holding
<1>2. CASE x.id \in IdsOf(req[f].rows)
  <2>1. PICK y \in req[f].rows : y.id = x.id
    BY <1>2 DEF IdsOf
  <2>2. PICK z \in subs : z.id = y.id /\ Work(z) = Work(y)
    BY <1>1 DEF Kept
  <2>3. z = x
    BY <2>1, <2>2 DEF IInv, Table, Keyed
  <2> QED
    BY <1>1, <2>1, <2>2, <2>3 DEF Overlaid
<1>3. CASE x.id \notin IdsOf(req[f].rows)
  BY <1>1, <1>3 DEF Overlaid, IdsOf
<1> QED
  BY <1>2, <1>3

\* Nothing else writes in the table.
LEMMA OnlySavesWrite ==
    ASSUME [Next]_vars, subs' # subs
    PROVE  \/ \E t \in Tabs : PostEnd(t)
           \/ \E g \in Staff : Commit(g)
<1>1. CASE StudentNext
  BY <1>1 DEF StudentNext, PostBegin
<1>2. CASE StaffNext
  <2>1. PICK g \in Staff :
          \/ ScoreBegin(g) \/ RescoreBegin(g) \/ EditBegin(g)
          \/ \E s \in Students : ToggleBegin(g, s)
          \/ ExtendBegin(g) \/ PatchBegin(g) \/ Continue(g)
    BY <1>2 DEF StaffNext
  <2>2. CASE Continue(g)
    BY <2>2 DEF Continue, Reopen, ScoreAgain, ScoreAnswers, ScoreRows, ScoreWrite,
       EditWrite, ToggleRows, ToggleWrite, Recount, Abort, ExtendEnd, PatchEnd
  <2> QED
    BY <2>1, <2>2 DEF ScoreBegin, RescoreBegin, EditBegin, ToggleBegin,
       ExtendBegin, PatchBegin
<1> QED
  BY <1>1, <1>2 DEF Next, SetKey, DeadlinePasses, vars

LEMMA Always == Spec => []IInv
<1> QED
  BY Initially, Steps, PTL DEF Spec

\* Scoring never takes back or changes what a student has handed in, not
\* even what is saved while it runs, and whatever other staff requests run:
\* for any number of students, requests and submissions, and any form
\* contents.  (courses/scoring.py bulk-updates the score columns only.)
THEOREM WorkIsKept == Spec => ScoringKeepsWork
<1> DEFINE Keeps(f) == req[f].op = "score" /\ req'[f] = Idle =>
             \A x \in subs : \E y \in subs' :
                y.id = x.id /\ Work(y) = Work(x)
<1>1. ASSUME IInv, [Next]_vars, NEW f \in Staff
      PROVE  Keeps(f)
  <2> SUFFICES ASSUME req[f].op = "score", req'[f] = Idle, NEW x \in subs
               PROVE  \E y \in subs' : y.id = x.id /\ Work(y) = Work(x)
    OBVIOUS
  <2>1. CASE subs' = subs
    BY <2>1
  <2>2. CASE subs' # subs
    <3>1. \/ \E t \in Tabs : PostEnd(t)
          \/ \E g \in Staff : Commit(g)
      BY <1>1, <2>2, OnlySavesWrite
    <3>2. ASSUME NEW t \in Tabs, PostEnd(t)
          PROVE  FALSE
      <4>1. req' = [req EXCEPT ![t] = Idle] /\ t # f
        BY <3>2, RequestsAssumption DEF PostEnd, Respond
      <4> QED
        BY <1>1, <4>1 DEF IInv, ReqDomain, Idle
    <3>3. ASSUME NEW g \in Staff, Commit(g)
          PROVE  g = f
      <4>1. req' = [req EXCEPT ![g] = Idle]
        BY <3>3 DEF Commit, Respond
      <4>2. req[f] # Idle
        BY DEF Idle
      <4> QED
        BY <1>1, <4>1, <4>2 DEF IInv, ReqDomain
    <3> QED
      BY <1>1, <3>1, <3>2, <3>3, CommitKeepsWork
  <2> QED
    BY <2>1, <2>2
<1>2. IInv /\ [Next]_vars => [\A f \in Staff : Keeps(f)]_vars
  BY <1>1
<1> QED
  BY <1>2, Always, PTL DEF Spec, ScoringKeepsWork

-----------------------------------------------------------------------------
(* Types, and whose rows the requests carry.                               *)

OfStudent(rows, s) == {x \in rows : x.student = s}
AllSameStudent(rows) == \A y \in rows : SameStudent(y)

PostTyped(r) == r # Idle => r \in [op : {"post"}, row : Row]
StaffTyped(r) ==
    /\ r.op \in {"idle", "reopened", "score"} \cup Operations
    /\ r.op \in {"score", "patch"} => r.homework \in HomeworkRow
    /\ r.op = "toggle" => r.student \in Students
    /\ HasRows(r) => /\ r.op \in {"score", "edit", "toggle"}
                     /\ r.op # "edit" => r.recount
                     /\ r.totals \in [Students -> Nat]
BoardTyped == \A s \in Students : /\ board[s].total \in Nat
                                  /\ board[s].position \in 0 .. NumStudents
Tables == /\ homework \in HomeworkRow
          /\ key \in Keys
          /\ disabled \subseteq Students
Requests == /\ \A t \in Tabs : PostTyped(req[t])
            /\ \A f \in Staff : StaffTyped(req[f])
Whose == /\ \A t \in Tabs : req[t].op = "post" => SameStudent(req[t].row)
         /\ \A f \in Staff : HasRows(req[f]) => AllSameStudent(req[f].rows)
Types == IInv /\ Tables /\ BoardTyped /\ Requests /\ Whose

HistoryTyped ==
    /\ left \in [Staff -> SUBSET Ids]
    /\ graded \subseteq Ids
    /\ unseen \in [Staff -> SUBSET Students]
    /\ behind \subseteq Students

LEMMA TypesAreTypeOK == Types /\ HistoryTyped => TypeOK
<1> SUFFICES ASSUME Types, HistoryTyped PROVE TypeOK
  OBVIOUS
<1>1. \A x \in subs : x \in Row /\ x.id # NoId
  BY DEF Types, IInv, Table, Ids
<1>2. \A x, y \in subs : x.id = y.id => x = y
  BY DEF Types, IInv, Table, Keyed
<1>3. \A f \in Staff : Writing(f) => \A x \in req[f].rows : x \in Row /\ x.id \in Ids
  BY DEF Types, IInv, TxOK, RowsOK, HasRows, Writing
<1> QED
  BY <1>1, <1>2, <1>3
     DEF Types, HistoryTyped, Tables, BoardTyped, Requests, PostTyped, StaffTyped,
         TypeOK

\* A request changes, and nothing is written in the table.
LEMMA RequestChanges ==
    ASSUME Types, subs' = subs, Tables', BoardTyped',
           NEW p \in Tabs \cup Staff, NEW r,
           req' = [req EXCEPT ![p] = r],
           p \in Tabs => PostTyped(r) /\ (r.op = "post" => SameStudent(r.row)),
           p \in Staff => StaffTyped(r) /\ (HasRows(r) => AllSameStudent(r.rows)),
           IInv'
    PROVE  Types'
<1>1. /\ req'[p] = r
      /\ \A q \in Tabs \cup Staff : q # p => req'[q] = req[q]
  BY DEF Types, IInv, ReqDomain
<1>2. Requests'
  <2>1. \A t \in Tabs : PostTyped(req'[t])
    BY <1>1 DEF Types, Requests
  <2>2. \A f \in Staff : StaffTyped(req'[f])
    BY <1>1 DEF Types, Requests
  <2> QED
    BY <2>1, <2>2 DEF Requests, PostTyped, StaffTyped
<1>3. Whose'
  BY <1>1 DEF Types, Whose, AllSameStudent, SameStudent
<1> QED
  BY <1>2, <1>3 DEF Types

\* The table, in which rows are written with the students they have.
LEMMA WritingKeepsStudents ==
    ASSUME Types, NEW rows, AllSameStudent(rows), subs' = Overlaid(rows),
           NEW y, y.id \in Ids \cup {NoId}, NoId \notin IdsOf(rows),
           SameStudent(y)
    PROVE  SameStudent(y)'
<1> SUFFICES ASSUME NEW x \in subs', x.id = y.id
             PROVE  x.student = y.student
  BY DEF SameStudent
<1>1. CASE x \in subs
  BY <1>1 DEF SameStudent
<1>2. CASE x \in rows
  <2>1. x.id # NoId
    BY <1>2 DEF IdsOf
  <2>2. PICK z \in subs : z.id = y.id
    BY <2>1 DEF Ids
  <2> QED
    BY <1>2, <2>2 DEF SameStudent, AllSameStudent
<1> QED
  BY <1>1, <1>2 DEF Overlaid

LEMMA RequestWrites ==
    ASSUME Types, NEW rows, AllSameStudent(rows), subs' = Overlaid(rows),
           NoId \notin IdsOf(rows), Tables', BoardTyped',
           NEW p \in Tabs \cup Staff,
           req' = [req EXCEPT ![p] = Idle],
           IInv'
    PROVE  Types'
<1>1. /\ req'[p] = Idle
      /\ \A q \in Tabs \cup Staff : q # p => req'[q] = req[q]
  BY DEF Types, IInv, ReqDomain
<1>2. Requests'
  <2>1. \A t \in Tabs : PostTyped(req'[t])
    BY <1>1 DEF Types, Requests, PostTyped
  <2>2. \A f \in Staff : StaffTyped(req'[f])
    BY <1>1 DEF Types, Requests, StaffTyped, Idle, HasRows
  <2> QED
    BY <2>1, <2>2 DEF Requests, PostTyped, StaffTyped
<1>3. Whose'
  <2>1. ASSUME NEW t \in Tabs, req'[t].op = "post"
        PROVE  SameStudent(req[t].row)' /\ req'[t] = req[t]
    <3>1. req'[t] = req[t]
      BY <1>1, <2>1 DEF Idle
    <3>2. req[t].row.id \in Ids \cup {NoId} /\ SameStudent(req[t].row)
      BY <2>1, <3>1 DEF Types, IInv, PostsOK, PostOK, Whose
    <3>3. \A x \in subs' : x.id = req[t].row.id => x.student = req[t].row.student
      BY <3>2, WritingKeepsStudents DEF SameStudent
    <3> QED
      BY <3>1, <3>3 DEF SameStudent
  <2>2. ASSUME NEW f \in Staff, HasRows(req'[f]), NEW y \in req'[f].rows
        PROVE  \A x \in subs' : x.id = y.id => x.student = y.student
    <3>1. req'[f] = req[f]
      BY <1>1, <2>2 DEF HasRows
    <3>2. y.id \in Ids /\ SameStudent(y)
      BY <2>2, <3>1 DEF Types, IInv, TxOK, RowsOK, Whose, AllSameStudent
    <3> QED
      BY <3>2, WritingKeepsStudents DEF SameStudent
  <2> QED
    BY <2>1, <2>2 DEF Whose, AllSameStudent, SameStudent
<1> QED
  BY <1>2, <1>3 DEF Types

LEMMA TypesAtFirst == Init => Types
<1> SUFFICES ASSUME Init PROVE Types
  OBVIOUS
<1>1. IInv
  BY Initially
<1>2. Tables /\ BoardTyped
  BY SizeAssumption DEF Init, Tables, BoardTyped, HomeworkRow, Ids
<1>3. Requests /\ Whose
  BY DEF Init, Requests, PostTyped, StaffTyped, Whose, HasRows, Idle
<1> QED
  BY <1>1, <1>2, <1>3 DEF Types

LEMMA TypesPostBegin ==
    ASSUME Types, IInv', NEW t \in Tabs, NEW s \in Students, PostBegin(t, s)
    PROVE  Types'
<1>1. PICK x \in {Unsaved(s)} \cup subs :
        req' = [req EXCEPT ![t] = [op |-> "post", row |-> x]]
  BY DEF PostBegin, FirstOf, Receive
<1>2. UNCHANGED <<homework, key, disabled, subs, board>>
  BY DEF PostBegin
<1>3. x \in Row /\ SameStudent(x)
  <2>1. CASE x \in subs
    BY <2>1 DEF Types, IInv, Table, Keyed, SameStudent
  <2>2. CASE x = Unsaved(s)
    BY <2>2 DEF Unsaved, Row, SameStudent, Types, IInv, Table, Ids
  <2> QED
    BY <2>1, <2>2
<1>4. PostTyped([op |-> "post", row |-> x])
  BY <1>3 DEF PostTyped
<1>5. Tables' /\ BoardTyped'
  BY <1>2 DEF Types, Tables, BoardTyped, Ids
<1>6. t \notin Staff
  BY RequestsAssumption
<1> DEFINE r == [op |-> "post", row |-> x]
<1>7. PostTyped(r) /\ SameStudent(r.row) /\ req' = [req EXCEPT ![t] = r]
  BY <1>1, <1>3, <1>4
<1> HIDE DEF r
<1> QED
  BY <1>2, <1>5, <1>6, <1>7, RequestChanges

LEMMA TypesPostEnd ==
    ASSUME Types, IInv', NEW t \in Tabs, PostEnd(t)
    PROVE  Types'
<1>1. /\ req' = [req EXCEPT ![t] = Idle]
      /\ UNCHANGED <<homework, key, disabled, board>>
  BY DEF PostEnd, Respond
<1>2. t \notin Staff
  BY RequestsAssumption
<1>3. BoardTyped'
  BY <1>1 DEF Types, BoardTyped
<1>4. PostTyped(Idle) /\ Idle.op # "post"
  BY DEF PostTyped, Idle
<1>5. CASE UNCHANGED <<subs, history>>
  <2>1. Tables'
    BY <1>1, <1>5 DEF Types, Tables, Ids
  <2> QED
    BY <1>1, <1>2, <1>3, <1>4, <1>5, <2>1, RequestChanges
<1>6. CASE ~UNCHANGED <<subs, history>>
  <2>0. SameStudent(req[t].row)
    BY DEF PostEnd, Types, Whose
  <2>1. PICK y \in Row : /\ subs' = Overlaid({y})
                         /\ y.id # NoId
                         /\ SameStudent(y)
    BY <1>6, <2>0, Saved DEF Types
  <2>2. Tables'
    BY <1>1, <2>1 DEF Types, Tables, Ids, Overlaid
  <2>3. AllSameStudent({y}) /\ NoId \notin IdsOf({y})
    BY <2>1 DEF AllSameStudent, IdsOf
  <2> QED
    BY <1>1, <1>3, <2>1, <2>2, <2>3, RequestWrites
<1> QED
  BY <1>5, <1>6

\* A staff request gets to a stage in which it has no rows, or ends.
LEMMA NoRowsTyped ==
    ASSUME Types, IInv', NEW f \in Staff, NEW r, subs' = subs, board' = board,
           Tables', req' = [req EXCEPT ![f] = r],
           r = Idle \/ r.stage \in {"reopened", "begun", "answers"},
           r.op \in {"idle", "reopened", "score"} \cup Operations,
           r.op \in {"score", "patch"} => r.homework \in HomeworkRow,
           r.op = "toggle" => r.student \in Students
    PROVE  Types'
<1>1. ~HasRows(r)
  BY DEF HasRows
<1>2. StaffTyped(r)
  BY <1>1 DEF StaffTyped
<1>3. BoardTyped'
  BY DEF Types, BoardTyped
<1>4. f \notin Tabs
  BY RequestsAssumption
<1> QED
  BY <1>1, <1>2, <1>3, <1>4, RequestChanges

LEMMA TypesBeginScoring ==
    ASSUME Types, IInv', NEW f \in Staff, BeginScoring(f),
           UNCHANGED <<homework, key, disabled, subs, board>>
    PROVE  Types'
<1> DEFINE r == [op |-> "score", stage |-> "begun", homework |-> homework]
<1>1. req' = [req EXCEPT ![f] = r]
  BY DEF BeginScoring
<1>2. Tables' /\ homework \in HomeworkRow
  BY <1>1 DEF Types, Tables, Ids
<1>3. r.op = "score" /\ r.stage = "begun" /\ r.homework = homework
  OBVIOUS
<1> HIDE DEF r
<1> QED
  BY <1>1, <1>2, <1>3, NoRowsTyped

LEMMA TypesRequest ==
    ASSUME Types, IInv', NEW f \in Staff,
           \/ ScoreBegin(f)
           \/ "rescore" \in Operations /\ RescoreBegin(f)
           \/ "extend" \in Operations /\ ExtendBegin(f)
           \/ "patch" \in Operations /\ PatchBegin(f)
           \/ "toggle" \in Operations /\ \E s \in Students : ToggleBegin(f, s)
           \/ Reopen(f) \/ ScoreAgain(f) \/ ScoreAnswers(f)
           \/ ExtendEnd(f) \/ PatchEnd(f) \/ Abort(f)
    PROVE  Types'
<1> USE DEF Idle
<1>0. Idle.op = "idle" /\ StaffTyped(req[f])
  BY DEF Types, Requests
<1>1. CASE ScoreBegin(f)
  BY <1>1, TypesBeginScoring DEF ScoreBegin
<1>2. CASE "rescore" \in Operations /\ RescoreBegin(f)
  <2>1. Tables'
    BY <1>2 DEF RescoreBegin, Types, Tables, Ids
  <2> QED
    BY <1>2, <2>1, NoRowsTyped DEF RescoreBegin, Receive
<1>3. CASE "extend" \in Operations /\ ExtendBegin(f)
  <2>1. Tables'
    BY <1>3 DEF ExtendBegin, Types, Tables, Ids
  <2> QED
    BY <1>3, <2>1, NoRowsTyped DEF ExtendBegin, Receive
<1>4. CASE "patch" \in Operations /\ PatchBegin(f)
  <2>1. Tables' /\ homework \in HomeworkRow
    BY <1>4 DEF PatchBegin, Types, Tables, Ids
  <2> QED
    BY <1>4, <2>1, NoRowsTyped DEF PatchBegin, Receive
<1>5. CASE "toggle" \in Operations /\ \E s \in Students : ToggleBegin(f, s)
  <2>1. Tables'
    BY <1>5 DEF ToggleBegin, Types, Tables, Ids
  <2> QED
    BY <1>5, <2>1, NoRowsTyped DEF ToggleBegin, Receive
<1>6. CASE Reopen(f)
  <2>1. Tables'
    BY <1>6 DEF Reopen, Types, Tables, Ids, HomeworkRow
  <2> QED
    BY <1>6, <2>1, NoRowsTyped DEF Reopen, Reopened
<1>7. CASE ScoreAgain(f)
  <2>1. CASE BeginScoring(f)
    BY <1>7, <2>1, TypesBeginScoring DEF ScoreAgain
  <2>2. CASE Respond(f)
    <3>1. Tables'
      BY <1>7, <2>2 DEF ScoreAgain, Types, Tables, Ids
    <3> QED
      BY <1>7, <2>2, <3>1, NoRowsTyped DEF ScoreAgain, Respond
  <2> QED
    BY <1>7, <2>1, <2>2 DEF ScoreAgain
<1>8. CASE ScoreAnswers(f)
  <2>1. Tables' /\ req[f].homework \in HomeworkRow
    BY <1>0, <1>8 DEF ScoreAnswers, At, StaffTyped, Types, Tables, Ids
  <2> QED
    BY <1>8, <2>1, NoRowsTyped DEF ScoreAnswers
<1>9. CASE ExtendEnd(f)
  <2>1. Tables'
    BY <1>9 DEF ExtendEnd, Types, Tables, Ids, HomeworkRow
  <2> QED
    BY <1>9, <2>1, NoRowsTyped DEF ExtendEnd, Respond
<1>10. CASE PatchEnd(f)
  <2>1. req[f].homework \in HomeworkRow
    BY <1>0, <1>10 DEF PatchEnd, At, StaffTyped
  <2>2. Tables'
    <3>1. homework' \in HomeworkRow
      BY <1>10, <2>1 DEF PatchEnd, PutIn, HomeworkRow
    <3> QED
      BY <1>10, <3>1 DEF PatchEnd, Types, Tables
  <2> QED
    BY <1>10, <2>2, NoRowsTyped DEF PatchEnd, Respond
<1>11. CASE Abort(f)
  <2>1. Tables'
    BY <1>11 DEF Abort, Types, Tables, Ids
  <2> QED
    BY <1>11, <2>1, NoRowsTyped DEF Abort, Respond
<1> QED
  BY <1>1, <1>2, <1>3, <1>4, <1>5, <1>6, <1>7, <1>8, <1>9, <1>10, <1>11

\* A staff request gets to a stage in which it has rows.
LEMMA RowsTyped ==
    ASSUME Types, IInv', NEW f \in Staff, NEW r, subs' = subs, board' = board,
           Tables', req' = [req EXCEPT ![f] = r],
           StaffTyped(r), AllSameStudent(r.rows)
    PROVE  Types'
<1>1. BoardTyped'
  BY DEF Types, BoardTyped
<1>2. f \notin Tabs
  BY RequestsAssumption
<1> QED
  BY <1>1, <1>2, RequestChanges

LEMMA NoTotalsTyped == NoTotals \in [Students -> Nat]
BY DEF NoTotals

LEMMA GradedKeeps ==
    ASSUME NEW x \in Row, NEW b \in BOOLEAN
    PROVE  /\ Graded(x, b).id = x.id
           /\ Graded(x, b).student = x.student
           /\ Work(Graded(x, b)) = Work(x)
BY DEF Graded, Row, Work

LEMMA TypesScoreRows ==
    ASSUME Types, IInv', NEW f \in Staff, ScoreRows(f)
    PROVE  Types'
<1> DEFINE rows == {Graded(x, x.id \in req[f].right) : x \in subs}
           r == [op |-> "score", stage |-> "read", recount |-> TRUE,
                 totals |-> NoTotals, homework |-> req[f].homework,
                 rows |-> rows]
<1>1. AllSameStudent(rows)
  <2> SUFFICES ASSUME NEW x \in subs, NEW z \in subs,
                      z.id = Graded(x, x.id \in req[f].right).id
               PROVE  z.student = Graded(x, x.id \in req[f].right).student
    BY DEF AllSameStudent, SameStudent
  <2>1. x \in Row /\ (x.id \in req[f].right) \in BOOLEAN
    BY DEF Types, IInv, Table
  <2>2. z.id = x.id /\ Graded(x, x.id \in req[f].right).student = x.student
    BY <2>1, GradedKeeps
  <2> QED
    BY <2>2 DEF Types, IInv, Table, Keyed
<1>2. req[f].homework \in HomeworkRow
  BY DEF ScoreRows, At, Types, Requests, StaffTyped
<1>3. StaffTyped(r) /\ r.rows = rows
  BY <1>2, NoTotalsTyped DEF StaffTyped
<1>4. Tables'
  BY DEF ScoreRows, Types, Tables, Ids
<1>5. req' = [req EXCEPT ![f] = r] /\ subs' = subs /\ board' = board
  BY DEF ScoreRows
<1> HIDE DEF r
<1> QED
  BY <1>1, <1>3, <1>4, <1>5, RowsTyped

LEMMA TypesEditBegin ==
    ASSUME Types, IInv', NEW f \in Staff, "edit" \in Operations, EditBegin(f)
    PROVE  Types'
<1>1. PICK x \in subs :
        req' = [req EXCEPT ![f] = [op |-> "edit", stage |-> "read",
                                   rows |-> {x}, totals |-> NoTotals,
                                   recount |-> FALSE]]
  BY DEF EditBegin, Receive
<1> DEFINE r == [op |-> "edit", stage |-> "read", rows |-> {x},
                 totals |-> NoTotals, recount |-> FALSE]
<1>2. AllSameStudent({x})
  BY DEF Types, IInv, Table, Keyed, AllSameStudent, SameStudent
<1>3. StaffTyped(r) /\ r.rows = {x}
  BY NoTotalsTyped DEF StaffTyped
<1>4. Tables'
  BY DEF EditBegin, Types, Tables, Ids
<1>5. req' = [req EXCEPT ![f] = r] /\ subs' = subs /\ board' = board
  BY <1>1 DEF EditBegin
<1> HIDE DEF r
<1> QED
  BY <1>2, <1>3, <1>4, <1>5, RowsTyped

LEMMA TypesToggleRows ==
    ASSUME Types, IInv', NEW f \in Staff, ToggleRows(f)
    PROVE  Types'
<1> DEFINE rows == {x \in subs : /\ req[f].off
                                 /\ x.student = req[f].student
                                 /\ x.lip > 0}
           r == [op |-> "toggle", stage |-> "read", recount |-> TRUE,
                 totals |-> NoTotals, student |-> req[f].student,
                 off |-> req[f].off, rows |-> rows]
<1>1. AllSameStudent(rows)
  BY DEF Types, IInv, Table, Keyed, AllSameStudent, SameStudent
<1>2. req[f].student \in Students /\ "toggle" \in {"score"} \cup Operations
  BY DEF ToggleRows, At, Types, Requests, StaffTyped
<1>3. StaffTyped(r) /\ r.rows = rows
  BY <1>2, NoTotalsTyped DEF StaffTyped
<1>4. Tables'
  BY DEF ToggleRows, Types, Tables, Ids
<1>5. req' = [req EXCEPT ![f] = r] /\ subs' = subs /\ board' = board
  BY DEF ToggleRows
<1> HIDE DEF r
<1> QED
  BY <1>1, <1>3, <1>4, <1>5, RowsTyped

\* A request that has written rows, and one that has the totals.
Wrote(q, rows, recount) ==
    [q EXCEPT !.stage = "written", !.rows = rows, !.recount = recount]
Summed(q, totals) == [q EXCEPT !.stage = "summed", !.totals = totals]

LEMMA WroteIs ==
    ASSUME NEW q, Fields \subseteq DOMAIN q, NEW rows, NEW recount
    PROVE  LET r == Wrote(q, rows, recount) IN
           /\ r.stage = "written" /\ r.rows = rows /\ r.recount = recount
           /\ r.op = q.op /\ r.totals = q.totals /\ r.homework = q.homework
           /\ r.student = q.student /\ r.off = q.off
BY DEF Wrote, Fields

LEMMA SummedIs ==
    ASSUME NEW q, Fields \subseteq DOMAIN q, NEW totals
    PROVE  LET r == Summed(q, totals) IN
           /\ r.stage = "summed" /\ r.totals = totals
           /\ r.op = q.op /\ r.rows = q.rows /\ r.recount = q.recount
           /\ r.homework = q.homework /\ r.student = q.student /\ r.off = q.off
BY DEF Summed, Fields

LEMMA WroteTyped ==
    ASSUME NEW q, Fields \subseteq DOMAIN q, HasRows(q), StaffTyped(q),
           NEW rows, NEW recount, q.op # "edit" => recount
    PROVE  StaffTyped(Wrote(q, rows, recount))
<1>1. /\ q.op \in {"score", "edit", "toggle"}
      /\ q.op = "score" => q.homework \in HomeworkRow
      /\ q.op = "toggle" => q.student \in Students
      /\ q.totals \in [Students -> Nat]
      /\ q.op \in {"idle", "reopened", "score"} \cup Operations
  BY DEF StaffTyped
<1> DEFINE r == Wrote(q, rows, recount)
<1>2. /\ r.op = q.op /\ r.totals = q.totals /\ r.homework = q.homework
      /\ r.student = q.student /\ r.recount = recount
  BY WroteIs
<1> HIDE DEF r
<1>3. StaffTyped(r)
  BY <1>1, <1>2 DEF StaffTyped
<1> QED
  BY <1>3 DEF r

LEMMA TypesWrite ==
    ASSUME Types, IInv', NEW f \in Staff, HasRows(req[f]), NEW rows,
           NEW recount, req[f].op # "edit" => recount,
           req' = [req EXCEPT ![f] = Wrote(req[f], rows, recount)],
           UNCHANGED <<homework, key, disabled, subs, board>>,
           AllSameStudent(rows)
    PROVE  Types'
<1>1. Fields \subseteq DOMAIN req[f] /\ StaffTyped(req[f])
  BY DEF Types, IInv, TxOK, Requests
<1>2. StaffTyped(Wrote(req[f], rows, recount))
  BY <1>1, WroteTyped
<1>3. Wrote(req[f], rows, recount).rows = rows
  BY <1>1, WroteIs
<1>4. Tables'
  BY DEF Types, Tables, Ids
<1> QED
  BY <1>2, <1>3, <1>4, RowsTyped

\* The rows that scoring writes.
LEMMA ScoresOf ==
    ASSUME Types, NEW f \in Staff, HasRows(req[f]), NEW x \in req[f].rows
    PROVE  /\ x \in Row /\ OnlyScores(x) \in Row
           /\ OnlyScores(x).id = x.id
           /\ OnlyScores(x).student = x.student
           /\ \E y \in subs : /\ y.id = x.id
                              /\ OnlyScores(x) = [x EXCEPT !.answer = y.answer,
                                            !.links = y.links, !.url = y.url]
<1>1. x \in Row /\ x.id \in Ids
  BY DEF Types, IInv, TxOK, RowsOK
<1>2. PICK y \in subs : y.id = x.id
  BY <1>1 DEF Ids
<1>3. Current(x.id) = y /\ y \in Row
  BY <1>2, CurrentRow DEF Types, IInv, Table
<1>4. OnlyScores(x) = [x EXCEPT !.answer = y.answer, !.links = y.links,
                                !.url = y.url]
  BY <1>3 DEF OnlyScores
<1> QED
  BY <1>1, <1>2, <1>3, <1>4 DEF Row

LEMMA TypesScoreWrite ==
    ASSUME Types, IInv', NEW f \in Staff, ScoreWrite(f)
    PROVE  Types'
<1> DEFINE rows == {OnlyScores(x) : x \in req[f].rows}
<1>1. HasRows(req[f]) /\ req[f].op = "score"
  BY DEF ScoreWrite, At, HasRows, Idle
<1>2. AllSameStudent(req[f].rows) /\ req[f].recount
  BY <1>1 DEF Types, Whose, Requests, StaffTyped
<1>3. AllSameStudent(rows)
  <2>1. \A x \in req[f].rows : /\ OnlyScores(x).id = x.id
                               /\ OnlyScores(x).student = x.student
    BY <1>1, ScoresOf
  <2> QED
    BY <1>2, <2>1 DEF AllSameStudent, SameStudent
<1>4. /\ req' = [req EXCEPT ![f].stage = "written", ![f].rows = rows]
      /\ UNCHANGED <<homework, key, disabled, subs, board>>
  BY DEF ScoreWrite, Written
<1> HIDE DEF rows
<1>5. [req[f] EXCEPT !.stage = "written", !.rows = rows]
      = Wrote(req[f], rows, req[f].recount)
  BY DEF Wrote
<1>6. req' = [req EXCEPT ![f] = Wrote(req[f], rows, req[f].recount)]
  BY <1>4, <1>5
<1> QED
  BY <1>1, <1>2, <1>3, <1>4, <1>6, TypesWrite

\* The rows without learning in public.
LEMMA WithoutLipOf ==
    ASSUME Types, NEW f \in Staff, HasRows(req[f]), NEW x \in req[f].rows
    PROVE  /\ WithoutLip(x).id = x.id
           /\ WithoutLip(x).student = x.student
<1>1. x \in Row /\ x.id \in Ids /\ SameStudent(x)
  BY DEF Types, IInv, TxOK, RowsOK, Whose, AllSameStudent
<1>2. PICK y \in subs : y.id = x.id
  BY <1>1 DEF Ids
<1>3. Current(x.id) = y /\ y \in Row
  BY <1>2, CurrentRow DEF Types, IInv, Table
<1> QED
  BY <1>1, <1>2, <1>3 DEF WithoutLip, Row, SameStudent

LEMMA TypesToggleWrite ==
    ASSUME Types, IInv', NEW f \in Staff, ToggleWrite(f)
    PROVE  Types'
<1> DEFINE rows == {WithoutLip(x) : x \in req[f].rows}
<1>1. HasRows(req[f]) /\ req[f].op = "toggle"
  BY DEF ToggleWrite, At, HasRows, Idle
<1>2. AllSameStudent(req[f].rows) /\ req[f].recount
  BY <1>1 DEF Types, Whose, Requests, StaffTyped
<1>3. AllSameStudent(rows)
  BY <1>1, <1>2, WithoutLipOf DEF AllSameStudent, SameStudent
<1>4. /\ req' = [req EXCEPT ![f].stage = "written", ![f].rows = rows]
      /\ UNCHANGED <<homework, key, disabled, subs, board>>
  BY DEF ToggleWrite, Written
<1> HIDE DEF rows
<1>5. [req[f] EXCEPT !.stage = "written", !.rows = rows]
      = Wrote(req[f], rows, req[f].recount)
  BY DEF Wrote
<1>6. req' = [req EXCEPT ![f] = Wrote(req[f], rows, req[f].recount)]
  BY <1>4, <1>5
<1> QED
  BY <1>1, <1>2, <1>3, <1>4, <1>6, TypesWrite

LEMMA EditedKeeps ==
    ASSUME NEW x \in Row, NEW c \in Contents, NEW points \in FaqPoints \cup {0}
    PROVE  Edited(x, c, points).student = x.student
<1> DEFINE y == [x EXCEPT !.answer = c.answer, !.links = c.links, !.url = c.url]
<1>1. y \in Row /\ y.student = x.student
  BY ContentsAssumption DEF Row
<1> HIDE DEF y
<1> DEFINE b == IsCorrect(c.answer)
           g == Graded(y, b)
<1>2. b \in BOOLEAN
  BY DEF IsCorrect
<1> HIDE DEF b
<1>3. g \in Row /\ g.student = x.student
  BY <1>1, <1>2, GradedIsRow, GradedKeeps
<1> HIDE DEF g
<1>4. Edited(x, c, points) = [g EXCEPT !.faq = points,
                                       !.total = g.questions + g.lip + points]
  BY DEF Edited, y, b, g
<1> QED
  BY <1>3, <1>4 DEF Row

\* What the edit of a submission writes.
LEMMA Edits ==
    ASSUME Types, NEW f \in Staff, EditWrite(f)
    PROVE  /\ HasRows(req[f]) /\ req[f].op = "edit"
           /\ \E y, recount :
                /\ SameStudent(y) /\ y.id \in Ids
                /\ \E x \in req[f].rows : /\ y.id = x.id
                                         /\ recount = (y.total # x.total)
                /\ req' = [req EXCEPT ![f] = Wrote(req[f], {y}, recount)]
<1>1. HasRows(req[f]) /\ req[f].op = "edit"
  BY DEF EditWrite, At, HasRows, Idle
<1>2. PICK x \in req[f].rows, c \in Contents, points \in FaqPoints \cup {0} :
           req' = [req EXCEPT ![f].stage = "written",
                              ![f].rows = {Edited(x, c, points)},
                              ![f].recount = Edited(x, c, points).total # x.total]
  BY DEF EditWrite
<1> DEFINE y == Edited(x, c, points)
           recount == y.total # x.total
<1>3. x \in Row /\ x.id \in Ids /\ SameStudent(x)
  BY <1>1 DEF Types, IInv, TxOK, RowsOK, Whose, AllSameStudent
<1>4. y.id = x.id /\ y.student = x.student
  BY <1>3, EditedIsRow, EditedKeeps
<1>5. req' = [req EXCEPT ![f] = Wrote(req[f], {y}, recount)]
  BY <1>2 DEF Wrote
<1> HIDE DEF y, recount
<1>6. SameStudent(y) /\ y.id \in Ids
  BY <1>3, <1>4 DEF SameStudent
<1>7. recount = (y.total # x.total)
  BY DEF recount
<1> QED
  BY <1>1, <1>4, <1>5, <1>6, <1>7

LEMMA TypesEditWrite ==
    ASSUME Types, IInv', NEW f \in Staff, EditWrite(f)
    PROVE  Types'
<1>1. HasRows(req[f]) /\ req[f].op = "edit"
  BY Edits
<1>2. PICK y, recount :
        /\ SameStudent(y)
        /\ req' = [req EXCEPT ![f] = Wrote(req[f], {y}, recount)]
  BY Edits
<1>3. AllSameStudent({y})
  BY <1>2 DEF AllSameStudent
<1>4. UNCHANGED <<homework, key, disabled, subs, board>>
  BY DEF EditWrite
<1> QED
  BY <1>1, <1>2, <1>3, <1>4, TypesWrite

-----------------------------------------------------------------------------
(* The leaderboard: sums and positions.                                    *)

SumOf(pairs) == MapThenSumSet(LAMBDA p : p[2], pairs)
OneOf(pairs) == CHOOSE p \in pairs : TRUE
UpTo(S, n) == {t \in SUBSET S : Cardinality(t) <= n}
IsSum(it, D) ==
    it = [t \in D |-> IF t = {} THEN 0
                      ELSE OneOf(t)[2] + it[t \ {OneOf(t)}]]

LEMMA SumUnfolds ==
    ASSUME NEW S
    PROVE  SumOf(S) = (CHOOSE it : IsSum(it, SUBSET S))[S]
BY DEF SumOf, MapThenSumSet, MapThenFoldSet, IsSum, OneOf

LEMMA OneIsTaken ==
    ASSUME NEW S, IsFiniteSet(S), NEW t \in SUBSET S, t # {}
    PROVE  /\ OneOf(t) \in t
           /\ IsFiniteSet(t) /\ t \ {OneOf(t)} \in SUBSET S
           /\ Cardinality(t) \in Nat \ {0}
           /\ Cardinality(t \ {OneOf(t)}) = Cardinality(t) - 1
<1>1. OneOf(t) \in t
  BY DEF OneOf
<1>2. IsFiniteSet(t)
  BY FS_Subset
<1>3. Cardinality(t \ {OneOf(t)}) = Cardinality(t) - 1
  BY <1>1, <1>2, FS_RemoveElement
<1>4. Cardinality(t) \in Nat
  BY <1>2, FS_CardinalityType
<1>5. Cardinality(t) # 0
  BY <1>2, FS_EmptySet
<1> QED
  BY <1>1, <1>2, <1>3, <1>4, <1>5

\* A nonempty set of natural numbers has a least element.
LEMMA LeastNumber ==
    ASSUME NEW T, T \subseteq Nat, T # {}
    PROVE  \E m \in T : \A n \in T : m <= n
<1> DEFINE R == {ss \in Nat \X Nat : ss[1] < ss[2]}
<1>1. IsWellFoundedOn(R, Nat)
    BY NatLessThanWellFounded DEF OpToRel
<1> HIDE DEF R
<1>2. PICK m \in T : \A n \in T : ~(<<n, m>> \in R)
    BY <1>1, WFMin
<1>3. \A n \in T : ~(n < m)
    BY <1>2 DEF R
<1> QED BY <1>3

\* The sum of finitely many points is defined: by cardinality.
LEMMA SumExists ==
    ASSUME NEW S, IsFiniteSet(S)
    PROVE  \E it : IsSum(it, SUBSET S)
<1> DEFINE T == {n \in Nat : ~\E it : IsSum(it, UpTo(S, n))}
<1>1. T = {}
  <2> SUFFICES ASSUME T # {} PROVE FALSE
    OBVIOUS
  <2>1. PICK m \in T : \A n \in T : m <= n
    BY LeastNumber
  <2>2. m \in Nat /\ ~\E it : IsSum(it, UpTo(S, m))
    OBVIOUS
  <2>3. CASE m = 0
    <3> DEFINE it == [t \in UpTo(S, 0) |-> 0]
    <3>1. \A t \in UpTo(S, 0) : t = {}
      <4> SUFFICES ASSUME NEW t \in UpTo(S, 0), t # {} PROVE FALSE
        OBVIOUS
      <4>1. t \in SUBSET S /\ Cardinality(t) <= 0
        BY DEF UpTo
      <4>2. Cardinality(t) \in Nat \ {0}
        BY <4>1, OneIsTaken
      <4> QED
        BY <4>1, <4>2
    <3>2. IsSum(it, UpTo(S, 0))
      BY <3>1 DEF IsSum
    <3> QED
      BY <2>2, <2>3, <3>2
  <2>4. CASE m # 0
    <3>1. m - 1 \in Nat /\ m - 1 \notin T
      BY <2>1, <2>2, <2>4
    <3>2. PICK it : IsSum(it, UpTo(S, m - 1))
      BY <3>1
    <3> DEFINE more == [t \in UpTo(S, m) |-> IF t = {} THEN 0
                          ELSE OneOf(t)[2] + it[t \ {OneOf(t)}]]
    <3>3. \A t \in UpTo(S, m) : t # {} => t \ {OneOf(t)} \in UpTo(S, m - 1)
      <4> SUFFICES ASSUME NEW t \in UpTo(S, m), t # {}
                   PROVE  t \ {OneOf(t)} \in UpTo(S, m - 1)
        OBVIOUS
      <4>1. t \in SUBSET S /\ Cardinality(t) <= m
        BY DEF UpTo
      <4> QED
        BY <4>1, <2>2, OneIsTaken DEF UpTo
    <3>4. \A t \in UpTo(S, m - 1) : t \in UpTo(S, m)
      <4> SUFFICES ASSUME NEW t \in UpTo(S, m - 1) PROVE t \in UpTo(S, m)
        OBVIOUS
      <4>1. t \in SUBSET S /\ Cardinality(t) <= m - 1 /\ IsFiniteSet(t)
        BY FS_Subset DEF UpTo
      <4>2. Cardinality(t) \in Nat
        BY <4>1, FS_CardinalityType
      <4> QED
        BY <4>1, <4>2, <2>2 DEF UpTo
    <3>5. \A t \in UpTo(S, m - 1) : more[t] = it[t]
      <4> SUFFICES ASSUME NEW t \in UpTo(S, m - 1) PROVE more[t] = it[t]
        OBVIOUS
      <4>1. more[t] = IF t = {} THEN 0
                      ELSE OneOf(t)[2] + it[t \ {OneOf(t)}]
        BY <3>4
      <4>2. it[t] = IF t = {} THEN 0
                    ELSE OneOf(t)[2] + it[t \ {OneOf(t)}]
        BY <3>2 DEF IsSum
      <4> QED
        BY <4>1, <4>2
    <3>6. \A t \in UpTo(S, m) : t # {} =>
            it[t \ {OneOf(t)}] = more[t \ {OneOf(t)}]
      BY <3>3, <3>5
    <3>7. IsSum(more, UpTo(S, m))
      <4>1. more = [t \in UpTo(S, m) |-> IF t = {} THEN 0
                      ELSE OneOf(t)[2] + more[t \ {OneOf(t)}]]
        BY <3>6
      <4> QED
        BY <4>1 DEF IsSum
    <3> QED
      BY <2>2, <3>7
  <2> QED
    BY <2>3, <2>4
<1>2. UpTo(S, Cardinality(S)) = SUBSET S
  BY FS_Subset DEF UpTo
<1>3. Cardinality(S) \in Nat /\ Cardinality(S) \notin T
  BY <1>1, FS_CardinalityType
<1>4. \E it : IsSum(it, UpTo(S, Cardinality(S)))
  BY <1>3
<1> QED
  BY <1>2, <1>4

\* And it is a number.
LEMMA SumIsNat ==
    ASSUME NEW S, IsFiniteSet(S), \A p \in S : p[2] \in Nat
    PROVE  SumOf(S) \in Nat
<1> DEFINE it == CHOOSE it : IsSum(it, SUBSET S)
<1>1. IsSum(it, SUBSET S)
  BY SumExists
<1>2. SumOf(S) = it[S]
  BY SumUnfolds
<1> HIDE DEF it
<1>3. \A t \in SUBSET S : it[t] = IF t = {} THEN 0
                                  ELSE OneOf(t)[2] + it[t \ {OneOf(t)}]
  BY <1>1 DEF IsSum
<1> DEFINE Bad == {t \in SUBSET S : it[t] \notin Nat}
           T == {n \in Nat : \E t \in Bad : Cardinality(t) = n}
<1>4. Bad = {}
  <2> SUFFICES ASSUME Bad # {} PROVE FALSE
    OBVIOUS
  <2>1. \A t \in Bad : Cardinality(t) \in T
    <3> SUFFICES ASSUME NEW t \in Bad PROVE Cardinality(t) \in T
      OBVIOUS
    <3>1. IsFiniteSet(t)
      BY FS_Subset
    <3> QED
      BY <3>1, FS_CardinalityType
  <2>2. PICK m \in T : \A n \in T : m <= n
    <3>1. T # {}
      BY <2>1
    <3> HIDE DEF T
    <3> QED
      BY <3>1, LeastNumber DEF T
  <2>3. PICK t \in Bad : Cardinality(t) = m
    OBVIOUS
  <2>4. t # {}
    <3>1. it[{}] = 0 /\ it[t] \notin Nat
      BY <1>3
    <3> QED
      BY <3>1
  <2>5. t \ {OneOf(t)} \notin Bad
    BY <2>1, <2>2, <2>3, <2>4, OneIsTaken
  <2>6. it[t \ {OneOf(t)}] \in Nat /\ OneOf(t) \in S
    BY <2>4, <2>5, OneIsTaken
  <2>7. OneOf(t)[2] + it[t \ {OneOf(t)}] \in Nat
    BY <2>6
  <2> QED
    BY <1>3, <2>4, <2>7
<1> QED
  BY <1>2, <1>4

LEMMA PointsAreFinite ==
    ASSUME NEW T, T \subseteq Row, Keyed(T), \A x \in T : x.id \in SubIds, NEW s
    PROVE  IsFiniteSet(Points(T, s)) /\ \A p \in Points(T, s) : p[2] \in Nat
<1> DEFINE P == Points(T, s)
           f == [p \in P |-> p[1]]
<1>1. IsFiniteSet(SubIds)
  BY FS_Interval, SizeAssumption DEF SubIds
<1>2. \A p \in P : \E x \in T : p = <<x.id, x.total>>
  BY DEF Points
<1> HIDE DEF P
<1>3. \A p \in P : p[1] \in SubIds /\ p[2] \in Nat
  BY <1>2 DEF Row
<1>4. \A p, q \in P : p[1] = q[1] => p = q
  BY <1>2 DEF Keyed
<1>5. f \in Injection(P, SubIds)
  <2>1. f \in [P -> SubIds] /\ \A p, q \in P : f[p] = f[q] => p = q
    BY <1>3, <1>4
  <2> HIDE DEF f
  <2> QED
    BY <2>1 DEF Injection, IsInjective
<1>6. IsFiniteSet(P)
  BY <1>1, <1>5, FS_Injection
<1> QED
  BY <1>3, <1>6 DEF P

\* The students before s on the leaderboard.
Ahead(totals, s) ==
    {u \in Students : totals[u] > totals[s] \/ (totals[u] = totals[s] /\ u < s)}

LEMMA PositionCounts ==
    ASSUME NEW totals, NEW s
    PROVE  Position(totals, s) = 1 + Cardinality(Ahead(totals, s))
BY DEF Position, Ahead

LEMMA PositionInRange ==
    ASSUME NEW totals \in [Students -> Nat], NEW s \in Students
    PROVE  Position(totals, s) \in 1 .. NumStudents
<1>1. IsFiniteSet(Students) /\ Cardinality(Students) = NumStudents
  BY FS_Interval, SizeAssumption DEF Students
<1>2. /\ IsFiniteSet(Students \ {s})
      /\ Cardinality(Students \ {s}) = NumStudents - 1
  BY <1>1, FS_RemoveElement
<1>3. Ahead(totals, s) \subseteq Students \ {s}
  BY DEF Ahead, Students
<1>4. /\ Cardinality(Ahead(totals, s)) \in Nat
      /\ Cardinality(Ahead(totals, s)) <= NumStudents - 1
  BY <1>2, <1>3, FS_Subset, FS_CardinalityType
<1> QED
  BY <1>4, PositionCounts, SizeAssumption

\* More points, and the place is before.
LEMMA MoreIsBefore ==
    ASSUME NEW totals \in [Students -> Nat], NEW s \in Students,
           NEW u \in Students, totals[s] > totals[u]
    PROVE  Position(totals, s) < Position(totals, u)
<1>1. IsFiniteSet(Students)
  BY FS_Interval, SizeAssumption DEF Students
<1>2. totals[s] \in Nat /\ totals[u] \in Nat
  OBVIOUS
<1>3. Ahead(totals, s) \subseteq Ahead(totals, u)
  <2> SUFFICES ASSUME NEW v \in Ahead(totals, s)
               PROVE  v \in Ahead(totals, u)
    OBVIOUS
  <2>1. v \in Students /\ totals[v] \in Nat /\ totals[v] >= totals[s]
    BY <1>2 DEF Ahead
  <2> QED
    BY <1>2, <2>1 DEF Ahead
<1>4. s \in Ahead(totals, u) /\ s \notin Ahead(totals, s)
  BY <1>2 DEF Ahead, Students
<1>5. Ahead(totals, u) \in SUBSET Students
  BY DEF Ahead
<1>6. IsFiniteSet(Ahead(totals, u))
  BY <1>1, <1>5, FS_Subset
<1>7. /\ IsFiniteSet(Ahead(totals, s))
      /\ Cardinality(Ahead(totals, s)) <= Cardinality(Ahead(totals, u))
      /\ Cardinality(Ahead(totals, s)) # Cardinality(Ahead(totals, u))
  BY <1>3, <1>4, <1>6, FS_Subset
<1>8. /\ Cardinality(Ahead(totals, s)) \in Nat
      /\ Cardinality(Ahead(totals, u)) \in Nat
  BY <1>6, <1>7, FS_CardinalityType
<1> QED
  BY <1>7, <1>8, PositionCounts

LEMMA SumIsOf ==
    ASSUME NEW T, NEW s
    PROVE  Sum(T, s) = SumOf(Points(T, s))
BY DEF Sum, SumOf

\* What a transaction sees of the table: rows with different keys.
LEMMA SeenRows ==
    ASSUME Types, NEW f \in Staff, HasRows(req[f])
    PROVE  /\ ScoresSeen(f) \subseteq Row
           /\ \A x \in ScoresSeen(f) : x.id \in SubIds
           /\ Keyed(ScoresSeen(f))
<1>1. RowsOK(req[f].rows) /\ Table
  BY DEF Types, IInv, TxOK
<1>2. \A x \in subs \cup req[f].rows : x \in Row /\ x.id \in Ids
  BY <1>1 DEF RowsOK, Table, Ids
<1>3. \A x \in subs \cup req[f].rows : x.id \in SubIds
  BY <1>1, <1>2 DEF Table, Row
<1>4. Keyed(ScoresSeen(f))
  BY <1>1 DEF RowsOK, Table, Keyed, ScoresSeen, Overlaid
<1> QED
  BY <1>2, <1>3, <1>4 DEF ScoresSeen, Overlaid

LEMMA TotalsAreNumbers ==
    ASSUME Types, NEW f \in Staff, HasRows(req[f]), NEW s \in Students
    PROVE  Sum(ScoresSeen(f), s) \in Nat
<1>1. /\ IsFiniteSet(Points(ScoresSeen(f), s))
      /\ \A p \in Points(ScoresSeen(f), s) : p[2] \in Nat
  BY SeenRows, PointsAreFinite
<1> QED
  BY <1>1, SumIsNat, SumIsOf

LEMMA TypesRecount ==
    ASSUME Types, IInv', NEW f \in Staff, Recount(f)
    PROVE  Types'
<1> DEFINE totals == [s \in Students |-> Sum(ScoresSeen(f), s)]
           q == req[f]
           r == Summed(q, totals)
<1>1. HasRows(q)
  BY DEF Recount, Writing, HasRows
<1>2. Fields \subseteq DOMAIN q /\ StaffTyped(q) /\ AllSameStudent(q.rows)
  BY <1>1 DEF Types, IInv, TxOK, Requests, Whose
<1>3. totals \in [Students -> Nat]
  BY <1>1, TotalsAreNumbers
<1>4. req' = [req EXCEPT ![f] = r] /\ subs' = subs /\ board' = board
  BY DEF Recount, Summed
<1> HIDE DEF totals
<1>5. /\ r.totals = totals /\ r.rows = q.rows /\ r.op = q.op
      /\ r.homework = q.homework /\ r.student = q.student /\ r.recount = q.recount
  BY <1>2, SummedIs
<1> HIDE DEF r
<1>6. StaffTyped(r)
  BY <1>1, <1>2, <1>3, <1>5 DEF StaffTyped
<1>7. Tables'
  BY DEF Recount, Types, Tables, Ids
<1> QED
  BY <1>2, <1>4, <1>5, <1>6, <1>7, RowsTyped

LEMMA RankedTyped ==
    ASSUME NEW totals \in [Students -> Nat], NEW s \in Students
    PROVE  /\ Ranked(totals)[s].total = totals[s]
           /\ Ranked(totals)[s].position = Position(totals, s)
           /\ Ranked(totals)[s].total \in Nat
           /\ Ranked(totals)[s].position \in 0 .. NumStudents
<1>1. Position(totals, s) \in 1 .. NumStudents
  BY PositionInRange
<1> QED
  BY <1>1, SizeAssumption DEF Ranked

LEMMA TypesCommit ==
    ASSUME Types, IInv', NEW f \in Staff, Commit(f)
    PROVE  Types'
<1>1. HasRows(req[f])
  BY DEF Commit, Writing, HasRows
<1>2. RowsOK(req[f].rows) /\ StaffTyped(req[f]) /\ AllSameStudent(req[f].rows)
  BY <1>1 DEF Types, IInv, TxOK, Requests, Whose
<1>3. NoId \notin IdsOf(req[f].rows)
  BY <1>2 DEF RowsOK, IdsOf, Types, IInv, Table
<1>4. subs' = Overlaid(req[f].rows) /\ req' = [req EXCEPT ![f] = Idle]
  BY DEF Commit, Respond
<1>5. Tables'
  <2>1. homework' \in HomeworkRow
    BY <1>2 DEF Commit, StaffTyped, HomeworkRow, Types, Tables
  <2>2. disabled' \subseteq Students
    BY <1>2 DEF Commit, StaffTyped, Types, Tables
  <2>3. key' \in Keys
    BY DEF Commit, Types, Tables
  <2> QED
    BY <2>1, <2>2, <2>3 DEF Tables
<1>6. BoardTyped'
  <2>1. CASE req[f].recount
    <3>1. board' = Ranked(req[f].totals) /\ req[f].totals \in [Students -> Nat]
      BY <1>1, <1>2, <2>1 DEF Commit, StaffTyped
    <3> QED
      BY <3>1, RankedTyped DEF BoardTyped
  <2>2. CASE ~req[f].recount
    BY <2>2 DEF Commit, BoardTyped, Types
  <2> QED
    BY <2>1, <2>2
<1> QED
  BY <1>2, <1>3, <1>4, <1>5, <1>6, RequestWrites

LEMMA TypesOtherwise ==
    ASSUME Types, IInv', SetKey \/ DeadlinePasses \/ UNCHANGED vars
    PROVE  Types'
<1>1. UNCHANGED <<disabled, subs, board, req>>
  BY DEF SetKey, DeadlinePasses, vars
<1>2. Tables'
  BY DEF SetKey, DeadlinePasses, vars, Types, Tables, HomeworkRow, Ids
<1>3. BoardTyped' /\ Requests' /\ Whose'
  BY <1>1 DEF Types, BoardTyped, Requests, PostTyped, StaffTyped, Whose,
     AllSameStudent, SameStudent
<1> QED
  BY <1>2, <1>3 DEF Types

LEMMA TypesSteps ==
    ASSUME Types, [Next]_vars
    PROVE  Types'
<1>0. IInv'
  BY Steps DEF Types
<1>1. CASE StudentNext
  BY <1>0, <1>1, TypesPostBegin, TypesPostEnd DEF StudentNext
<1>2. CASE StaffNext
  <2>1. PICK f \in Staff :
          \/ ScoreBegin(f)
          \/ "rescore" \in Operations /\ RescoreBegin(f)
          \/ "edit" \in Operations /\ EditBegin(f)
          \/ "toggle" \in Operations /\ \E s \in Students : ToggleBegin(f, s)
          \/ "extend" \in Operations /\ ExtendBegin(f)
          \/ "patch" \in Operations /\ PatchBegin(f)
          \/ Continue(f)
    BY <1>2 DEF StaffNext
  <2>2. CASE "edit" \in Operations /\ EditBegin(f)
    BY <1>0, <2>2, TypesEditBegin
  <2>3. CASE Continue(f)
    BY <1>0, <2>3, TypesRequest, TypesScoreRows, TypesScoreWrite, TypesEditWrite,
       TypesToggleRows, TypesToggleWrite, TypesRecount, TypesCommit DEF Continue
  <2> QED
    BY <1>0, <2>1, <2>2, <2>3, TypesRequest
<1>3. CASE SetKey \/ DeadlinePasses \/ UNCHANGED vars
  BY <1>0, <1>3, TypesOtherwise
<1> QED
  BY <1>1, <1>2, <1>3 DEF Next

-----------------------------------------------------------------------------
(* The history. *)

LEMMA IdsStay ==
    ASSUME Types, [Next]_vars
    PROVE  Ids \subseteq Ids'
<1>1. \A rows : subs' = Overlaid(rows) => Ids \subseteq Ids'
  BY DEF Ids, Overlaid
<1>2. CASE subs' = subs
  BY <1>2 DEF Ids
<1>3. CASE \E t \in Tabs : PostEnd(t)
  BY <1>1, <1>3, Saved DEF Types, Ids
<1>4. CASE \E f \in Staff : Commit(f)
  BY <1>1, <1>4 DEF Commit
<1> QED
  BY <1>2, <1>3, <1>4, OnlySavesWrite DEF Types

LEMMA HistoryAtFirst == Init => HistoryTyped
BY DEF Init, HistoryTyped

LEMMA HistorySteps ==
    ASSUME Types, HistoryTyped, [Next]_vars
    PROVE  HistoryTyped'
<1>1. Ids \subseteq Ids'
  BY IdsStay
<1>2. Moved(subs') \subseteq Students
  BY DEF Moved
<1>3. Overtaken(Moved(subs')) \in [Staff -> SUBSET Students]
  BY <1>2 DEF Overtaken, HistoryTyped
<1>4. CASE UNCHANGED history
  BY <1>1, <1>4 DEF HistoryTyped, history
<1>5. CASE \E f \in Staff : BeginScoring(f)
  BY <1>1, <1>5 DEF HistoryTyped, BeginScoring
<1>6. CASE (\E t \in Tabs : PostEnd(t)) /\ ~UNCHANGED history
  <2>1. PICK i : /\ Without({i})
                 /\ unseen' = Overtaken(Moved(subs'))
                 /\ behind' = behind \cup Moved(subs')
    BY <1>6, Saved DEF Types
  <2> QED
    BY <1>1, <1>2, <1>3, <2>1 DEF HistoryTyped, Without
<1>7. CASE \E f \in Staff : Recount(f)
  BY <1>1, <1>7 DEF HistoryTyped, Recount
<1>8. CASE \E f \in Staff : Commit(f)
  <2>1. PICK f \in Staff : Recorded(f)
    BY <1>8 DEF Commit
  <2>2. left' \in [Staff -> SUBSET Ids'] /\ graded' \subseteq Ids'
    BY <1>1, <2>1 DEF HistoryTyped, Recorded
  <2>3. unseen' \in [Staff -> SUBSET Students] /\ behind' \subseteq Students
    BY <1>3, <2>1 DEF HistoryTyped, Recorded
  <2> QED
    BY <2>2, <2>3 DEF HistoryTyped
<1>9. CASE \E f \in Staff : Abort(f)
  BY <1>1, <1>9 DEF HistoryTyped, Abort
<1>10. CASE SetKey
  BY <1>1, <1>10 DEF HistoryTyped, SetKey, Without
<1>11. CASE StudentNext
  BY <1>4, <1>6, <1>11 DEF StudentNext, PostBegin
<1>12. CASE StaffNext
  <2>1. PICK f \in Staff :
          \/ ScoreBegin(f) \/ RescoreBegin(f) \/ EditBegin(f)
          \/ \E s \in Students : ToggleBegin(f, s)
          \/ ExtendBegin(f) \/ PatchBegin(f) \/ Continue(f)
    BY <1>12 DEF StaffNext
  <2>2. CASE Continue(f)
    BY <1>4, <1>5, <1>7, <1>8, <1>9, <2>2 DEF Continue, Reopen, ScoreAgain,
       ScoreAnswers, ScoreRows, ScoreWrite, EditWrite, ToggleRows, ToggleWrite,
       ExtendEnd, PatchEnd
  <2> QED
    BY <1>4, <1>5, <2>1, <2>2 DEF ScoreBegin, RescoreBegin, EditBegin,
       ToggleBegin, ExtendBegin, PatchBegin
<1> QED
  BY <1>4, <1>10, <1>11, <1>12 DEF Next, DeadlinePasses, vars

LEMMA TypesAlways == Spec => [](Types /\ HistoryTyped)
<1>1. Types /\ HistoryTyped /\ [Next]_vars => (Types /\ HistoryTyped)'
  BY TypesSteps, HistorySteps
<1> QED
  BY <1>1, TypesAtFirst, HistoryAtFirst, PTL DEF Spec

\* Every row, request and number keeps its range: the totals on the
\* leaderboard are sums, and the positions places, however many requests of
\* students and staff overlap.
THEOREM Typing == Spec => []TypeOK
<1> QED
  BY TypesAlways, TypesAreTypeOK, PTL

-----------------------------------------------------------------------------
(* What each request of staff knows, whatever the others change: of the    *)
(* rows that it has left, and of the students of whom it is not unaware.   *)

GradedRow(x) ==
    /\ x.right = IsCorrect(x.answer)
    /\ x.questions = (IF x.right THEN 1 ELSE 0)
    /\ x.total = x.questions + LipCounted(x) + FaqCounted(x)

\* Scoring has read which answers are right ...
KnowsAnswers(f, r) ==
    r.op = "score" /\ r.stage = "answers" =>
        \A x \in subs : x.id \in left[f] => (x.id \in r.right <=> IsCorrect(x.answer))
\* ... and has graded the rows by them.
KnowsGrades(f, r) ==
    r.op = "score" /\ HasRows(r) =>
        /\ left[f] \subseteq IdsOf(r.rows)
        /\ \A y \in r.rows : y.id \in left[f] =>
              /\ GradedRow(y)
              /\ \A x \in subs : x.id = y.id => Work(x) = Work(y)
\* An edit that does not recount changes no points,
KnowsEdited(f, r) ==
    r.op = "edit" /\ HasRows(r) /\ (r.stage = "read" \/ ~r.recount) =>
        \A y \in r.rows : y.student \notin unseen[f] =>
            \A x \in subs : x.id = y.id => x.total = y.total
\* a switch writes rows of its student,
KnowsToggled(r) ==
    r.op = "toggle" /\ HasRows(r) => \A y \in r.rows : y.student = r.student
\* and the totals are those of the table that a transaction leaves.
KnowsTotals(f, r) ==
    Holding(r) /\ r.stage = "summed" =>
        \A s \in Students \ unseen[f] : r.totals[s] = Sum(Overlaid(r.rows), s)
Knows(f, r) == /\ KnowsAnswers(f, r) /\ KnowsGrades(f, r) /\ KnowsEdited(f, r)
               /\ KnowsToggled(r) /\ KnowsTotals(f, r)

Results == ScoredAreGraded /\ LeaderboardAgrees
ScoreInv == /\ Types /\ HistoryTyped /\ Results
            /\ \A f \in Staff : Knows(f, req[f])

-----------------------------------------------------------------------------
(* Points. *)

\* A row without a change in the points of its student has the total it had.
LEMMA SameTotal ==
    ASSUME Keyed(subs), subs \subseteq Row, NEW T, T \subseteq Row, Keyed(T),
           NEW x \in subs, NEW y \in T, x.id = y.id, x.student = y.student,
           x.student \notin Moved(T)
    PROVE  x.total = y.total
<1> DEFINE s == x.student
<1>1. Points(T, s) = Points(subs, s)
  BY DEF Moved, Row
<1>2. CASE x.total # 0
  <2>1. <<x.id, x.total>> \in Points(T, s)
    BY <1>1, <1>2 DEF Points
  <2>2. PICK z \in T : z.id = x.id /\ z.total = x.total
    BY <2>1 DEF Points
  <2> QED
    BY <2>2 DEF Keyed
<1>3. CASE y.total # 0
  <2>1. <<y.id, y.total>> \in Points(subs, s)
    BY <1>1, <1>3 DEF Points
  <2>2. PICK z \in subs : z.id = y.id /\ z.total = y.total
    BY <2>1 DEF Points
  <2> QED
    BY <2>2 DEF Keyed
<1> QED
  BY <1>2, <1>3

Over(T, rows) == {x \in T : x.id \notin IdsOf(rows)} \cup rows

LEMMA OverlaidIs ==
    ASSUME NEW rows
    PROVE  Overlaid(rows) = Over(subs, rows)
BY DEF Overlaid, Over, IdsOf

LEMMA PointsOver ==
    ASSUME NEW T, NEW rows, NEW s
    PROVE  Points(Over(T, rows), s)
           = {p \in Points(T, s) : p[1] \notin IdsOf(rows)} \cup Points(rows, s)
BY DEF Points, Over

\* Rows put over two tables in which a student has the same points.
LEMMA SamePointsOver ==
    ASSUME NEW T, NEW U, NEW rows, NEW s, Points(T, s) = Points(U, s)
    PROVE  Sum(Over(T, rows), s) = Sum(Over(U, rows), s)
<1>1. Points(Over(T, rows), s) = Points(Over(U, rows), s)
  BY PointsOver
<1> QED
  BY <1>1, SumIsOf

LEMMA NothingMoved ==
    ASSUME NEW T, T = subs
    PROVE  Moved(T) = {}
BY DEF Moved

-----------------------------------------------------------------------------
(* What a request knows outlives what the others do, or it is recorded.    *)

LEMMA KnowsStays ==
    ASSUME Types, Types', NEW g \in Staff, NEW r, Knows(g, r), r = req[g], r = req'[g],
           left'[g] \subseteq left[g], unseen[g] \subseteq unseen'[g],
           key' = key \/ left'[g] = {},
           \A x \in subs' : x.id \in left'[g] =>
               \E z \in subs : z.id = x.id /\ Work(z) = Work(x),
           HasRows(r) =>
               \A y \in r.rows : y.id \in left'[g] =>
                   (y.student \in disabled' <=> y.student \in disabled),
           Relies(g) => Moved(subs') \subseteq unseen'[g]
    PROVE  Knows(g, r)'
<1>1. KnowsAnswers(g, r)'
  <2> SUFFICES ASSUME r.op = "score", r.stage = "answers",
                      NEW x \in subs', x.id \in left'[g]
               PROVE  x.id \in r.right <=> IsCorrect(x.answer)'
    BY DEF KnowsAnswers
  <2>1. PICK z \in subs : z.id = x.id /\ Work(z) = Work(x)
    OBVIOUS
  <2>2. z.id \in left[g] /\ z.answer = x.answer /\ key' = key
    BY <2>1 DEF Work
  <2>3. z.id \in r.right <=> IsCorrect(z.answer)
    BY <2>2 DEF Knows, KnowsAnswers
  <2> QED
    BY <2>1, <2>2, <2>3 DEF IsCorrect
<1>2. KnowsGrades(g, r)'
  <2> SUFFICES ASSUME r.op = "score", HasRows(r)
               PROVE  /\ left'[g] \subseteq IdsOf(r.rows)
                      /\ \A y \in r.rows : y.id \in left'[g] =>
                            /\ GradedRow(y)'
                            /\ \A x \in subs' : x.id = y.id => Work(x) = Work(y)
    BY DEF KnowsGrades
  <2>1. /\ left[g] \subseteq IdsOf(r.rows)
        /\ \A y \in r.rows : y.id \in left[g] =>
              /\ GradedRow(y)
              /\ \A x \in subs : x.id = y.id => Work(x) = Work(y)
    BY DEF Knows, KnowsGrades
  <2>2. ASSUME NEW y \in r.rows, y.id \in left'[g]
        PROVE  GradedRow(y)'
    <3>1. GradedRow(y) /\ key' = key
      BY <2>1, <2>2
    <3>2. LipCounted(y)' = LipCounted(y) /\ FaqCounted(y)' = FaqCounted(y)
      BY <2>2 DEF LipCounted, FaqCounted
    <3> QED
      BY <3>1, <3>2 DEF GradedRow, IsCorrect
  <2>3. ASSUME NEW y \in r.rows, y.id \in left'[g], NEW x \in subs', x.id = y.id
        PROVE  Work(x) = Work(y)
    <3>1. PICK z \in subs : z.id = x.id /\ Work(z) = Work(x)
      BY <2>3
    <3> QED
      BY <2>1, <2>3, <3>1
  <2> QED
    BY <2>1, <2>2, <2>3
<1>3. KnowsEdited(g, r)'
  <2> SUFFICES ASSUME r.op = "edit", HasRows(r), r.stage = "read" \/ ~r.recount,
                      NEW y \in r.rows, y.student \notin unseen'[g],
                      NEW x \in subs', x.id = y.id
               PROVE  x.total = y.total
    BY DEF KnowsEdited
  <2>1. y.id \in Ids /\ SameStudent(y) /\ SameStudent(y)'
    BY DEF Types, IInv, TxOK, RowsOK, Whose, AllSameStudent
  <2>2. PICK z \in subs : z.id = y.id
    BY <2>1 DEF Ids
  <2>3. z.student = y.student /\ x.student = y.student
    BY <2>1, <2>2 DEF SameStudent
  <2>4. z.total = y.total
    BY <2>2 DEF Knows, KnowsEdited
  <2>5. z.student \notin Moved(subs')
    BY <2>3 DEF Relies, HasRows
  <2>6. /\ Keyed(subs) /\ subs \subseteq Row
        /\ Keyed(subs') /\ subs' \subseteq Row
    BY DEF Types, IInv, Table, Keyed
  <2> QED
    BY <2>2, <2>3, <2>4, <2>5, <2>6, SameTotal
<1>4. KnowsToggled(r)'
  BY DEF Knows, KnowsToggled
<1>5. KnowsTotals(g, r)'
  <2> SUFFICES ASSUME Holding(r), r.stage = "summed",
                      NEW s \in Students \ unseen'[g]
               PROVE  r.totals[s] = Sum(Overlaid(r.rows), s)'
    BY DEF KnowsTotals
  <2> DEFINE rows == r.rows
  <2>1. r.totals[s] = Sum(Over(subs, rows), s)
    BY OverlaidIs DEF Knows, KnowsTotals
  <2>2. s \notin Moved(subs')
    BY DEF Relies, Holding
  <2>3. Points(subs', s) = Points(subs, s)
    BY <2>2 DEF Moved
  <2>4. Sum(Over(subs', rows), s) = Sum(Over(subs, rows), s)
    BY <2>3, SamePointsOver
  <2>5. Overlaid(rows)' = Over(subs', rows)
    BY DEF Overlaid, Over, IdsOf
  <2>6. Sum(Overlaid(rows), s)' = Sum(Overlaid(rows)', s)
    OBVIOUS
  <2> QED
    BY <2>1, <2>4, <2>5, <2>6
<1> QED
  BY <1>1, <1>2, <1>3, <1>4, <1>5 DEF Knows

LEMMA SumOfSame ==
    ASSUME subs' = subs, NEW s
    PROVE  Sum(subs, s)' = Sum(subs, s)
<1>1. Sum(subs, s)' = Sum(subs', s)
  OBVIOUS
<1> QED
  BY <1>1

\* The rows and the leaderboard stay, and no more is claimed of them.
LEMMA ResultsStay ==
    ASSUME Results, UNCHANGED <<subs, board, disabled, behind>>,
           graded' \subseteq graded, key' = key \/ graded' = {}
    PROVE  Results'
<1>1. ScoredAreGraded'
  BY DEF Results, ScoredAreGraded, IsCorrect, LipCounted, FaqCounted
<1>2. LeaderboardAgrees'
  BY SumOfSame DEF Results, LeaderboardAgrees
<1> QED
  BY <1>1, <1>2 DEF Results

\* A request of staff gets on, and writes nothing yet.
LEMMA MovesOn ==
    ASSUME ScoreInv, Types', HistoryTyped', NEW f \in Staff, NEW r,
           req' = [req EXCEPT ![f] = r], Knows(f, r)',
           UNCHANGED <<key, disabled, subs, board, graded, behind>>,
           \A g \in Staff \ {f} : left'[g] = left[g] /\ unseen'[g] = unseen[g]
    PROVE  ScoreInv'
<1>1. Results'
  BY ResultsStay DEF ScoreInv
<1>2. /\ req'[f] = r
      /\ \A g \in Staff \ {f} : req'[g] = req[g]
  BY DEF ScoreInv, Types, IInv, ReqDomain
<1>3. ASSUME NEW g \in Staff, g # f, NEW q, q = req[g]
      PROVE  Knows(g, q)'
  <2>1. Knows(g, q) /\ q = req'[g] /\ Types
    BY <1>2, <1>3 DEF ScoreInv
  <2>2. Moved(subs') = {}
    BY NothingMoved
  <2> QED
    BY <1>3, <2>1, <2>2, KnowsStays
<1>4. \A g \in Staff : \A q : q = req'[g] => Knows(g, q)'
  BY <1>2, <1>3
<1>5. \A g \in Staff : Knows(g, req[g])'
  BY <1>4 DEF Knows, KnowsAnswers, KnowsGrades, KnowsEdited, KnowsToggled,
     KnowsTotals
<1> QED
  BY <1>1, <1>5 DEF ScoreInv

\* A request that has read and written nothing knows nothing.
LEMMA KnowsLittle ==
    ASSUME NEW f \in Staff, NEW r, r = Idle \/ r.stage \in {"reopened", "begun"}
    PROVE  Knows(f, r) /\ Knows(f, r)'
BY DEF Knows, KnowsAnswers, KnowsGrades, KnowsEdited, KnowsToggled,
   KnowsTotals, HasRows, Holding, Idle

\* The requests of staff wait while something else changes the rows or the
\* key: what they lose is recorded.
LEMMA StaffWait ==
    ASSUME ScoreInv, Types', HistoryTyped', Results',
           \A f \in Staff : req'[f] = req[f],
           \A f \in Staff : left'[f] \subseteq left[f] /\ unseen[f] \subseteq unseen'[f],
           \A f \in Staff : key' = key \/ left'[f] = {},
           disabled' = disabled,
           \A f \in Staff : \A x \in subs' : x.id \in left'[f] =>
               \E z \in subs : z.id = x.id /\ Work(z) = Work(x),
           \A f \in Staff : Relies(f) => Moved(subs') \subseteq unseen'[f]
    PROVE  ScoreInv'
<1>1. ASSUME NEW g \in Staff, NEW q, q = req[g]
      PROVE  Knows(g, q)'
  <2>1. Knows(g, q) /\ q = req'[g] /\ Types
    BY <1>1 DEF ScoreInv
  <2> QED
    BY <1>1, <2>1, KnowsStays
<1>2. \A g \in Staff : \A q : q = req'[g] => Knows(g, q)'
  BY <1>1
<1>3. \A g \in Staff : Knows(g, req[g])'
  BY <1>2 DEF Knows, KnowsAnswers, KnowsGrades, KnowsEdited, KnowsToggled,
     KnowsTotals
<1> QED
  BY <1>3 DEF ScoreInv

LEMMA ScoreOtherwise ==
    ASSUME ScoreInv, Types', HistoryTyped',
           SetKey \/ DeadlinePasses \/ UNCHANGED vars
    PROVE  ScoreInv'
<1>1. UNCHANGED <<disabled, subs, board, req, unseen, behind>>
  BY DEF SetKey, DeadlinePasses, vars, history
<1>2. /\ \A f \in Staff : left'[f] \subseteq left[f]
      /\ \A f \in Staff : key' = key \/ left'[f] = {}
      /\ graded' \subseteq graded
      /\ key' = key \/ graded' = {}
  <2>1. CASE SetKey
    BY <2>1 DEF SetKey, Without, ScoreInv, HistoryTyped
  <2>2. CASE DeadlinePasses \/ UNCHANGED vars
    BY <2>2 DEF DeadlinePasses, vars, history
  <2> QED
    BY <2>1, <2>2
<1>3. Results'
  BY <1>1, <1>2, ResultsStay DEF ScoreInv
<1>4. Moved(subs') = {}
  BY <1>1, NothingMoved
<1> QED
  BY <1>1, <1>2, <1>3, <1>4, StaffWait

\* A student saves: the row is no longer one that scoring has left, and the
\* student is behind if points have changed by it.
LEMMA ResultsSaved ==
    ASSUME Types, Results, NEW y, subs' = Overlaid({y}),
           graded' = graded \ {y.id}, behind' = behind \cup Moved(subs'),
           UNCHANGED <<key, disabled, board>>
    PROVE  Results'
<1>1. \A x \in subs' : x.id \in graded' => x \in subs /\ x.id \in graded
  BY DEF Overlaid
<1>2. ScoredAreGraded'
  BY <1>1 DEF Results, ScoredAreGraded, IsCorrect, LipCounted, FaqCounted
<1>3. ASSUME NEW s \in Students \ behind'
      PROVE  s \notin behind /\ Sum(subs, s)' = Sum(subs, s)
  <2>1. Points(subs', s) = Points(subs, s)
    BY <1>3 DEF Moved
  <2>2. Sum(subs', s) = Sum(subs, s)
    BY <2>1, SumIsOf
  <2>3. Sum(subs, s)' = Sum(subs', s)
    OBVIOUS
  <2> QED
    BY <1>3, <2>2, <2>3
<1>4. LeaderboardAgrees'
  BY <1>3 DEF Results, LeaderboardAgrees
<1> QED
  BY <1>2, <1>4 DEF Results

LEMMA ScorePost ==
    ASSUME ScoreInv, Types', HistoryTyped', NEW t \in Tabs,
           (\E s \in Students : PostBegin(t, s)) \/ PostEnd(t)
    PROVE  ScoreInv'
<1>1. \A f \in Staff : req'[f] = req[f]
  BY RequestsAssumption
     DEF ScoreInv, Types, IInv, ReqDomain, PostBegin, PostEnd, Receive, Respond
<1>2. UNCHANGED <<homework, key, disabled, board>>
  BY DEF PostBegin, PostEnd
<1>3. CASE UNCHANGED <<subs, history>>
  <2>1. Results'
    BY <1>2, <1>3, ResultsStay DEF ScoreInv, history
  <2>2. Moved(subs') = {}
    BY <1>3, NothingMoved
  <2> QED
    BY <1>1, <1>2, <1>3, <2>1, <2>2, StaffWait DEF history
<1>4. CASE PostEnd(t) /\ ~UNCHANGED <<subs, history>>
  <2>1. PICK y \in Row : /\ subs' = Overlaid({y})
                         /\ Without({y.id})
                         /\ unseen' = Overtaken(Moved(subs'))
                         /\ behind' = behind \cup Moved(subs')
    BY <1>4, Saved DEF ScoreInv, Types
  <2>2. Results'
    BY <1>2, <2>1, ResultsSaved DEF ScoreInv, Without
  <2>3. /\ \A f \in Staff : left'[f] \subseteq left[f]
        /\ \A f \in Staff : unseen[f] \subseteq unseen'[f]
        /\ \A f \in Staff : Relies(f) => Moved(subs') \subseteq unseen'[f]
    BY <2>1 DEF Without, Overtaken
  <2>4. \A f \in Staff : \A x \in subs' : x.id \in left'[f] => x \in subs
    BY <2>1 DEF Without, Overlaid
  <2> QED
    BY <1>1, <1>2, <2>2, <2>3, <2>4, StaffWait
<1> QED
  BY <1>3, <1>4 DEF PostBegin

LEMMA ScoreRequest ==
    ASSUME ScoreInv, Types', HistoryTyped', NEW f \in Staff,
           \/ ScoreBegin(f) \/ RescoreBegin(f) \/ ExtendBegin(f) \/ PatchBegin(f)
           \/ \E s \in Students : ToggleBegin(f, s)
           \/ Reopen(f) \/ ScoreAgain(f)
           \/ ExtendEnd(f) \/ PatchEnd(f) \/ Abort(f)
    PROVE  ScoreInv'
<1>1. PICK r : /\ req' = [req EXCEPT ![f] = r]
               /\ r = Idle \/ r.stage \in {"reopened", "begun"}
  <2>1. CASE ScoreBegin(f) \/ RescoreBegin(f) \/ ExtendBegin(f) \/ PatchBegin(f)
    BY <2>1 DEF ScoreBegin, BeginScoring, RescoreBegin, ExtendBegin, PatchBegin,
       Receive
  <2>2. CASE \E s \in Students : ToggleBegin(f, s)
    BY <2>2 DEF ToggleBegin, Receive
  <2>3. CASE Reopen(f) \/ ScoreAgain(f)
    BY <2>3 DEF Reopen, Reopened, ScoreAgain, BeginScoring, Respond
  <2>4. CASE ExtendEnd(f) \/ PatchEnd(f) \/ Abort(f)
    BY <2>4 DEF ExtendEnd, PatchEnd, Abort, Respond
  <2> QED
    BY <2>1, <2>2, <2>3, <2>4
<1>2. UNCHANGED <<key, disabled, subs, board, graded, behind>>
  BY DEF ScoreBegin, BeginScoring, RescoreBegin, ExtendBegin, PatchBegin,
     ToggleBegin, Reopen, ScoreAgain, ExtendEnd, PatchEnd, Abort, history
<1>3. \A g \in Staff \ {f} : left'[g] = left[g] /\ unseen'[g] = unseen[g]
  BY DEF ScoreBegin, BeginScoring, RescoreBegin, ExtendBegin, PatchBegin,
     ToggleBegin, Reopen, ScoreAgain, ExtendEnd, PatchEnd, Abort, history,
     ScoreInv, HistoryTyped
<1>4. Knows(f, r)'
  BY <1>1, KnowsLittle
<1> QED
  BY <1>1, <1>2, <1>3, <1>4, MovesOn

-----------------------------------------------------------------------------
(* Scoring. *)

\* Which answers are right is read before the rows, and stays true of the
\* rows that nobody changes in between.
LEMMA ScoreReadsAnswers ==
    ASSUME ScoreInv, Types', HistoryTyped', NEW f \in Staff, ScoreAnswers(f)
    PROVE  ScoreInv'
<1> DEFINE right == {x.id : x \in {y \in subs : IsCorrect(y.answer)}}
           q == [op |-> "score", stage |-> "answers",
                 homework |-> req[f].homework, right |-> right]
<1>0. /\ req' = [req EXCEPT ![f] = q]
      /\ q.op = "score" /\ q.stage = "answers" /\ q.right = right
  BY DEF ScoreAnswers
<1>r. \A x \in subs : x.id \in right <=> IsCorrect(x.answer)
  BY DEF ScoreInv, Types, IInv, Table, Keyed
<1> HIDE DEF right, q
<1>1. PICK r : /\ r = q /\ req' = [req EXCEPT ![f] = r]
               /\ r.op = "score" /\ r.stage = "answers"
               /\ r.right = right
  BY <1>0
<1>2. UNCHANGED <<key, disabled, subs, board, left, graded, unseen, behind>>
  BY DEF ScoreAnswers, history
<1>3. \A x \in subs : x.id \in r.right <=> IsCorrect(x.answer)
  BY <1>1, <1>r
<1>4. Knows(f, r)'
  <2>1. KnowsAnswers(f, r)'
    BY <1>2, <1>3 DEF KnowsAnswers, IsCorrect
  <2>2. KnowsGrades(f, r)' /\ KnowsEdited(f, r)' /\ KnowsToggled(r)'
    BY <1>1 DEF KnowsGrades, KnowsEdited, KnowsToggled, HasRows
  <2>3. KnowsTotals(f, r)'
    BY <1>1 DEF KnowsTotals
  <2> QED
    BY <2>1, <2>2, <2>3 DEF Knows
<1> QED
  BY <1>1, <1>2, <1>4, MovesOn

LEMMA GradedIsGraded ==
    ASSUME NEW x \in Row, NEW b \in BOOLEAN, b = IsCorrect(x.answer)
    PROVE  GradedRow(Graded(x, b))
<1> DEFINE g == Graded(x, b)
           points == IF b THEN 1 ELSE 0
<1>1. /\ g.right = b /\ g.questions = points
      /\ g.total = points + LipCounted(x) + FaqCounted(x)
      /\ g.answer = x.answer /\ g.student = x.student
      /\ g.links = x.links /\ g.url = x.url
  BY DEF Graded, Row
<1> HIDE DEF g
<1>2. LipCounted(g) = LipCounted(x) /\ FaqCounted(g) = FaqCounted(x)
  BY <1>1 DEF LipCounted, FaqCounted
<1>3. GradedRow(g)
  BY <1>1, <1>2 DEF GradedRow
<1> QED
  BY <1>3 DEF g

LEMMA ScoreReadsRows ==
    ASSUME ScoreInv, Types', HistoryTyped', NEW f \in Staff, ScoreRows(f)
    PROVE  ScoreInv'
<1> DEFINE right == req[f].right
           rows == {Graded(x, x.id \in right) : x \in subs}
           q == [op |-> "score", stage |-> "read", recount |-> TRUE,
                 totals |-> NoTotals, homework |-> req[f].homework,
                 rows |-> rows]
           mine == left[f]
<1>1. /\ req' = [req EXCEPT ![f] = q]
      /\ q.op = "score" /\ q.stage = "read" /\ q.rows = rows
  BY DEF ScoreRows
<1>2. UNCHANGED <<key, disabled, subs, board, left, graded, unseen, behind>>
  BY DEF ScoreRows, history
<1>3. subs \subseteq Row /\ Keyed(subs) /\ mine \subseteq Ids
  BY DEF ScoreInv, Types, IInv, Table, HistoryTyped
<1>4. \A x \in subs : x.id \in mine => (x.id \in right <=> IsCorrect(x.answer))
  BY DEF ScoreInv, Knows, KnowsAnswers, ScoreRows, At
<1> HIDE DEF mine
<1>5. ASSUME NEW x \in subs
      PROVE  LET y == Graded(x, x.id \in right) IN
             /\ y.id = x.id
             /\ Work(y) = Work(x)
             /\ x.id \in mine => GradedRow(y)
  <2> DEFINE b == x.id \in right
  <2>1. b \in BOOLEAN /\ x \in Row
    BY <1>3
  <2>2. x.id \in mine => b = IsCorrect(x.answer)
    BY <1>4, <2>1 DEF IsCorrect
  <2> HIDE DEF b
  <2>3. /\ Graded(x, b).id = x.id
        /\ Work(Graded(x, b)) = Work(x)
        /\ x.id \in mine => GradedRow(Graded(x, b))
    BY <2>1, <2>2, GradedKeeps, GradedIsGraded
  <2> QED
    BY <2>3 DEF b
<1>6. mine \subseteq IdsOf(rows)
  BY <1>3, <1>5 DEF IdsOf, Ids
<1>7. \A y \in rows : y.id \in mine =>
         /\ GradedRow(y)
         /\ \A x \in subs : x.id = y.id => Work(x) = Work(y)
  BY <1>3, <1>5 DEF Keyed
<1> HIDE DEF right, rows, q
<1>8. PICK r : /\ r = q /\ req' = [req EXCEPT ![f] = r]
               /\ r.op = "score" /\ r.stage = "read" /\ r.rows = rows
  BY <1>1
<1>9. Knows(f, r)'
  <2>1. KnowsGrades(f, r)'
    <3>1. \A y : GradedRow(y) => GradedRow(y)'
      BY <1>2 DEF GradedRow, IsCorrect, LipCounted, FaqCounted
    <3>2. left'[f] = mine
      BY <1>2 DEF mine
    <3> QED
      BY <1>2, <1>6, <1>7, <1>8, <3>1, <3>2 DEF KnowsGrades
  <2>2. KnowsAnswers(f, r)' /\ KnowsEdited(f, r)' /\ KnowsToggled(r)'
    BY <1>8 DEF KnowsAnswers, KnowsEdited, KnowsToggled
  <2>3. KnowsTotals(f, r)'
    BY <1>8 DEF KnowsTotals
  <2> QED
    BY <2>1, <2>2, <2>3 DEF Knows
<1> QED
  BY <1>2, <1>8, <1>9, MovesOn

LEMMA ScoreWrites ==
    ASSUME ScoreInv, Types', HistoryTyped', NEW f \in Staff, ScoreWrite(f)
    PROVE  ScoreInv'
<1> DEFINE q == req[f]
           rows == {OnlyScores(x) : x \in q.rows}
           mine == left[f]
<1>1. HasRows(q) /\ q.op = "score" /\ q.stage = "read"
  BY DEF ScoreWrite, At, HasRows, Idle
<1>2. Fields \subseteq DOMAIN q /\ Types /\ Knows(f, q)
  BY <1>1 DEF ScoreInv, Types, IInv, TxOK
<1>3. /\ req' = [req EXCEPT ![f].stage = "written", ![f].rows = rows]
      /\ UNCHANGED <<key, disabled, subs, board, left, graded, unseen, behind>>
  BY DEF ScoreWrite, Written, history
<1>4. /\ mine \subseteq IdsOf(q.rows)
      /\ \A x \in q.rows : x.id \in mine =>
           /\ GradedRow(x)
           /\ \A z \in subs : z.id = x.id => Work(z) = Work(x)
  BY <1>1, <1>2 DEF Knows, KnowsGrades
<1>m. left'[f] = mine
  BY <1>3
<1> HIDE DEF mine
<1>5. ASSUME NEW x \in q.rows
      PROVE  /\ OnlyScores(x).id = x.id
             /\ x.id \in mine => OnlyScores(x) = x
  <2>1. /\ x \in Row
        /\ OnlyScores(x).id = x.id
    BY <1>1, <1>2, ScoresOf
  <2>2. PICK y \in subs : /\ y.id = x.id
                          /\ OnlyScores(x) = [x EXCEPT !.answer = y.answer,
                                            !.links = y.links, !.url = y.url]
    BY <1>1, <1>2, ScoresOf
  <2>3. ASSUME x.id \in mine PROVE OnlyScores(x) = x
    <3>1. Work(y) = Work(x)
      BY <1>4, <2>2, <2>3
    <3>2. y.answer = x.answer /\ y.links = x.links /\ y.url = x.url
      BY <3>1 DEF Work
    <3> QED
      BY <2>1, <2>2, <3>2 DEF Row
  <2> QED
    BY <2>1, <2>3
<1>6. /\ mine \subseteq IdsOf(rows)
      /\ \A y \in rows : y.id \in mine => y \in q.rows
  BY <1>4, <1>5 DEF IdsOf
<1> HIDE DEF rows
<1>7. req' = [req EXCEPT ![f] = Wrote(q, rows, q.recount)]
  BY <1>3 DEF Wrote
<1>8. PICK r : /\ r = Wrote(q, rows, q.recount)
               /\ req' = [req EXCEPT ![f] = r]
  BY <1>7
<1>9. r.op = "score" /\ r.stage = "written" /\ r.rows = rows
  BY <1>1, <1>2, <1>8, WroteIs
<1>10. Knows(f, r)'
  <2>1. KnowsGrades(f, r)'
    <3>1. \A y : GradedRow(y) => GradedRow(y)'
      BY <1>3 DEF GradedRow, IsCorrect, LipCounted, FaqCounted
    <3> QED
      BY <1>3, <1>m, <1>4, <1>6, <1>9, <3>1 DEF KnowsGrades
  <2>2. KnowsAnswers(f, r)' /\ KnowsEdited(f, r)' /\ KnowsToggled(r)'
    BY <1>9 DEF KnowsAnswers, KnowsEdited, KnowsToggled
  <2>3. KnowsTotals(f, r)'
    BY <1>9 DEF KnowsTotals
  <2> QED
    BY <2>1, <2>2, <2>3 DEF Knows
<1> QED
  BY <1>3, <1>8, <1>10, MovesOn

-----------------------------------------------------------------------------
(* Edits and the switch. *)

LEMMA EditReads ==
    ASSUME ScoreInv, Types', HistoryTyped', NEW f \in Staff, EditBegin(f)
    PROVE  ScoreInv'
<1>0. PICK x \in subs :
        req' = [req EXCEPT ![f] = [op |-> "edit", stage |-> "read",
                                   rows |-> {x}, totals |-> NoTotals,
                                   recount |-> FALSE]]
  BY DEF EditBegin, Receive
<1> DEFINE q == [op |-> "edit", stage |-> "read", rows |-> {x},
                 totals |-> NoTotals, recount |-> FALSE]
<1>q. /\ req' = [req EXCEPT ![f] = q]
      /\ q.op = "edit" /\ q.stage = "read" /\ q.rows = {x}
  BY <1>0
<1> HIDE DEF q
<1>1. PICK r : /\ r = q /\ req' = [req EXCEPT ![f] = r]
               /\ r.op = "edit" /\ r.stage = "read" /\ r.rows = {x}
  BY <1>q
<1>2. UNCHANGED <<key, disabled, subs, board, left, graded, unseen, behind>>
  BY DEF EditBegin, history
<1>3. Knows(f, r)'
  <2>1. \A y \in subs' : y.id = x.id => y.total = x.total
    BY <1>2 DEF ScoreInv, Types, IInv, Table, Keyed
  <2>2. KnowsEdited(f, r)'
    BY <1>1, <2>1 DEF KnowsEdited
  <2>3. KnowsAnswers(f, r)' /\ KnowsGrades(f, r)' /\ KnowsToggled(r)'
    BY <1>1 DEF KnowsAnswers, KnowsGrades, KnowsToggled
  <2>4. KnowsTotals(f, r)'
    BY <1>1 DEF KnowsTotals
  <2> QED
    BY <2>2, <2>3, <2>4 DEF Knows
<1> QED
  BY <1>1, <1>2, <1>3, MovesOn

\* An edit recounts unless the points are those it has read.
LEMMA EditWrites ==
    ASSUME ScoreInv, Types', HistoryTyped', NEW f \in Staff, EditWrite(f)
    PROVE  ScoreInv'
<1>1. HasRows(req[f]) /\ req[f].op = "edit" /\ Types /\ Knows(f, req[f])
  BY Edits DEF ScoreInv
<1>2. PICK y, recount :
        /\ SameStudent(y) /\ y.id \in Ids
        /\ \E x \in req[f].rows : y.id = x.id /\ recount = (y.total # x.total)
        /\ req' = [req EXCEPT ![f] = Wrote(req[f], {y}, recount)]
  BY Edits DEF ScoreInv
<1>3. PICK x \in req[f].rows : y.id = x.id /\ recount = (y.total # x.total)
  BY <1>2
<1>4. Fields \subseteq DOMAIN req[f] /\ SameStudent(x)
  BY <1>1 DEF Types, IInv, TxOK, Whose, AllSameStudent
<1>5. PICK r : /\ r = Wrote(req[f], {y}, recount)
               /\ req' = [req EXCEPT ![f] = r]
  BY <1>2
<1>6. /\ r.op = "edit" /\ r.stage = "written" /\ r.rows = {y}
      /\ r.recount = recount
  BY <1>1, <1>4, <1>5, WroteIs
<1>7. UNCHANGED <<key, disabled, subs, board, left, graded, unseen, behind>>
  BY DEF EditWrite, history
<1>8. Knows(f, r)'
  <2>1. ASSUME ~recount, y.student \notin unseen[f], NEW z \in subs, z.id = y.id
        PROVE  z.total = y.total
    <3>1. x.student = y.student /\ y.total = x.total
      BY <1>2, <1>3, <1>4, <2>1 DEF SameStudent
    <3>2. req[f].stage = "read"
      BY DEF EditWrite, At
    <3> QED
      BY <1>1, <1>3, <2>1, <3>1, <3>2 DEF Knows, KnowsEdited
  <2>2. KnowsEdited(f, r)'
    BY <1>6, <1>7, <2>1 DEF KnowsEdited
  <2>3. KnowsAnswers(f, r)' /\ KnowsGrades(f, r)' /\ KnowsToggled(r)'
    BY <1>6 DEF KnowsAnswers, KnowsGrades, KnowsToggled
  <2>4. KnowsTotals(f, r)'
    BY <1>6 DEF KnowsTotals
  <2> QED
    BY <2>2, <2>3, <2>4 DEF Knows
<1> QED
  BY <1>5, <1>7, <1>8, MovesOn

LEMMA ToggleReads ==
    ASSUME ScoreInv, Types', HistoryTyped', NEW f \in Staff, ToggleRows(f)
    PROVE  ScoreInv'
<1> DEFINE student == req[f].student
           rows == {x \in subs : /\ req[f].off
                                 /\ x.student = student
                                 /\ x.lip > 0}
           q == [op |-> "toggle", stage |-> "read", recount |-> TRUE,
                 totals |-> NoTotals, student |-> student,
                 off |-> req[f].off, rows |-> rows]
<1>1. /\ req' = [req EXCEPT ![f] = q]
      /\ q.op = "toggle" /\ q.stage = "read"
      /\ q.rows = rows /\ q.student = student
  BY DEF ToggleRows
<1>2. \A y \in rows : y.student = student
  OBVIOUS
<1> HIDE DEF student, rows, q
<1>3. PICK r : /\ r = q /\ req' = [req EXCEPT ![f] = r]
               /\ r.op = "toggle" /\ r.stage = "read"
               /\ \A y \in r.rows : y.student = r.student
  BY <1>1, <1>2
<1>4. Knows(f, r)'
  BY <1>3 DEF Knows, KnowsAnswers, KnowsGrades, KnowsEdited, KnowsToggled,
     KnowsTotals, Holding
<1>5. UNCHANGED <<key, disabled, subs, board, left, graded, unseen, behind>>
  BY DEF ToggleRows, history
<1> QED
  BY <1>3, <1>4, <1>5, MovesOn

LEMMA ToggleWrites ==
    ASSUME ScoreInv, Types', HistoryTyped', NEW f \in Staff, ToggleWrite(f)
    PROVE  ScoreInv'
<1> DEFINE q == req[f]
           rows == {WithoutLip(x) : x \in q.rows}
<1>1. HasRows(q) /\ q.op = "toggle"
  BY DEF ToggleWrite, At, HasRows, Idle
<1>2. Fields \subseteq DOMAIN q /\ Types /\ Knows(f, q)
  BY <1>1 DEF ScoreInv, Types, IInv, TxOK
<1>3. /\ req' = [req EXCEPT ![f].stage = "written", ![f].rows = rows]
      /\ UNCHANGED <<key, disabled, subs, board, left, graded, unseen, behind>>
  BY DEF ToggleWrite, Written, history
<1>4. \A y \in rows : y.student = q.student
  <2>1. \A x \in q.rows : x.student = q.student
    BY <1>1, <1>2 DEF Knows, KnowsToggled
  <2>2. \A x \in q.rows : WithoutLip(x).student = x.student
    BY <1>1, <1>2, WithoutLipOf
  <2> QED
    BY <2>1, <2>2
<1> HIDE DEF rows
<1>5. req' = [req EXCEPT ![f] = Wrote(q, rows, q.recount)]
  BY <1>3 DEF Wrote
<1>6. PICK r : /\ r = Wrote(q, rows, q.recount)
               /\ req' = [req EXCEPT ![f] = r]
  BY <1>5
<1>7. /\ r.op = "toggle" /\ r.stage = "written" /\ r.rows = rows
      /\ r.student = q.student
  BY <1>1, <1>2, <1>6, WroteIs
<1>8. Knows(f, r)'
  BY <1>4, <1>7 DEF Knows, KnowsAnswers, KnowsGrades, KnowsEdited, KnowsToggled,
     KnowsTotals
<1> QED
  BY <1>3, <1>6, <1>8, MovesOn

-----------------------------------------------------------------------------
(* The leaderboard, and the end of a transaction. *)

LEMMA RecountReads ==
    ASSUME ScoreInv, Types', HistoryTyped', NEW f \in Staff, Recount(f)
    PROVE  ScoreInv'
<1> DEFINE q == req[f]
           seen == ScoresSeen(f)
           totals == [s \in Students |-> Sum(seen, s)]
<1>1. HasRows(q) /\ Holding(q) /\ q.stage = "written" /\ q.recount
  BY DEF Recount, Writing, HasRows, Holding
<1>2. Fields \subseteq DOMAIN q /\ Types /\ Knows(f, q)
  BY <1>1 DEF ScoreInv, Types, IInv, TxOK
<1>3. /\ req' = [req EXCEPT ![f] = Summed(q, totals)]
      /\ UNCHANGED <<key, disabled, subs, board, left, graded, behind>>
      /\ \A g \in Staff \ {f} : unseen'[g] = unseen[g]
  BY DEF Recount, Summed, ScoreInv, HistoryTyped
<1>4. \A s \in Students : totals[s] = Sum(seen, s)
  OBVIOUS
<1>5. seen = Overlaid(q.rows)
  BY DEF ScoresSeen
<1> HIDE DEF totals, seen
<1>6. PICK r : r = Summed(q, totals) /\ req' = [req EXCEPT ![f] = r]
  BY <1>3
<1>7. /\ r.op = q.op /\ r.stage = "summed" /\ r.rows = q.rows
      /\ r.student = q.student /\ r.totals = totals /\ r.recount = q.recount
  BY <1>2, <1>6, SummedIs
<1>8. Knows(f, r)'
  <2>1. KnowsGrades(f, r)'
    <3>1. \A y : GradedRow(y) => GradedRow(y)'
      BY <1>3 DEF GradedRow, IsCorrect, LipCounted, FaqCounted
    <3>2. left'[f] = left[f]
      BY <1>3
    <3> QED
      BY <1>1, <1>2, <1>3, <1>7, <3>1, <3>2 DEF Knows, KnowsGrades
  <2>2. KnowsAnswers(f, r)' /\ KnowsEdited(f, r)'
    BY <1>1, <1>7 DEF KnowsAnswers, KnowsEdited
  <2>3. KnowsToggled(r)'
    BY <1>1, <1>2, <1>7 DEF Knows, KnowsToggled
  <2>4. KnowsTotals(f, r)'
    <3>1. Overlaid(r.rows)' = seen
      BY <1>3, <1>5, <1>7 DEF Overlaid
    <3> QED
      BY <1>4, <1>7, <3>1 DEF KnowsTotals
  <2> QED
    BY <2>1, <2>2, <2>3, <2>4 DEF Knows
<1> QED
  BY <1>3, <1>6, <1>8, MovesOn

LEMMA Commits ==
    ASSUME ScoreInv, NEW f \in Staff, Commit(f), NEW q, q = req[f]
    PROVE  /\ HasRows(q) /\ Holding(q) /\ Types /\ Knows(f, q)
           /\ RowsOK(q.rows) /\ AllSameStudent(q.rows) /\ StaffTyped(q)
           /\ subs' = Overlaid(q.rows) /\ key' = key /\ Recorded(f)
           /\ q.op # "toggle" => disabled' = disabled
           /\ q.op = "toggle" => disabled' \in {disabled \cup {q.student},
                                                disabled \ {q.student}}
<1>1. HasRows(q) /\ Holding(q) /\ Types /\ Knows(f, q)
  BY DEF Commit, Writing, HasRows, Holding, ScoreInv
<1>2. RowsOK(q.rows) /\ AllSameStudent(q.rows) /\ StaffTyped(q)
  BY <1>1 DEF Types, IInv, TxOK, Requests, Whose
<1> QED
  BY <1>1, <1>2 DEF Commit

\* What a transaction has written of the rows it does not call changed, and
\* a switch has called all the rows of its student changed.
LEMMA ChangedRows ==
    ASSUME ScoreInv, NEW f \in Staff, Commit(f)
    PROVE  /\ \A x \in subs' : x.id \notin Changed(f) =>
                 \/ x \in subs
                 \/ req[f].op = "score" /\ x \in req[f].rows
           /\ \A x : x.id \in Ids /\ SameStudent(x) /\ x.id \notin Changed(f)
                     => (x.student \in disabled' <=> x.student \in disabled)
<1> DEFINE q == req[f]
<1>1. /\ Knows(f, q) /\ HasRows(q) /\ RowsOK(q.rows) /\ AllSameStudent(q.rows)
      /\ StaffTyped(q) /\ subs' = Overlaid(q.rows)
      /\ q.op # "toggle" => disabled' = disabled
      /\ q.op = "toggle" => disabled' \in {disabled \cup {q.student},
                                           disabled \ {q.student}}
  BY Commits
<1>2. ASSUME q.op = "toggle", NEW x, x.id \in Ids, SameStudent(x),
             x.student = q.student
      PROVE  x.id \in Changed(f)
  <2>1. PICK z \in subs : z.id = x.id
    BY <1>2 DEF Ids
  <2>2. z.student = q.student
    BY <1>2, <2>1 DEF SameStudent
  <2> QED
    BY <1>2, <2>1, <2>2 DEF Changed
<1>3. ASSUME NEW x \in subs', x.id \notin Changed(f), x \notin subs
      PROVE  q.op = "score" /\ x \in q.rows
  <2>1. x \in q.rows
    BY <1>1, <1>3 DEF Overlaid
  <2>2. q.op # "edit"
    BY <1>3, <2>1 DEF Changed
  <2>3. CASE q.op = "toggle"
    <3>1. x.student = q.student /\ x.id \in Ids /\ SameStudent(x)
      BY <1>1, <2>1, <2>3 DEF Knows, KnowsToggled, RowsOK, AllSameStudent
    <3> QED
      BY <1>2, <1>3, <2>3, <3>1
  <2> QED
    BY <1>1, <2>1, <2>2, <2>3 DEF StaffTyped
<1>4. ASSUME NEW x, x.id \in Ids, SameStudent(x), x.id \notin Changed(f)
      PROVE  x.student \in disabled' <=> x.student \in disabled
  BY <1>1, <1>2, <1>4
<1> QED
  BY <1>3, <1>4

\* The rows that scoring has left are graded when it commits, and those that
\* another transaction leaves stay so.
LEMMA CommittedAreGraded ==
    ASSUME ScoreInv, NEW f \in Staff, Commit(f), NEW x \in subs', x.id \in graded'
    PROVE  GradedRow(x)'
<1> DEFINE q == req[f]
<1>1. /\ Types /\ Knows(f, q) /\ HasRows(q) /\ subs' = Overlaid(q.rows)
      /\ key' = key /\ Recorded(f)
      /\ q.op # "toggle" => disabled' = disabled
  BY Commits
<1>2. CASE q.op = "score"
  <2>1. x.id \in left[f]
    BY <1>1, <1>2 DEF Recorded
  <2>2. x \in q.rows
    BY <1>1, <1>2, <2>1 DEF Knows, KnowsGrades, Overlaid, IdsOf
  <2>3. GradedRow(x)
    BY <1>1, <1>2, <2>1, <2>2 DEF Knows, KnowsGrades
  <2> QED
    BY <1>1, <1>2, <2>3 DEF GradedRow, IsCorrect, LipCounted, FaqCounted
<1>3. CASE q.op # "score"
  <2>1. x.id \in graded /\ x.id \notin Changed(f)
    BY <1>1, <1>3 DEF Recorded
  <2>2. x \in subs
    BY <1>3, <2>1, ChangedRows
  <2>3. GradedRow(x)
    BY <2>1, <2>2 DEF ScoreInv, Results, ScoredAreGraded, GradedRow
  <2>4. x.id \in Ids /\ SameStudent(x)
    BY <1>1, <2>2 DEF Ids, SameStudent, Types, IInv, Table, Keyed
  <2>5. x.student \in disabled' <=> x.student \in disabled
    BY <2>1, <2>4, ChangedRows
  <2>6. LipCounted(x)' = LipCounted(x) /\ FaqCounted(x)' = FaqCounted(x)
    BY <2>5 DEF LipCounted, FaqCounted
  <2> QED
    BY <1>1, <2>3, <2>6 DEF GradedRow, IsCorrect
<1> QED
  BY <1>2, <1>3

\* A transaction that recounts writes the sums of the table that it leaves;
\* one that does not has changed no points.
LEMMA CommittedBoard ==
    ASSUME ScoreInv, NEW f \in Staff, Commit(f)
    PROVE  LeaderboardAgrees'
<1> DEFINE q == req[f]
           table == Overlaid(q.rows)
<1>1. /\ HasRows(q) /\ Holding(q) /\ Types /\ Knows(f, q)
      /\ RowsOK(q.rows) /\ AllSameStudent(q.rows) /\ StaffTyped(q)
      /\ subs' = table /\ Recorded(f)
  BY Commits
<1> HIDE DEF table
<1>2. \A s : Sum(subs, s)' = Sum(table, s)
  <2>1. \A s : Sum(subs, s)' = Sum(subs', s)
    OBVIOUS
  <2> QED
    BY <1>1, <2>1
<1>3. CASE q.recount
  <2>1. /\ board' = Ranked(q.totals)
        /\ q.stage = "summed"
        /\ q.totals \in [Students -> Nat]
        /\ behind' = unseen[f]
    BY <1>1, <1>3 DEF Commit, StaffTyped, Recorded
  <2>2. \A s \in Students \ behind' : q.totals[s] = Sum(table, s)
    BY <1>1, <2>1 DEF Knows, KnowsTotals, table
  <2>3. \A s \in Students : /\ board'[s].total = q.totals[s]
                            /\ board'[s].position = Position(q.totals, s)
    BY <2>1, RankedTyped
  <2>4. \A s, u \in Students : q.totals[s] > q.totals[u] =>
          Position(q.totals, s) < Position(q.totals, u)
    BY <2>1, MoreIsBefore
  <2> QED
    BY <1>2, <2>2, <2>3, <2>4 DEF LeaderboardAgrees
<1>4. CASE ~q.recount
  <2>1. q.op = "edit" /\ board' = board /\ behind' = behind \cup unseen[f]
    BY <1>1, <1>4 DEF Commit, StaffTyped, Recorded
  <2>2. ASSUME NEW s \in Students \ behind'
        PROVE  s \notin behind /\ Sum(table, s) = Sum(subs, s)
    <3>1. ASSUME NEW y \in q.rows, y.student = s
          PROVE  \E x \in subs : x.id = y.id /\ x.total = y.total /\ x.student = s
      <4>1. PICK x \in subs : x.id = y.id
        BY <1>1 DEF RowsOK, Ids
      <4>2. x.student = s
        BY <1>1, <3>1, <4>1 DEF AllSameStudent, SameStudent
      <4>3. y.student \notin unseen[f]
        BY <2>1, <2>2, <3>1
      <4>4. x.total = y.total
        BY <1>1, <1>4, <2>1, <4>1, <4>3 DEF Knows, KnowsEdited
      <4> QED
        BY <4>1, <4>2, <4>4
    <3>2. ASSUME NEW x \in subs, x.student = s, x \notin table
          PROVE  \E y \in q.rows : y.id = x.id /\ y.total = x.total /\ y.student = s
      <4>1. PICK y \in q.rows : y.id = x.id
        BY <3>2 DEF table, Overlaid
      <4>2. y.student = s
        BY <1>1, <3>2, <4>1 DEF AllSameStudent, SameStudent
      <4>3. y.student \notin unseen[f]
        BY <2>1, <2>2, <4>2
      <4>4. x.total = y.total
        BY <1>1, <1>4, <2>1, <4>1, <4>3 DEF Knows, KnowsEdited
      <4> QED
        BY <4>1, <4>2, <4>4
    <3>3. Points(table, s) \subseteq Points(subs, s)
      BY <3>1 DEF Points, table, Overlaid
    <3>4. Points(subs, s) \subseteq Points(table, s)
      <4>1. q.rows \subseteq table
        BY DEF table, Overlaid
      <4> QED
        BY <3>2, <4>1 DEF Points
    <3>5. Points(table, s) = Points(subs, s)
      BY <3>3, <3>4
    <3> QED
      BY <2>1, <2>2, <3>5, SumIsOf
  <2> QED
    BY <1>2, <2>1, <2>2 DEF ScoreInv, Results, LeaderboardAgrees
<1> QED
  BY <1>3, <1>4

\* The others know what they know, but for what is recorded.
LEMMA OthersKnow ==
    ASSUME ScoreInv, Types', NEW f \in Staff, Commit(f),
           NEW g \in Staff, g # f, NEW r, r = req[g], r = req'[g]
    PROVE  Knows(g, r)'
<1> DEFINE q == req[f]
<1>1. /\ Types /\ Holding(q) /\ key' = key /\ Recorded(f)
  BY Commits
<1>2. /\ left'[g] \subseteq left[g]
      /\ \A i \in left'[g] : i \notin Changed(f)
      /\ unseen[g] \subseteq unseen'[g]
      /\ Relies(g) => Moved(subs') \subseteq unseen'[g]
  <2>1. left'[g] = left[g] \ Changed(f)
    BY <1>1 DEF Recorded
  <2>2. unseen'[g] = Overtaken(Moved(subs'))[g]
    BY <1>1 DEF Recorded, Overtaken
  <2> QED
    BY <2>1, <2>2 DEF Overtaken
<1>3. ASSUME NEW x \in subs', x.id \in left'[g]
      PROVE  \E z \in subs : z.id = x.id /\ Work(z) = Work(x)
  <2>1. CASE x \in subs
    BY <2>1
  <2>2. CASE q.op = "score" /\ x \in q.rows
    BY <1>1, <2>2 DEF Types, IInv, HeldIsKept, Kept
  <2> QED
    BY <1>2, <1>3, <2>1, <2>2, ChangedRows
<1>4. ASSUME HasRows(r), NEW y \in r.rows, y.id \in left'[g]
      PROVE  y.student \in disabled' <=> y.student \in disabled
  <2>1. y.id \in Ids /\ SameStudent(y)
    BY <1>1, <1>4 DEF Types, IInv, TxOK, RowsOK, Whose, AllSameStudent
  <2> QED
    BY <1>2, <1>4, <2>1, ChangedRows
<1>5. Knows(g, r)
  BY DEF ScoreInv
<1> QED
  BY <1>1, <1>2, <1>3, <1>4, <1>5, KnowsStays

LEMMA ScoreCommits ==
    ASSUME ScoreInv, Types', HistoryTyped', NEW f \in Staff, Commit(f)
    PROVE  ScoreInv'
<1>1. Results'
  <2>1. ScoredAreGraded'
    BY CommittedAreGraded DEF ScoredAreGraded, GradedRow
  <2> QED
    BY <2>1, CommittedBoard DEF Results
<1>2. /\ req'[f] = Idle
      /\ \A g \in Staff \ {f} : req'[g] = req[g]
  BY DEF Commit, Respond, ScoreInv, Types, IInv, ReqDomain
<1>3. \A g \in Staff : \A r : r = req'[g] => Knows(g, r)'
  BY <1>2, OthersKnow, KnowsLittle
<1>4. \A g \in Staff : Knows(g, req[g])'
  BY <1>3 DEF Knows, KnowsAnswers, KnowsGrades, KnowsEdited, KnowsToggled,
     KnowsTotals
<1> QED
  BY <1>1, <1>4 DEF ScoreInv

LEMMA NoRowsNoSum ==
    ASSUME NEW T, T = {}, NEW s
    PROVE  Sum(T, s) = 0
<1>1. Points(T, s) = {}
  BY DEF Points
<1>2. IsFiniteSet({})
  BY FS_EmptySet
<1> DEFINE S == Points(T, s)
           it == CHOOSE it : IsSum(it, SUBSET S)
<1>3. IsSum(it, SUBSET S) /\ SumOf(S) = it[S]
  BY <1>1, <1>2, SumExists, SumUnfolds
<1> HIDE DEF it
<1>4. it[S] = 0
  BY <1>1, <1>3 DEF IsSum
<1> QED
  BY <1>3, <1>4, SumIsOf

LEMMA ScoreAtFirst == Init => ScoreInv
<1> SUFFICES ASSUME Init PROVE ScoreInv
  OBVIOUS
<1>1. Types /\ HistoryTyped
  BY TypesAtFirst, HistoryAtFirst
<1>2. Results
  <2>1. \A s : Sum(subs, s) = 0
    BY NoRowsNoSum DEF Init
  <2> QED
    BY <2>1 DEF Init, Results, ScoredAreGraded, LeaderboardAgrees
<1>3. \A f \in Staff : Knows(f, req[f])
  BY KnowsLittle DEF Init
<1> QED
  BY <1>1, <1>2, <1>3 DEF ScoreInv

LEMMA ScoreSteps ==
    ASSUME ScoreInv, [Next]_vars
    PROVE  ScoreInv'
<1>0. Types' /\ HistoryTyped'
  BY TypesSteps, HistorySteps DEF ScoreInv
<1>1. CASE StudentNext
  BY <1>0, <1>1, ScorePost DEF StudentNext
<1>2. CASE StaffNext
  <2>1. PICK f \in Staff :
          \/ ScoreBegin(f) \/ RescoreBegin(f) \/ EditBegin(f)
          \/ \E s \in Students : ToggleBegin(f, s)
          \/ ExtendBegin(f) \/ PatchBegin(f) \/ Continue(f)
    BY <1>2 DEF StaffNext
  <2>2. CASE EditBegin(f)
    BY <1>0, <2>2, EditReads
  <2>3. CASE Continue(f)
    BY <1>0, <2>3, ScoreRequest, ScoreReadsAnswers, ScoreReadsRows, ScoreWrites,
       EditWrites, ToggleReads, ToggleWrites, RecountReads, ScoreCommits
       DEF Continue
  <2> QED
    BY <1>0, <2>1, <2>2, <2>3, ScoreRequest
<1>3. CASE SetKey \/ DeadlinePasses \/ UNCHANGED vars
  BY <1>0, <1>3, ScoreOtherwise
<1> QED
  BY <1>1, <1>2, <1>3 DEF Next

LEMMA ScoreAlways == Spec => []ScoreInv
<1>1. ScoreInv /\ [Next]_vars => ScoreInv'
  BY ScoreSteps
<1> QED
  BY <1>1, ScoreAtFirst, PTL DEF Spec

\* What the scoring that committed last has left is graded by the answers,
\* links and contributions that are there, however many scorings, edits,
\* switches, patches and saves overlap, and in whatever state the homework
\* has been put: only a change that comes after it can make it otherwise.
THEOREM ScoresAreRight == Spec => []ScoredAreGraded
<1>1. ScoreInv => ScoredAreGraded
  BY DEF ScoreInv, Results
<1> QED
  BY <1>1, ScoreAlways, PTL

\* And the leaderboard counts the points there are, in the order of the
\* totals, but for the students whose points were changed behind the back of
\* the recount, or put back by a save.
THEOREM LeaderboardIsRight == Spec => []LeaderboardAgrees
<1>1. ScoreInv => LeaderboardAgrees
  BY DEF ScoreInv, Results
<1> QED
  BY <1>1, ScoreAlways, PTL

=============================================================================
