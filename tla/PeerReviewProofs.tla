-------------------------- MODULE PeerReviewProofs --------------------------
(***************************************************************************)
(* Theorems about PeerReview, for every set of students, of requests in    *)
(* flight and of patched columns: its typing, that a review always joins   *)
(* two different rows of the project, and, unless staff and API requests   *)
(* got into each other's way as "amiss" records, that reviews are assigned *)
(* once, credit is backed, the review window is full, and the whole        *)
(* implements a ReviewRound.                                               *)
(***************************************************************************)
EXTENDS PeerReview, FiniteSetTheorems, WellFoundedInduction, TLAPS

-----------------------------------------------------------------------------
(* The inductive invariant *)

\* Primary keys are below the next one; so is that of an instance a request
\* is about to save, which may re-insert a row deleted in the meantime.
KeysBelowNext ==
    /\ \A x \in subs : x.id < nextId
    /\ \A t \in Tabs : req[t].op = "submit" => req[t].row.id < nextId

\* An extension in flight was asked for while the dates left room for it.
ExtensionsFit ==
    \A f \in Staff : req[f].op = "extend" =>
        /\ req[f].project.submission_due_date <= MaxTime
        /\ req[f].project.peer_review_due_date <= MaxTime

IInv ==
    /\ TypeOK
    /\ ExtensionsFit
    /\ KeysBelowNext
    /\ ReviewsJoinTwoRows

-----------------------------------------------------------------------------
(* Lemmas about sets *)

\* A nonempty set of natural numbers has a least element.
LEMMA LeastNumber ==
    ASSUME NEW T, T \subseteq Nat, T # {}
    PROVE  \E m \in T : \A n \in T : m <= n
<1> DEFINE R == {ss \in Nat \X Nat : ss[1] < ss[2]}
<1>1. IsWellFoundedOn(R, Nat)
    BY NatLessThanWellFounded DEF OpToRel
<1> HIDE DEF R
<1>2. PICK m \in T : \A n \in T : ~(<<n, m>> \in R)
    BY <1>1, WFMin
<1>3. \A n \in T : ~(n < m)
    BY <1>2 DEF R
<1> QED BY <1>3

\* .first() of a nonempty queryset of submissions is the key of one of them.
LEMMA FirstIdIsAnId ==
    ASSUME NEW rows, rows \subseteq SubRow, rows # {}
    PROVE  FirstId(rows) \in {x.id : x \in rows}
<1> DEFINE T == {x.id : x \in rows}
<1>1. T \subseteq Nat /\ T # {}
    BY BoundsAssumption DEF SubRow, SubIds
<1>2. \E m \in T : \A n \in T : m <= n
    BY <1>1, LeastNumber
<1>3. \E m \in T : \A x \in rows : m <= x.id
    BY <1>2
<1> QED BY <1>3 DEF FirstId

\* There are only finitely many reviews that differ in more than their state.
LEMMA ReviewKeysFinite == IsFiniteSet(ReviewKey)
<1> DEFINE P == (SubIds \X SubIds) \X (BOOLEAN \X (1 .. MaxCopies))
           f == [p \in P |-> [under |-> p[1][1], reviewer |-> p[1][2],
                              optional |-> p[2][1], copy |-> p[2][2]]]
<1>1. IsFiniteSet(SubIds) /\ IsFiniteSet(1 .. MaxCopies)
    BY FS_Interval, BoundsAssumption DEF SubIds
<1>2. IsFiniteSet(BOOLEAN)
  <2>1. IsFiniteSet({TRUE} \cup {FALSE})
      BY FS_Singleton, FS_Union
  <2>2. BOOLEAN = {TRUE} \cup {FALSE}
      OBVIOUS
  <2> QED BY <2>1, <2>2
<1>3. IsFiniteSet(P)
    BY <1>1, <1>2, FS_Product
<1>4. f \in Surjection(P, ReviewKey)
  <2>1. f \in [P -> ReviewKey]
      BY DEF ReviewKey
  <2>2. ASSUME NEW k \in ReviewKey PROVE \E p \in P : f[p] = k
    <3>1. <<<<k.under, k.reviewer>>, <<k.optional, k.copy>>>> \in P
        BY DEF ReviewKey
    <3>2. f[<<<<k.under, k.reviewer>>, <<k.optional, k.copy>>>>] = k
        BY <3>1 DEF ReviewKey
    <3> QED BY <3>1, <3>2
  <2> QED BY <2>1, <2>2 DEF Surjection
<1> QED BY <1>3, <1>4, FS_Surjection

\* So there are finitely many rows, and a query counts a natural number.
LEMMA CountsAreNaturals ==
    ASSUME NEW rows, rows \subseteq ReviewRow
    PROVE  IsFiniteSet(rows) /\ Cardinality(rows) \in Nat
<1> DEFINE P == ReviewKey \X BOOLEAN
           f == [p \in P |-> [key |-> p[1], submitted |-> p[2]]]
<1>1. IsFiniteSet(BOOLEAN)
  <2>1. IsFiniteSet({TRUE} \cup {FALSE})
      BY FS_Singleton, FS_Union
  <2>2. BOOLEAN = {TRUE} \cup {FALSE}
      OBVIOUS
  <2> QED BY <2>1, <2>2
<1>2. IsFiniteSet(P)
    BY <1>1, ReviewKeysFinite, FS_Product
<1>3. f \in Surjection(P, ReviewRow)
  <2>1. f \in [P -> ReviewRow]
      BY DEF ReviewRow
  <2>2. ASSUME NEW r \in ReviewRow PROVE \E p \in P : f[p] = r
    <3>1. <<r.key, r.submitted>> \in P
        BY DEF ReviewRow
    <3>2. f[<<r.key, r.submitted>>] = r
        BY <3>1 DEF ReviewRow
    <3> QED BY <3>1, <3>2
  <2> QED BY <2>1, <2>2 DEF Surjection
<1>4. IsFiniteSet(ReviewRow)
    BY <1>2, <1>3, FS_Surjection
<1> QED BY <1>4, FS_Subset, FS_CardinalityType

-----------------------------------------------------------------------------
(* Typing *)

\* What a request in flight carries, by its operation.
LEMMA RequestFields ==
    ASSUME NEW r \in StudentRequest \cup StaffRequest
    PROVE  /\ r.op = "submit" => r.row \in SubInstance
           /\ r.op = "add" => /\ r.student \in Students
                              /\ r.id \in SubIds \cup {NoId}
                              /\ r.target \in SubIds
                              /\ r.found \in BOOLEAN
           /\ r.op = "review" => r.key \in ReviewKey
           /\ r.op \in {"assign", "score", "extend", "patch"}
                => r.project \in ProjectRow
BY DEF StudentRequest, StaffRequest, Idle

\* Receiving a well-formed request and responding keep the requests typed.
LEMMA RequestsTyped ==
    ASSUME TypeOK, NEW p \in Tabs \cup Staff
    PROVE  /\ Respond(p) => req' \in
                  [Tabs \cup Staff -> StudentRequest \cup StaffRequest]
           /\ \A r \in StudentRequest \cup StaffRequest :
                  Receive(p, r) => req' \in
                      [Tabs \cup Staff -> StudentRequest \cup StaffRequest]
BY DEF TypeOK, Respond, Receive, StudentRequest

\* Saving an instance keeps the rows typed.
LEMMA SavedRowsTyped ==
    ASSUME TypeOK, NEW inst \in SubInstance, SaveSub(inst)
    PROVE  /\ subs' \subseteq SubRow
           /\ nextId' \in 1 .. MaxRows + 1
<1>1. Key(inst) \in SubIds
    BY DEF SaveSub
<1>2. [inst EXCEPT !.id = Key(inst)] \in SubRow
    BY <1>1 DEF SubInstance, SubRow
<1>3. subs' \subseteq SubRow
    BY <1>2 DEF SaveSub, Saved, TypeOK
<1>4. nextId' \in 1 .. MaxRows + 1
    BY <1>1, BoundsAssumption DEF SaveSub, Key, SubIds, TypeOK
<1> QED BY <1>3, <1>4

\* What adding an optional review may add to the table.
LEMMA PickedRows ==
    ASSUME NEW u, NEW i
    PROVE  /\ reviews \subseteq WithReview(u, i)
           /\ \A r \in WithReview(u, i) :
                 \/ r \in reviews
                 \/ \E n \in 1 .. MaxCopies :
                       r = [key |-> OptionalKey(u, i, n), submitted |-> FALSE]
BY DEF WithReview, FreeCopies

LEMMA InitTyped == Init => TypeOK
BY BoundsAssumption
   DEF Init, TypeOK, ProjectRow, ProjectStates, Times, StudentRequest

\* A student's request keeps the tables and the requests typed.
LEMMA StudentTyped ==
    ASSUME IInv, StudentNext
    PROVE  TypeOK'
<1> USE DEF IInv
<1>1. PICK t \in Tabs :
        \/ \E s \in Students :
              \/ SubmitBegin(t, s)
              \/ DeleteBegin(t, s)
              \/ \E target \in Ids : AddReviewBegin(t, s, target)
        \/ \E r \in reviews : ReviewBegin(t, r)
        \/ SubmitEnd(t)
        \/ DeleteEnd(t)
        \/ AddReviewEnd(t)
        \/ ReviewEnd(t)
    BY DEF StudentNext
<1>2. req[t] \in StudentRequest \cup StaffRequest
    BY DEF TypeOK
<1>3. ASSUME NEW s \in Students, SubmitBegin(t, s) PROVE TypeOK'
  <2>1. PICK inst \in SubInstance :
            Receive(t, [op |-> "submit", row |-> inst])
      BY <1>3 DEF SubmitBegin, Unsaved, TypeOK, SubRow, SubInstance
  <2>2. [op |-> "submit", row |-> inst] \in StudentRequest
      BY DEF StudentRequest
  <2> QED BY <1>3, <2>1, <2>2, RequestsTyped DEF SubmitBegin, TypeOK
<1>4. ASSUME NEW s \in Students, DeleteBegin(t, s) PROVE TypeOK'
  <2>1. [op |-> "delete", student |-> s] \in StudentRequest
      BY DEF StudentRequest
  <2> QED BY <1>4, <2>1, RequestsTyped DEF DeleteBegin, TypeOK
<1>5. ASSUME NEW s \in Students, NEW target \in Ids,
             AddReviewBegin(t, s, target)
      PROVE  TypeOK'
  <2>1. PICK i \in ReviewerChoices(s) :
            Receive(t, [op |-> "add", student |-> s, id |-> i,
                        target |-> target, found |-> Picked(target, i) # {}])
      BY <1>5 DEF AddReviewBegin
  <2>2. i \in SubIds \cup {NoId}
    <3>1. Real(s) \subseteq SubRow /\ Placeholders(s) \subseteq SubRow
        BY DEF Real, Placeholders, TypeOK
    <3>2. Real(s) # {} => FirstId(Real(s)) \in SubIds
        BY <3>1, FirstIdIsAnId DEF SubRow
    <3>3. Placeholders(s) # {} => FirstId(Placeholders(s)) \in SubIds
        BY <3>1, FirstIdIsAnId DEF SubRow
    <3> QED BY <2>1, <3>2, <3>3 DEF ReviewerChoices
  <2>3. target \in SubIds
      BY DEF Ids, TypeOK, SubRow
  <2>4. [op |-> "add", student |-> s, id |-> i, target |-> target,
         found |-> Picked(target, i) # {}] \in StudentRequest
      BY <2>2, <2>3 DEF StudentRequest
  <2> QED BY <1>5, <2>1, <2>4, RequestsTyped DEF AddReviewBegin, TypeOK
<1>6. ASSUME NEW r \in reviews, ReviewBegin(t, r) PROVE TypeOK'
  <2>1. [op |-> "review", key |-> r.key] \in StudentRequest
      BY DEF TypeOK, ReviewRow, StudentRequest
  <2> QED BY <1>6, <2>1, RequestsTyped DEF ReviewBegin, TypeOK
<1>7. CASE SubmitEnd(t)
  <2>1. req[t].row \in SubInstance
      BY <1>2, <1>7, RequestFields DEF SubmitEnd
  <2>2. subs' \subseteq SubRow /\ nextId' \in 1 .. MaxRows + 1
      BY <1>7, <2>1, SavedRowsTyped DEF SubmitEnd, TypeOK
  <2> QED BY <1>7, <2>2, RequestsTyped DEF SubmitEnd, TypeOK
<1>8. CASE DeleteEnd(t)
    BY <1>8, RequestsTyped DEF DeleteEnd, Without, TypeOK
<1>9. CASE AddReviewEnd(t)
  <2> DEFINE inst == [Unsaved(req[t].student, TRUE) EXCEPT !.id = req[t].id]
  <2>1. /\ req[t].student \in Students
        /\ req[t].id \in SubIds \cup {NoId}
        /\ req[t].target \in SubIds
      BY <1>2, <1>9, RequestFields DEF AddReviewEnd
  <2>2. inst \in SubInstance /\ inst.id = req[t].id
      BY <2>1 DEF Unsaved, SubInstance
  <2>3. subs' \subseteq SubRow /\ nextId' \in 1 .. MaxRows + 1
      BY <1>9, <2>2, SavedRowsTyped DEF AddReviewEnd, TypeOK
  <2>4. Key(inst) \in SubIds
    <3>1. CASE req[t].id = NoId
        BY <1>9, <3>1 DEF AddReviewEnd, SaveSub
    <3>2. CASE req[t].id # NoId
        BY <2>1, <2>2, <3>2 DEF Key
    <3> QED BY <3>1, <3>2
  <2>5. \A n \in 1 .. MaxCopies :
            [key |-> OptionalKey(req[t].target, Key(inst), n),
             submitted |-> FALSE] \in ReviewRow
      BY <2>1, <2>4 DEF OptionalKey, ReviewRow, ReviewKey
  <2>6. WithReview(req[t].target, Key(inst)) \subseteq ReviewRow
    <3> HIDE DEF inst
    <3>1. \A r \in WithReview(req[t].target, Key(inst)) :
              \/ r \in reviews
              \/ \E n \in 1 .. MaxCopies :
                    r = [key |-> OptionalKey(req[t].target, Key(inst), n),
                         submitted |-> FALSE]
        BY PickedRows
    <3> QED BY <2>5, <3>1 DEF TypeOK
  <2>7. reviews' \subseteq ReviewRow
      BY <1>9, <2>6 DEF AddReviewEnd, TypeOK
  <2> QED BY <1>9, <2>3, <2>7, RequestsTyped DEF AddReviewEnd, TypeOK
<1>10. CASE ReviewEnd(t)
  <2>1. reviews' \subseteq ReviewRow
      BY <1>10 DEF ReviewEnd, ReviewRow, TypeOK
  <2> QED BY <1>10, <2>1, RequestsTyped DEF ReviewEnd, TypeOK
<1> QED BY <1>1, <1>3, <1>4, <1>5, <1>6, <1>7, <1>8, <1>9, <1>10

\* The reviews an assignment creates are typed.
LEMMA NewReviewsTyped ==
    ASSUME TypeOK, NEW a \in Assignments(Ids),
           \A r \in NewReviews(a) : r.key.copy <= MaxCopies
    PROVE  NewReviews(a) \subseteq ReviewRow
<1>1. a \in [Ids -> SUBSET Ids] /\ Ids \subseteq SubIds
    BY DEF Assignments, Draws, Ids, TypeOK, SubRow
<1> SUFFICES ASSUME NEW i \in Ids, NEW u \in a[i]
             PROVE  [key |-> MandatoryKey(u, i), submitted |-> FALSE]
                        \in ReviewRow
    BY <1>1 DEF NewReviews
<1> DEFINE r == [key |-> MandatoryKey(u, i), submitted |-> FALSE]
           same == {q \in Owed(i) : q.key.under = u}
<1>2. r \in NewReviews(a)
  <2>1. r \in {[key |-> MandatoryKey(v, i), submitted |-> FALSE] : v \in a[i]}
      OBVIOUS
  <2>2. DOMAIN a = Ids
      BY <1>1
  <2> HIDE DEF r
  <2> QED BY <2>1, <2>2 DEF NewReviews
<1>3. Cardinality(same) \in Nat
    BY CountsAreNaturals DEF Owed, TypeOK
<1>4. r.key.copy = 1 + Cardinality(same)
    BY DEF MandatoryKey
<1>5. 1 + Cardinality(same) \in 1 .. MaxCopies
    BY <1>2, <1>3, <1>4, BoundsAssumption
<1>6. u \in SubIds /\ i \in SubIds
    BY <1>1
<1>7. ASSUME NEW c \in 1 .. MaxCopies
      PROVE  [key |-> [under |-> u, reviewer |-> i, optional |-> FALSE,
                       copy |-> c],
              submitted |-> FALSE] \in ReviewRow
    BY <1>6 DEF ReviewRow, ReviewKey
<1> QED BY <1>5, <1>7 DEF MandatoryKey

\* A staff request keeps the tables and the requests typed.
LEMMA StaffTyped ==
    ASSUME IInv, StaffNext
    PROVE  TypeOK'
<1> USE DEF IInv
<1>1. PICK f \in Staff :
        \/ AssignBegin(f)
        \/ AssignEnd(f)
        \/ ScoreBegin(f)
        \/ ScoreEnd(f)
        \/ ExtendBegin(f)
        \/ ExtendEnd(f)
        \/ \E field \in PatchFields : PatchBegin(f, field)
        \/ PatchEnd(f)
    BY DEF StaffNext
<1>2. req[f] \in StudentRequest \cup StaffRequest
    BY DEF TypeOK
<1>3. \A op \in {"assign", "score", "extend"} :
        [op |-> op, project |-> project] \in StaffRequest
    BY DEF StaffRequest, TypeOK
<1>4. CASE AssignBegin(f) \/ ScoreBegin(f) \/ ExtendBegin(f)
    BY <1>3, <1>4, RequestsTyped
       DEF AssignBegin, ScoreBegin, ExtendBegin, Load, TypeOK
<1>5. CASE AssignEnd(f)
  <2>1. req[f].project \in ProjectRow
      BY <1>2, <1>5, RequestFields DEF AssignEnd
  <2>2. CASE Cardinality(Ids) <= NumPeers
      BY <1>5, <2>2, RequestsTyped DEF AssignEnd, TypeOK
  <2>3. CASE ~(Cardinality(Ids) <= NumPeers)
    <3>1. PICK a \in Assignments(Ids) :
              /\ \A r \in NewReviews(a) : r.key.copy <= MaxCopies
              /\ reviews' = reviews \cup NewReviews(a)
              /\ project' = Opened(req[f].project)
              /\ opened' = now
              /\ amiss' = amiss \cup Belated(f, "again")
        BY <1>5, <2>3 DEF AssignEnd
    <3>2. reviews' \subseteq ReviewRow
        BY <3>1, NewReviewsTyped DEF TypeOK
    <3>3. project' \in ProjectRow
      <4>1. now + ReviewWindow \in Times
          BY BoundsAssumption DEF ReviewWindow, Times, TypeOK
      <4> QED BY <2>1, <3>1, <4>1 DEF Opened, ProjectRow, ProjectStates
    <3> QED BY <1>5, <3>1, <3>2, <3>3, RequestsTyped
            DEF AssignEnd, Belated, Causes, TypeOK
  <2> QED BY <2>2, <2>3
<1>6. CASE ScoreEnd(f)
  <2>1. req[f].project \in ProjectRow
      BY <1>2, <1>6, RequestFields DEF ScoreEnd
  <2>2. project' \in ProjectRow
      BY <1>6, <2>1 DEF ScoreEnd, ProjectRow, ProjectStates, TypeOK
  <2>3. \A i : ReviewedEnough(i) \in BOOLEAN
      BY DEF ReviewedEnough
  <2>4. Scored \subseteq SubRow
      BY <2>3 DEF Scored, SubRow, TypeOK
  <2> QED BY <1>6, <2>2, <2>4, RequestsTyped
          DEF ScoreEnd, Belated, Causes, TypeOK
<1>7. CASE ExtendEnd(f)
  <2>1. req[f].project \in ProjectRow
      BY <1>2, <1>7, RequestFields DEF ExtendEnd
  <2>2. /\ req[f].project.submission_due_date + 1 \in Times
        /\ req[f].project.peer_review_due_date + 1 \in Times
      BY <1>7, <2>1, BoundsAssumption
         DEF ExtendEnd, ExtensionsFit, ProjectRow, Times
  <2>3. project' \in ProjectRow
      BY <1>7, <2>2 DEF ExtendEnd, Extended, ProjectRow, TypeOK
  <2> QED BY <1>7, <2>3, RequestsTyped
          DEF ExtendEnd, Belated, Causes, TypeOK
<1>8. ASSUME NEW field \in PatchFields, PatchBegin(f, field) PROVE TypeOK'
  <2>1. [op |-> "patch", project |-> project, field |-> field]
            \in StaffRequest
      BY DEF StaffRequest, TypeOK
  <2> QED BY <1>8, <2>1, RequestsTyped DEF PatchBegin, TypeOK
<1>9. CASE PatchEnd(f)
  <2>1. req[f].project \in ProjectRow
      BY <1>2, <1>9, RequestFields DEF PatchEnd
  <2>2. project' \in ProjectRow
      BY <1>9, <2>1 DEF PatchEnd, Patched
  <2> QED BY <1>9, <2>2, RequestsTyped DEF PatchEnd, Causes, TypeOK
<1> QED BY <1>1, <1>4, <1>5, <1>6, <1>7, <1>8, <1>9

LEMMA TypeStep ==
    ASSUME IInv, [Next]_vars
    PROVE  TypeOK'
<1>1. CASE UNCHANGED vars
    BY <1>1 DEF IInv, TypeOK, vars
<1>2. ASSUME NEW s \in Students, NEW r \in reviews, DropReview(s, r)
      PROVE  TypeOK'
    BY <1>2 DEF IInv, DropReview, TypeOK
<1>3. CASE Tick
    BY <1>3, BoundsAssumption DEF IInv, Tick, TypeOK
<1> QED BY <1>1, <1>2, <1>3, StudentTyped, StaffTyped DEF Next

-----------------------------------------------------------------------------
(* The other parts of the invariant *)

\* A step of one request leaves what the others have read alone.
LEMMA OtherRequests ==
    ASSUME TypeOK, NEW p \in Tabs \cup Staff, NEW q \in Tabs \cup Staff
    PROVE  /\ Respond(p) => req'[q] = IF q = p THEN Idle ELSE req[q]
           /\ \A r : Receive(p, r) => req'[q] = IF q = p THEN r ELSE req[q]
BY DEF TypeOK, Respond, Receive

\* Only ExtendBegin starts an extension, and only SubmitBegin a submission.
LEMMA RequestsStarted ==
    /\ StudentNext =>
         \E t \in Tabs :
            \/ Respond(t)
            \/ \E r : r.op \in {"delete", "add", "review"} /\ Receive(t, r)
            \/ \E s \in Students : SubmitBegin(t, s)
    /\ StaffNext =>
         \E f \in Staff :
            \/ Respond(f)
            \/ \E r : r.op \in {"assign", "score", "patch"} /\ Receive(f, r)
            \/ ExtendBegin(f)
<1>1. ASSUME NEW t \in Tabs, NEW s \in Students, DeleteBegin(t, s)
      PROVE  \E r : r.op \in {"delete", "add", "review"} /\ Receive(t, r)
    BY <1>1 DEF DeleteBegin
<1>2. ASSUME NEW t \in Tabs, NEW s \in Students, NEW target \in Ids,
             AddReviewBegin(t, s, target)
      PROVE  \E r : r.op \in {"delete", "add", "review"} /\ Receive(t, r)
    BY <1>2 DEF AddReviewBegin
<1>3. ASSUME NEW t \in Tabs, NEW q \in reviews, ReviewBegin(t, q)
      PROVE  \E r : r.op \in {"delete", "add", "review"} /\ Receive(t, r)
    BY <1>3 DEF ReviewBegin
<1>4. ASSUME NEW t \in Tabs,
             SubmitEnd(t) \/ DeleteEnd(t) \/ AddReviewEnd(t) \/ ReviewEnd(t)
      PROVE  Respond(t)
    BY <1>4 DEF SubmitEnd, DeleteEnd, AddReviewEnd, ReviewEnd
<1>5. ASSUME NEW f \in Staff, AssignBegin(f) \/ ScoreBegin(f)
      PROVE  \E r : r.op \in {"assign", "score", "patch"} /\ Receive(f, r)
    BY <1>5 DEF AssignBegin, ScoreBegin, Load
<1>6. ASSUME NEW f \in Staff, NEW field \in PatchFields, PatchBegin(f, field)
      PROVE  \E r : r.op \in {"assign", "score", "patch"} /\ Receive(f, r)
    BY <1>6 DEF PatchBegin
<1>7. ASSUME NEW f \in Staff,
             AssignEnd(f) \/ ScoreEnd(f) \/ ExtendEnd(f) \/ PatchEnd(f)
      PROVE  Respond(f)
    BY <1>7 DEF AssignEnd, ScoreEnd, ExtendEnd, PatchEnd
<1>8. StudentNext =>
        \E t \in Tabs :
           \/ Respond(t)
           \/ \E r : r.op \in {"delete", "add", "review"} /\ Receive(t, r)
           \/ \E s \in Students : SubmitBegin(t, s)
    BY <1>1, <1>2, <1>3, <1>4 DEF StudentNext
<1>9. StaffNext =>
        \E f \in Staff :
           \/ Respond(f)
           \/ \E r : r.op \in {"assign", "score", "patch"} /\ Receive(f, r)
           \/ ExtendBegin(f)
    BY <1>5, <1>6, <1>7 DEF StaffNext
<1> QED BY <1>8, <1>9

LEMMA ExtensionsStep ==
    ASSUME IInv, [Next]_vars
    PROVE  ExtensionsFit'
<1> SUFFICES ASSUME NEW g \in Staff, req'[g].op = "extend"
             PROVE  /\ req'[g].project.submission_due_date <= MaxTime
                    /\ req'[g].project.peer_review_due_date <= MaxTime
    BY DEF ExtensionsFit
<1> USE DEF IInv
<1>1. CASE req'[g] = req[g]
    BY <1>1 DEF ExtensionsFit
<1>2. ASSUME NEW f \in Staff, ExtendBegin(f)
      PROVE  \/ req'[g] = req[g]
             \/ /\ req'[g].project.submission_due_date <= MaxTime
                /\ req'[g].project.peer_review_due_date <= MaxTime
    BY <1>2, OtherRequests DEF ExtendBegin, Load
<1>3. CASE StudentNext
  <2>1. PICK t \in Tabs :
            \/ Respond(t)
            \/ \E r : r.op # "extend" /\ Receive(t, r)
      BY <1>3, RequestsStarted DEF SubmitBegin
  <2> QED BY <1>1, <2>1, OtherRequests DEF Idle
<1>4. CASE StaffNext
  <2>1. PICK f \in Staff :
            \/ Respond(f)
            \/ \E r : r.op # "extend" /\ Receive(f, r)
            \/ ExtendBegin(f)
      BY <1>4, RequestsStarted
  <2> QED BY <1>1, <1>2, <2>1, OtherRequests DEF Idle
<1>5. CASE UNCHANGED req
    BY <1>1, <1>5
<1> QED BY <1>3, <1>4, <1>5 DEF Next, DropReview, Tick, vars

\* Saving an instance whose key was taken from the sequence.
LEMMA SavedBelowNext ==
    ASSUME TypeOK, KeysBelowNext, NEW inst \in SubInstance,
           inst.id < nextId, SaveSub(inst)
    PROVE  /\ nextId <= nextId'
           /\ \A x \in subs' : x.id < nextId'
           /\ Ids' = Ids \cup {Key(inst)}
<1>1. nextId \in Nat /\ inst.id \in Nat /\ Key(inst) \in Nat
    BY BoundsAssumption DEF TypeOK, SubInstance, SubIds, NoId, SaveSub
<1>2. nextId <= nextId' /\ Key(inst) < nextId'
    BY <1>1 DEF SaveSub, Key
<1>3. [inst EXCEPT !.id = Key(inst)].id = Key(inst)
    BY DEF SubInstance
<1>4. \A x \in subs : x.id \in Nat
    BY BoundsAssumption DEF TypeOK, SubRow, SubIds
<1>5. \A x \in subs' : x.id < nextId'
  <2> SUFFICES ASSUME NEW x \in subs' PROVE x.id < nextId'
      OBVIOUS
  <2>1. x = [inst EXCEPT !.id = Key(inst)] \/ x \in subs
      BY DEF SaveSub, Saved
  <2>2. CASE x = [inst EXCEPT !.id = Key(inst)]
      BY <1>2, <1>3, <2>2
  <2>3. CASE x \in subs
    <3>1. x.id < nextId /\ nextId' \in Nat
        BY <1>1, <2>3 DEF KeysBelowNext, SaveSub
    <3> QED BY <1>1, <1>2, <1>4, <2>3, <3>1
  <2> QED BY <2>1, <2>2, <2>3
<1>6. Ids' = Ids \cup {Key(inst)}
    BY <1>3 DEF Ids, SaveSub, Saved
<1> QED BY <1>2, <1>5, <1>6

\* The rows after a request that saves an instance: SubmitEnd re-inserts or
\* inserts the student's, AddReviewEnd may insert a placeholder.
LEMMA SavingRequests ==
    ASSUME IInv, NEW t \in Tabs, SubmitEnd(t) \/ AddReviewEnd(t)
    PROVE  /\ nextId <= nextId'
           /\ \A x \in subs' : x.id < nextId'
           /\ Ids \subseteq Ids'
<1> USE DEF IInv
<1>1. CASE UNCHANGED <<subs, nextId>>
    BY <1>1, BoundsAssumption DEF KeysBelowNext, TypeOK, Ids
<1>2. req[t] \in StudentRequest \cup StaffRequest
    BY DEF TypeOK
<1>3. CASE SubmitEnd(t) /\ SaveSub(req[t].row)
  <2>1. req[t].row \in SubInstance /\ req[t].row.id < nextId
      BY <1>2, <1>3, RequestFields DEF SubmitEnd, KeysBelowNext
  <2> QED BY <1>3, <2>1, SavedBelowNext
<1>4. CASE AddReviewEnd(t) /\ req[t].id = NoId
  <2> DEFINE inst == [Unsaved(req[t].student, TRUE) EXCEPT !.id = req[t].id]
  <2>1. inst \in SubInstance /\ inst.id = NoId
      BY <1>2, <1>4, RequestFields DEF AddReviewEnd, Unsaved, SubInstance
  <2>2. inst.id < nextId
      BY <2>1, BoundsAssumption DEF TypeOK, NoId
  <2>3. SaveSub(inst)
      BY <1>4 DEF AddReviewEnd
  <2> QED BY <2>1, <2>2, <2>3, SavedBelowNext
<1>5. CASE AddReviewEnd(t) /\ req[t].id # NoId
    BY <1>1, <1>5 DEF AddReviewEnd
<1> QED BY <1>1, <1>3, <1>4, <1>5 DEF SubmitEnd

\* Scoring replaces rows under their keys.
LEMMA ScoredKeys ==
    ASSUME TypeOK
    PROVE  {x.id : x \in Scored} = Ids
<1>1. ASSUME NEW x \in subs, NEW b
      PROVE  [x EXCEPT !.enough = b].id = x.id
    BY DEF TypeOK, SubRow
<1>2. \A y \in Scored : y.id \in Ids
    BY <1>1 DEF Scored, Ids
<1>3. ASSUME NEW x \in subs PROVE \E y \in Scored : y.id = x.id
    BY <1>1 DEF Scored
<1> QED BY <1>2, <1>3 DEF Ids

LEMMA KeysStep ==
    ASSUME IInv, [Next]_vars
    PROVE  KeysBelowNext'
<1> USE DEF IInv
<1>1. /\ nextId <= nextId'
      /\ \A x \in subs' : x.id < nextId'
  <2>1. CASE \E t \in Tabs : SubmitEnd(t) \/ AddReviewEnd(t)
      BY <2>1, SavingRequests
  <2>2. CASE nextId' = nextId /\ subs' \subseteq subs
      BY <2>2, BoundsAssumption DEF KeysBelowNext, TypeOK
  <2>3. CASE nextId' = nextId /\ subs' = Scored
    <3>1. \A x \in subs' : x.id \in Ids
        BY <2>3, ScoredKeys
    <3> QED BY <2>3, <3>1, BoundsAssumption DEF KeysBelowNext, Ids, TypeOK
  <2>4. StudentNext =>
            \/ \E t \in Tabs : SubmitEnd(t) \/ AddReviewEnd(t)
            \/ nextId' = nextId /\ subs' \subseteq subs
      BY DEF StudentNext, SubmitBegin, DeleteBegin, DeleteEnd,
             AddReviewBegin, ReviewBegin, ReviewEnd
  <2>5. StaffNext => nextId' = nextId /\ subs' \in {subs, Scored}
      BY DEF StaffNext, AssignBegin, AssignEnd, ScoreBegin, ScoreEnd,
             ExtendBegin, ExtendEnd, PatchBegin, PatchEnd
  <2> QED BY <2>1, <2>2, <2>3, <2>4, <2>5 DEF Next, DropReview, Tick, vars
<1>2. ASSUME NEW t \in Tabs, req'[t].op = "submit"
      PROVE  req'[t].row.id < nextId'
  <2>1. CASE req'[t] = req[t]
    <3>1. req[t].row.id \in Nat
        BY <1>2, <2>1, RequestFields, BoundsAssumption
           DEF TypeOK, SubInstance, SubIds, NoId
    <3>2. nextId \in Nat /\ nextId' \in Nat
        BY TypeStep, BoundsAssumption DEF TypeOK
    <3> QED BY <1>1, <1>2, <2>1, <3>1, <3>2 DEF KeysBelowNext
  <2>2. ASSUME NEW s \in Students, SubmitBegin(t, s)
        PROVE  req'[t].row.id < nextId'
    <3>1. PICK inst \in subs \cup {Unsaved(s, FALSE)} :
              Receive(t, [op |-> "submit", row |-> inst])
        BY <2>2 DEF SubmitBegin
    <3>2. inst.id < nextId
        BY <3>1, BoundsAssumption DEF KeysBelowNext, TypeOK, Unsaved, NoId
    <3> QED BY <2>2, <3>1, <3>2, OtherRequests DEF SubmitBegin
  <2>3. CASE StudentNext
    <3>1. PICK u \in Tabs :
              \/ Respond(u)
              \/ \E r : r.op # "submit" /\ Receive(u, r)
              \/ \E s \in Students : SubmitBegin(u, s)
        BY <2>3, RequestsStarted
    <3>2. CASE u = t
        BY <1>2, <2>2, <3>1, <3>2, OtherRequests DEF Idle
    <3>3. CASE u # t
        BY <2>1, <3>1, <3>3, OtherRequests DEF SubmitBegin
    <3> QED BY <3>2, <3>3
  <2>4. CASE StaffNext
    <3>1. PICK f \in Staff :
              \/ Respond(f)
              \/ \E r : r.op # "submit" /\ Receive(f, r)
        BY <2>4, RequestsStarted DEF ExtendBegin, Load
    <3> QED BY <1>2, <2>1, <3>1, OtherRequests DEF Idle
  <2>5. CASE UNCHANGED req
      BY <2>1, <2>5
  <2> QED BY <2>3, <2>4, <2>5 DEF Next, DropReview, Tick, vars
<1> QED BY <1>1, <1>2 DEF KeysBelowNext

LEMMA JoinStep ==
    ASSUME IInv, [Next]_vars
    PROVE  ReviewsJoinTwoRows'
<1> USE DEF IInv
<1>1. CASE Ids \subseteq Ids' /\ \A r \in reviews' : \E q \in reviews : r.key = q.key
    BY <1>1 DEF ReviewsJoinTwoRows
<1>2. CASE Ids' = Ids /\ reviews' = reviews
    BY <1>2 DEF ReviewsJoinTwoRows
<1>3. ASSUME NEW t \in Tabs, SubmitEnd(t) PROVE ReviewsJoinTwoRows'
  <2>1. Ids \subseteq Ids'
      BY <1>3, SavingRequests
  <2> QED BY <1>1, <1>3, <2>1 DEF SubmitEnd
<1>4. ASSUME NEW t \in Tabs, DeleteEnd(t) PROVE ReviewsJoinTwoRows'
  <2> DEFINE i == FirstId(Real(req[t].student))
  <2>1. Ids' = Ids \ {i} /\ reviews' = Without(i)
      BY <1>4 DEF DeleteEnd, Ids
  <2> QED BY <2>1 DEF ReviewsJoinTwoRows, Without
<1>5. ASSUME NEW t \in Tabs, AddReviewEnd(t) PROVE ReviewsJoinTwoRows'
  <2> DEFINE inst == [Unsaved(req[t].student, TRUE) EXCEPT !.id = req[t].id]
  <2>1. Ids \subseteq Ids'
      BY <1>5, SavingRequests
  <2>2. req[t].id \in SubIds \cup {NoId}
      BY <1>5, RequestFields DEF AddReviewEnd, TypeOK
  <2>3. inst.id = req[t].id
      BY DEF Unsaved
  <2>4. CASE UNCHANGED reviews
      BY <1>1, <2>1, <2>4
  <2>5. CASE /\ MayReview(req[t].id, req[t].target)
             /\ reviews' = WithReview(req[t].target, Key(inst))
    <3>1. req[t].target \in Ids
        BY <2>5 DEF MayReview, Ids
    <3>2. Key(inst) \in Ids' /\ Key(inst) # req[t].target
      <4>1. CASE req[t].id = NoId
        <5>1. inst \in SubInstance
            BY <1>5, RequestFields
               DEF AddReviewEnd, Unsaved, SubInstance, TypeOK
        <5>2. inst.id < nextId
            BY <2>3, <4>1, BoundsAssumption DEF TypeOK, NoId
        <5>3. Key(inst) \in Ids'
            BY <1>5, <4>1, <5>1, <5>2, SavedBelowNext DEF AddReviewEnd
        <5>4. Key(inst) = nextId
            BY <2>3, <4>1 DEF Key
        <5>5. req[t].target < nextId
            BY <3>1 DEF KeysBelowNext, Ids
        <5> QED BY <5>3, <5>4, <5>5, BoundsAssumption DEF TypeOK
      <4>2. CASE req[t].id # NoId
        <5>1. Key(inst) = req[t].id
            BY <2>3, <4>2 DEF Key
        <5> QED BY <2>1, <2>5, <4>2, <5>1 DEF MayReview
      <4> QED BY <4>1, <4>2
    <3>3. \A r \in reviews' : \/ r \in reviews
                              \/ /\ r.key.under = req[t].target
                                 /\ r.key.reviewer = Key(inst)
        BY <2>5, PickedRows DEF OptionalKey
    <3> HIDE DEF inst
    <3> QED BY <2>1, <3>1, <3>2, <3>3 DEF ReviewsJoinTwoRows
  <2> QED BY <1>5, <2>4, <2>5 DEF AddReviewEnd
<1>6. ASSUME NEW t \in Tabs, ReviewEnd(t) PROVE ReviewsJoinTwoRows'
  <2>1. \A r \in reviews : [r EXCEPT !.submitted = TRUE].key = r.key
      BY DEF TypeOK, ReviewRow
  <2>2. \A r \in reviews' : \E q \in reviews : r.key = q.key
      BY <1>6, <2>1 DEF ReviewEnd
  <2> QED BY <1>1, <1>6, <2>2 DEF ReviewEnd, Ids
<1>7. ASSUME NEW f \in Staff, AssignEnd(f) PROVE ReviewsJoinTwoRows'
  <2>1. Ids' = Ids
      BY <1>7 DEF AssignEnd, Ids
  <2>2. CASE reviews' = reviews
      BY <1>2, <2>1, <2>2
  <2>3. ASSUME NEW a \in Assignments(Ids), reviews' = reviews \cup NewReviews(a)
        PROVE  ReviewsJoinTwoRows'
    <3>1. a \in [Ids -> SUBSET Ids] /\ \A i \in Ids : i \notin a[i]
        BY DEF Assignments, Draws
    <3>2. ASSUME NEW r \in NewReviews(a)
          PROVE  r.key.under \in Ids /\ r.key.reviewer \in Ids
                     /\ r.key.under # r.key.reviewer
      <4>1. PICK i \in Ids : \E u \in a[i] :
                r = [key |-> MandatoryKey(u, i), submitted |-> FALSE]
          BY <3>1 DEF NewReviews
      <4>2. PICK u \in a[i] :
                r = [key |-> MandatoryKey(u, i), submitted |-> FALSE]
          BY <4>1
      <4>3. r.key.under = u /\ r.key.reviewer = i
          BY <4>2 DEF MandatoryKey
      <4> QED BY <3>1, <4>3
    <3> QED BY <2>1, <2>3, <3>2 DEF ReviewsJoinTwoRows
  <2> QED BY <1>7, <2>2, <2>3 DEF AssignEnd
<1>8. ASSUME NEW f \in Staff, ScoreEnd(f) PROVE ReviewsJoinTwoRows'
  <2>1. Ids' = Ids
    <3>1. CASE subs' = subs
        BY <3>1 DEF Ids
    <3>2. CASE subs' = Scored
        BY <3>2, ScoredKeys DEF Ids
    <3> QED BY <1>8, <3>1, <3>2 DEF ScoreEnd
  <2> QED BY <1>2, <1>8, <2>1 DEF ScoreEnd
<1>9. CASE StudentNext
  <2>1. CASE UNCHANGED <<subs, reviews>>
      BY <1>2, <2>1 DEF Ids
  <2> QED BY <1>3, <1>4, <1>5, <1>6, <1>9, <2>1
          DEF StudentNext, SubmitBegin, DeleteBegin, AddReviewBegin,
              ReviewBegin
<1>10. CASE StaffNext
  <2>1. CASE UNCHANGED <<subs, reviews>>
      BY <1>2, <2>1 DEF Ids
  <2> QED BY <1>7, <1>8, <1>10, <2>1
          DEF StaffNext, AssignBegin, ScoreBegin, ExtendBegin, ExtendEnd,
              PatchBegin, PatchEnd
<1>11. CASE \E s \in Students, r \in reviews : DropReview(s, r)
    BY <1>11 DEF DropReview, Ids, ReviewsJoinTwoRows
<1>12. CASE UNCHANGED <<subs, reviews>>
    BY <1>2, <1>12 DEF Ids
<1> QED BY <1>9, <1>10, <1>11, <1>12 DEF Next, Tick, vars

-----------------------------------------------------------------------------
(* Theorems *)

LEMMA InitInv == Init => IInv
BY InitTyped, BoundsAssumption
   DEF Init, IInv, ExtensionsFit, KeysBelowNext, ReviewsJoinTwoRows, Idle

LEMMA NextInv == IInv /\ [Next]_vars => IInv'
BY TypeStep, ExtensionsStep, KeysStep, JoinStep DEF IInv

LEMMA Invariance == Spec => []IInv
BY InitInv, NextInv, PTL DEF Spec

\* Every table, request and date keeps its type, whatever the number of
\* requests in flight: no sequence of views writes a row that is not one.
THEOREM Typing == Spec => []TypeOK
<1>1. IInv => TypeOK
    BY DEF IInv
<1> QED BY <1>1, Invariance, PTL

\* No interleaving of submissions, deletions, picked reviews, assignments,
\* scoring, extensions and API updates leaves a review without its two rows
\* or makes a row review itself.
THEOREM ReviewEndsDiffer == Spec => []ReviewsJoinTwoRows
<1>1. IInv => ReviewsJoinTwoRows
    BY DEF IInv
<1> QED BY <1>1, Invariance, PTL

-----------------------------------------------------------------------------
(* What staff and API requests leave standing, however many overlap, until *)
(* "amiss" records that one got into the way of another.                   *)

\* Nothing has set the state, or a review date, over what others have done.
Undisturbed == Spared({"state", "dates"})

\* A primary key names one submission.
Keyed == \A x, y \in subs : x.id = y.id => x = y

\* What a staff request in flight has read, and what the project can have
\* become since, while time stands still: whoever assigns reviews began
\* while submissions were collected, and the window that may have opened
\* since is a tick long at least; whoever scores began after its end.
StaffKnows ==
    /\ \A f \in Staff :
        /\ req[f].op = "assign" => req[f].project.state = "CS"
        /\ req[f].op = "score" => req[f].project.state = "PR"
        /\ Spared({"state"}) /\ project.state = "CS" =>
             (req[f].op \in {"assign", "score", "extend"}
                => req[f].project.state = "CS")
    /\ Undisturbed => \A f \in Staff :
        /\ req[f].op = "assign" =>
             \/ project.state = "CS"
             \/ project.state = "PR" /\ opened = now
        /\ req[f].op = "score" => opened < now
        /\ req[f].op = "extend" /\ req[f].project.state = "PR" =>
             req[f].project.peer_review_due_date >= opened + ReviewWindow
    /\ Undisturbed /\ project.state = "CO" => opened < now

\* The same for whoever submits or deletes.
StudentsKnow ==
    Undisturbed =>
    \A t \in Tabs :
        /\ req[t].op \in {"submit", "delete"} =>
             \/ project.state = "CS"
             \/ project.state = "PR" /\ opened = now
        /\ req[t].op = "submit" => ~req[t].row.enough

\* Before the assignment reviews are optional, before completion nobody has
\* credit, and nothing closes the project.
NotYet ==
    /\ Spared({"state"}) =>
        /\ project.state \in {"CS", "PR", "CO"}
        /\ project.state = "CS" => \A r \in reviews : r.key.optional
    /\ Undisturbed /\ project.state # "CO" => \A x \in subs : ~x.enough

\* What the tables promise, and what the requests in flight know of them.
Tables ==
    /\ Keyed
    /\ NotYet
    /\ AssignedOnce
    /\ CreditIsBacked
    /\ FullReviewWindow

FullInv == /\ IInv
           /\ Tables
           /\ StaffKnows
           /\ StudentsKnow

\* What is recorded stays recorded.
LEMMA Recorded ==
    ASSUME amiss \subseteq amiss'
    PROVE  \A causes : Spared(causes)' => Spared(causes)
BY DEF Spared

LEMMA Causal ==
    /\ Undisturbed => Spared({"state"})
    /\ Spared({"again", "state"}) => Spared({"state"})
    /\ amiss = {} => Undisturbed /\ Spared({"again", "state"})
BY DEF Undisturbed, Spared

\* The steps that read and write nothing else leave the requests in order.
LEMMA RequestEnds ==
    ASSUME TypeOK, StaffKnows, StudentsKnow, NEW p \in Tabs \cup Staff,
           Respond(p), UNCHANGED <<project, now, opened, amiss>>
    PROVE  StaffKnows' /\ StudentsKnow'
<1>1. \A q \in Tabs \cup Staff : req'[q] = IF q = p THEN Idle ELSE req[q]
    BY OtherRequests
<1>2. UNCHANGED <<Spared({"state"}), Undisturbed>>
    BY DEF Spared, Undisturbed
<1>3. StaffKnows'
    BY <1>1, <1>2 DEF StaffKnows, Idle
<1>4. StudentsKnow'
    BY <1>1, <1>2 DEF StudentsKnow, Idle
<1> QED BY <1>3, <1>4

LEMMA RequestBegins ==
    ASSUME TypeOK, StaffKnows, StudentsKnow, NEW p \in Tabs \cup Staff, NEW r,
           Receive(p, r), UNCHANGED <<project, now, opened, amiss>>,
           r.op \in {"assign", "score", "extend"} => r.project = project,
           r.op = "assign" => project.state = "CS",
           r.op = "score" => project.state = "PR",
           Undisturbed /\ r.op = "score" => opened < now,
           Undisturbed /\ r.op = "extend" /\ project.state = "PR"
             => project.peer_review_due_date >= opened + ReviewWindow,
           r.op \in {"submit", "delete"} => project.state = "CS",
           Undisturbed /\ r.op = "submit" => ~r.row.enough
    PROVE  StaffKnows' /\ StudentsKnow'
<1>1. \A q \in Tabs \cup Staff : req'[q] = IF q = p THEN r ELSE req[q]
    BY OtherRequests
<1>2. UNCHANGED <<Spared({"state"}), Undisturbed>>
    BY DEF Spared, Undisturbed
<1>3. StaffKnows'
    BY <1>1, <1>2 DEF StaffKnows
<1>4. StudentsKnow'
    BY <1>1, <1>2 DEF StudentsKnow
<1> QED BY <1>3, <1>4

\* The rest of the invariant depends on the tables only.
LEMMA TablesKept ==
    ASSUME Tables, UNCHANGED <<project, subs, reviews, opened, amiss>>
    PROVE  Tables'
<1> USE DEF Tables
<1>1. UNCHANGED <<Spared({"state"}), Spared({"again", "state"}), Undisturbed>>
    BY DEF Spared, Undisturbed
<1>2. Keyed' /\ NotYet' /\ FullReviewWindow'
    BY <1>1 DEF Keyed, NotYet, FullReviewWindow, Undisturbed
<1>3. Ids' = Ids /\ \A i : Owed(i)' = Owed(i)
    BY DEF Ids, Owed
<1>4. AssignedOnce'
    BY <1>1, <1>3 DEF AssignedOnce
<1>5. \A i : ReviewedEnough(i)' = ReviewedEnough(i)
    BY <1>3 DEF ReviewedEnough, HandedIn
<1>6. CreditIsBacked'
    BY <1>1, <1>5 DEF CreditIsBacked, Undisturbed
<1> QED BY <1>2, <1>4, <1>6

\* What is left to show of a step that leaves the project row alone.
LEMMA TablesStep ==
    ASSUME Tables, UNCHANGED <<project, opened, amiss>>, Keyed', AssignedOnce',
           Spared({"state"}) /\ project.state = "CS"
             => \A r \in reviews' : r.key.optional,
           Undisturbed /\ project.state # "CO" => \A x \in subs' : ~x.enough,
           Undisturbed /\ project.state = "CO" => CreditIsBacked'
    PROVE  Tables'
<1>1. UNCHANGED <<Spared({"state"}), Undisturbed>>
    BY DEF Spared, Undisturbed
<1> QED BY <1>1
        DEF Tables, NotYet, CreditIsBacked, FullReviewWindow, Undisturbed

\* Rows without reviews owe none.
LEMMA OwedEverywhere ==
    ASSUME ReviewsJoinTwoRows, AssignedOnce, Spared({"again", "state"}), NEW i
    PROVE  /\ Cardinality(Owed(i)) <= NumPeers
           /\ \A r, q \in Owed(i) : r.key.under = q.key.under => r = q
<1>1. CASE i \in Ids
    BY <1>1 DEF AssignedOnce
<1>2. CASE i \notin Ids
  <2>1. Owed(i) = {}
      BY <1>2 DEF Owed, ReviewsJoinTwoRows
  <2> QED BY <2>1, FS_EmptySet, NumPeersAssumption
<1> QED BY <1>1, <1>2

LEMMA OwedFinite ==
    ASSUME TypeOK, NEW i
    PROVE  /\ IsFiniteSet(Owed(i)) /\ Cardinality(Owed(i)) \in Nat
           /\ IsFiniteSet(HandedIn(i)) /\ Cardinality(HandedIn(i)) \in Nat
BY CountsAreNaturals DEF TypeOK, Owed, HandedIn

\* Withdrawals take mandatory reviews away, and nothing adds one but the
\* assignment.
LEMMA FewerOwed ==
    ASSUME TypeOK, TypeOK', ReviewsJoinTwoRows, AssignedOnce,
           amiss \subseteq amiss', \A i : Owed(i)' \subseteq Owed(i)
    PROVE  AssignedOnce'
<1> SUFFICES ASSUME NEW i, Spared({"again", "state"})'
             PROVE  /\ Cardinality(Owed(i)') <= NumPeers
                    /\ \A r, q \in Owed(i)' : r.key.under = q.key.under => r = q
    BY DEF AssignedOnce
<1>1. /\ Cardinality(Owed(i)) <= NumPeers
      /\ \A r, q \in Owed(i) : r.key.under = q.key.under => r = q
    BY Recorded, OwedEverywhere
<1>2. Cardinality(Owed(i)') <= Cardinality(Owed(i))
    BY OwedFinite, FS_Subset
<1>3. Cardinality(Owed(i)') \in Nat /\ Cardinality(Owed(i)) \in Nat
  <2>1. Cardinality(Owed(i)) \in Nat
      BY OwedFinite
  <2>2. Cardinality(Owed(i)') \in Nat
      BY CountsAreNaturals DEF TypeOK, Owed
  <2> QED BY <2>1, <2>2
<1> QED BY <1>1, <1>2, <1>3, NumPeersAssumption

\* Credit stays backed while rows with credit and reviews handed in stay.
LEMMA StillBacked ==
    ASSUME TypeOK, TypeOK', CreditIsBacked, project'.state = "CO",
           project.state = "CO", Undisturbed,
           \A x \in subs' : x.enough => x \in subs,
           \A i : HandedIn(i) \subseteq HandedIn(i)'
    PROVE  CreditIsBacked'
<1> SUFFICES ASSUME NEW x \in subs', x.enough
             PROVE  Cardinality(HandedIn(x.id)') >= NumPeers
    BY DEF CreditIsBacked, ReviewedEnough
<1> DEFINE i == x.id
<1>1. Cardinality(HandedIn(i)) >= NumPeers
    BY DEF CreditIsBacked, ReviewedEnough, Undisturbed
<1>2. IsFiniteSet(HandedIn(i)') /\ Cardinality(HandedIn(i)') \in Nat
    BY CountsAreNaturals DEF TypeOK, Owed, HandedIn
<1>3. Cardinality(HandedIn(i)) <= Cardinality(HandedIn(i)')
    BY <1>2, FS_Subset
<1>4. Cardinality(HandedIn(i)) \in Nat
    BY OwedFinite
<1> QED BY <1>1, <1>2, <1>3, <1>4, NumPeersAssumption

LEMMA SavedKeyed ==
    ASSUME TypeOK, Keyed, NEW inst \in SubInstance, SaveSub(inst)
    PROVE  /\ Keyed'
           /\ \A x \in subs' : x \in subs \/ x.enough = inst.enough
<1>1. /\ [inst EXCEPT !.id = Key(inst)].id = Key(inst)
      /\ [inst EXCEPT !.id = Key(inst)].enough = inst.enough
    BY DEF SubInstance
<1>2. \A x \in subs' : \/ x \in subs /\ x.id # Key(inst)
                       \/ x = [inst EXCEPT !.id = Key(inst)]
    BY DEF SaveSub, Saved
<1> QED BY <1>1, <1>2 DEF Keyed

-----------------------------------------------------------------------------
(* The students' steps *)

LEMMA StudentBegins ==
    ASSUME FullInv, NEW t \in Tabs, NEW s \in Students,
           \/ SubmitBegin(t, s)
           \/ DeleteBegin(t, s)
           \/ \E target \in Ids : AddReviewBegin(t, s, target)
           \/ \E r \in reviews : ReviewBegin(t, r)
    PROVE  Tables' /\ StaffKnows' /\ StudentsKnow'
<1> USE DEF FullInv
<1>1. TypeOK
    BY DEF IInv
<1>2. UNCHANGED <<project, subs, reviews, now, opened, amiss>>
    BY DEF SubmitBegin, DeleteBegin, AddReviewBegin, ReviewBegin
<1>3. Tables'
    BY <1>2, TablesKept
<1>4. PICK r : /\ Receive(t, r)
               /\ r.op \in {"submit", "delete", "add", "review"}
               /\ r.op \in {"submit", "delete"} => project.state = "CS"
               /\ Undisturbed /\ r.op = "submit" => ~r.row.enough
  <2>1. CASE SubmitBegin(t, s)
    <3>1. PICK inst \in subs \cup {Unsaved(s, FALSE)} :
              Receive(t, [op |-> "submit", row |-> inst])
        BY <2>1 DEF SubmitBegin
    <3>2. project.state = "CS"
        BY <2>1 DEF SubmitBegin, AcceptingSubmissions
    <3>3. Undisturbed => ~inst.enough
        BY <3>2 DEF Tables, NotYet, Unsaved
    <3> QED BY <3>1, <3>2, <3>3
  <2>2. CASE DeleteBegin(t, s)
      BY <2>2 DEF DeleteBegin, AcceptingSubmissions
  <2>3. CASE \E target \in Ids : AddReviewBegin(t, s, target)
      BY <2>3 DEF AddReviewBegin
  <2>4. CASE \E r \in reviews : ReviewBegin(t, r)
      BY <2>4 DEF ReviewBegin
  <2> QED BY <2>1, <2>2, <2>3, <2>4
<1>5. StaffKnows' /\ StudentsKnow'
    BY <1>1, <1>2, <1>4, RequestBegins
<1> QED BY <1>3, <1>5

\* A submission is saved without credit, before the project is completed.
LEMMA SubmitEnds ==
    ASSUME FullInv, TypeOK', NEW t \in Tabs, SubmitEnd(t)
    PROVE  Tables' /\ StaffKnows' /\ StudentsKnow'
<1> USE DEF FullInv
<1>1. TypeOK /\ ReviewsJoinTwoRows
    BY DEF IInv
<1>2. Respond(t) /\ UNCHANGED <<project, reviews, now, opened, amiss>>
    BY DEF SubmitEnd
<1>3. StaffKnows' /\ StudentsKnow'
    BY <1>1, <1>2, RequestEnds
<1>4. Undisturbed => project.state \in {"CS", "PR"} /\ ~req[t].row.enough
    BY DEF SubmitEnd, StudentsKnow
<1>5. CASE UNCHANGED subs
    BY <1>2, <1>3, <1>5, TablesKept
<1>6. CASE SaveSub(req[t].row)
  <2>1. req[t].row \in SubInstance
      BY <1>1, RequestFields DEF SubmitEnd, TypeOK
  <2>2. Keyed' /\ (Undisturbed => \A x \in subs' : ~x.enough)
      BY <1>1, <1>4, <1>6, <2>1, SavedKeyed DEF Tables, NotYet
  <2>3. \A i : Owed(i)' \subseteq Owed(i)
      BY <1>2 DEF Owed
  <2>4. AssignedOnce'
      BY <1>1, <1>2, <2>3, FewerOwed DEF Tables
  <2>5. Spared({"state"}) /\ project.state = "CS"
          => \A r \in reviews' : r.key.optional
      BY <1>2 DEF Tables, NotYet
  <2>6. Tables'
      BY <1>2, <1>4, <2>2, <2>4, <2>5, TablesStep
  <2> QED BY <1>3, <2>6
<1> QED BY <1>5, <1>6 DEF SubmitEnd

\* A withdrawal comes before the project is completed.
LEMMA DeleteEnds ==
    ASSUME FullInv, TypeOK', NEW t \in Tabs, DeleteEnd(t)
    PROVE  /\ Tables' /\ StaffKnows' /\ StudentsKnow'
           /\ Undisturbed => project.state \in {"CS", "PR"}
           /\ \A i : Owed(i)' \subseteq Owed(i)
<1> USE DEF FullInv
<1>1. TypeOK /\ ReviewsJoinTwoRows
    BY DEF IInv
<1>2. /\ Respond(t) /\ UNCHANGED <<project, now, opened, amiss>>
      /\ subs' \subseteq subs /\ reviews' \subseteq reviews
    BY DEF DeleteEnd, Without
<1>3. StaffKnows' /\ StudentsKnow'
    BY <1>1, <1>2, RequestEnds
<1>4. Undisturbed => project.state \in {"CS", "PR"}
    BY DEF DeleteEnd, StudentsKnow
<1>5. \A i : Owed(i)' \subseteq Owed(i)
    BY <1>2 DEF Owed
<1>6. AssignedOnce'
    BY <1>1, <1>2, <1>5, FewerOwed DEF Tables
<1>7. Keyed' /\ (Undisturbed => \A x \in subs' : ~x.enough)
    BY <1>2, <1>4 DEF Tables, Keyed, NotYet
<1>8. Spared({"state"}) /\ project.state = "CS"
        => \A r \in reviews' : r.key.optional
    BY <1>2 DEF Tables, NotYet
<1>9. Tables'
    BY <1>2, <1>4, <1>6, <1>7, <1>8, TablesStep
<1> QED BY <1>3, <1>4, <1>5, <1>9

\* A review a student picks is optional, and a placeholder has no credit.
LEMMA AddReviewEnds ==
    ASSUME FullInv, TypeOK', NEW t \in Tabs, AddReviewEnd(t)
    PROVE  /\ Tables' /\ StaffKnows' /\ StudentsKnow'
           /\ \A i : Owed(i)' = Owed(i)
           /\ Ids \subseteq Ids'
           /\ \A x \in subs' : x.enough => x \in subs
           /\ \A x \in subs : x.enough => x \in subs'
<1> USE DEF FullInv
<1> DEFINE inst == [Unsaved(req[t].student, TRUE) EXCEPT !.id = req[t].id]
<1>1. TypeOK /\ ReviewsJoinTwoRows
    BY DEF IInv
<1>2. Respond(t) /\ UNCHANGED <<project, now, opened, amiss>>
    BY DEF AddReviewEnd
<1>3. StaffKnows' /\ StudentsKnow'
    BY <1>1, <1>2, RequestEnds
<1>4. \A r \in reviews' : r \in reviews \/ r.key.optional
  <2>1. \A u, i : \A r \in WithReview(u, i) : r \in reviews \/ r.key.optional
      BY PickedRows DEF OptionalKey
  <2> QED BY <2>1 DEF AddReviewEnd
<1>5. reviews \subseteq reviews'
    BY PickedRows DEF AddReviewEnd
<1>6. \A i : Owed(i)' = Owed(i)
    BY <1>4, <1>5 DEF Owed
<1>7. /\ Keyed'
      /\ \A x \in subs' : x.enough => x \in subs
      /\ \A x \in subs : x.enough => x \in subs'
  <2>1. CASE UNCHANGED subs
      BY <2>1 DEF Tables, Keyed
  <2>2. CASE req[t].id = NoId /\ SaveSub(inst)
    <3>1. inst \in SubInstance /\ ~inst.enough /\ inst.id = NoId
        BY <1>1, <2>2, RequestFields
           DEF AddReviewEnd, Unsaved, SubInstance, TypeOK
    <3>2. Keyed' /\ \A x \in subs' : x.enough => x \in subs
        BY <1>1, <2>2, <3>1, SavedKeyed DEF Tables
    <3>3. Key(inst) = nextId
        BY <3>1 DEF Key
    <3>4. \A x \in subs : x.id # nextId
        BY <1>1, BoundsAssumption
           DEF IInv, KeysBelowNext, TypeOK, SubRow, SubIds
    <3>5. subs \subseteq subs'
        BY <2>2, <3>3, <3>4 DEF SaveSub, Saved
    <3> QED BY <3>2, <3>5
  <2> QED BY <2>1, <2>2 DEF AddReviewEnd
<1>8. AssignedOnce'
    BY <1>1, <1>2, <1>6, FewerOwed DEF Tables
<1>9. Undisturbed /\ project.state = "CO" => CreditIsBacked'
  <2>1. \A i : HandedIn(i) \subseteq HandedIn(i)'
      BY <1>6 DEF HandedIn
  <2> QED BY <1>1, <1>2, <1>7, <2>1, StillBacked DEF Tables
<1>10. Spared({"state"}) /\ project.state = "CS"
         => \A r \in reviews' : r.key.optional
    BY <1>4 DEF Tables, NotYet
<1>11. Undisturbed /\ project.state # "CO" => \A x \in subs' : ~x.enough
    BY <1>7 DEF Tables, NotYet
<1>12. Tables'
    BY <1>2, <1>7, <1>8, <1>9, <1>10, <1>11, TablesStep
<1>13. Ids \subseteq Ids'
    BY SavingRequests
<1> QED BY <1>3, <1>6, <1>7, <1>12, <1>13

\* Handing a review in changes neither its ends nor whether it is mandatory.
LEMMA ReviewEnds ==
    ASSUME FullInv, TypeOK', NEW t \in Tabs, ReviewEnd(t)
    PROVE  /\ Tables' /\ StaffKnows' /\ StudentsKnow'
           /\ \A i : Owed(i)' = {} <=> Owed(i) = {}
<1> USE DEF FullInv
<1> DEFINE Handed(r) == IF r.key = req[t].key
                        THEN [r EXCEPT !.submitted = TRUE] ELSE r
<1>1. TypeOK /\ ReviewsJoinTwoRows
    BY DEF IInv
<1>2. /\ Respond(t) /\ UNCHANGED <<project, subs, now, opened, amiss>>
      /\ reviews' = {Handed(r) : r \in reviews}
    BY DEF ReviewEnd
<1>3. StaffKnows' /\ StudentsKnow'
    BY <1>1, <1>2, RequestEnds
<1>4. \A r \in reviews : /\ Handed(r).key = r.key
                         /\ r.submitted => Handed(r) = r
    BY <1>1 DEF TypeOK, ReviewRow
<1> HIDE DEF Handed
<1>5. \A i : Owed(i)' = {Handed(r) : r \in Owed(i)}
    BY <1>2, <1>4 DEF Owed
<1>6. AssignedOnce'
  <2> SUFFICES ASSUME NEW i, Spared({"again", "state"})'
               PROVE  /\ Cardinality(Owed(i)') <= NumPeers
                      /\ \A r, q \in Owed(i)' :
                            r.key.under = q.key.under => r = q
      BY DEF AssignedOnce
  <2>1. /\ Cardinality(Owed(i)) <= NumPeers
        /\ \A r, q \in Owed(i) : r.key.under = q.key.under => r = q
      BY <1>1, <1>2, Recorded, OwedEverywhere DEF Tables
  <2>2. \A r, q \in Owed(i)' : r.key.under = q.key.under => r = q
      BY <1>4, <1>5, <2>1 DEF Owed
  <2> DEFINE f == [r \in Owed(i) |-> Handed(r)]
  <2>3. f \in Surjection(Owed(i), Owed(i)')
    <3>1. f \in [Owed(i) -> Owed(i)']
        BY <1>5
    <3>2. \A q \in Owed(i)' : \E r \in Owed(i) : f[r] = q
        BY <1>5
    <3> QED BY <3>1, <3>2 DEF Surjection
  <2>4. /\ IsFiniteSet(Owed(i)')
        /\ Cardinality(Owed(i)') <= Cardinality(Owed(i))
      BY <1>1, <2>3, OwedFinite, FS_Surjection
  <2>5. Cardinality(Owed(i)) \in Nat /\ Cardinality(Owed(i)') \in Nat
      BY <1>1, <2>4, OwedFinite, FS_CardinalityType
  <2> QED BY <2>1, <2>2, <2>4, <2>5, NumPeersAssumption
<1>7. Keyed' /\ UNCHANGED subs
    BY <1>2 DEF Tables, Keyed
<1>8. Undisturbed /\ project.state = "CO" => CreditIsBacked'
  <2>1. \A i : HandedIn(i) \subseteq HandedIn(i)'
      BY <1>4, <1>5 DEF HandedIn, Owed
  <2> QED BY <1>1, <1>2, <2>1, StillBacked DEF Tables
<1>9. Spared({"state"}) /\ project.state = "CS"
        => \A r \in reviews' : r.key.optional
    BY <1>2, <1>4 DEF Tables, NotYet
<1>10. Undisturbed /\ project.state # "CO" => \A x \in subs' : ~x.enough
    BY <1>2 DEF Tables, NotYet
<1>11. Tables'
    BY <1>2, <1>6, <1>7, <1>8, <1>9, <1>10, TablesStep
<1>12. \A i : Owed(i)' = {} <=> Owed(i) = {}
    BY <1>5
<1> QED BY <1>3, <1>11, <1>12

\* Only optional reviews are dropped.
LEMMA ReviewDropped ==
    ASSUME FullInv, TypeOK', NEW s \in Students, NEW r \in reviews,
           DropReview(s, r)
    PROVE  /\ Tables' /\ StaffKnows' /\ StudentsKnow'
           /\ \A i : Owed(i)' = Owed(i)
<1> USE DEF FullInv
<1>1. TypeOK /\ ReviewsJoinTwoRows
    BY DEF IInv
<1>2. /\ UNCHANGED <<project, subs, req, now, opened, amiss>>
      /\ r.key.optional /\ reviews' = reviews \ {r}
    BY DEF DropReview
<1>3. StaffKnows' /\ StudentsKnow'
  <2>1. UNCHANGED <<Spared({"state"}), Undisturbed>>
      BY <1>2 DEF Spared, Undisturbed
  <2> QED BY <1>2, <2>1 DEF StaffKnows, StudentsKnow
<1>4. \A i : Owed(i)' = Owed(i)
    BY <1>2 DEF Owed
<1>5. Keyed' /\ AssignedOnce'
    BY <1>1, <1>2, <1>4, FewerOwed DEF Tables, Keyed
<1>6. Undisturbed /\ project.state = "CO" => CreditIsBacked'
  <2>1. \A i : HandedIn(i) \subseteq HandedIn(i)'
      BY <1>4 DEF HandedIn
  <2> QED BY <1>1, <1>2, <2>1, StillBacked DEF Tables
<1>7. Tables'
    BY <1>2, <1>5, <1>6, TablesStep DEF Tables, NotYet
<1> QED BY <1>3, <1>4, <1>7

-----------------------------------------------------------------------------
(* The staff's steps *)

\* The other requests carry on with what they have read.
LEMMA StaffEnds ==
    ASSUME TypeOK, NEW f \in Staff, Respond(f)
    PROVE  \A q \in Tabs \cup Staff : req'[q] = Idle \/ req'[q] = req[q]
BY OtherRequests

LEMMA StaffBegins ==
    ASSUME FullInv, NEW f \in Staff,
           \/ AssignBegin(f) \/ ScoreBegin(f) \/ ExtendBegin(f)
           \/ \E field \in PatchFields : PatchBegin(f, field)
    PROVE  /\ Tables' /\ StaffKnows' /\ StudentsKnow'
           /\ UNCHANGED <<project, subs, reviews>>
<1> USE DEF FullInv
<1>1. TypeOK
    BY DEF IInv
<1>2. UNCHANGED <<project, subs, reviews, now, opened, amiss>>
    BY DEF AssignBegin, ScoreBegin, ExtendBegin, PatchBegin
<1>3. Tables'
    BY <1>2, TablesKept
<1>4. Undisturbed /\ project.state = "PR"
        => project.peer_review_due_date >= opened + ReviewWindow
    BY DEF Tables, FullReviewWindow, Undisturbed
<1>5. ASSUME Undisturbed, project.state = "PR",
             project.peer_review_due_date <= now
      PROVE  opened < now
  <2>1. /\ project.peer_review_due_date \in Nat
        /\ opened \in Nat /\ now \in Nat
      BY <1>1, BoundsAssumption DEF TypeOK, ProjectRow, Times
  <2> QED BY <1>4, <1>5, <2>1 DEF ReviewWindow
<1>6. PICK r : /\ Receive(f, r)
               /\ r.op \in {"assign", "score", "extend", "patch"}
               /\ r.project = project
               /\ r.op = "assign" => project.state = "CS"
               /\ r.op = "score" => /\ project.state = "PR"
                                    /\ project.peer_review_due_date <= now
  <2>1. CASE AssignBegin(f) \/ ScoreBegin(f) \/ ExtendBegin(f)
      BY <2>1 DEF AssignBegin, ScoreBegin, ExtendBegin, Load
  <2>2. ASSUME NEW field \in PatchFields, PatchBegin(f, field)
        PROVE  \E r : Receive(f, r) /\ r.op = "patch" /\ r.project = project
      BY <2>2 DEF PatchBegin
  <2> QED BY <2>1, <2>2
<1>7. StaffKnows' /\ StudentsKnow'
    BY <1>1, <1>2, <1>4, <1>5, <1>6, RequestBegins
<1> QED BY <1>2, <1>3, <1>7

\* Before the assignment nobody owes a review, so the draw is all there is.
LEMMA NewlyOwed ==
    ASSUME TypeOK, \A r \in reviews : r.key.optional,
           NEW a \in Assignments(Ids),
           reviews' = reviews \cup NewReviews(a), NEW i
    PROVE  /\ Owed(i) = {}
           /\ i \in Ids =>
                /\ Owed(i)' = {[key |-> MandatoryKey(u, i), submitted |-> FALSE] :
                                  u \in a[i]}
                /\ Cardinality(Owed(i)') = NumPeers
                /\ IsFiniteSet(Owed(i)')
           /\ i \notin Ids => Owed(i)' = {}
<1> DEFINE New(u, j) == [key |-> MandatoryKey(u, j), submitted |-> FALSE]
<1>1. a \in [Ids -> SUBSET Ids] /\ Ids \subseteq SubIds
    BY DEF Assignments, Draws, Ids, TypeOK, SubRow
<1>2. \A j : Owed(j) = {}
    BY DEF Owed
<1>3. \A u, j : /\ New(u, j).key.under = u /\ New(u, j).key.reviewer = j
                /\ ~New(u, j).key.optional
    BY DEF MandatoryKey
<1>4. NewReviews(a) = UNION {{New(u, j) : u \in a[j]} : j \in Ids}
    BY <1>1 DEF NewReviews
<1> HIDE DEF New
<1>5. Owed(i)' = {r \in NewReviews(a) : r.key.reviewer = i}
  <2>1. \A r \in NewReviews(a) : ~r.key.optional
      BY <1>3, <1>4
  <2> QED BY <1>2, <2>1 DEF Owed
<1>6. CASE i \notin Ids
    BY <1>2, <1>3, <1>4, <1>5, <1>6
<1>7. CASE i \in Ids
  <2>1. Owed(i)' = {New(u, i) : u \in a[i]}
      BY <1>3, <1>4, <1>5, <1>7
  <2>2. IsFiniteSet(a[i]) /\ Cardinality(a[i]) = NumPeers
    <3>1. IsFiniteSet(SubIds)
        BY FS_Interval, BoundsAssumption DEF SubIds
    <3>2. a[i] \subseteq SubIds
        BY <1>1, <1>7
    <3> QED BY <1>7, <3>1, <3>2, FS_Subset DEF Assignments, Draws
  <2> DEFINE f == [u \in a[i] |-> New(u, i)]
  <2>3. f \in Bijection(a[i], Owed(i)')
    <3>1. f \in [a[i] -> Owed(i)']
        BY <2>1
    <3>2. \A u, v \in a[i] : f[u] = f[v] => u = v
        BY <1>3
    <3>3. \A q \in Owed(i)' : \E u \in a[i] : f[u] = q
        BY <2>1
    <3> QED BY <3>1, <3>2, <3>3
               DEF Bijection, Injection, Surjection, IsInjective
  <2>4. IsFiniteSet(Owed(i)') /\ Cardinality(Owed(i)') = NumPeers
      BY <2>2, <2>3, FS_Bijection DEF ExistsBijection
  <2> QED BY <1>2, <1>7, <2>1, <2>4 DEF New
<1> QED BY <1>2, <1>6, <1>7

\* Reviews are assigned to rows that owe none, NumPeers to each, unless the
\* request has read the project in an earlier state; either way they leave
\* a full window.
LEMMA AssignEnds ==
    ASSUME FullInv, TypeOK', NEW f \in Staff, AssignEnd(f)
    PROVE  /\ Tables' /\ StaffKnows' /\ StudentsKnow'
           /\ \/ UNCHANGED <<project, subs, reviews>>
              \/ Spared({"again", "state"})' =>
                   /\ project.state = "CS" /\ project'.state = "PR"
                   /\ Cardinality(Ids) > NumPeers
                   /\ {i \in Ids' : Owed(i)' # {}} = Ids
                   /\ UNCHANGED subs
<1> USE DEF FullInv
<1>1. TypeOK /\ ReviewsJoinTwoRows
    BY DEF IInv
<1>2. /\ Respond(f) /\ UNCHANGED <<subs, nextId, now>>
      /\ req[f].project.state = "CS" /\ req[f].op = "assign"
      /\ req[f].project \in ProjectRow
    BY <1>1, RequestFields DEF AssignEnd, StaffKnows, TypeOK
<1>3. \A q \in Tabs \cup Staff : req'[q] = Idle \/ req'[q] = req[q]
    BY <1>1, <1>2, StaffEnds
<1>4. CASE UNCHANGED <<project, reviews, opened, amiss>>
    BY <1>1, <1>2, <1>4, TablesKept, RequestEnds
<1>5. ASSUME NEW a \in Assignments(Ids), ~(Cardinality(Ids) <= NumPeers),
             reviews' = reviews \cup NewReviews(a),
             project' = Opened(req[f].project), opened' = now,
             amiss' = amiss \cup Belated(f, "again")
      PROVE  /\ Tables' /\ StaffKnows' /\ StudentsKnow'
             /\ Spared({"again", "state"})' =>
                   /\ project.state = "CS" /\ project'.state = "PR"
                   /\ Cardinality(Ids) > NumPeers
                   /\ {i \in Ids' : Owed(i)' # {}} = Ids
  <2>1. /\ project'.state = "PR"
        /\ project'.peer_review_due_date = now + ReviewWindow
      BY <1>2, <1>5 DEF Opened, ProjectRow
  <2>2. \A causes : Spared(causes)' => Spared(causes)
      BY <1>5, Recorded
  <2>3. Undisturbed' => Undisturbed
      BY <2>2 DEF Undisturbed
  <2>4. Undisturbed => \/ project.state = "CS"
                       \/ project.state = "PR" /\ opened = now
      BY <1>2 DEF StaffKnows
  <2>5. StudentsKnow'
      BY <1>3, <1>5, <2>1, <2>3, <1>2 DEF StudentsKnow, Idle
  <2>6. StaffKnows'
    <3>1. ASSUME NEW g \in Staff
          PROVE  /\ req'[g].op = "assign" => req'[g].project.state = "CS"
                 /\ req'[g].op = "score" => req'[g].project.state = "PR"
        BY <1>3 DEF StaffKnows, Idle
    <3>2. ASSUME NEW g \in Staff, Undisturbed
          PROVE  /\ req'[g].op # "score"
                 /\ req'[g].op = "extend" /\ req'[g].project.state = "PR" =>
                      req'[g].project.peer_review_due_date
                         >= now + ReviewWindow
      <4>1. opened \in Nat /\ now \in Nat
          BY <1>1 DEF TypeOK
      <4>2. CASE project.state = "CS"
        <5>1. req[g].op \in {"score", "extend"}
                => req[g].project.state = "CS"
            BY <3>2, <4>2, Causal DEF StaffKnows
        <5> QED BY <1>3, <5>1 DEF StaffKnows, Idle
      <4>3. CASE opened = now
          BY <1>3, <3>2, <4>1, <4>3 DEF StaffKnows, Idle
      <4> QED BY <2>4, <3>2, <4>2, <4>3
    <3> QED BY <1>2, <1>5, <2>1, <2>3, <3>1, <3>2 DEF StaffKnows
  <2>7. Spared({"again", "state"})' =>
            /\ project.state = "CS" /\ \A r \in reviews : r.key.optional
    <3>1. Spared({"again", "state"})' => project.state = "CS"
        BY <1>2, <1>5 DEF Spared, Belated
    <3>2. Spared({"again", "state"})' => Spared({"state"})
        BY <2>2, Causal
    <3> QED BY <3>1, <3>2 DEF Tables, NotYet
  <2>8. ASSUME Spared({"again", "state"})'
        PROVE  \A i : /\ Owed(i) = {}
                      /\ i \in Ids =>
                           /\ \A r \in Owed(i)' :
                                 \E u : r = [key |-> MandatoryKey(u, i),
                                             submitted |-> FALSE]
                           /\ Cardinality(Owed(i)') = NumPeers
      BY <1>1, <1>5, <2>7, <2>8, NewlyOwed
  <2>9. \A u, i : MandatoryKey(u, i).under = u
      BY DEF MandatoryKey
  <2>10. Ids' = Ids
      BY <1>2 DEF Ids
  <2>11. AssignedOnce'
    <3> SUFFICES ASSUME NEW i \in Ids, Spared({"again", "state"})'
                 PROVE  /\ Cardinality(Owed(i)') <= NumPeers
                        /\ \A r, q \in Owed(i)' :
                              r.key.under = q.key.under => r = q
        BY <2>10 DEF AssignedOnce
    <3>1. Cardinality(Owed(i)') <= NumPeers
        BY <2>8, NumPeersAssumption
    <3>2. ASSUME NEW r \in Owed(i)', NEW q \in Owed(i)',
                 r.key.under = q.key.under
          PROVE  r = q
      <4>1. PICK u : r = [key |-> MandatoryKey(u, i), submitted |-> FALSE]
          BY <2>8
      <4>2. PICK v : q = [key |-> MandatoryKey(v, i), submitted |-> FALSE]
          BY <2>8
      <4>3. r.key.under = u /\ q.key.under = v
          BY <2>9, <4>1, <4>2
      <4> QED BY <3>2, <4>1, <4>2, <4>3
    <3> QED BY <3>1, <3>2
  <2>12. Keyed' /\ NotYet'
    <3>1. Undisturbed => \A x \in subs : ~x.enough
        BY <2>4 DEF Tables, NotYet
    <3> QED BY <1>2, <2>1, <2>3, <3>1 DEF Tables, Keyed, NotYet
  <2>13. CreditIsBacked' /\ FullReviewWindow'
      BY <1>1, <1>5, <2>1
         DEF CreditIsBacked, FullReviewWindow, ReviewWindow, TypeOK
  <2>14. ASSUME Spared({"again", "state"})'
         PROVE  \A i \in Ids : Owed(i)' # {}
    <3> SUFFICES ASSUME NEW i \in Ids, Owed(i)' = {} PROVE FALSE
        OBVIOUS
    <3>1. Cardinality(Owed(i)') = 0
        BY FS_EmptySet
    <3> QED BY <2>8, <2>14, <3>1, NumPeersAssumption
  <2>15. Cardinality(Ids) > NumPeers
    <3>1. IsFiniteSet(SubIds)
        BY FS_Interval, BoundsAssumption DEF SubIds
    <3>2. Ids \subseteq SubIds
        BY <1>1 DEF Ids, TypeOK, SubRow
    <3>3. Cardinality(Ids) \in Nat
        BY <3>1, <3>2, FS_Subset, FS_CardinalityType
    <3> QED BY <1>5, <3>3, NumPeersAssumption
  <2> QED BY <2>1, <2>5, <2>6, <2>7, <2>10, <2>11, <2>12, <2>13, <2>14, <2>15
          DEF Tables
<1>6. CASE Cardinality(Ids) <= NumPeers
    BY <1>2, <1>4, <1>6 DEF AssignEnd
<1>7. CASE ~(Cardinality(Ids) <= NumPeers)
  <2>1. PICK a \in Assignments(Ids) :
            /\ reviews' = reviews \cup NewReviews(a)
            /\ project' = Opened(req[f].project)
            /\ opened' = now
            /\ amiss' = amiss \cup Belated(f, "again")
      BY <1>7 DEF AssignEnd
  <2> QED BY <1>2, <1>5, <1>7, <2>1
<1> QED BY <1>6, <1>7

\* Scoring waits for the end of a window that is at least a tick long, so no
\* submission or withdrawal is in flight, and it credits what was handed in.
LEMMA ScoreEnds ==
    ASSUME FullInv, TypeOK', NEW f \in Staff, ScoreEnd(f)
    PROVE  /\ Tables' /\ StaffKnows' /\ StudentsKnow'
           /\ \/ UNCHANGED <<project, subs, reviews>>
              \/ amiss' = {} =>
                   /\ project.state = "PR" /\ project'.state = "CO"
                   /\ Ids' = Ids /\ UNCHANGED reviews
                   /\ \A x \in subs' : x.enough => ReviewedEnough(x.id)
<1> USE DEF FullInv
<1>1. TypeOK /\ ReviewsJoinTwoRows
    BY DEF IInv
<1>2. /\ Respond(f) /\ UNCHANGED <<reviews, nextId, now, opened>>
      /\ req[f].project.state = "PR" /\ req[f].op = "score"
      /\ req[f].project \in ProjectRow
    BY <1>1, RequestFields DEF ScoreEnd, StaffKnows, TypeOK
<1>3. \A q \in Tabs \cup Staff : req'[q] = Idle \/ req'[q] = req[q]
    BY <1>1, <1>2, StaffEnds
<1>4. CASE UNCHANGED <<project, subs, amiss>>
    BY <1>1, <1>2, <1>4, TablesKept, RequestEnds
<1>5. ASSUME subs' = Scored, project' = [req[f].project EXCEPT !.state = "CO"],
             amiss' = amiss \cup Belated(f, "again")
      PROVE  /\ Tables' /\ StaffKnows' /\ StudentsKnow'
             /\ amiss' = {} =>
                  /\ project.state = "PR" /\ project'.state = "CO"
                  /\ Ids' = Ids
                  /\ \A x \in subs' : x.enough => ReviewedEnough(x.id)
  <2>1. project'.state = "CO"
      BY <1>2, <1>5 DEF ProjectRow
  <2>2. amiss \subseteq amiss' /\ (Undisturbed' => Undisturbed)
    <3>1. amiss \subseteq amiss'
        BY <1>5
    <3> QED BY <3>1, Recorded DEF Undisturbed
  <2>3. Undisturbed => opened < now /\ project.state \in {"PR", "CO"}
    <3>1. Undisturbed => project.state # "CS"
        BY <1>2, Causal DEF StaffKnows
    <3> QED BY <1>2, <3>1, Causal DEF StaffKnows, Tables, NotYet
  <2>4. opened \in Nat /\ now \in Nat
      BY <1>1 DEF TypeOK
  <2>5. StudentsKnow'
    <3>1. Undisturbed => \A t \in Tabs : req[t].op \notin {"submit", "delete"}
        BY <2>3, <2>4 DEF StudentsKnow
    <3> QED BY <1>3, <2>2, <3>1 DEF StudentsKnow, Idle
  <2>6. StaffKnows'
    <3>1. ASSUME NEW g \in Staff
          PROVE  /\ req'[g].op = "assign" => req'[g].project.state = "CS"
                 /\ req'[g].op = "score" => req'[g].project.state = "PR"
        BY <1>3 DEF StaffKnows, Idle
    <3>2. ASSUME NEW g \in Staff, Undisturbed
          PROVE  /\ req'[g].op # "assign"
                 /\ req'[g].op = "extend" /\ req'[g].project.state = "PR" =>
                      req'[g].project.peer_review_due_date
                         >= opened + ReviewWindow
        BY <1>3, <2>3, <2>4, <3>2 DEF StaffKnows, Idle
    <3> QED BY <1>2, <2>1, <2>2, <2>3, <3>1, <3>2 DEF StaffKnows
  <2>7. Ids' = Ids
      BY <1>1, <1>5, ScoredKeys DEF Ids
  <2>8. ASSUME Undisturbed
        PROVE  \A x \in subs' : x.enough => ReviewedEnough(x.id)
    <3> SUFFICES ASSUME NEW x \in subs', x.enough
                 PROVE  ReviewedEnough(x.id)
        OBVIOUS
    <3>1. PICK y \in subs :
              x = IF y.id \in UnderEvaluation
                  THEN [y EXCEPT !.enough = ReviewedEnough(y.id)] ELSE y
        BY <1>5 DEF Scored
    <3>2. CASE y.id \in UnderEvaluation
      <4>1. ASSUME NEW b \in BOOLEAN
            PROVE  /\ [y EXCEPT !.enough = b].id = y.id
                   /\ [y EXCEPT !.enough = b].enough = b
          BY <1>1 DEF TypeOK, SubRow
      <4>2. ReviewedEnough(y.id) \in BOOLEAN
          BY DEF ReviewedEnough
      <4>3. x.id = y.id /\ x.enough = ReviewedEnough(y.id)
          BY <3>1, <3>2, <4>1, <4>2
      <4> QED BY <4>3
    <3>3. CASE y.id \notin UnderEvaluation
      <4>1. x = y
          BY <3>1, <3>3
      <4>2. project.state = "CO"
          BY <2>3, <2>8, <4>1 DEF Tables, NotYet
      <4> QED BY <2>8, <4>1, <4>2 DEF Tables, CreditIsBacked, Undisturbed
    <3> QED BY <3>2, <3>3
  <2>9. Keyed'
    <3> SUFFICES ASSUME NEW x \in subs', NEW z \in subs', x.id = z.id
                 PROVE  x = z
        BY DEF Keyed
    <3>1. PICK y \in subs :
              x = IF y.id \in UnderEvaluation
                  THEN [y EXCEPT !.enough = ReviewedEnough(y.id)] ELSE y
        BY <1>5 DEF Scored
    <3>2. PICK w \in subs :
              z = IF w.id \in UnderEvaluation
                  THEN [w EXCEPT !.enough = ReviewedEnough(w.id)] ELSE w
        BY <1>5 DEF Scored
    <3>3. x.id = y.id /\ z.id = w.id
        BY <1>1, <3>1, <3>2 DEF TypeOK, SubRow
    <3>4. y = w
        BY <3>3 DEF Tables, Keyed
    <3> QED BY <3>1, <3>2, <3>4
  <2>10. \A i : Owed(i)' = Owed(i) /\ ReviewedEnough(i)' = ReviewedEnough(i)
      BY <1>2 DEF Owed, ReviewedEnough, HandedIn
  <2>11. AssignedOnce'
      BY <1>1, <2>2, <2>10, FewerOwed DEF Tables
  <2>12. NotYet' /\ CreditIsBacked' /\ FullReviewWindow'
      BY <2>1, <2>2, <2>8, <2>10
         DEF NotYet, CreditIsBacked, FullReviewWindow, Undisturbed
  <2>13. amiss' = {} => project.state = "PR" /\ Undisturbed
      BY <1>2, <1>5, Causal DEF Belated
  <2> QED BY <2>1, <2>5, <2>6, <2>7, <2>8, <2>9, <2>11, <2>12, <2>13
          DEF Tables
<1> QED BY <1>2, <1>4, <1>5 DEF ScoreEnd

\* An extension moves the dates of the project it has read, and those only.
LEMMA ExtendEnds ==
    ASSUME FullInv, TypeOK', NEW f \in Staff, ExtendEnd(f)
    PROVE  /\ Tables' /\ StaffKnows' /\ StudentsKnow'
           /\ project'.state = project.state
           /\ UNCHANGED <<subs, reviews>>
<1> USE DEF FullInv
<1>1. TypeOK /\ ReviewsJoinTwoRows
    BY DEF IInv
<1>2. /\ Respond(f) /\ UNCHANGED <<subs, reviews, now, opened>>
      /\ req[f].op = "extend" /\ req[f].project \in ProjectRow
      /\ project' = Extended(req[f].project)
      /\ amiss' = amiss \cup Belated(f, "dates")
    BY <1>1, RequestFields DEF ExtendEnd, TypeOK
<1>3. \A q \in Tabs \cup Staff : req'[q] = Idle \/ req'[q] = req[q]
    BY <1>1, <1>2, StaffEnds
<1>4. /\ project'.state = project.state
      /\ project'.peer_review_due_date
           = req[f].project.peer_review_due_date + 1
    BY <1>1, <1>2 DEF Extended, TypeOK, ProjectRow
<1>5. /\ amiss \subseteq amiss' /\ (Undisturbed' => Undisturbed)
      /\ Spared({"state"})' => Spared({"state"})
  <2>1. amiss \subseteq amiss'
      BY <1>2
  <2> QED BY <2>1, Recorded DEF Undisturbed
<1>6. StudentsKnow'
    BY <1>2, <1>3, <1>4, <1>5 DEF StudentsKnow, Idle
<1>7. StaffKnows'
    BY <1>2, <1>3, <1>4, <1>5 DEF StaffKnows, Idle
<1>8. \A i : Owed(i)' = Owed(i) /\ ReviewedEnough(i)' = ReviewedEnough(i)
    BY <1>2 DEF Owed, ReviewedEnough, HandedIn
<1>9. AssignedOnce'
    BY <1>1, <1>5, <1>8, FewerOwed DEF Tables
<1>10. Keyed' /\ NotYet' /\ CreditIsBacked'
    BY <1>2, <1>4, <1>5, <1>8
       DEF Tables, Keyed, NotYet, CreditIsBacked, Undisturbed
<1>11. FullReviewWindow'
  <2> SUFFICES ASSUME project.state = "PR", Undisturbed'
               PROVE  project'.peer_review_due_date >= opened + ReviewWindow
      BY <1>2, <1>4 DEF FullReviewWindow, Undisturbed
  <2>1. req[f].project.state = "PR"
      BY <1>2 DEF Undisturbed, Spared, Belated
  <2>2. req[f].project.peer_review_due_date >= opened + ReviewWindow
      BY <1>2, <1>5, <2>1 DEF StaffKnows
  <2>3. req[f].project.peer_review_due_date \in Nat /\ opened \in Nat
      BY <1>1, <1>2, BoundsAssumption DEF ProjectRow, Times, TypeOK
  <2> QED BY <1>4, <2>2, <2>3 DEF ReviewWindow
<1> QED BY <1>2, <1>4, <1>6, <1>7, <1>9, <1>10, <1>11 DEF Tables

\* A save of the API that leaves the state and the review date as they are
\* disturbs nothing, however old the rest of what it writes.
LEMMA PatchEnds ==
    ASSUME FullInv, TypeOK', NEW f \in Staff, PatchEnd(f)
    PROVE  /\ Tables' /\ StaffKnows' /\ StudentsKnow'
           /\ amiss' = {} => project'.state = project.state
           /\ UNCHANGED <<subs, reviews>>
<1> USE DEF FullInv
<1>1. TypeOK /\ ReviewsJoinTwoRows
    BY DEF IInv
<1>2. /\ Respond(f) /\ UNCHANGED <<subs, reviews, now, opened>>
      /\ amiss' = amiss
           \cup (IF project'.state = project.state THEN {} ELSE {"state"})
           \cup (IF project'.peer_review_due_date
                       = project.peer_review_due_date
                 THEN {} ELSE {"dates"})
    BY DEF PatchEnd
<1>3. \A q \in Tabs \cup Staff : req'[q] = Idle \/ req'[q] = req[q]
    BY <1>1, <1>2, StaffEnds
<1>4. amiss \subseteq amiss'
    BY <1>2
<1>5. /\ Spared({"state"})' =>
           Spared({"state"}) /\ project'.state = project.state
      /\ Undisturbed' =>
           /\ Undisturbed /\ project'.state = project.state
           /\ project'.peer_review_due_date = project.peer_review_due_date
      /\ amiss' = {} => project'.state = project.state
    BY <1>2 DEF Spared, Undisturbed
<1>6. StudentsKnow'
    BY <1>2, <1>3, <1>5 DEF StudentsKnow, Idle
<1>7. StaffKnows'
    BY <1>2, <1>3, <1>5 DEF StaffKnows, Idle
<1>8. \A i : Owed(i)' = Owed(i) /\ ReviewedEnough(i)' = ReviewedEnough(i)
    BY <1>2 DEF Owed, ReviewedEnough, HandedIn
<1>9. AssignedOnce'
    BY <1>1, <1>4, <1>8, FewerOwed DEF Tables
<1>10. Keyed' /\ NotYet' /\ CreditIsBacked' /\ FullReviewWindow'
    BY <1>2, <1>5, <1>8
       DEF Tables, Keyed, NotYet, CreditIsBacked, FullReviewWindow, Undisturbed
<1> QED BY <1>2, <1>5, <1>6, <1>7, <1>9, <1>10 DEF Tables

-----------------------------------------------------------------------------
(* The invariant of all requests, and the round of review                  *)

LEMMA InitFull == Init => FullInv
<1> SUFFICES ASSUME Init PROVE FullInv
    OBVIOUS
<1>1. IInv
    BY InitInv
<1>2. Keyed /\ NotYet /\ AssignedOnce /\ CreditIsBacked /\ FullReviewWindow
    BY DEF Init, Keyed, NotYet, AssignedOnce, Ids, CreditIsBacked,
           FullReviewWindow
<1>3. StaffKnows /\ StudentsKnow
    BY DEF Init, StaffKnows, StudentsKnow, Idle
<1> QED BY <1>1, <1>2, <1>3 DEF FullInv, Tables

Roster == {i \in Ids : Owed(i) # {}}
Credited == {x.id : x \in {y \in subs : y.enough}}

\* Only rows of the project owe reviews.
LEMMA RosterOfOwed ==
    ASSUME ReviewsJoinTwoRows
    PROVE  \A i : i \in Roster <=> Owed(i) # {}
BY DEF Roster, Owed, ReviewsJoinTwoRows

\* What a step is in the round: nothing, or one of the round's own steps.
RoundStep ==
    \/ UNCHANGED <<project.state, Roster, Credited>>
    \/ /\ project.state = "CS" /\ project'.state = "PR"
       /\ Roster' \subseteq SubIds /\ Cardinality(Roster') > NumPeers
       /\ UNCHANGED Credited
    \/ /\ project.state = "PR" /\ Roster' \subseteq Roster
       /\ UNCHANGED <<project.state, Credited>>
    \/ /\ project.state = "PR" /\ project'.state = "CO"
       /\ Credited' \subseteq Roster /\ UNCHANGED Roster

LEMMA QuietRound ==
    ASSUME UNCHANGED <<project.state, subs, reviews>>
    PROVE  RoundStep
<1>1. Ids' = Ids /\ \A i : Owed(i)' = Owed(i)
    BY DEF Ids, Owed
<1>2. UNCHANGED <<Roster, Credited>>
    BY <1>1 DEF Roster, Credited
<1> QED BY <1>2 DEF RoundStep

LEMMA StudentSteps ==
    ASSUME FullInv, IInv', StudentNext
    PROVE  /\ Tables' /\ StaffKnows' /\ StudentsKnow'
           /\ amiss' = {} => amiss = {} /\ RoundStep
<1>1. /\ TypeOK' /\ \A i : i \in Roster <=> Owed(i) # {}
      /\ \A i : i \in Roster' <=> Owed(i)' # {}
  <2>1. ReviewsJoinTwoRows /\ ReviewsJoinTwoRows'
      BY DEF FullInv, IInv
  <2>2. \A i : i \in Roster' <=> Owed(i)' # {}
      BY <2>1 DEF Roster, Owed, ReviewsJoinTwoRows, Ids
  <2> QED BY <2>1, <2>2, RosterOfOwed DEF IInv
<1>2. PICK t \in Tabs :
        \/ \E s \in Students :
              \/ SubmitBegin(t, s)
              \/ DeleteBegin(t, s)
              \/ \E target \in Ids : AddReviewBegin(t, s, target)
        \/ \E r \in reviews : ReviewBegin(t, r)
        \/ SubmitEnd(t)
        \/ DeleteEnd(t)
        \/ AddReviewEnd(t)
        \/ ReviewEnd(t)
    BY DEF StudentNext
<1>3. ASSUME NEW s \in Students,
             \/ SubmitBegin(t, s)
             \/ DeleteBegin(t, s)
             \/ \E target \in Ids : AddReviewBegin(t, s, target)
      PROVE  /\ Tables' /\ StaffKnows' /\ StudentsKnow'
             /\ amiss' = {} => amiss = {} /\ RoundStep
  <2>1. UNCHANGED <<project, subs, reviews, amiss>>
      BY <1>3 DEF SubmitBegin, DeleteBegin, AddReviewBegin
  <2>2. RoundStep
      BY <2>1, QuietRound
  <2> QED BY <1>3, <2>1, <2>2, StudentBegins
<1>4. ASSUME NEW r \in reviews, ReviewBegin(t, r)
      PROVE  /\ Tables' /\ StaffKnows' /\ StudentsKnow'
             /\ amiss' = {} => amiss = {} /\ RoundStep
  <2>1. UNCHANGED <<project, subs, reviews, now, opened, amiss>>
      BY <1>4 DEF ReviewBegin
  <2>2. RoundStep
      BY <2>1, QuietRound
  <2>3. StaffKnows' /\ StudentsKnow'
      BY <1>4, <2>1, RequestBegins DEF FullInv, IInv, ReviewBegin
  <2> QED BY <2>1, <2>2, <2>3, TablesKept DEF FullInv
<1>5. CASE SubmitEnd(t)
  <2>1. Tables' /\ StaffKnows' /\ StudentsKnow'
      BY <1>1, <1>5, SubmitEnds
  <2>2. UNCHANGED <<project, reviews, amiss>>
      BY <1>5 DEF SubmitEnd
  <2>3. ASSUME amiss = {} PROVE Credited = {} /\ Credited' = {}
    <3>1. Undisturbed /\ Undisturbed'
        BY <2>2, <2>3 DEF Undisturbed, Spared
    <3>2. project.state \in {"CS", "PR"}
        BY <1>5, <3>1 DEF SubmitEnd, FullInv, StudentsKnow
    <3> QED BY <2>1, <2>2, <3>1, <3>2 DEF FullInv, Tables, NotYet, Credited
  <2>4. UNCHANGED Roster
      BY <1>1, <2>2 DEF Owed
  <2> QED BY <2>1, <2>2, <2>3, <2>4 DEF RoundStep
<1>6. CASE DeleteEnd(t)
  <2>1. /\ Tables' /\ StaffKnows' /\ StudentsKnow'
        /\ Undisturbed => project.state \in {"CS", "PR"}
        /\ \A i : Owed(i)' \subseteq Owed(i)
      BY <1>1, <1>6, DeleteEnds
  <2>2. UNCHANGED <<project, amiss>>
      BY <1>6 DEF DeleteEnd
  <2>3. Roster' \subseteq Roster
      BY <1>1, <2>1
  <2>4. ASSUME amiss = {} PROVE RoundStep
    <3>1. Undisturbed /\ Undisturbed' /\ Spared({"state"})
        BY <2>2, <2>4 DEF Undisturbed, Spared
    <3>2. Credited = {} /\ Credited' = {}
        BY <2>1, <2>2, <3>1 DEF FullInv, Tables, NotYet, Credited
    <3>3. CASE project.state = "CS"
      <4>1. Roster = {}
          BY <3>1, <3>3 DEF Roster, Owed, FullInv, Tables, NotYet
      <4> QED BY <2>1, <2>2, <2>3, <3>2, <4>1 DEF RoundStep
    <3> QED BY <2>1, <2>2, <2>3, <3>1, <3>2, <3>3 DEF RoundStep
  <2> QED BY <2>1, <2>2, <2>4
<1>7. CASE AddReviewEnd(t)
  <2>1. /\ Tables' /\ StaffKnows' /\ StudentsKnow'
        /\ \A i : Owed(i)' = Owed(i)
        /\ \A x \in subs' : x.enough => x \in subs
        /\ \A x \in subs : x.enough => x \in subs'
      BY <1>1, <1>7, AddReviewEnds
  <2>2. UNCHANGED Credited
      BY <2>1 DEF Credited
  <2> QED BY <1>1, <1>7, <2>1, <2>2 DEF RoundStep, AddReviewEnd
<1>8. CASE ReviewEnd(t)
  <2>1. /\ Tables' /\ StaffKnows' /\ StudentsKnow'
        /\ \A i : Owed(i)' = {} <=> Owed(i) = {}
      BY <1>1, <1>8, ReviewEnds
  <2>2. UNCHANGED Credited
      BY <1>8 DEF Credited, ReviewEnd
  <2> QED BY <1>1, <1>8, <2>1, <2>2 DEF RoundStep, ReviewEnd
<1> QED BY <1>2, <1>3, <1>4, <1>5, <1>6, <1>7, <1>8

LEMMA StaffSteps ==
    ASSUME FullInv, IInv', StaffNext
    PROVE  /\ Tables' /\ StaffKnows' /\ StudentsKnow'
           /\ amiss' = {} => amiss = {} /\ RoundStep
<1>1. TypeOK /\ TypeOK' /\ ReviewsJoinTwoRows
    BY DEF FullInv, IInv
<1>2. UNCHANGED <<project.state, subs, reviews>> => RoundStep
    BY QuietRound
<1>3. PICK f \in Staff :
        \/ \/ AssignBegin(f) \/ ScoreBegin(f) \/ ExtendBegin(f)
           \/ \E field \in PatchFields : PatchBegin(f, field)
        \/ AssignEnd(f)
        \/ ScoreEnd(f)
        \/ ExtendEnd(f)
        \/ PatchEnd(f)
    BY DEF StaffNext
<1>4. amiss' = {} => amiss = {}
  <2>1. amiss \subseteq amiss'
      BY <1>3 DEF AssignBegin, ScoreBegin, ExtendBegin, PatchBegin, AssignEnd,
                  ScoreEnd, ExtendEnd, PatchEnd
  <2> QED BY <2>1
<1>5. CASE \/ AssignBegin(f) \/ ScoreBegin(f) \/ ExtendBegin(f)
           \/ \E field \in PatchFields : PatchBegin(f, field)
    BY <1>2, <1>4, <1>5, StaffBegins
<1>6. CASE AssignEnd(f)
  <2>1. /\ Tables' /\ StaffKnows' /\ StudentsKnow'
        /\ \/ UNCHANGED <<project, subs, reviews>>
           \/ Spared({"again", "state"})' =>
                /\ project.state = "CS" /\ project'.state = "PR"
                /\ Cardinality(Ids) > NumPeers
                /\ {i \in Ids' : Owed(i)' # {}} = Ids
                /\ UNCHANGED subs
      BY <1>1, <1>6, AssignEnds
  <2>2. Roster' = {i \in Ids' : Owed(i)' # {}}
      BY DEF Roster
  <2>3. Ids \subseteq SubIds
      BY <1>1 DEF Ids, TypeOK, SubRow
  <2>4. amiss' = {} => Spared({"again", "state"})'
      BY DEF Spared
  <2>5. /\ project.state = "CS" /\ project'.state = "PR"
        /\ Cardinality(Ids) > NumPeers
        /\ {i \in Ids' : Owed(i)' # {}} = Ids
        /\ UNCHANGED subs
        => RoundStep
      BY <2>2, <2>3 DEF RoundStep, Credited
  <2> QED BY <1>2, <1>4, <2>1, <2>4, <2>5
<1>7. CASE ScoreEnd(f)
  <2>1. /\ Tables' /\ StaffKnows' /\ StudentsKnow'
        /\ \/ UNCHANGED <<project, subs, reviews>>
           \/ amiss' = {} =>
                /\ project.state = "PR" /\ project'.state = "CO"
                /\ Ids' = Ids /\ UNCHANGED reviews
                /\ \A x \in subs' : x.enough => ReviewedEnough(x.id)
      BY <1>1, <1>7, ScoreEnds
  <2>2. ASSUME NEW i, ReviewedEnough(i) PROVE i \in Roster
    <3>1. CASE HandedIn(i) = {}
      <4>1. Cardinality(HandedIn(i)) = 0
          BY <3>1, FS_EmptySet
      <4> QED BY <2>2, <4>1, NumPeersAssumption DEF ReviewedEnough
    <3>2. CASE HandedIn(i) # {}
        BY <1>1, <3>2, RosterOfOwed DEF HandedIn
    <3> QED BY <3>1, <3>2
  <2>3. (\A x \in subs' : x.enough => ReviewedEnough(x.id))
            => Credited' \subseteq Roster
      BY <2>2 DEF Credited
  <2>4. Ids' = Ids /\ UNCHANGED reviews => UNCHANGED Roster
      BY DEF Roster, Owed
  <2>5. /\ project.state = "PR" /\ project'.state = "CO"
        /\ Ids' = Ids /\ UNCHANGED reviews
        /\ \A x \in subs' : x.enough => ReviewedEnough(x.id)
        => RoundStep
      BY <2>3, <2>4 DEF RoundStep
  <2> QED BY <1>2, <1>4, <2>1, <2>5
<1>8. CASE ExtendEnd(f)
    BY <1>1, <1>2, <1>4, <1>8, ExtendEnds
<1>9. CASE PatchEnd(f)
    BY <1>1, <1>2, <1>4, <1>9, PatchEnds
<1> QED BY <1>3, <1>5, <1>6, <1>7, <1>8, <1>9

LEMMA FullStep ==
    ASSUME FullInv, [Next]_vars
    PROVE  FullInv' /\ (amiss' = {} => amiss = {} /\ RoundStep)
<1>1. IInv'
    BY NextInv DEF FullInv
<1>2. UNCHANGED <<project, subs, reviews, opened, amiss>>
        => Tables' /\ RoundStep
    BY TablesKept, QuietRound DEF FullInv
<1>3. CASE StudentNext
    BY <1>1, <1>3, StudentSteps DEF FullInv
<1>4. CASE StaffNext
    BY <1>1, <1>4, StaffSteps DEF FullInv
<1>5. ASSUME NEW s \in Students, NEW r \in reviews, DropReview(s, r)
      PROVE  FullInv' /\ (amiss' = {} => amiss = {} /\ RoundStep)
  <2>1. /\ Tables' /\ StaffKnows' /\ StudentsKnow'
        /\ \A i : Owed(i)' = Owed(i)
      BY <1>1, <1>5, ReviewDropped DEF IInv
  <2>2. RoundStep
      BY <1>5, <2>1 DEF DropReview, RoundStep, Roster, Credited, Ids
  <2>3. UNCHANGED amiss
      BY <1>5 DEF DropReview
  <2> QED BY <1>1, <2>1, <2>2, <2>3 DEF FullInv
<1>6. CASE Tick
  <2>1. \A p \in Tabs \cup Staff : req[p] = Idle /\ req' = req
      BY <1>6 DEF Tick
  <2>2. UNCHANGED <<Undisturbed, Spared({"state"})>>
      BY <1>6 DEF Tick, Undisturbed, Spared
  <2>3. opened < now => opened' < now'
      BY <1>6 DEF Tick, FullInv, IInv, TypeOK
  <2>4. StaffKnows' /\ StudentsKnow'
      BY <1>6, <2>1, <2>2, <2>3
         DEF Tick, FullInv, StaffKnows, StudentsKnow, Idle
  <2> QED BY <1>1, <1>2, <1>6, <2>4 DEF Tick, FullInv
<1>7. CASE UNCHANGED vars
  <2>1. UNCHANGED <<Undisturbed, Spared({"state"})>>
      BY <1>7 DEF vars, Undisturbed, Spared
  <2>2. StaffKnows' /\ StudentsKnow'
      BY <1>7, <2>1 DEF vars, FullInv, StaffKnows, StudentsKnow
  <2> QED BY <1>1, <1>2, <1>7, <2>2 DEF vars, FullInv
<1> QED BY <1>3, <1>4, <1>5, <1>6, <1>7 DEF Next

LEMMA FullInvariance == Spec => []FullInv
<1>1. FullInv /\ [Next]_vars => FullInv'
    BY FullStep
<1> QED BY <1>1, InitFull, PTL DEF Spec

\* However many staff and API requests overlap with each other and with the
\* students', reviews are assigned twice only when two assignments
\* overlapped or the API changed the state: otherwise no row ever owes more
\* than NumPeers of them, or two about the same project.
THEOREM ReviewsAssignedOnce == Spec => []AssignedOnce
<1>1. FullInv => AssignedOnce
    BY DEF FullInv, Tables
<1> QED BY <1>1, FullInvariance, PTL

\* Whoever counts as having reviewed enough peers in a completed project has
\* NumPeers mandatory reviews on record: no deletion, re-insertion, late
\* review, second assignment or second scoring takes the backing away,
\* while the API or a belated extension has not set the state or the date.
THEOREM CompletionCreditIsBacked == Spec => []CreditIsBacked
<1>1. FullInv => CreditIsBacked
    BY DEF FullInv, Tables
<1> QED BY <1>1, FullInvariance, PTL

\* The review date of a project in peer review is at least
\* PEER_REVIEW_WINDOW after the last assignment, however often staff assign,
\* score and extend, and however these requests overlap, unless the API sets
\* the date or an extension computes it from what preceded the assignment.
THEOREM ReviewersGetAFullWindow == Spec => []FullReviewWindow
<1>1. FullInv => FullReviewWindow
    BY DEF FullInv, Tables
<1> QED BY <1>1, FullInvariance, PTL

\* The rows and all the requests implement a round of peer review: until it
\* is void it opens once, for more members than each has reviews to do,
\* nobody joins an open round, and completion credits members only.
THEOREM ProjectIsARound == Spec => ImplementsRound
<1>1. Init => Round!RoundInit
  <2> SUFFICES ASSUME Init PROVE Round!RoundInit
      OBVIOUS
  <2>1. project.state = "CS" /\ subs = {} /\ amiss = {}
      BY DEF Init
  <2>2. Roster = {} /\ Credited = {} /\ Phase["CS"] = "collecting"
      BY <2>1 DEF Roster, Credited, Ids, Phase
  <2> QED BY <2>1, <2>2 DEF Round!RoundInit, Roster, Credited
<1>2. FullInv /\ [Next]_vars => [Round!RoundNext]_(Round!roundVars)
  <2> SUFFICES ASSUME FullInv, [Next]_vars
               PROVE  [Round!RoundNext]_(Round!roundVars)
      OBVIOUS
  <2>1. CASE amiss' # {}
      BY <2>1 DEF Round!RoundNext, Round!Spoil
  <2>2. CASE amiss' = {}
    <3>1. RoundStep /\ amiss = {}
        BY <2>2, FullStep
    <3>2. /\ Phase["CS"] = "collecting" /\ Phase["PR"] = "reviewing"
          /\ Phase["CO"] = "completed"
        BY DEF Phase
    <3>3. CASE UNCHANGED <<project.state, Roster, Credited>>
        BY <2>2, <3>1, <3>3 DEF Round!roundVars, Roster, Credited
    <3>4. CASE /\ project.state = "CS" /\ project'.state = "PR"
               /\ Roster' \subseteq SubIds /\ Cardinality(Roster') > NumPeers
               /\ UNCHANGED Credited
      <4>1. \A S : Round!Cardinality(S) = Cardinality(S)
          BY DEF Round!Cardinality, Cardinality
      <4>2. Round!Open
          BY <3>2, <3>4, <4>1 DEF Round!Open, Roster, Credited
      <4> QED BY <2>2, <3>1, <4>2 DEF Round!RoundNext, Round!Proceed
    <3>5. CASE /\ project.state = "PR" /\ Roster' \subseteq Roster
               /\ UNCHANGED <<project.state, Credited>>
      <4>1. Round!Withdraw
          BY <3>2, <3>5 DEF Round!Withdraw, Roster, Credited
      <4> QED BY <2>2, <3>1, <4>1 DEF Round!RoundNext, Round!Proceed
    <3>6. CASE /\ project.state = "PR" /\ project'.state = "CO"
               /\ Credited' \subseteq Roster /\ UNCHANGED Roster
      <4>1. Round!Complete
          BY <3>2, <3>6 DEF Round!Complete, Roster, Credited
      <4> QED BY <2>2, <3>1, <4>1 DEF Round!RoundNext, Round!Proceed
    <3> QED BY <3>1, <3>3, <3>4, <3>5, <3>6 DEF RoundStep
  <2> QED BY <2>1, <2>2
<1> QED BY <1>1, <1>2, FullInvariance, PTL
        DEF Spec, ImplementsRound, Round!RoundSpec

=============================================================================
