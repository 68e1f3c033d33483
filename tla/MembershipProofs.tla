-------------------------- MODULE MembershipProofs --------------------------
(***************************************************************************)
(* Theorems about Membership, for all learners, requests and bounds: its   *)
(* typing, and that a membership is off only for a known reason.           *)
(***************************************************************************)
EXTENDS Membership, FiniteSetTheorems, TLAPS

-----------------------------------------------------------------------------
(* The inductive invariant *)

Anyone == CHOOSE l \in Learners : TRUE

\* Keys as the payloads write them: a contact is known by its learner.
Named == {k \in Key : k.list = "contact" => k = Contact(k.learner)}

Callbacks ==
    [do : {"upsert", "remove", "erase"}, keys : SUBSET Named,
     learner : Learners \cup {Anyone}, kind : RowKinds \cup {"user"},
     cached : BOOLEAN, at : 0 .. MaxChanges]
    \cup [do : {"email"}, keys : {{}}, learner : Learners, kind : RowKinds,
          cached : BOOLEAN, at : 0 .. MaxChanges]

Batches ==
    {NoBatch} \cup [keys : SUBSET Named, list : Lists, at : 0 .. MaxChanges,
                    repair : BOOLEAN]
Imports ==
    [keys : SUBSET Named, list : Lists, at : 0 .. MaxChanges, absent : BOOLEAN]

MoreTypes ==
    /\ changed \in [Kinds \X Learners -> 0 .. MaxChanges]
    /\ pending \in [Web -> Seq(Callbacks)]
    /\ batch \in Batches
    /\ imports \subseteq Imports
    /\ project \in BOOLEAN
    /\ members \subseteq Named

\* A key names one row, so do a kind and a learner, and keys come from the
\* sequence.
RowsOK(R, n) ==
    /\ R \subseteq Row
    /\ \A q, r \in R : q # r => q.id # r.id
    /\ \A q, r \in R : q # r => <<q.kind, q.learner>> # <<r.kind, r.learner>>
    /\ \A r \in R : r.id <= n
    /\ n \in 0 .. MaxRows

\* Nothing changed after the last commit.
Counted ==
    /\ RowsOK(rows, made)
    /\ \A t \in Kinds \X Learners : changed[t] <= clock

\* A request holds a row that is there, or was.
HeldOK ==
    held # NoRow =>
        /\ held \in Row /\ held.kind \in {"project", "enrollment"}
        /\ held.id <= made
        /\ \A r \in rows : r.id = held.id =>
              r.kind = held.kind /\ r.learner = held.learner

\* The row behind a membership was changed by a commit after that one.
Overtaken(k, at) == changed[<<KindOf(k.list), k.learner>>] > at

\* A callback carries out what the database says, unless it was overtaken.
Tells(c) ==
    /\ c.at <= clock
    /\ \A k \in c.keys : k.list # "contact" =>
          Overtaken(k, c.at) \/ (k \in Wanted <=> c.do = "upsert")

\* A batch names the members of its list, unless it was overtaken.
Names(b) ==
    /\ b.at <= clock
    /\ \A k \in b.keys : k.list = b.list
    /\ \A k \in Key : k.list = b.list =>
          Overtaken(k, b.at) \/ (k \in Wanted <=> k \in b.keys)

EventsTell ==
    /\ \A p \in Web : \A i \in DOMAIN pending[p] : Tells(pending[p][i])
    /\ batch # NoBatch => Names(batch)
    /\ \A i \in imports : Names(i)

IInv ==
    /\ TypeOK
    /\ MoreTypes
    /\ Counted
    /\ HeldOK
    /\ EventsTell
    /\ DriftHasACause

-----------------------------------------------------------------------------
(* Payloads *)

\* What an instance's payload names: memberships of its learner, on lists of
\* its kind, under the key it is given or under the learner.
LEMMA PayloadKeys ==
    ASSUME NEW r \in Row, NEW id \in Ids \cup {Lost}, NEW k \in Payload(r, id)
    PROVE  /\ k \in Named /\ k.list \in Lists
           /\ KindOf(k.list) = Family(r.kind) /\ k.learner = r.learner
           /\ k.list = "enrolled" \/ k.source = id
           /\ k.list \in {"graduates", "passed"} => r.mark
<1>1. \E list \in Lists, source \in {ByLearner, id} :
          /\ k = Of(list, r, source)
          /\ KindOf(list) = Family(r.kind)
          /\ list = "enrolled" \/ source = id
          /\ list \in {"graduates", "passed"} => r.mark
  <2>1. CASE r.kind = "registration"
    <3>1. k = Of("registrants", r, id)
        BY <2>1 DEF Payload, RegistrantMember
    <3> QED BY <2>1, <3>1 DEF KindOf, Family, Lists
  <2>2. CASE r.kind = "enrollment"
    <3>1. \/ k = Of("enrolled", r, ByLearner)
          \/ k = Of("graduates", r, id) /\ r.mark
        BY <2>2 DEF Payload, EnrolledMember, GraduateMember
    <3> QED BY <2>2, <3>1 DEF KindOf, Family, Lists
  <2>3. CASE r.kind = "homework"
    <3>1. k = Of("homework", r, id)
        BY <2>3 DEF Payload, HomeworkMember
    <3> QED BY <2>3, <3>1 DEF KindOf, Family, Lists
  <2>4. CASE r.kind \in {"project", "volunteer"}
    <3>1. \/ k = Of("project", r, id)
          \/ k = Of("passed", r, id) /\ r.mark
        BY <2>4 DEF Payload, ProjectMember, PassedMember
    <3> QED BY <2>4, <3>1 DEF KindOf, Family, Lists
  <2> QED BY <2>1, <2>2, <2>3, <2>4 DEF Row, RowKinds, Kinds
<1>2. PICK list \in Lists, source \in {ByLearner, id} :
          /\ k = Of(list, r, source)
          /\ KindOf(list) = Family(r.kind)
          /\ list = "enrolled" \/ source = id
          /\ list \in {"graduates", "passed"} => r.mark
    BY <1>1
<1>3. k.list = list /\ k.learner = r.learner /\ k.source = source
    BY <1>2 DEF Of
<1>4. source \in ByLearner .. Lost
    BY BoundsAssumption DEF ByLearner, Lost, Ids
<1>5. k \in Key
    BY <1>2, <1>4 DEF Of, Key, Row
<1> QED BY <1>2, <1>3, <1>5 DEF Named, Lists

\* The payload of a row in terms of its parts: what every row of the kind
\* has, and what depends on its mark.
LEMMA PayloadParts ==
    ASSUME NEW r \in Row
    PROVE  /\ Main(r) \subseteq Payload(r, r.id)
           /\ ~r.mark => Payload(r, r.id) = Main(r)
           /\ Family(r.kind) = "project" => Payload(r, r.id) =
                  Main(r) \cup (IF r.mark THEN {Outcome(r)} ELSE {})
           /\ r.kind = "enrollment" => Payload(r, r.id) =
                  Main(r) \cup (IF r.mark THEN {Of("graduates", r, r.id)} ELSE {})
<1>1. \A list, source : Of(list, r, source).list = list
    BY DEF Of
<1>2. CASE r.kind = "registration"
  <2>1. Payload(r, r.id) = {Of("registrants", r, r.id)}
      BY <1>2 DEF Payload, RegistrantMember
  <2> QED BY <1>1, <1>2, <2>1 DEF Main, Family
<1>3. CASE r.kind = "enrollment"
  <2>1. Payload(r, r.id) = {Of("enrolled", r, ByLearner)}
            \cup (IF r.mark THEN {Of("graduates", r, r.id)} ELSE {})
      BY <1>3 DEF Payload, EnrolledMember, GraduateMember
  <2>2. Main(r) = {Of("enrolled", r, ByLearner)}
      BY <1>1, <2>1 DEF Main
  <2> QED BY <1>3, <2>1, <2>2 DEF Family
<1>4. CASE r.kind = "homework"
  <2>1. Payload(r, r.id) = {Of("homework", r, r.id)}
      BY <1>4 DEF Payload, HomeworkMember
  <2> QED BY <1>1, <1>4, <2>1 DEF Main, Family
<1>5. CASE r.kind \in {"project", "volunteer"}
  <2>1. Payload(r, r.id) = {Of("project", r, r.id)}
            \cup (IF r.mark THEN {Outcome(r)} ELSE {})
      BY <1>5 DEF Payload, ProjectMember, PassedMember, Outcome
  <2>2. Main(r) = {Of("project", r, r.id)}
      BY <1>1, <2>1 DEF Main, Outcome
  <2> QED BY <1>5, <2>1, <2>2 DEF Family
<1> QED BY <1>2, <1>3, <1>4, <1>5 DEF Row, RowKinds, Kinds, Family

\* Marking a row changes the payload by the keys of the mark only.
LEMMA PayloadMarked ==
    ASSUME NEW r \in Row, NEW b \in BOOLEAN
    PROVE  LET q == [r EXCEPT !.mark = b] IN
           /\ q \in Row /\ q.mark = b
           /\ q.kind = r.kind /\ q.learner = r.learner /\ q.id = r.id
           /\ Main(q) = Main(r) /\ Outcome(q) = Outcome(r)
           /\ Of("graduates", q, q.id) = Of("graduates", r, r.id)
<1> DEFINE q == [r EXCEPT !.mark = b]
<1>1. /\ q \in Row /\ q.mark = b
      /\ q.kind = r.kind /\ q.learner = r.learner /\ q.id = r.id
    BY DEF Row
<1> HIDE DEF q
<1>2. \A list, source : /\ Of(list, q, source) = Of(list, r, source)
                        /\ Of(list, r, source).list = list
    BY <1>1 DEF Of
<1>3. Outcome(q) = Outcome(r)
    BY <1>1, <1>2 DEF Outcome
<1>4. CASE r.kind = "registration"
  <2>1. Payload(q, q.id) = Payload(r, r.id)
      BY <1>1, <1>2, <1>4 DEF Payload, RegistrantMember
  <2> QED BY <1>1, <1>2, <1>3, <2>1 DEF Main, q
<1>5. CASE r.kind = "enrollment"
  <2>1. \A k : k.list \notin {"graduates", "passed"} =>
            (k \in Payload(q, q.id) <=> k \in Payload(r, r.id))
      BY <1>1, <1>2, <1>5 DEF Payload, EnrolledMember, GraduateMember
  <2> QED BY <1>1, <1>2, <1>3, <2>1 DEF Main, q
<1>6. CASE r.kind = "homework"
  <2>1. Payload(q, q.id) = Payload(r, r.id)
      BY <1>1, <1>2, <1>6 DEF Payload, HomeworkMember
  <2> QED BY <1>1, <1>2, <1>3, <2>1 DEF Main, q
<1>7. CASE r.kind \in {"project", "volunteer"}
  <2>1. \A k : k.list \notin {"graduates", "passed"} =>
            (k \in Payload(q, q.id) <=> k \in Payload(r, r.id))
      BY <1>1, <1>2, <1>7 DEF Payload, ProjectMember, PassedMember
  <2> QED BY <1>1, <1>2, <1>3, <2>1 DEF Main, q
<1> QED BY <1>4, <1>5, <1>6, <1>7 DEF Row, RowKinds, Kinds

\* What is wanted on a list is the payload of a row.
LEMMA WantedKeys ==
    ASSUME rows \subseteq Row, NEW k \in Wanted
    PROVE  /\ k \in Named /\ k.list # "contact"
           /\ \E r \in rows : /\ k \in Payload(r, r.id)
                              /\ <<KindOf(k.list), k.learner>> = Place(r)
<1>1. PICK r \in rows : k \in Payload(r, r.id)
    BY DEF Wanted
<1>2. r \in Row /\ r.id \in Ids \cup {Lost}
    BY DEF Row
<1> QED BY <1>1, <1>2, PayloadKeys DEF Lists, Place

LEMMA NotContact == \A l : Contact(l).list = "contact"
BY DEF Contact

-----------------------------------------------------------------------------
(* Rows and sequences *)

\* Keys are unique, so there are finitely many rows.
LEMMA RowsFinite ==
    ASSUME NEW S, S \subseteq Row, \A q, r \in S : q # r => q.id # r.id
    PROVE  IsFiniteSet(S)
<1> DEFINE f == [r \in S |-> r.id]
<1>1. f \in Injection(S, Ids)
    BY DEF Row, Injection, IsInjective
<1>2. IsFiniteSet(Ids)
    BY FS_Interval, BoundsAssumption DEF Ids
<1> QED BY <1>1, <1>2, FS_Injection

\* SetToSeq lists every element of a finite set.
LEMMA SeqOfSet ==
    ASSUME NEW S, IsFiniteSet(S)
    PROVE  /\ Cardinality(S) \in Nat
           /\ SetToSeq(S) \in [1 .. Cardinality(S) -> S]
           /\ \A x \in S : \E i \in 1 .. Cardinality(S) : SetToSeq(S)[i] = x
<1> DEFINE n == Cardinality(S)
<1>1. n \in Nat /\ ExistsBijection(1 .. n, S)
    BY FS_CardinalityType
<1>2. \E f \in [1 .. n -> S] : IsInjective(f)
    BY <1>1 DEF ExistsBijection, Bijection, Injection
<1>3. SetToSeq(S) \in [1 .. n -> S] /\ IsInjective(SetToSeq(S))
    BY <1>2 DEF SetToSeq
<1>4. SetToSeq(S) \in Injection(1 .. n, S)
    BY <1>3 DEF Injection
<1>5. Cardinality(1 .. n) = n
    BY <1>1, FS_Interval
<1>6. SetToSeq(S) \in Surjection(1 .. n, S)
    BY <1>4, <1>5, FS_Injection
<1> QED BY <1>1, <1>3, <1>6 DEF Surjection

LEMMA Tuples ==
    ASSUME NEW S
    PROVE  /\ \A x \in S : /\ <<x>> \in Seq(S) /\ DOMAIN <<x>> = {1}
                          /\ <<x>>[1] = x
           /\ \A x, y \in S : /\ <<x, y>> \in Seq(S) /\ DOMAIN <<x, y>> = {1, 2}
                             /\ <<x, y>>[1] = x /\ <<x, y>>[2] = y
<1>1. \A x \in S : <<x>> \in Seq(S) /\ Len(<<x>>) = 1 /\ <<x>>[1] = x
    OBVIOUS
<1>2. \A x, y \in S : /\ <<x, y>> \in Seq(S) /\ Len(<<x, y>>) = 2
                      /\ <<x, y>>[1] = x /\ <<x, y>>[2] = y
    OBVIOUS
<1>3. \A s \in Seq(S) : DOMAIN s = 1 .. Len(s)
    OBVIOUS
<1>4. 1 .. 1 = {1} /\ 1 .. 2 = {1, 2}
    OBVIOUS
<1> QED BY <1>1, <1>2, <1>3, <1>4

-----------------------------------------------------------------------------
(* Callbacks and batches *)

LEMMA TouchedKeys ==
    ASSUME NEW p
    PROVE  \A k : k \in Touched(p) <=>
              \E i \in DOMAIN pending[p] : k \in pending[p][i].keys
BY DEF Touched

\* The callbacks a commit builds are well-formed and say what they are for.
LEMMA CallbackBuilt ==
    ASSUME clock \in 0 .. MaxChanges, clock < MaxChanges,
           NEW keys \in SUBSET Named, NEW l \in Learners,
           NEW kind \in RowKinds \cup {"user"}, NEW cached \in BOOLEAN,
           NEW do \in {"upsert", "remove", "erase"}
    PROVE  LET c == Callback(do, keys, l, kind, cached) IN
           c \in Callbacks /\ c.do = do /\ c.keys = keys /\ c.at = clock + 1
BY BoundsAssumption DEF Callback, Callbacks

LEMMA RowCallbacks ==
    ASSUME clock \in 0 .. MaxChanges, clock < MaxChanges, NEW r \in Row,
           NEW id \in Ids \cup {Lost}, NEW cached \in BOOLEAN
    PROVE  /\ LET c == Sync(r, cached) IN
              /\ c \in Callbacks /\ c.do = "upsert" /\ c.at = clock + 1
              /\ c.keys = Main(r) \cup {Contact(r.learner)}
           /\ LET c == Email(r) IN
              c \in Callbacks /\ c.keys = {} /\ c.at = clock + 1
           /\ LET c == Removal(r, id) IN
              /\ c \in Callbacks /\ c.do = "remove" /\ c.at = clock + 1
              /\ c.keys = Payload(r, id)
           /\ LET c == SyncOutcome(r) IN
              /\ c \in Callbacks
              /\ c.at = clock + 1
              /\ r.mark => /\ c.do = "upsert"
                           /\ c.keys = {Outcome(r), Contact(r.learner)}
              /\ ~r.mark => c.do = "remove" /\ c.keys = {Outcome(r)}
<1>0. ASSUME NEW keys \in SUBSET Named,
             NEW do \in {"upsert", "remove", "erase"}, NEW b \in BOOLEAN
      PROVE  \A kind \in RowKinds :
                LET c == Callback(do, keys, r.learner, kind, b) IN
                /\ c \in Callbacks /\ c.do = do /\ c.keys = keys
                /\ c.at = clock + 1
    BY CallbackBuilt DEF Row
<1>1. r.learner \in Learners /\ r.kind \in RowKinds /\ r.id \in Ids \cup {Lost}
    BY DEF Row
<1>2. Payload(r, id) \subseteq Named /\ Payload(r, r.id) \subseteq Named
    BY <1>1, PayloadKeys
<1>3. Contact(r.learner) \in Named
    BY <1>1, BoundsAssumption DEF Contact, Key, Named, ByLearner, Lost
<1>4. Outcome(r) \in Named
    BY <1>1, BoundsAssumption
       DEF Outcome, Of, Key, Named, Lists, Row, Ids, ByLearner, Lost
<1>5. Main(r) \subseteq Named
    BY <1>2 DEF Main
<1>6. LET c == Sync(r, cached) IN
          /\ c \in Callbacks /\ c.do = "upsert" /\ c.at = clock + 1
          /\ c.keys = Main(r) \cup {Contact(r.learner)}
    BY <1>1, <1>3, <1>5, <1>0 DEF Sync
<1>7. LET c == Email(r) IN
          c \in Callbacks /\ c.keys = {} /\ c.at = clock + 1
    BY <1>1, BoundsAssumption DEF Email, Callback, Callbacks
<1>8. LET c == Removal(r, id) IN
          /\ c \in Callbacks /\ c.do = "remove" /\ c.at = clock + 1
          /\ c.keys = Payload(r, id)
  <2>1. Family(r.kind) \in RowKinds
      BY <1>1 DEF Family, RowKinds, Kinds
  <2> QED BY <1>2, <1>0, <2>1 DEF Removal
<1>9. LET c == SyncOutcome(r) IN
          /\ c \in Callbacks
          /\ c.at = clock + 1
          /\ r.mark => /\ c.do = "upsert"
                       /\ c.keys = {Outcome(r), Contact(r.learner)}
          /\ ~r.mark => c.do = "remove" /\ c.keys = {Outcome(r)}
  <2>1. CASE r.mark
    <3>1. SyncOutcome(r) = Callback("upsert", {Outcome(r), Contact(r.learner)},
                                    r.learner, r.kind, FALSE)
        BY <2>1 DEF SyncOutcome
    <3>2. {Outcome(r), Contact(r.learner)} \in SUBSET Named
        BY <1>3, <1>4
    <3>3. /\ SyncOutcome(r) \in Callbacks /\ SyncOutcome(r).do = "upsert"
          /\ SyncOutcome(r).keys = {Outcome(r), Contact(r.learner)}
          /\ SyncOutcome(r).at = clock + 1
        BY <1>1, <3>1, <3>2, BoundsAssumption DEF Callback, Callbacks
    <3> QED BY <2>1, <3>3
  <2>2. CASE ~r.mark
    <3>1. SyncOutcome(r) =
              Callback("remove", {Outcome(r)}, r.learner, r.kind, FALSE)
        BY <2>2 DEF SyncOutcome
    <3>2. {Outcome(r)} \in SUBSET Named
        BY <1>4
    <3>3. /\ SyncOutcome(r) \in Callbacks /\ SyncOutcome(r).do = "remove"
          /\ SyncOutcome(r).keys = {Outcome(r)}
          /\ SyncOutcome(r).at = clock + 1
        BY <1>1, <3>1, <3>2, BoundsAssumption DEF Callback, Callbacks
    <3> QED BY <2>2, <3>3
  <2> QED BY <2>1, <2>2
<1> QED BY <1>6, <1>7, <1>8, <1>9

\* What an event says stays true, or is overtaken.
LEMMA StillTells ==
    ASSUME TypeOK, clock' >= clock, clock' \in Nat,
           \A t \in Kinds \X Learners : changed[t] \in Nat /\ changed'[t] \in Nat,
           \A k \in Key : k.list # "contact" =>
              \/ /\ changed'[<<KindOf(k.list), k.learner>>] =
                        changed[<<KindOf(k.list), k.learner>>]
                 /\ k \in Wanted' <=> k \in Wanted
              \/ changed'[<<KindOf(k.list), k.learner>>] > clock
    PROVE  /\ \A c \in Callbacks : Tells(c) => Tells(c)'
           /\ \A b \in Imports \cup Batches : b # NoBatch /\ Names(b) => Names(b)'
<1>1. clock \in Nat
    BY BoundsAssumption DEF TypeOK
<1>2. \A k \in Key : k.list # "contact" =>
          <<KindOf(k.list), k.learner>> \in Kinds \X Learners
    BY DEF Key, KindOf, Kinds, Lists
<1>3. ASSUME NEW c \in Callbacks, Tells(c) PROVE Tells(c)'
  <2>1. c.at \in Nat /\ c.at <= clock /\ c.keys \subseteq Key
      BY <1>3, BoundsAssumption DEF Callbacks, Named, Tells
  <2>2. c.at <= clock'
      BY <1>1, <2>1
  <2>3. ASSUME NEW k \in c.keys, k.list # "contact"
        PROVE  Overtaken(k, c.at)' \/ (k \in Wanted' <=> c.do = "upsert")
    <3>1. Overtaken(k, c.at) \/ (k \in Wanted <=> c.do = "upsert")
        BY <1>3, <2>3 DEF Tells
    <3>2. CASE changed'[<<KindOf(k.list), k.learner>>] > clock
        BY <1>1, <1>2, <2>1, <2>3, <3>2 DEF Overtaken
    <3> QED BY <1>2, <2>1, <2>3, <3>1, <3>2 DEF Overtaken
  <2> QED BY <2>2, <2>3 DEF Tells
<1>4. ASSUME NEW b \in Imports \cup Batches, b # NoBatch, Names(b)
      PROVE  Names(b)'
  <2>1. b.at \in Nat /\ b.at <= clock /\ b.list \in Lists
      BY <1>4, BoundsAssumption DEF Imports, Batches, Names, NoBatch
  <2>2. b.at <= clock' /\ \A k \in b.keys : k.list = b.list
      BY <1>1, <1>4, <2>1 DEF Names
  <2>3. ASSUME NEW k \in Key, k.list = b.list
        PROVE  Overtaken(k, b.at)' \/ (k \in Wanted' <=> k \in b.keys)
    <3>1. Overtaken(k, b.at) \/ (k \in Wanted <=> k \in b.keys)
        BY <1>4, <2>3 DEF Names
    <3>2. k.list # "contact"
        BY <2>1, <2>3 DEF Lists
    <3>3. CASE changed'[<<KindOf(k.list), k.learner>>] > clock
        BY <1>1, <1>2, <2>1, <2>3, <3>2, <3>3 DEF Overtaken
    <3> QED BY <1>2, <2>1, <2>3, <3>1, <3>2, <3>3 DEF Overtaken
  <2> QED BY <2>2, <2>3 DEF Names
<1> QED BY <1>3, <1>4

-----------------------------------------------------------------------------
(* Steps that commit nothing *)

LEMMA NothingCommitted ==
    ASSUME IInv, UNCHANGED <<db, clock, changed>>,
           UNCHANGED held \/ HeldOK',
           excused \subseteq excused', members' \subseteq Named, pending' \in [Web -> Seq(Callbacks)],
           batch' \in Batches, imports' \subseteq Imports,
           \A p \in Web : \A i \in DOMAIN pending'[p] : Tells(pending'[p][i]),
           batch' # NoBatch => Names(batch'),
           \A i \in imports' : Names(i),
           \A k \in Drift' : Quiet(k)' => k \in excused'
    PROVE  IInv'
<1> USE DEF IInv
<1>1. UNCHANGED <<learners, project, rows, made, clock, changed>>
    BY DEF db
<1>2. Wanted' = Wanted
    BY <1>1 DEF Wanted
<1>3. TypeOK' /\ MoreTypes' /\ Counted'
    BY <1>1 DEF TypeOK, MoreTypes, Counted, Named
<1>4. /\ \A c : Tells(c)' <=> Tells(c)
      /\ \A b : Names(b)' <=> Names(b)
    BY <1>1, <1>2 DEF Tells, Names, Overtaken
<1>5. EventsTell'
    BY <1>4 DEF EventsTell
<1>6. DriftHasACause'
    BY DEF DriftHasACause
<1>7. HeldOK'
    BY <1>1 DEF HeldOK
<1> QED BY <1>3, <1>5, <1>6, <1>7

\* Members as they were, and fewer events in flight or others: what drifts
\* is what drifted, unless it is excused.
LEMMA SameMembers ==
    ASSUME IInv, UNCHANGED <<db, members>>, excused \subseteq excused',
           \A k : Quiet(k)' => Quiet(k) \/ k \in excused'
    PROVE  \A k \in Drift' : Quiet(k)' => k \in excused'
<1>1. Drift' = Drift
    BY DEF db, Drift, Wanted
<1> QED BY <1>1 DEF IInv, DriftHasACause

LEMMA RunCallbackStep ==
    ASSUME IInv, NEW p \in Web, RunCallback(p)
    PROVE  IInv'
<1> USE DEF IInv
<1> DEFINE c == Head(pending[p])
<1>1. /\ pending[p] \in Seq(Callbacks) /\ pending[p] # << >>
      /\ pending' = [pending EXCEPT ![p] = Tail(@)]
      /\ members' = Carried(c)
      /\ excused' = excused \cup Late(c.keys, c.at, members')
      /\ UNCHANGED <<db, held, clock, changed, batch, imports>>
    BY DEF RunCallback, MoreTypes, Idle
<1>2. /\ c \in Callbacks /\ Tail(pending[p]) \in Seq(Callbacks)
      /\ 1 \in DOMAIN pending[p] /\ c = pending[p][1]
      /\ \A i \in DOMAIN Tail(pending[p]) :
            i + 1 \in DOMAIN pending[p] /\ Tail(pending[p])[i] = pending[p][i + 1]
      /\ \A i \in DOMAIN pending[p] :
            i = 1 \/ (i - 1 \in DOMAIN Tail(pending[p])
                      /\ Tail(pending[p])[i - 1] = pending[p][i])
    BY <1>1
<1>3. /\ pending' \in [Web -> Seq(Callbacks)]
      /\ pending'[p] = Tail(pending[p])
      /\ \A q \in Web : q # p => pending'[q] = pending[q]
    BY <1>1, <1>2 DEF MoreTypes
<1> HIDE DEF c
<1>4. Tells(c) /\ \A q \in Web : \A i \in DOMAIN pending'[q] : Tells(pending'[q][i])
  <2>1. \A q \in Web : \A i \in DOMAIN pending[q] : Tells(pending[q][i])
      BY DEF EventsTell
  <2>2. ASSUME NEW q \in Web, NEW i \in DOMAIN pending'[q]
        PROVE  Tells(pending'[q][i])
    <3>1. CASE q = p
      <4>1. i + 1 \in DOMAIN pending[p] /\ pending'[q][i] = pending[p][i + 1]
          BY <1>2, <1>3, <2>2, <3>1
      <4> QED BY <2>1, <4>1
    <3>2. CASE q # p
        BY <1>3, <2>1, <2>2, <3>2
    <3> QED BY <3>1, <3>2
  <2> QED BY <1>2, <2>1, <2>2
<1>5. members' \subseteq Named
    BY <1>1, <1>2 DEF Carried, MoreTypes, Callbacks
<1>6. \A k : Quiet(k)' /\ k \notin c.keys => Quiet(k)
  <2> SUFFICES ASSUME NEW k, Quiet(k)', k \notin c.keys, NEW q \in Web,
                      NEW i \in DOMAIN pending[q], k \in pending[q][i].keys
               PROVE  FALSE
      BY DEF Quiet, Touched
  <2>1. \A j \in DOMAIN pending'[q] : k \notin pending'[q][j].keys
      BY DEF Quiet, Touched
  <2>2. CASE q # p
      BY <1>3, <2>1, <2>2
  <2>3. CASE q = p /\ i = 1
      BY <1>2, <2>3
  <2>4. CASE q = p /\ i # 1
    <3>1. i - 1 \in DOMAIN pending'[q] /\ pending'[q][i - 1] = pending[q][i]
        BY <1>2, <1>3, <2>4
    <3> QED BY <2>1, <3>1
  <2> QED BY <2>2, <2>3, <2>4
<1>7. ASSUME NEW k \in Drift', Quiet(k)' PROVE k \in excused'
  <2>1. Wanted' = Wanted /\ learners' = learners
      BY <1>1 DEF db, Wanted
  <2>2. CASE k \notin c.keys
    <3>1. k \in members' <=> k \in members
        BY <1>1, <2>2 DEF Carried
    <3>2. k \in Drift
        BY <1>7, <2>1, <3>1 DEF Drift
    <3> QED BY <1>1, <1>6, <1>7, <2>2, <3>2 DEF DriftHasACause
  <2>3. CASE k \in c.keys
    <3>1. k \in (members' \ Wanted) \cup (Wanted \ members')
        BY <1>7, <2>1 DEF Drift
    <3>2. c.do \in {"upsert", "remove", "erase"}
        BY <1>2, <2>3 DEF Callbacks
    <3>3. k \in members' <=> c.do = "upsert"
        BY <1>1, <2>3, <3>2 DEF Carried
    <3>4. k.list # "contact" => Overtaken(k, c.at)
        BY <1>4, <2>3, <3>1, <3>3 DEF Tells
    <3>5. k \in Late(c.keys, c.at, members')
        BY <2>3, <3>1, <3>4 DEF Late, Overtaken
    <3> QED BY <1>1, <3>5
  <2> QED BY <2>2, <2>3
<1> QED BY <1>1, <1>3, <1>4, <1>5, <1>7, NothingCommitted
        DEF MoreTypes, EventsTell

\* Callbacks that are dropped leave their memberships excused.
LEMMA AbandonStep ==
    ASSUME IInv, NEW p \in Web, Abandon(p)
    PROVE  IInv'
<1> USE DEF IInv
<1>1. /\ excused' = excused \cup Touched(p)
      /\ pending' = [pending EXCEPT ![p] = << >>]
      /\ UNCHANGED <<db, held, clock, changed, members, batch, imports>>
    BY DEF Abandon
<1>2. << >> \in Seq(Callbacks) /\ DOMAIN << >> = {}
    OBVIOUS
<1>3. /\ pending' \in [Web -> Seq(Callbacks)]
      /\ pending'[p] = << >>
      /\ \A q \in Web : q # p => pending'[q] = pending[q]
    BY <1>1, <1>2 DEF MoreTypes
<1>4. \A q \in Web : \A i \in DOMAIN pending'[q] : Tells(pending'[q][i])
    BY <1>2, <1>3 DEF EventsTell
<1>5. \A k : Quiet(k)' => Quiet(k) \/ k \in Touched(p)
    BY <1>3 DEF Quiet, Touched
<1>6. \A k \in Drift' : Quiet(k)' => k \in excused'
    BY <1>1, <1>5, SameMembers
<1> QED BY <1>1, <1>3, <1>4, <1>6, NothingCommitted
        DEF MoreTypes, EventsTell, TypeOK

\* Members read from the database are wanted when they are sent.
LEMMA SendToStep ==
    ASSUME IInv, NEW p \in Web, NEW lists \in Seq(Lists), SendTo(p, lists)
    PROVE  IInv'
<1> USE DEF IInv
<1>1. /\ Idle(p)
      /\ pending' = [pending EXCEPT ![p] = [i \in DOMAIN lists |-> Bulk(lists[i])]]
      /\ UNCHANGED <<db, held, clock, changed, members, batch, imports, excused>>
    BY DEF SendTo
<1>2. \A list \in Lists : Bulk(list) \in Callbacks /\ Tells(Bulk(list))
  <2> SUFFICES ASSUME NEW list \in Lists
               PROVE  Bulk(list) \in Callbacks /\ Tells(Bulk(list))
      OBVIOUS
  <2>1. Wanted \subseteq Named
      BY WantedKeys DEF TypeOK
  <2>2. KindOf(list) \in Kinds
      BY DEF KindOf, Kinds, Lists
  <2>3. /\ Bulk(list).keys \subseteq Wanted
        /\ Bulk(list) = [do |-> "upsert", keys |-> Bulk(list).keys,
                         learner |-> Anyone, kind |-> KindOf(list),
                         cached |-> TRUE, at |-> clock]
      BY DEF Bulk, Anyone
  <2>5. Bulk(list) \in Callbacks
    <3>1. \A keys \in SUBSET Named :
              [do |-> "upsert", keys |-> keys, learner |-> Anyone,
               kind |-> KindOf(list), cached |-> TRUE, at |-> clock] \in Callbacks
        BY <2>2 DEF Callbacks, RowKinds, TypeOK
    <3> QED BY <2>1, <2>3, <3>1
  <2>4. Tells(Bulk(list))
      BY DEF Tells, Bulk, TypeOK
  <2> QED BY <2>4, <2>5
<1>3. [i \in DOMAIN lists |-> Bulk(lists[i])] \in Seq(Callbacks)
    BY <1>2
<1>4. /\ pending' \in [Web -> Seq(Callbacks)]
      /\ pending'[p] = [i \in DOMAIN lists |-> Bulk(lists[i])]
      /\ \A q \in Web : q # p => pending'[q] = pending[q]
    BY <1>1, <1>3 DEF MoreTypes
<1>5. \A q \in Web : \A i \in DOMAIN pending'[q] : Tells(pending'[q][i])
    BY <1>2, <1>4 DEF EventsTell
<1>6. \A k : Quiet(k)' => Quiet(k)
  <2>1. Touched(p) = {}
      BY <1>1 DEF Idle, Touched
  <2> QED BY <1>4, <2>1 DEF Quiet, Touched
<1>7. \A k \in Drift' : Quiet(k)' => k \in excused'
    BY <1>1, <1>6, SameMembers
<1> QED BY <1>1, <1>4, <1>5, <1>7, NothingCommitted
        DEF MoreTypes, EventsTell, TypeOK

-----------------------------------------------------------------------------
(* The management commands *)

\* Reading a list from the database and handing it on, or giving it up,
\* leaves rows, members and callbacks alone.
LEMMA HandOver ==
    ASSUME IInv, UNCHANGED <<db, held, clock, changed, members, pending, excused>>,
           batch' \in Batches, imports' \subseteq Imports,
           batch' # NoBatch => Names(batch'),
           \A i \in imports' : Names(i)
    PROVE  IInv'
<1> USE DEF IInv
<1>1. \A k : Quiet(k)' => Quiet(k)
    BY DEF Quiet, Touched
<1>2. \A k \in Drift' : Quiet(k)' => k \in excused'
    BY <1>1, SameMembers
<1> QED BY <1>2, NothingCommitted DEF TypeOK, MoreTypes, EventsTell

\* Reading a row, or giving it up, either.
LEMMA ReadStep ==
    ASSUME IInv, Read \/ GiveUp
    PROVE  IInv'
<1> USE DEF IInv
<1>1. /\ UNCHANGED <<db, clock, changed, pending, members, batch, imports,
                     excused>>
      /\ held' = NoRow \/ held' \in {r \in rows : r.kind \in {"project", "enrollment"}}
    BY DEF Read, GiveUp
<1>2. HeldOK'
  <2>1. CASE held' = NoRow
      BY <2>1 DEF HeldOK
  <2>2. CASE held' \in {r \in rows : r.kind \in {"project", "enrollment"}}
    <3>1. UNCHANGED <<rows, made>>
        BY <1>1 DEF db
    <3> QED BY <2>2, <3>1 DEF HeldOK, Counted, RowsOK
  <2> QED BY <1>1, <2>1, <2>2
<1>3. \A k : Quiet(k)' => Quiet(k)
    BY <1>1 DEF Quiet, Touched
<1>4. \A k \in Drift' : Quiet(k)' => k \in excused'
    BY <1>1, <1>3, SameMembers
<1> QED BY <1>1, <1>2, <1>4, NothingCommitted DEF TypeOK, MoreTypes, EventsTell

LEMMA CommandHandsOver ==
    ASSUME IInv,
           \/ \E list \in Lists : BuildBatch(list)
           \/ \E reconcile \in BOOLEAN : ImportByReference(reconcile)
           \/ AuditList \/ CommandFails
    PROVE  IInv'
<1> USE DEF IInv
<1>1. batch \in Batches /\ imports \subseteq Imports
    BY DEF MoreTypes
<1>2. Wanted \subseteq Named /\ clock \in 0 .. MaxChanges
    BY WantedKeys DEF TypeOK
<1>3. batch # NoBatch => Names(batch)
    BY DEF EventsTell
<1>4. \A i \in imports : Names(i)
    BY DEF EventsTell
<1>5. ASSUME NEW list \in Lists, BuildBatch(list) PROVE IInv'
  <2> DEFINE keys == {k \in Wanted : k.list = list}
             b == [keys |-> keys, list |-> list, at |-> clock, repair |-> FALSE]
  <2>1. batch' = b /\ UNCHANGED imports
      BY <1>5 DEF BuildBatch
  <2>2. b \in Batches
      BY <1>2 DEF Batches
  <2>3. Names(b)
      BY <1>2, BoundsAssumption DEF Names
  <2> QED BY <1>1, <1>4, <1>5, <2>1, <2>2, <2>3, HandOver DEF BuildBatch
<1>6. ASSUME NEW reconcile \in BOOLEAN, ImportByReference(reconcile) PROVE IInv'
  <2> DEFINE i == [keys |-> batch.keys, list |-> batch.list, at |-> batch.at,
                   absent |-> reconcile]
  <2>1. batch # NoBatch /\ batch' = NoBatch /\ imports' = imports \cup {i}
      BY <1>6 DEF ImportByReference
  <2>2. i \in Imports
      BY <1>1, <2>1 DEF Batches, Imports
  <2>3. Names(i)
      BY <1>3, <2>1 DEF Names
  <2>4. NoBatch \in Batches
      BY DEF Batches
  <2> QED BY <1>1, <1>4, <1>6, <2>1, <2>2, <2>3, <2>4, HandOver
          DEF ImportByReference
<1>7. CASE AuditList
  <2>1. batch' \in {NoBatch, [batch EXCEPT !.repair = TRUE]} /\ batch # NoBatch
      BY <1>7 DEF AuditList
  <2>2. batch' \in Batches
      BY <1>1, <2>1 DEF Batches
  <2>3. batch' # NoBatch => Names(batch')
      BY <1>1, <1>3, <2>1 DEF Names, Batches
  <2> QED BY <1>1, <1>4, <1>7, <2>2, <2>3, HandOver DEF AuditList
<1>8. CASE CommandFails
    BY <1>1, <1>4, <1>8, HandOver DEF CommandFails, Batches
<1> QED BY <1>5, <1>6, <1>7, <1>8

\* Datamailer takes a list over as the batch has it: what then drifts was
\* overtaken.
LEMMA TakeOverStep ==
    ASSUME IInv, NEW b \in Imports \cup Batches, b # NoBatch, Names(b),
           NEW reconcile \in BOOLEAN, TakeOver(b, reconcile),
           UNCHANGED <<db, held, clock, changed, pending>>,
           batch' \in {batch, NoBatch}, imports' \subseteq imports
    PROVE  IInv'
<1> USE DEF IInv
<1> DEFINE absent == {k \in members : reconcile /\ k.list = b.list}
<1>1. /\ members' = (members \ absent) \cup b.keys
      /\ excused' = excused \cup Late(absent \cup b.keys, b.at, members')
    BY DEF TakeOver
<1>2. b.keys \subseteq Named /\ b.list \in Lists
    BY DEF Imports, Batches
<1>3. members' \subseteq Named
    BY <1>1, <1>2 DEF MoreTypes
<1>4. Wanted' = Wanted /\ learners' = learners
    BY DEF db, Wanted
<1>5. \A k : Quiet(k)' => Quiet(k)
    BY DEF Quiet, Touched
<1>6. ASSUME NEW k \in Drift', Quiet(k)' PROVE k \in excused'
  <2>1. CASE k \in absent \cup b.keys
    <3>1. k \in (members' \ Wanted) \cup (Wanted \ members')
        BY <1>4, <1>6 DEF Drift
    <3>2. k \in Key /\ k.list = b.list
        BY <1>2, <2>1 DEF Names, Named, MoreTypes
    <3>3. k \in members' <=> k \in b.keys
        BY <1>1, <2>1
    <3>4. Overtaken(k, b.at)
        BY <3>1, <3>2, <3>3 DEF Names
    <3>5. k \in Late(absent \cup b.keys, b.at, members')
        BY <2>1, <3>1, <3>4 DEF Late, Overtaken
    <3> QED BY <1>1, <3>5
  <2>2. CASE k \notin absent \cup b.keys
    <3>1. k \in Drift
        BY <1>1, <1>4, <1>6, <2>2 DEF Drift
    <3> QED BY <1>1, <1>5, <1>6, <3>1 DEF DriftHasACause
  <2> QED BY <2>1, <2>2
<1>7. /\ pending' \in [Web -> Seq(Callbacks)]
      /\ batch' \in Batches /\ imports' \subseteq Imports
    BY DEF MoreTypes, Batches
<1>8. /\ \A p \in Web : \A i \in DOMAIN pending'[p] : Tells(pending'[p][i])
      /\ batch' # NoBatch => Names(batch')
      /\ \A i \in imports' : Names(i)
    BY DEF EventsTell
<1> QED BY <1>1, <1>3, <1>6, <1>7, <1>8, NothingCommitted

LEMMA CommandStep ==
    ASSUME IInv, Command
    PROVE  IInv'
<1> USE DEF IInv
<1>1. batch \in Batches /\ imports \subseteq Imports
    BY DEF MoreTypes
<1>2. /\ batch # NoBatch => Names(batch)
      /\ \A i \in imports : Names(i)
    BY DEF EventsTell
<1>3. ASSUME NEW reconcile \in BOOLEAN, SendBatch(reconcile) PROVE IInv'
    BY <1>1, <1>2, <1>3, TakeOverStep DEF SendBatch
<1>4. CASE RunImport
  <2>1. PICK i \in imports :
            /\ TakeOver(i, i.absent) \/ UNCHANGED <<members, excused>>
            /\ imports' = imports \ {i}
            /\ UNCHANGED <<db, held, clock, changed, pending, batch>>
      BY <1>4 DEF RunImport
  <2>2. i \in Imports /\ i.absent \in BOOLEAN
      BY <1>1 DEF Imports
  <2>3. i # NoBatch
      BY <2>2 DEF Imports, NoBatch
  <2>4. CASE TakeOver(i, i.absent)
      BY <1>2, <2>1, <2>2, <2>3, <2>4, TakeOverStep
  <2>5. CASE UNCHANGED <<members, excused>>
      BY <1>1, <1>2, <2>1, <2>5, HandOver
  <2> QED BY <2>1, <2>4, <2>5
<1> QED BY <1>3, <1>4, CommandHandsOver DEF Command

-----------------------------------------------------------------------------
(* Steps that commit *)

\* What is left to show of a commit: the rows it leaves, that it names the
\* rows behind every membership it makes wanted or unwanted, that a callback
\* or an excuse covers that membership, and that the callbacks carry out what
\* the database now says.
LEMMA CommitKeeps ==
    ASSUME IInv, NEW p \in Web, NEW touched, NEW callbacks \in Seq(Callbacks),
           Commit(p, touched, callbacks), RowsOK(rows', made'),
           learners' \subseteq learners, project' \in BOOLEAN,
           excused \subseteq excused', HeldOK',
           \A k \in Named :
              \/ k \in Wanted' <=> k \in Wanted
              \/ /\ <<KindOf(k.list), k.learner>> \in touched
                 /\ \/ k \in excused'
                    \/ \E i \in DOMAIN callbacks : k \in callbacks[i].keys,
           \A i \in DOMAIN callbacks :
              /\ callbacks[i].at = clock + 1
              /\ \A k \in callbacks[i].keys : k.list # "contact" =>
                    (k \in Wanted' <=> callbacks[i].do = "upsert"),
           \A l \in learners \ learners' : \E i \in DOMAIN callbacks :
              Contact(l) \in callbacks[i].keys
    PROVE  IInv'
<1> USE DEF IInv
<1>1. /\ Idle(p) /\ clock < MaxChanges /\ clock' = clock + 1
      /\ changed' = [t \in DOMAIN changed |->
                        IF t \in touched THEN clock' ELSE changed[t]]
      /\ pending' = [pending EXCEPT ![p] = callbacks]
      /\ UNCHANGED <<members, batch, imports>>
    BY DEF Commit
<1>2. clock \in Nat /\ clock' \in 0 .. MaxChanges /\ clock' > clock
    BY <1>1, BoundsAssumption DEF TypeOK
<1>3. \A t \in Kinds \X Learners :
          /\ changed[t] \in 0 .. MaxChanges /\ changed[t] <= clock
          /\ changed'[t] = IF t \in touched THEN clock' ELSE changed[t]
    BY <1>1 DEF MoreTypes, Counted
<1>4. changed' \in [Kinds \X Learners -> 0 .. MaxChanges]
    BY <1>1, <1>2, <1>3 DEF MoreTypes
<1>5. \A t \in Kinds \X Learners : changed'[t] <= clock'
    BY <1>2, <1>3, BoundsAssumption
<1>6. /\ pending' \in [Web -> Seq(Callbacks)]
      /\ pending'[p] = callbacks
      /\ \A q \in Web : q # p => pending'[q] = pending[q]
    BY <1>1 DEF MoreTypes
<1>7. TypeOK'
    BY <1>1, <1>2 DEF TypeOK, RowsOK
<1>8. MoreTypes'
    BY <1>1, <1>4, <1>6 DEF MoreTypes, Named
<1>9. Counted'
    BY <1>5 DEF Counted
<1>10. \A k \in Key : k.list # "contact" =>
           <<KindOf(k.list), k.learner>> \in Kinds \X Learners
    BY DEF Key, KindOf, Kinds, Lists
<1>11. /\ \A c \in Callbacks : Tells(c) => Tells(c)'
       /\ \A b \in Imports \cup Batches : b # NoBatch /\ Names(b) => Names(b)'
  <2>1. \A k \in Key : k.list # "contact" =>
            \/ /\ changed'[<<KindOf(k.list), k.learner>>] =
                      changed[<<KindOf(k.list), k.learner>>]
               /\ k \in Wanted' <=> k \in Wanted
            \/ changed'[<<KindOf(k.list), k.learner>>] > clock
    <3> SUFFICES ASSUME NEW k \in Key, k.list # "contact"
                 PROVE  \/ /\ changed'[<<KindOf(k.list), k.learner>>] =
                                  changed[<<KindOf(k.list), k.learner>>]
                           /\ k \in Wanted' <=> k \in Wanted
                        \/ changed'[<<KindOf(k.list), k.learner>>] > clock
        OBVIOUS
    <3> DEFINE t == <<KindOf(k.list), k.learner>>
    <3>1. t \in Kinds \X Learners /\ k \in Named
        BY <1>10 DEF Named
    <3>2. CASE t \in touched
        BY <1>2, <1>3, <3>1, <3>2
    <3>3. CASE t \notin touched
        BY <1>3, <3>1, <3>3
    <3> QED BY <3>2, <3>3
  <2>2. \A t \in Kinds \X Learners : changed[t] \in Nat /\ changed'[t] \in Nat
      BY <1>3, <1>4, BoundsAssumption
  <2>3. clock' >= clock /\ clock' \in Nat
      BY <1>2, BoundsAssumption
  <2> QED BY <2>1, <2>2, <2>3, StillTells
<1>12. EventsTell'
  <2>1. ASSUME NEW q \in Web, NEW i \in DOMAIN pending'[q]
        PROVE  Tells(pending[q][i])'
    <3>1. CASE q # p
      <4>1. /\ pending'[q] = pending[q] /\ i \in DOMAIN pending[q]
            /\ Tells(pending[q][i]) /\ pending[q] \in Seq(Callbacks)
          BY <1>6, <2>1, <3>1 DEF EventsTell, MoreTypes
      <4>2. pending[q][i] \in Callbacks
          BY <4>1
      <4>3. ASSUME NEW c \in Callbacks, c = pending[q][i] PROVE Tells(c)'
          BY <1>11, <4>1, <4>3
      <4>4. PICK c \in Callbacks : c = pending[q][i] /\ c = pending'[q][i]
          BY <4>1, <4>2
      <4> QED BY <4>3, <4>4 DEF Tells
    <3>2. CASE q = p
      <4>1. pending'[q][i] = callbacks[i] /\ i \in DOMAIN callbacks
          BY <1>6, <2>1, <3>2
      <4>2. callbacks[i].at = clock'
          BY <1>1, <4>1
      <4> QED BY <1>2, <4>1, <4>2 DEF Tells
    <3> QED BY <3>1, <3>2
  <2>2. (batch # NoBatch => Names(batch))'
      BY <1>1, <1>11 DEF EventsTell, MoreTypes, Names
  <2>3. \A i \in imports' : Names(i)'
    <3> SUFFICES ASSUME NEW i \in imports PROVE Names(i)'
        BY <1>1
    <3>1. i \in Imports /\ i # NoBatch /\ Names(i)
        BY DEF EventsTell, MoreTypes, Imports, NoBatch
    <3> QED BY <1>11, <3>1
  <2> QED BY <2>1, <2>2, <2>3 DEF EventsTell
<1>13. ASSUME NEW k \in Drift', Quiet(k)' PROVE k \in excused'
  <2>1. k \in Named
    <3>1. \A j \in Wanted' : j \in Named
      <4>1. PICK R : R = rows' /\ R \subseteq Row
          BY DEF RowsOK
      <4>2. \A r \in R : Payload(r, r.id) \subseteq Named
        <5> SUFFICES ASSUME NEW r \in R, NEW j \in Payload(r, r.id)
                     PROVE  j \in Named
            OBVIOUS
        <5>1. r \in Row /\ r.id \in Ids \cup {Lost}
            BY <4>1 DEF Row
        <5> QED BY <5>1, PayloadKeys
      <4> QED BY <4>1, <4>2 DEF Wanted
    <3> QED BY <1>1, <1>13, <3>1 DEF Drift, MoreTypes
  <2>2. \A i \in DOMAIN callbacks : k \notin callbacks[i].keys
      BY <1>6, <1>13 DEF Quiet, Touched
  <2>3. Quiet(k)
    <3>1. Touched(p) = {}
        BY <1>1 DEF Idle, Touched
    <3>2. \A q \in Web : q # p => k \notin Touched(q)
        BY <1>6, <1>13 DEF Quiet, Touched
    <3> QED BY <3>1, <3>2 DEF Quiet
  <2>4. CASE k \in Wanted' <=> k \in Wanted
    <3>1. k.list = "contact" => k = Contact(k.learner)
        BY <2>1 DEF Named
    <3>2. k.list = "contact" => k.learner \notin learners \ learners'
        BY <2>2, <3>1
    <3>3. k \in Drift
        BY <1>1, <1>13, <2>4, <3>2 DEF Drift
    <3> QED BY <2>3, <3>3 DEF DriftHasACause
  <2>5. CASE k \in excused'
      BY <2>5
  <2> QED BY <2>1, <2>2, <2>4, <2>5
<1>14. DriftHasACause'
    BY <1>13 DEF DriftHasACause
<1> QED BY <1>7, <1>8, <1>9, <1>12, <1>14

-----------------------------------------------------------------------------
(* What the commits do to the rows *)

LEMMA RowAdded ==
    ASSUME NEW R, NEW n, RowsOK(R, n), NEW r \in Row, NEW m \in 0 .. MaxRows,
           r.id > n, r.id <= m,
           \A q \in R : q.kind # r.kind \/ q.learner # r.learner
    PROVE  RowsOK(R \cup {r}, m) /\ r \notin R
<1>1. n \in Nat /\ m \in Nat /\ r.id \in Nat /\ \A q \in R : q.id \in Nat
    BY BoundsAssumption DEF RowsOK, Row, Ids
<1>2. \A q \in R : q.id <= n /\ q.id < r.id /\ q.id <= m
    BY <1>1 DEF RowsOK
<1>3. \A q \in R \cup {r} : q \in Row /\ q.id <= m
    BY <1>2 DEF RowsOK
<1>4. \A p, q \in R \cup {r} : p # q => p.id # q.id
    BY <1>1, <1>2 DEF RowsOK
<1>5. \A p, q \in R \cup {r} :
          p # q => <<p.kind, p.learner>> # <<q.kind, q.learner>>
    BY DEF RowsOK
<1> QED BY <1>2, <1>3, <1>4, <1>5 DEF RowsOK

LEMMA RowsRemoved ==
    ASSUME NEW R, NEW n, RowsOK(R, n), NEW gone
    PROVE  RowsOK(R \ gone, n)
BY DEF RowsOK

\* Rows with their marks set.
Marked(S, b) == {[r EXCEPT !.mark = b[r]] : r \in S}

LEMMA RowsMarked ==
    ASSUME NEW R, NEW n, RowsOK(R, n), NEW S \in SUBSET R,
           NEW b \in [S -> BOOLEAN]
    PROVE  /\ RowsOK((R \ S) \cup Marked(S, b), n)
           /\ \A q \in (R \ S) \cup Marked(S, b) : \E r \in R :
                 q.id = r.id /\ q.kind = r.kind /\ q.learner = r.learner
<1> DEFINE M(r) == [r EXCEPT !.mark = b[r]]
           T == (R \ S) \cup {M(r) : r \in S}
<1>1. \A r \in S : /\ M(r) \in Row /\ M(r).id = r.id
                   /\ M(r).kind = r.kind /\ M(r).learner = r.learner
    BY DEF RowsOK, Row
<1> HIDE DEF M
<1>2. \A q \in T : \E r \in R :
          /\ q.id = r.id /\ q.kind = r.kind /\ q.learner = r.learner
          /\ q \in Row
          /\ (q = r /\ r \notin S) \/ (r \in S /\ q = M(r))
    BY <1>1 DEF RowsOK
<1>3. \A p, q \in R : p.id = q.id \/ <<p.kind, p.learner>> = <<q.kind, q.learner>>
          => p = q
    BY DEF RowsOK
<1> HIDE DEF T
<1>4. \A p, q \in T : p.id = q.id \/ <<p.kind, p.learner>> = <<q.kind, q.learner>>
          => p = q
    BY <1>2, <1>3
<1>5. \A q \in T : q \in Row /\ q.id <= n
    BY <1>2 DEF RowsOK
<1>6. RowsOK(T, n)
    BY <1>4, <1>5 DEF RowsOK
<1> QED BY <1>2, <1>6 DEF T, M, Marked

\* What a request holds stays a row that is there, or was: new rows have new
\* keys, and those that stay keep their kind and learner.
LEMMA HeldKept ==
    ASSUME HeldOK, RowsOK(rows, made), UNCHANGED held,
           made \in Nat, made' \in Nat, made' >= made,
           \A r \in rows' : \/ r.id \in Nat /\ r.id > made
                            \/ \E q \in rows : /\ q.id = r.id /\ q.kind = r.kind
                                              /\ q.learner = r.learner
    PROVE  HeldOK'
<1> SUFFICES ASSUME held # NoRow PROVE HeldOK'
    BY DEF HeldOK
<1>1. held \in Row /\ held.id \in Nat /\ held.id <= made
    BY DEF HeldOK, Row, Ids
<1>2. held.id <= made'
    BY <1>1
<1>3. \A r \in rows' : r.id = held.id =>
          r.kind = held.kind /\ r.learner = held.learner
    BY <1>1 DEF HeldOK
<1> QED BY <1>1, <1>2, <1>3 DEF HeldOK

\* A membership starts or stops being wanted only with a row that is there
\* on one side of the commit only.
LEMMA WantedChanges ==
    ASSUME rows \subseteq Row, rows' \subseteq Row, NEW k,
           ~(k \in Wanted' <=> k \in Wanted)
    PROVE  \E r \in (rows \ rows') \cup (rows' \ rows) :
              /\ k \in Payload(r, r.id)
              /\ <<KindOf(k.list), k.learner>> = Place(r)
<1>1. PICK r \in (rows \ rows') \cup (rows' \ rows) : k \in Payload(r, r.id)
    BY DEF Wanted
<1>2. r \in Row /\ r.id \in Ids \cup {Lost}
    BY DEF Row
<1> QED BY <1>1, <1>2, PayloadKeys DEF Place

\* Nobody wants what the payload of a deleted row named, whatever key the
\* instance then has.
LEMMA GoneNotWanted ==
    ASSUME RowsOK(rows, made), rows' \subseteq rows, NEW r \in rows \ rows',
           NEW id \in {r.id, Lost}, NEW k \in Payload(r, id)
    PROVE  k \notin Wanted'
<1> SUFFICES ASSUME NEW q \in rows', k \in Payload(q, q.id) PROVE FALSE
    BY DEF Wanted
<1>1. r \in Row /\ q \in Row /\ r.id \in Ids /\ q.id \in Ids /\ q # r
    BY DEF RowsOK, Row
<1>2. /\ Family(q.kind) = Family(r.kind) /\ q.learner = r.learner
      /\ k.list = "enrolled" \/ q.id = id
      /\ KindOf(k.list) = Family(r.kind)
    BY <1>1, PayloadKeys
<1>3. CASE k.list = "enrolled"
  <2>1. q.kind = "enrollment" /\ r.kind = "enrollment"
      BY <1>2, <1>3 DEF KindOf, Family
  <2> QED BY <1>1, <1>2, <2>1 DEF RowsOK
<1>4. CASE k.list # "enrolled"
  <2>1. q.id # Lost
      BY <1>1, BoundsAssumption DEF Ids, Lost
  <2>2. q.id = r.id
      BY <1>2, <1>4, <2>1
  <2> QED BY <1>1, <2>2 DEF RowsOK
<1> QED BY <1>3, <1>4

\* A sync upserts memberships that are wanted.
LEMMA SyncTells ==
    ASSUME clock \in 0 .. MaxChanges, clock < MaxChanges,
           NEW r \in rows', r \in Row, NEW cached \in BOOLEAN
    PROVE  /\ Sync(r, cached) \in Callbacks
           /\ Sync(r, cached).at = clock + 1
           /\ Sync(r, cached).keys = Main(r) \cup {Contact(r.learner)}
           /\ \A k \in Sync(r, cached).keys : k.list # "contact" =>
                 (k \in Wanted' <=> Sync(r, cached).do = "upsert")
<1>1. r.id \in Ids \cup {Lost}
    BY DEF Row
<1>2. /\ Sync(r, cached) \in Callbacks /\ Sync(r, cached).at = clock + 1
      /\ Sync(r, cached).do = "upsert"
      /\ Sync(r, cached).keys = Main(r) \cup {Contact(r.learner)}
    BY <1>1, RowCallbacks
<1>3. Main(r) \subseteq Wanted'
    BY PayloadParts DEF Wanted
<1> QED BY <1>2, <1>3, NotContact

LEMMA NewRows ==
    ASSUME NEW kind \in RowKinds, NEW l \in Learners, NEW id \in Ids
    PROVE  LET r == NewRow(kind, l, id) IN
           /\ r \in Row /\ r.id = id /\ r.kind = kind /\ r.learner = l /\ ~r.mark
           /\ Payload(r, r.id) = Main(r)
<1>1. LET r == NewRow(kind, l, id) IN
      r \in Row /\ r.id = id /\ r.kind = kind /\ r.learner = l /\ ~r.mark
    BY DEF NewRow, Row
<1> QED BY <1>1, PayloadParts

-----------------------------------------------------------------------------
(* The requests that commit *)

LEMMA RegisterStep ==
    ASSUME IInv, NEW p \in Web, NEW l \in Learners, Register(p, l)
    PROVE  IInv'
<1> USE DEF IInv
<1> DEFINE r == NewRow("registration", l, made + 1)
           sync == Sync(r, TRUE)
           mail == Email(r)
           cs == <<sync, mail>>
<1>1. /\ RowsOf("registration", l) = {} /\ made < MaxRows
      /\ rows' = rows \cup {r} /\ made' = made + 1
      /\ Commit(p, {<<r.kind, l>>}, cs)
      /\ UNCHANGED <<learners, project, held, excused>>
    BY DEF Register
<1>2. clock \in 0 .. MaxChanges /\ clock < MaxChanges /\ RowsOK(rows, made)
    BY <1>1 DEF TypeOK, Commit, Counted
<1>3. made + 1 \in Ids /\ made \in Nat /\ made' \in 0 .. MaxRows
    BY <1>1, <1>2, BoundsAssumption DEF RowsOK, Ids
<1>4. /\ r \in Row /\ r.id = made + 1 /\ r.kind = "registration"
      /\ r.learner = l /\ Payload(r, r.id) = Main(r)
    BY <1>3, NewRows DEF RowKinds, Kinds
<1> HIDE DEF r
<1>5. \A q \in rows : q.kind # r.kind \/ q.learner # r.learner
    BY <1>1, <1>4 DEF RowsOf
<1>6. RowsOK(rows', made') /\ r \notin rows
  <2>1. r.id > made /\ r.id <= made'
      BY <1>1, <1>3, <1>4
  <2> QED BY <1>1, <1>2, <1>3, <1>4, <1>5, <2>1, RowAdded
<1>7. /\ sync \in Callbacks
      /\ sync.at = clock + 1
      /\ sync.keys = Main(r) \cup {Contact(r.learner)}
      /\ \A k \in sync.keys : k.list # "contact" =>
            (k \in Wanted' <=> sync.do = "upsert")
    BY <1>1, <1>2, <1>4, SyncTells
<1>8. mail \in Callbacks /\ mail.keys = {} /\ mail.at = clock + 1
    BY <1>2, <1>4, RowCallbacks DEF Row
<1> HIDE DEF sync, mail
<1>9. /\ cs \in Seq(Callbacks) /\ DOMAIN cs = {1, 2}
      /\ cs[1] = sync /\ cs[2] = mail
    BY <1>7, <1>8, Tuples
<1> HIDE DEF cs
<1>10. \A k \in Named :
          \/ k \in Wanted' <=> k \in Wanted
          \/ /\ <<KindOf(k.list), k.learner>> \in {<<r.kind, l>>}
             /\ \E i \in DOMAIN cs : k \in cs[i].keys
  <2> SUFFICES ASSUME NEW k \in Named, ~(k \in Wanted' <=> k \in Wanted)
               PROVE  /\ <<KindOf(k.list), k.learner>> = <<r.kind, l>>
                      /\ k \in Main(r)
      BY <1>7, <1>9
  <2>1. rows \subseteq Row /\ rows' \subseteq Row
      BY <1>2, <1>6 DEF RowsOK
  <2>2. PICK q \in (rows \ rows') \cup (rows' \ rows) :
            /\ k \in Payload(q, q.id)
            /\ <<KindOf(k.list), k.learner>> = Place(q)
      BY <2>1, WantedChanges
  <2>3. q = r
      BY <1>1
  <2> QED BY <1>4, <2>2, <2>3 DEF Place, Family
<1>11. \A i \in DOMAIN cs :
          /\ cs[i].at = clock + 1
          /\ \A k \in cs[i].keys : k.list # "contact" =>
                (k \in Wanted' <=> cs[i].do = "upsert")
    BY <1>7, <1>8, <1>9
<1>12. HeldOK'
  <2>1. r.id \in Nat /\ r.id > made /\ made' \in Nat /\ made' >= made
      BY <1>1, <1>3, <1>4
  <2> QED BY <1>1, <1>2, <1>3, <2>1, HeldKept
<1> QED BY <1>1, <1>6, <1>9, <1>10, <1>11, <1>12, CommitKeeps DEF MoreTypes

LEMMA EnrollStep ==
    ASSUME IInv, NEW p \in Web, NEW l \in Learners, Enroll(p, l)
    PROVE  IInv'
<1> USE DEF IInv
<1> DEFINE r == NewRow("enrollment", l, made + 1)
           cs == <<Sync(r, TRUE)>>
<1>1. /\ RowsOf("enrollment", l) = {} /\ made < MaxRows
      /\ rows' = rows \cup {r} /\ made' = made + 1
      /\ Commit(p, {<<r.kind, l>>}, cs)
      /\ UNCHANGED <<learners, project, held, excused>>
    BY DEF Enroll, Enrolled
<1>2. clock \in 0 .. MaxChanges /\ clock < MaxChanges /\ RowsOK(rows, made)
    BY <1>1 DEF TypeOK, Commit, Counted
<1>3. made + 1 \in Ids /\ made \in Nat /\ made' \in 0 .. MaxRows
    BY <1>1, <1>2, BoundsAssumption DEF RowsOK, Ids
<1>4. /\ r \in Row /\ r.id = made + 1 /\ r.kind = "enrollment"
      /\ r.learner = l /\ Payload(r, r.id) = Main(r)
    BY <1>3, NewRows DEF RowKinds, Kinds
<1> HIDE DEF r
<1>5. \A q \in rows : q.kind # r.kind \/ q.learner # r.learner
    BY <1>1, <1>4 DEF RowsOf
<1>6. RowsOK(rows', made') /\ r \notin rows
  <2>1. r.id > made /\ r.id <= made'
      BY <1>1, <1>3, <1>4
  <2> QED BY <1>1, <1>2, <1>3, <1>4, <1>5, <2>1, RowAdded
<1>7. /\ Sync(r, TRUE) \in Callbacks
      /\ Sync(r, TRUE).at = clock + 1
      /\ Sync(r, TRUE).keys = Main(r) \cup {Contact(r.learner)}
      /\ \A k \in Sync(r, TRUE).keys : k.list # "contact" =>
            (k \in Wanted' <=> Sync(r, TRUE).do = "upsert")
    BY <1>1, <1>2, <1>4, SyncTells
<1>9. cs \in Seq(Callbacks) /\ DOMAIN cs = {1} /\ cs[1] = Sync(r, TRUE)
    BY <1>7, Tuples
<1> HIDE DEF cs
<1>10. \A k \in Named :
          \/ k \in Wanted' <=> k \in Wanted
          \/ /\ <<KindOf(k.list), k.learner>> \in {<<r.kind, l>>}
             /\ \E i \in DOMAIN cs : k \in cs[i].keys
  <2> SUFFICES ASSUME NEW k \in Named, ~(k \in Wanted' <=> k \in Wanted)
               PROVE  /\ <<KindOf(k.list), k.learner>> = <<r.kind, l>>
                      /\ k \in Main(r)
      BY <1>7, <1>9
  <2>1. rows \subseteq Row /\ rows' \subseteq Row
      BY <1>2, <1>6 DEF RowsOK
  <2>2. PICK q \in (rows \ rows') \cup (rows' \ rows) :
            /\ k \in Payload(q, q.id)
            /\ <<KindOf(k.list), k.learner>> = Place(q)
      BY <2>1, WantedChanges
  <2>3. q = r
      BY <1>1
  <2> QED BY <1>4, <2>2, <2>3 DEF Place, Family
<1>11. \A i \in DOMAIN cs :
          /\ cs[i].at = clock + 1
          /\ \A k \in cs[i].keys : k.list # "contact" =>
                (k \in Wanted' <=> cs[i].do = "upsert")
    BY <1>7, <1>9
<1>12. HeldOK'
  <2>1. r.id \in Nat /\ r.id > made /\ made' \in Nat /\ made' >= made
      BY <1>1, <1>3, <1>4
  <2> QED BY <1>1, <1>2, <1>3, <2>1, HeldKept
<1> QED BY <1>1, <1>6, <1>9, <1>10, <1>11, <1>12, CommitKeeps DEF MoreTypes

LEMMA DeleteSubmissionStep ==
    ASSUME IInv, NEW p \in Web, NEW l \in Learners, DeleteSubmission(p, l)
    PROVE  IInv'
<1> USE DEF IInv
<1>1. PICK r \in RowsOf("project", l) :
          /\ rows' = rows \ {r}
          /\ Commit(p, {<<"project", l>>}, <<Removal(r, r.id)>>)
          /\ UNCHANGED <<learners, project, made, held, excused>>
    BY DEF DeleteSubmission
<1> DEFINE c == Removal(r, r.id)
           cs == <<c>>
<1>2. clock \in 0 .. MaxChanges /\ clock < MaxChanges /\ RowsOK(rows, made)
    BY <1>1 DEF TypeOK, Commit, Counted
<1>3. /\ r \in rows /\ r \in Row /\ r.id \in Ids \cup {Lost}
      /\ r.kind = "project" /\ r.learner = l
    BY <1>2 DEF RowsOf, RowsOK, Row
<1>4. RowsOK(rows', made')
    BY <1>1, <1>2, RowsRemoved
<1>5. /\ c \in Callbacks /\ c.do = "remove" /\ c.at = clock + 1
      /\ c.keys = Payload(r, r.id)
    BY <1>2, <1>3, RowCallbacks
<1>6. \A k \in c.keys : k \notin Wanted'
    BY <1>1, <1>2, <1>3, <1>5, GoneNotWanted
<1> HIDE DEF c
<1>7. cs \in Seq(Callbacks) /\ DOMAIN cs = {1} /\ cs[1] = c
    BY <1>5, Tuples
<1>8. Commit(p, {<<"project", l>>}, cs)
    BY <1>1 DEF c
<1> HIDE DEF cs
<1>9. \A k \in Named :
          \/ k \in Wanted' <=> k \in Wanted
          \/ /\ <<KindOf(k.list), k.learner>> \in {<<"project", l>>}
             /\ \E i \in DOMAIN cs : k \in cs[i].keys
    BY <1>1, <1>2, <1>3, <1>4, <1>5, <1>7, WantedChanges
       DEF RowsOK, Place, Family
<1>10. \A i \in DOMAIN cs :
          /\ cs[i].at = clock + 1
          /\ \A k \in cs[i].keys : k.list # "contact" =>
                (k \in Wanted' <=> cs[i].do = "upsert")
    BY <1>5, <1>6, <1>7
<1>11. HeldOK'
    BY <1>1, <1>2, BoundsAssumption, HeldKept DEF RowsOK
<1> QED BY <1>1, <1>4, <1>7, <1>8, <1>9, <1>10, <1>11, CommitKeeps DEF MoreTypes

\* A commit of the admin that deletes rows: their callbacks no longer know
\* the rows' keys, so every membership it takes away is excused.
LEMMA RemovalsStep ==
    ASSUME IInv, NEW p \in Web, NEW touched, NEW callbacks \in Seq(Callbacks),
           NEW gone \in SUBSET rows, Commit(p, touched, callbacks),
           rows' = rows \ gone, made' = made, held' = held,
           learners' \subseteq learners, project' \in BOOLEAN,
           excused' = excused \cup UNION {Payload(r, r.id) : r \in gone},
           \A r \in gone : Place(r) \in touched,
           \A i \in DOMAIN callbacks :
              \/ \E r \in gone : callbacks[i] = Removal(r, Lost)
              \/ /\ callbacks[i].at = clock + 1
                 /\ \A k \in callbacks[i].keys : k.list = "contact",
           \A l \in learners \ learners' : \E i \in DOMAIN callbacks :
              Contact(l) \in callbacks[i].keys
    PROVE  IInv'
<1> USE DEF IInv
<1>1. clock \in 0 .. MaxChanges /\ clock < MaxChanges /\ RowsOK(rows, made)
    BY DEF TypeOK, Commit, Counted
<1>2. \A r \in gone : r \in Row /\ r \notin rows'
    BY <1>1 DEF RowsOK
<1>3. RowsOK(rows', made')
    BY <1>1, RowsRemoved
<1>4. rows' \subseteq rows /\ rows \subseteq Row /\ rows' \subseteq Row
    BY <1>1 DEF RowsOK
<1>5. \A k \in Named :
          \/ k \in Wanted' <=> k \in Wanted
          \/ <<KindOf(k.list), k.learner>> \in touched /\ k \in excused'
  <2> SUFFICES ASSUME NEW k \in Named, ~(k \in Wanted' <=> k \in Wanted)
               PROVE  <<KindOf(k.list), k.learner>> \in touched /\ k \in excused'
      OBVIOUS
  <2>1. PICK r \in (rows \ rows') \cup (rows' \ rows) :
            /\ k \in Payload(r, r.id)
            /\ <<KindOf(k.list), k.learner>> = Place(r)
      BY <1>4, WantedChanges
  <2>2. r \in gone
      BY <1>4
  <2> QED BY <2>1, <2>2
<1>6. ASSUME NEW i \in DOMAIN callbacks
      PROVE  /\ callbacks[i].at = clock + 1
             /\ \A k \in callbacks[i].keys : k.list # "contact" =>
                   (k \in Wanted' <=> callbacks[i].do = "upsert")
  <2>1. CASE \E r \in gone : callbacks[i] = Removal(r, Lost)
    <3>1. PICK r \in gone : callbacks[i] = Removal(r, Lost)
        BY <2>1
    <3>2. /\ Removal(r, Lost).do = "remove" /\ Removal(r, Lost).at = clock + 1
          /\ Removal(r, Lost).keys = Payload(r, Lost)
        BY <1>1, <1>2, RowCallbacks
    <3>3. \A k \in Payload(r, Lost) : k \notin Wanted'
        BY <1>1, <1>2, <1>4, GoneNotWanted
    <3> QED BY <3>1, <3>2, <3>3
  <2>2. CASE ~ \E r \in gone : callbacks[i] = Removal(r, Lost)
      BY <2>2
  <2> QED BY <2>1, <2>2
<1>7. excused \subseteq excused'
    OBVIOUS
<1>8. HeldOK'
    BY <1>1, BoundsAssumption, HeldKept DEF RowsOK
<1> QED BY <1>3, <1>5, <1>6, <1>7, <1>8, CommitKeeps

LEMMA AdminDeleteRegistrationStep ==
    ASSUME IInv, NEW p \in Web, NEW l \in Learners, AdminDeleteRegistration(p, l)
    PROVE  IInv'
<1> USE DEF IInv
<1>1. PICK r \in RowsOf("registration", l) :
          /\ rows' = rows \ {r}
          /\ Commit(p, {<<"registration", l>>}, <<Removal(r, Lost)>>)
          /\ excused' = excused \cup Payload(r, r.id)
          /\ UNCHANGED <<learners, project, made, held>>
    BY DEF AdminDeleteRegistration
<1> DEFINE c == Removal(r, Lost)
           cs == <<c>>
<1>2. clock \in 0 .. MaxChanges /\ clock < MaxChanges /\ RowsOK(rows, made)
    BY <1>1 DEF TypeOK, Commit, Counted
<1>3. r \in rows /\ r \in Row /\ r.kind = "registration" /\ r.learner = l
    BY <1>2 DEF RowsOf, RowsOK
<1>4. c \in Callbacks
    BY <1>2, <1>3, RowCallbacks
<1>5. Commit(p, {<<"registration", l>>}, cs)
    BY <1>1
<1>6. \A x : x = c => x = Removal(r, Lost)
    OBVIOUS
<1> HIDE DEF c
<1>7. cs \in Seq(Callbacks) /\ DOMAIN cs = {1} /\ cs[1] = c
    BY <1>4, Tuples
<1> HIDE DEF cs
<1> DEFINE gone == {r}
           touched == {<<"registration", l>>}
<1>8. /\ excused' = excused \cup UNION {Payload(q, q.id) : q \in gone}
      /\ rows' = rows \ gone /\ Commit(p, touched, cs)
    BY <1>1, <1>5
<1>9. /\ gone \in SUBSET rows
      /\ \A q \in gone : Place(q) \in touched
      /\ \A i \in DOMAIN cs : \E q \in gone : cs[i] = Removal(q, Lost)
    BY <1>3, <1>6, <1>7 DEF Place, Family
<1> HIDE DEF gone, touched
<1> QED BY <1>1, <1>7, <1>8, <1>9, RemovalsStep DEF MoreTypes

LEMMA AdminDeleteProjectStep ==
    ASSUME IInv, NEW p \in Web, AdminDeleteProject(p)
    PROVE  IInv'
<1> USE DEF IInv
<1> DEFINE gone == {r \in rows : Family(r.kind) = "project"}
           order == SetToSeq(gone)
           touched == {Place(r) : r \in gone}
           cs == [i \in DOMAIN order |-> Removal(order[i], Lost)]
<1>1. /\ project' = FALSE /\ rows' = rows \ gone
      /\ Commit(p, touched, cs)
      /\ excused' = excused \cup UNION {Payload(r, r.id) : r \in gone}
      /\ UNCHANGED <<learners, made, held>>
    BY DEF AdminDeleteProject
<1>2. clock \in 0 .. MaxChanges /\ clock < MaxChanges /\ RowsOK(rows, made)
    BY <1>1 DEF TypeOK, Commit, Counted
<1>3. gone \subseteq Row /\ IsFiniteSet(gone)
    BY <1>2, RowsFinite DEF RowsOK
<1> DEFINE n == Cardinality(gone)
<1>4. n \in Nat /\ order \in [1 .. n -> gone]
    BY <1>3, SeqOfSet
<1>5. \A r \in gone : Removal(r, Lost) \in Callbacks
    BY <1>2, <1>3, RowCallbacks
<1>6. \A r \in gone : Place(r) \in touched
    OBVIOUS
<1>7. gone \in SUBSET rows
    OBVIOUS
<1> HIDE DEF gone, order, touched, n
<1>8. DOMAIN cs = 1 .. n /\ cs \in Seq(Callbacks)
    BY <1>4, <1>5
<1>9. \A i \in DOMAIN cs : \E r \in gone : cs[i] = Removal(r, Lost)
    BY <1>4, <1>8
<1> HIDE DEF cs
<1> QED BY <1>1, <1>6, <1>7, <1>8, <1>9, RemovalsStep DEF MoreTypes

LEMMA AdminDeleteUserStep ==
    ASSUME IInv, NEW p \in Web, NEW l \in Learners, AdminDeleteUser(p, l)
    PROVE  IInv'
<1> USE DEF IInv
<1> DEFINE gone == {r \in rows : r.learner = l /\ r.kind # "registration"}
           order == SetToSeq(gone)
           touched == {Place(r) : r \in gone}
           erase == Callback("erase", {Contact(l)}, l, "user", TRUE)
           rs == [i \in DOMAIN order |-> Removal(order[i], Lost)]
           cs == Append(rs, erase)
<1>1. /\ learners' = learners \ {l} /\ rows' = rows \ gone
      /\ Commit(p, touched, cs)
      /\ excused' = excused \cup UNION {Payload(r, r.id) : r \in gone}
      /\ UNCHANGED <<project, made, held>>
    BY DEF AdminDeleteUser
<1>2. clock \in 0 .. MaxChanges /\ clock < MaxChanges /\ RowsOK(rows, made)
    BY <1>1 DEF TypeOK, Commit, Counted
<1>3. gone \subseteq Row /\ IsFiniteSet(gone)
    BY <1>2, RowsFinite DEF RowsOK
<1> DEFINE n == Cardinality(gone)
<1>4. n \in Nat /\ order \in [1 .. n -> gone]
    BY <1>3, SeqOfSet
<1>5. \A r \in gone : Removal(r, Lost) \in Callbacks
    BY <1>2, <1>3, RowCallbacks
<1>6. \A r \in gone : Place(r) \in touched
    OBVIOUS
<1>7. gone \in SUBSET rows
    OBVIOUS
<1>8. /\ erase \in Callbacks /\ erase.at = clock + 1
      /\ erase.keys = {Contact(l)}
  <2>1. Contact(l) \in Named
      BY BoundsAssumption DEF Contact, Key, Named, ByLearner, Lost
  <2>2. \A keys \in SUBSET Named :
            LET c == Callback("erase", keys, l, "user", TRUE) IN
            c \in Callbacks /\ c.at = clock + 1 /\ c.keys = keys
      BY <1>2, BoundsAssumption DEF Callback, Callbacks
  <2>3. {Contact(l)} \in SUBSET Named
      BY <2>1
  <2> QED BY <2>2, <2>3
<1> HIDE DEF gone, order, touched, n, erase
<1>9. DOMAIN rs = 1 .. n /\ rs \in Seq(Callbacks)
    BY <1>4, <1>5
<1>10. \A i \in DOMAIN rs : \E r \in gone : rs[i] = Removal(r, Lost)
    BY <1>4, <1>9
<1> HIDE DEF rs
<1>11. Len(rs) = n
    BY <1>4, <1>9
<1>12. /\ cs \in Seq(Callbacks)
       /\ DOMAIN cs = 1 .. n + 1
       /\ cs[n + 1] = erase
       /\ \A i \in 1 .. n : cs[i] = rs[i]
    BY <1>4, <1>8, <1>9, <1>11
<1> HIDE DEF cs
<1>13. \A i \in DOMAIN cs :
          \/ \E r \in gone : cs[i] = Removal(r, Lost)
          \/ /\ cs[i].at = clock + 1
             /\ \A k \in cs[i].keys : k.list = "contact"
  <2> SUFFICES ASSUME NEW i \in DOMAIN cs
               PROVE  \/ \E r \in gone : cs[i] = Removal(r, Lost)
                      \/ /\ cs[i].at = clock + 1
                         /\ \A k \in cs[i].keys : k.list = "contact"
      OBVIOUS
  <2>1. i \in 1 .. n \/ i = n + 1
      BY <1>4, <1>12
  <2>2. CASE i \in 1 .. n
      BY <1>9, <1>10, <1>12, <2>2
  <2>3. CASE i = n + 1
      BY <1>8, <1>12, <2>3, NotContact
  <2> QED BY <2>1, <2>2, <2>3
<1>14. \A x \in learners \ learners' : \E i \in DOMAIN cs : Contact(x) \in cs[i].keys
  <2>1. n + 1 \in DOMAIN cs /\ Contact(l) \in cs[n + 1].keys
      BY <1>4, <1>8, <1>12
  <2> QED BY <1>1, <2>1
<1> QED BY <1>1, <1>6, <1>7, <1>12, <1>13, <1>14, RemovalsStep DEF MoreTypes

\* Marking rows changes only whether their learners are wanted on the list
\* that the mark is about.
LEMMA MarkedChanges ==
    ASSUME RowsOK(rows, made), NEW S \in SUBSET rows, NEW b \in [S -> BOOLEAN],
           \A r \in S : r.kind # "volunteer",
           rows' = (rows \ S) \cup Marked(S, b),
           NEW k, ~(k \in Wanted' <=> k \in Wanted)
    PROVE  \E r \in S :
              /\ r.kind \in {"project", "enrollment"}
              /\ KindOf(k.list) = r.kind /\ k.learner = r.learner
              /\ k = IF r.kind = "project" THEN Outcome(r)
                     ELSE Of("graduates", r, r.id)
<1> DEFINE M(r) == [r EXCEPT !.mark = b[r]]
<1>1. \A r \in S :
          /\ r \in Row /\ M(r) \in Row
          /\ M(r).kind = r.kind /\ M(r).learner = r.learner /\ M(r).id = r.id
          /\ Main(M(r)) = Main(r) /\ Outcome(M(r)) = Outcome(r)
          /\ Of("graduates", M(r), M(r).id) = Of("graduates", r, r.id)
    BY PayloadMarked DEF RowsOK
<1>2. rows' = (rows \ S) \cup {M(r) : r \in S}
    BY DEF Marked
<1> HIDE DEF M
<1>3. rows \subseteq Row /\ rows' \subseteq Row
    BY <1>1, <1>2 DEF RowsOK
<1>4. PICK q \in (rows \ rows') \cup (rows' \ rows) :
          /\ k \in Payload(q, q.id)
          /\ <<KindOf(k.list), k.learner>> = Place(q)
    BY <1>3, WantedChanges
<1>5. PICK r \in S : q = r \/ q = M(r)
    BY <1>2, <1>4
<1>6. q \in Row /\ q.kind = r.kind /\ q.learner = r.learner
    BY <1>1, <1>5
<1>7. k \notin Main(r)
  <2> SUFFICES ASSUME k \in Main(r) PROVE FALSE
      OBVIOUS
  <2>1. r \in rows /\ M(r) \in rows'
      BY <1>2
  <2>2. Main(r) \subseteq Wanted
      BY <1>1, <2>1, PayloadParts DEF Wanted
  <2>3. Main(M(r)) \subseteq Wanted'
      BY <1>1, <2>1, PayloadParts DEF Wanted
  <2> QED BY <1>1, <2>2, <2>3
<1>8. k \notin Main(q)
    BY <1>1, <1>5, <1>7
<1>9. /\ q.mark
      /\ q.kind = "project" => k = Outcome(q)
      /\ q.kind = "enrollment" => k = Of("graduates", q, q.id)
    BY <1>4, <1>6, <1>8, PayloadParts DEF Family
<1>10. q.kind \in {"project", "enrollment"} /\ KindOf(k.list) = q.kind
       /\ k.learner = q.learner
  <2>1. k.list \in {"graduates", "passed"}
      BY <1>4, <1>8 DEF Main
  <2>2. q.kind # "volunteer"
      BY <1>6
  <2> QED BY <1>4, <2>1, <2>2 DEF KindOf, Place, Family
<1> QED BY <1>1, <1>4, <1>5, <1>6, <1>9, <1>10

\* The sync of an outcome tells what the mark says.
LEMMA OutcomeTells ==
    ASSUME clock \in 0 .. MaxChanges, clock < MaxChanges,
           NEW n, RowsOK(rows', n), NEW r \in rows', r.kind = "project"
    PROVE  /\ SyncOutcome(r) \in Callbacks
           /\ SyncOutcome(r).at = clock + 1
           /\ Outcome(r) \in SyncOutcome(r).keys
           /\ \A k \in SyncOutcome(r).keys : k.list # "contact" =>
                 (k \in Wanted' <=> SyncOutcome(r).do = "upsert")
<1>1. r \in Row /\ r.id \in Ids \cup {Lost} /\ r.mark \in BOOLEAN
    BY DEF RowsOK, Row
<1>2. /\ SyncOutcome(r) \in Callbacks /\ SyncOutcome(r).at = clock + 1
      /\ r.mark => /\ SyncOutcome(r).do = "upsert"
                   /\ SyncOutcome(r).keys = {Outcome(r), Contact(r.learner)}
      /\ ~r.mark => /\ SyncOutcome(r).do = "remove"
                    /\ SyncOutcome(r).keys = {Outcome(r)}
    BY <1>1, RowCallbacks
<1>3. CASE r.mark
  <2>1. Outcome(r) \in Payload(r, r.id)
      BY <1>1, <1>3, PayloadParts DEF Family
  <2>2. Outcome(r) \in Wanted'
      BY <2>1 DEF Wanted
  <2> QED BY <1>2, <1>3, <2>2, NotContact
<1>4. CASE ~r.mark
  <2>1. Outcome(r) \notin Wanted'
    <3> SUFFICES ASSUME NEW q \in rows', Outcome(r) \in Payload(q, q.id)
                 PROVE  FALSE
        BY DEF Wanted
    <3>1. q \in Row /\ q.id \in Ids \cup {Lost}
        BY DEF RowsOK, Row
    <3>2. Outcome(r).list = "passed" /\ Outcome(r).learner = r.learner
        BY DEF Outcome, Of
    <3>3. q.mark /\ Outcome(r).source = q.id
        BY <3>1, <3>2, PayloadKeys
    <3>4. q.id = r.id /\ q # r
        BY <1>4, <3>3 DEF Outcome, Of
    <3> QED BY <3>4 DEF RowsOK
  <2> QED BY <1>2, <1>4, <2>1
<1> QED BY <1>1, <1>2, <1>3, <1>4

LEMMA CertifyStep ==
    ASSUME IInv, NEW p \in Web, NEW l \in Learners, Certify(p, l)
    PROVE  IInv'
<1> USE DEF IInv
<1> DEFINE g(r) == [list |-> "graduates", learner |-> l, source |-> r.id]
           up(r) == Callback("upsert", {g(r)}, l, "enrollment", TRUE)
<1>1. PICK r \in RowsOf("enrollment", l) :
          /\ ~r.mark
          /\ rows' = (rows \ {r}) \cup {[r EXCEPT !.mark = TRUE]}
          /\ Commit(p, {<<"enrollment", l>>}, <<up(r), Email(r)>>)
          /\ UNCHANGED <<learners, project, made, held, excused>>
    BY DEF Certify
<1> DEFINE S == {r}
           b == [x \in S |-> TRUE]
           sync == up(r)
           mail == Email(r)
           cs == <<sync, mail>>
           touched == {<<"enrollment", l>>}
           M == [r EXCEPT !.mark = TRUE]
<1>2. clock \in 0 .. MaxChanges /\ clock < MaxChanges /\ RowsOK(rows, made)
    BY <1>1 DEF TypeOK, Commit, Counted
<1>3. r \in rows /\ r \in Row /\ r.kind = "enrollment" /\ r.learner = l
    BY <1>2 DEF RowsOf, RowsOK
<1>4. /\ S \in SUBSET rows /\ b \in [S -> BOOLEAN]
      /\ rows' = (rows \ S) \cup Marked(S, b)
      /\ \A x \in S : x = r
    BY <1>1, <1>3 DEF Marked
<1> HIDE DEF S, b
<1>5. g(r) = Of("graduates", r, r.id)
    BY <1>3 DEF Of
<1>6. M \in Row /\ M \in rows' /\ g(r) \in Payload(M, M.id)
  <2>1. /\ M \in Row /\ M.mark /\ M.kind = r.kind
        /\ Of("graduates", M, M.id) = Of("graduates", r, r.id)
      BY <1>3, PayloadMarked
  <2>2. Payload(M, M.id) = Main(M) \cup {Of("graduates", M, M.id)}
      BY <1>3, <2>1, PayloadParts
  <2> QED BY <1>1, <1>5, <2>1, <2>2
<1>7. g(r) \in Named /\ g(r) \in Wanted'
  <2>1. M.id \in Ids \cup {Lost}
      BY <1>6 DEF Row
  <2> QED BY <1>6, <2>1, PayloadKeys DEF Wanted
<1>8. /\ sync \in Callbacks /\ sync.do = "upsert" /\ sync.at = clock + 1
      /\ sync.keys = {g(r)}
  <2>1. {g(r)} \in SUBSET Named
      BY <1>7
  <2> QED BY <1>2, <2>1, BoundsAssumption
          DEF Callback, Callbacks, RowKinds, Kinds
<1>9. mail \in Callbacks /\ mail.keys = {} /\ mail.at = clock + 1
    BY <1>2, <1>3, RowCallbacks DEF Row
<1>10. RowsOK(rows', made')
    BY <1>1, <1>2, <1>4, RowsMarked
<1>11. Commit(p, touched, cs)
    BY <1>1
<1>12. \A k \in Named :
          \/ k \in Wanted' <=> k \in Wanted
          \/ <<KindOf(k.list), k.learner>> \in touched /\ k = g(r)
  <2> SUFFICES ASSUME NEW k \in Named, ~(k \in Wanted' <=> k \in Wanted)
               PROVE  <<KindOf(k.list), k.learner>> \in touched /\ k = g(r)
      OBVIOUS
  <2>1. RowsOK(rows, made)
      BY <1>2
  <2>2. PICK x \in S :
            /\ x.kind \in {"project", "enrollment"}
            /\ KindOf(k.list) = x.kind /\ k.learner = x.learner
            /\ k = IF x.kind = "project" THEN Outcome(x)
                   ELSE Of("graduates", x, x.id)
      BY <1>3, <1>4, <2>1, MarkedChanges
  <2> QED BY <1>3, <1>4, <1>5, <2>2
<1> HIDE DEF sync, mail, g
<1>13. /\ cs \in Seq(Callbacks) /\ DOMAIN cs = {1, 2}
       /\ cs[1] = sync /\ cs[2] = mail
    BY <1>8, <1>9, Tuples
<1> HIDE DEF cs, touched
<1>14. \A k \in Named :
          \/ k \in Wanted' <=> k \in Wanted
          \/ /\ <<KindOf(k.list), k.learner>> \in touched
             /\ \E i \in DOMAIN cs : k \in cs[i].keys
    BY <1>8, <1>12, <1>13
<1>15. \A i \in DOMAIN cs :
          /\ cs[i].at = clock + 1
          /\ \A k \in cs[i].keys : k.list # "contact" =>
                (k \in Wanted' <=> cs[i].do = "upsert")
    BY <1>7, <1>8, <1>9, <1>13
<1>16. HeldOK'
  <2>1. \A q \in rows' : \E x \in rows :
            q.id = x.id /\ q.kind = x.kind /\ q.learner = x.learner
      BY <1>2, <1>4, RowsMarked
  <2>2. made \in Nat /\ made' = made /\ UNCHANGED held
      BY <1>1, <1>2, BoundsAssumption DEF RowsOK
  <2> QED BY <1>2, <2>1, <2>2, HeldKept
<1> QED BY <1>1, <1>10, <1>11, <1>13, <1>14, <1>15, <1>16, CommitKeeps
        DEF MoreTypes

\* Two callbacks for each row, its sync at the odd places and its outcome at
\* the even ones.
LEMMA OddAndEven ==
    ASSUME NEW n \in Nat
    PROVE  /\ \A i \in 1 .. 2 * n : IF i % 2 = 1 THEN (i + 1) \div 2 \in 1 .. n
                                    ELSE i \div 2 \in 1 .. n
           /\ \A j \in 1 .. n : /\ 2 * j \in 1 .. 2 * n /\ (2 * j) % 2 # 1
                                /\ (2 * j) \div 2 = j
<1>1. ASSUME NEW i \in 1 .. 2 * n
      PROVE  IF i % 2 = 1 THEN (i + 1) \div 2 \in 1 .. n
             ELSE i \div 2 \in 1 .. n
    OBVIOUS
<1>2. ASSUME NEW j \in 1 .. n
      PROVE  /\ 2 * j \in 1 .. 2 * n /\ (2 * j) % 2 # 1
             /\ (2 * j) \div 2 = j
    OBVIOUS
<1> QED BY <1>1, <1>2

LEMMA ScoreStep ==
    ASSUME IInv, NEW p \in Web, Score(p)
    PROVE  IInv'
<1> USE DEF IInv
<1>0. PICK S \in SUBSET {r \in rows : r.kind = "project"} :
        \E pass \in SUBSET {r.id : r \in S} :
        LET after == Scored(S, pass)
            order == SetToSeq(after)
        IN  /\ rows' = (rows \ S) \cup after
            /\ Commit(p, {<<"project", r.learner>> : r \in S},
                      [i \in 1 .. 2 * Cardinality(after) |->
                          IF i % 2 = 1 THEN Sync(order[(i + 1) \div 2], FALSE)
                          ELSE SyncOutcome(order[i \div 2])])
            /\ UNCHANGED <<learners, project, made, held, excused>>
    BY DEF Score
<1>1. PICK pass \in SUBSET {r.id : r \in S} :
        LET after == Scored(S, pass)
            order == SetToSeq(after)
        IN  /\ rows' = (rows \ S) \cup after
            /\ Commit(p, {<<"project", r.learner>> : r \in S},
                      [i \in 1 .. 2 * Cardinality(after) |->
                          IF i % 2 = 1 THEN Sync(order[(i + 1) \div 2], FALSE)
                          ELSE SyncOutcome(order[i \div 2])])
            /\ UNCHANGED <<learners, project, made, held, excused>>
    BY <1>0
<1> DEFINE after == Scored(S, pass)
           order == SetToSeq(after)
           n == Cardinality(after)
           touched == {<<"project", r.learner>> : r \in S}
           cs == [i \in 1 .. 2 * n |->
                     IF i % 2 = 1 THEN Sync(order[(i + 1) \div 2], FALSE)
                     ELSE SyncOutcome(order[i \div 2])]
           b == [r \in S |-> r.id \in pass]
<1>2. rows' = (rows \ S) \cup after /\ Commit(p, touched, cs)
    BY <1>1
<1>3. clock \in 0 .. MaxChanges /\ clock < MaxChanges /\ RowsOK(rows, made)
    BY <1>2 DEF TypeOK, Commit, Counted
<1>4. /\ S \in SUBSET rows
      /\ \A r \in S : /\ r \in Row /\ r.kind = "project"
                      /\ <<"project", r.learner>> \in touched
    BY <1>3 DEF RowsOK
<1> HIDE DEF touched
<1>5. b \in [S -> BOOLEAN] /\ after = Marked(S, b)
    BY DEF Scored, Marked
<1>6. \A r \in S : \E x \in after : Outcome(x) = Outcome(r)
  <2> SUFFICES ASSUME NEW r \in S
               PROVE  \E x \in after : Outcome(x) = Outcome(r)
      OBVIOUS
  <2> DEFINE x == [r EXCEPT !.mark = (r.id \in pass)]
  <2>1. (r.id \in pass) \in BOOLEAN
      OBVIOUS
  <2>2. Outcome(x) = Outcome(r)
      BY <1>4, <2>1, PayloadMarked
  <2>3. x \in after
      BY DEF Scored
  <2> QED BY <2>2, <2>3
<1>7. \A x \in after : x \in rows' /\ x \in Row /\ x.kind = "project"
  <2> SUFFICES ASSUME NEW r \in S
               PROVE  LET x == [r EXCEPT !.mark = (r.id \in pass)]
                      IN  x \in Row /\ x.kind = "project"
      BY <1>2 DEF Scored
  <2>1. (r.id \in pass) \in BOOLEAN
      OBVIOUS
  <2> QED BY <1>4, <2>1, PayloadMarked
<1> HIDE DEF after, b
<1>8. RowsOK(rows', made')
    BY <1>1, <1>2, <1>3, <1>4, <1>5, RowsMarked
<1>9. n \in Nat /\ order \in [1 .. n -> after]
      /\ \A x \in after : \E i \in 1 .. n : order[i] = x
  <2>1. after \subseteq rows'
      BY <1>7
  <2>2. IsFiniteSet(after)
      BY <1>7, <1>8, <2>1, RowsFinite DEF RowsOK
  <2> QED BY <2>2, SeqOfSet
<1>10. \A x \in after :
          /\ Sync(x, FALSE) \in Callbacks
          /\ Sync(x, FALSE).at = clock + 1
          /\ \A k \in Sync(x, FALSE).keys : k.list # "contact" =>
                (k \in Wanted' <=> Sync(x, FALSE).do = "upsert")
    BY <1>3, <1>7, SyncTells
<1>11. \A x \in after :
          /\ SyncOutcome(x) \in Callbacks
          /\ SyncOutcome(x).at = clock + 1
          /\ Outcome(x) \in SyncOutcome(x).keys
          /\ \A k \in SyncOutcome(x).keys : k.list # "contact" =>
                (k \in Wanted' <=> SyncOutcome(x).do = "upsert")
    BY <1>3, <1>7, <1>8, OutcomeTells
<1> HIDE DEF order, n
<1>12. /\ \A i \in 1 .. 2 * n : IF i % 2 = 1 THEN (i + 1) \div 2 \in 1 .. n
                                ELSE i \div 2 \in 1 .. n
       /\ \A j \in 1 .. n : /\ 2 * j \in 1 .. 2 * n /\ (2 * j) % 2 # 1
                            /\ (2 * j) \div 2 = j
    BY <1>9, OddAndEven
<1>13. \A i \in 1 .. 2 * n : \E x \in after : cs[i] \in {Sync(x, FALSE), SyncOutcome(x)}
  <2> SUFFICES ASSUME NEW i \in 1 .. 2 * n
               PROVE  \E x \in after : cs[i] \in {Sync(x, FALSE), SyncOutcome(x)}
      OBVIOUS
  <2>1. CASE i % 2 = 1
    <3>1. order[(i + 1) \div 2] \in after
        BY <1>9, <1>12, <2>1
    <3> QED BY <2>1, <3>1
  <2>2. CASE i % 2 # 1
    <3>1. order[i \div 2] \in after
        BY <1>9, <1>12, <2>2
    <3> QED BY <2>2, <3>1
  <2> QED BY <2>1, <2>2
<1>14. \A x \in after : \E i \in 1 .. 2 * n : cs[i] = SyncOutcome(x)
  <2> SUFFICES ASSUME NEW x \in after
               PROVE  \E i \in 1 .. 2 * n : cs[i] = SyncOutcome(x)
      OBVIOUS
  <2>1. PICK j \in 1 .. n : order[j] = x
      BY <1>9
  <2>2. cs[2 * j] = SyncOutcome(order[j])
      BY <1>12
  <2> QED BY <1>12, <2>1, <2>2
<1>15. DOMAIN cs = 1 .. 2 * n /\ \A i \in 1 .. 2 * n : cs[i] \in Callbacks
    BY <1>10, <1>11, <1>13
<1>16. cs \in Seq(Callbacks)
  <2>1. 2 * n \in Nat
      BY <1>9
  <2>2. cs \in [1 .. 2 * n -> Callbacks]
      BY <1>15
  <2> HIDE DEF cs
  <2> QED BY <2>1, <2>2
<1> HIDE DEF cs
<1>17. \A k \in Named :
          \/ k \in Wanted' <=> k \in Wanted
          \/ /\ <<KindOf(k.list), k.learner>> \in touched
             /\ \E i \in DOMAIN cs : k \in cs[i].keys
  <2> SUFFICES ASSUME NEW k \in Named, ~(k \in Wanted' <=> k \in Wanted)
               PROVE  /\ <<KindOf(k.list), k.learner>> \in touched
                      /\ \E i \in DOMAIN cs : k \in cs[i].keys
      OBVIOUS
  <2>1. rows' = (rows \ S) \cup Marked(S, b)
      BY <1>2, <1>5
  <2>2. PICK r \in S :
            /\ r.kind \in {"project", "enrollment"}
            /\ KindOf(k.list) = r.kind /\ k.learner = r.learner
            /\ k = IF r.kind = "project" THEN Outcome(r)
                   ELSE Of("graduates", r, r.id)
      BY <1>3, <1>4, <1>5, <2>1, MarkedChanges
  <2>3. k = Outcome(r) /\ <<KindOf(k.list), k.learner>> \in touched
      BY <1>4, <2>2
  <2> QED BY <1>6, <1>11, <1>14, <1>15, <2>3
<1>18. ASSUME NEW i \in DOMAIN cs
       PROVE  /\ cs[i].at = clock + 1
              /\ \A k \in cs[i].keys : k.list # "contact" =>
                    (k \in Wanted' <=> cs[i].do = "upsert")
  <2>1. PICK x \in after : cs[i] \in {Sync(x, FALSE), SyncOutcome(x)}
      BY <1>13, <1>15
  <2>2. CASE cs[i] = Sync(x, FALSE)
      BY <1>10, <2>2
  <2>3. CASE cs[i] = SyncOutcome(x)
      BY <1>11, <2>3
  <2> QED BY <2>1, <2>2, <2>3
<1>19. HeldOK'
  <2>1. \A q \in rows' : \E x \in rows :
            q.id = x.id /\ q.kind = x.kind /\ q.learner = x.learner
      BY <1>2, <1>3, <1>4, <1>5, RowsMarked
  <2>2. made \in Nat /\ made' = made /\ UNCHANGED held
      BY <1>1, <1>3, BoundsAssumption DEF RowsOK
  <2> QED BY <1>3, <2>1, <2>2, HeldKept
<1> QED BY <1>1, <1>2, <1>8, <1>16, <1>17, <1>18, <1>19, CommitKeeps
        DEF MoreTypes

LEMMA Concatenation ==
    ASSUME NEW S, NEW s \in Seq(S), NEW t \in Seq(S)
    PROVE  s \o t \in Seq(S) /\ Range(s \o t) = Range(s) \cup Range(t)
<1> DEFINE m == Len(s)
           n == Len(t)
           u == s \o t
<1>1. m \in Nat /\ n \in Nat /\ DOMAIN s = 1 .. m /\ DOMAIN t = 1 .. n
    OBVIOUS
<1>2. /\ u \in Seq(S) /\ DOMAIN u = 1 .. m + n
      /\ \A i \in 1 .. m : u[i] = s[i]
      /\ \A i \in 1 .. n : u[m + i] = t[i]
    OBVIOUS
<1> HIDE DEF m, n, u
<1>3. ASSUME NEW i \in 1 .. m + n PROVE u[i] \in Range(s) \cup Range(t)
  <2>1. i \in 1 .. m \/ (i - m \in 1 .. n /\ i = m + (i - m))
      BY <1>1
  <2> QED BY <1>1, <1>2, <2>1 DEF Range
<1>4. ASSUME NEW i \in 1 .. m PROVE s[i] \in Range(u)
  <2>1. i \in 1 .. m + n
      BY <1>1
  <2> QED BY <1>1, <1>2, <2>1 DEF Range
<1>5. ASSUME NEW i \in 1 .. n PROVE t[i] \in Range(u)
  <2>1. m + i \in 1 .. m + n
      BY <1>1
  <2> QED BY <1>1, <1>2, <2>1 DEF Range
<1>6. /\ \A x \in Range(s) : x \in Range(u)
      /\ \A x \in Range(t) : x \in Range(u)
      /\ \A x \in Range(u) : x \in Range(s) \cup Range(t)
    BY <1>1, <1>2, <1>3, <1>4, <1>5 DEF Range
<1> QED BY <1>2, <1>6 DEF u

\* An enrollment on the way, and a submission: the rows they leave.
Submitted(l, kind, new, r) ==
    /\ RowsOK(rows, made) /\ new = Enrolled(l)
    /\ RowsOf(kind, l) = {} =>
          r = NewRow(kind, l, made + Cardinality(new) + 1)
    /\ RowsOf(kind, l) # {} => r \in RowsOf(kind, l)
    /\ rows' = rows \cup new \cup {r}
    /\ made' = made + Cardinality(rows' \ rows) /\ made' <= MaxRows

LEMMA SubmittedRows ==
    ASSUME NEW l \in Learners, NEW kind \in {"homework", "project", "volunteer"},
           NEW new, NEW r, Submitted(l, kind, new, r)
    PROVE  /\ RowsOK(rows', made')
           /\ IsFiniteSet(new)
           /\ \A q \in new \cup {r} : q \in Row /\ q.learner = l
           /\ \A q \in rows' \ rows : q \in new \cup {r}
                                      /\ Payload(q, q.id) = Main(q)
                                      /\ q.id \in Nat /\ q.id > made
           /\ r.kind = kind
           /\ \A q \in new : q.kind = "enrollment"
           /\ made' \in Nat /\ made' >= made /\ made \in Nat
<1> DEFINE e == NewRow("enrollment", l, made + 1)
           joins == RowsOf("enrollment", l) = {}
           fresh == RowsOf(kind, l) = {}
           c == Cardinality(new)
           last == IF fresh THEN {r} ELSE {}
<1> USE DEF Submitted
<1>1. made \in Nat /\ rows \subseteq Row
    BY BoundsAssumption DEF RowsOK
<1>2. /\ new = IF joins THEN {e} ELSE {}
      /\ c = IF joins THEN 1 ELSE 0
      /\ IsFiniteSet(new)
    BY FS_EmptySet, FS_Singleton DEF Enrolled
<1>3. /\ joins => \A q \in rows : q.kind # "enrollment" \/ q.learner # l
      /\ fresh => \A q \in rows : q.kind # kind \/ q.learner # l
      /\ ~fresh => r \in rows /\ r.kind = kind /\ r.learner = l
      /\ fresh => r = NewRow(kind, l, made + c + 1)
    BY DEF RowsOf
<1>4. /\ e.kind = "enrollment" /\ e.learner = l /\ e.id = made + 1
      /\ fresh => r.kind = kind /\ r.learner = l /\ r.id = made + c + 1
    BY <1>3 DEF NewRow
<1>5. \A q \in new : q = e /\ joins
    BY <1>2
<1> HIDE DEF joins, fresh, e, c
<1>6. rows' \ rows = new \cup last /\ rows' = (rows \cup new) \cup last
  <2>1. \A q \in new : q \notin rows
      BY <1>3, <1>4, <1>5
  <2>2. \A q \in last : q \notin rows
      BY <1>3, <1>4
  <2> QED BY <1>3, <2>1, <2>2
<1>7. Cardinality(new \cup last) = c + (IF fresh THEN 1 ELSE 0)
  <2>1. \A q \in last : q \notin new
      BY <1>2, <1>4
  <2>2. CASE fresh
    <3>1. Cardinality(new \cup {r}) = c + 1
        BY <1>2, <2>1, <2>2, FS_AddElement DEF c
    <3> QED BY <2>2, <3>1
  <2>3. CASE ~fresh
    <3>1. c \in Nat /\ new \cup last = new
        BY <1>2, <2>3
    <3> QED BY <2>3, <3>1 DEF c
  <2> QED BY <2>2, <2>3
<1> DEFINE m == made + c
<1>8. /\ m \in 0 .. MaxRows /\ made' \in 0 .. MaxRows
      /\ made' = m + (IF fresh THEN 1 ELSE 0)
      /\ joins => made + 1 \in Ids /\ made + 1 <= m
      /\ fresh => m + 1 \in Ids
  <2>1. made' = made + (c + (IF fresh THEN 1 ELSE 0))
      BY <1>6, <1>7
  <2>2. c \in {0, 1} /\ (joins => c = 1) /\ made' <= MaxRows
      BY <1>2
  <2> QED BY <1>1, <2>1, <2>2, BoundsAssumption DEF Ids
<1> HIDE DEF m
<1>9. joins => e \in Row /\ Payload(e, e.id) = Main(e)
    BY <1>8, NewRows DEF e, RowKinds, Kinds
<1>10. fresh => r \in Row /\ Payload(r, r.id) = Main(r)
  <2> SUFFICES ASSUME fresh PROVE r \in Row /\ Payload(r, r.id) = Main(r)
      OBVIOUS
  <2>1. r = NewRow(kind, l, m + 1) /\ m + 1 \in Ids /\ kind \in RowKinds
      BY <1>3, <1>8 DEF m, RowKinds, Kinds
  <2> QED BY <2>1, NewRows
<1>11. RowsOK(rows \cup new, m)
  <2>1. CASE joins
    <3>1. /\ e \in Row /\ e.id > made /\ e.id <= m
          /\ \A q \in rows : q.kind # e.kind \/ q.learner # e.learner
        BY <1>1, <1>3, <1>4, <1>8, <1>9, <2>1
    <3>2. RowsOK(rows \cup {e}, m)
        BY <1>8, <3>1, RowAdded
    <3> QED BY <1>2, <2>1, <3>2
  <2>2. CASE ~joins
    <3>1. rows \cup new = rows /\ m = made
        BY <1>1, <1>2, <2>2 DEF m
    <3> QED BY <3>1
  <2> QED BY <2>1, <2>2
<1>12. RowsOK(rows', made')
  <2>1. CASE fresh
    <3> DEFINE R == rows \cup new
    <3>1. r \in Row /\ r.id > m /\ r.id <= made'
        BY <1>4, <1>8, <1>10, <2>1 DEF m
    <3>2. \A q \in R : q.kind # r.kind \/ q.learner # r.learner
        BY <1>3, <1>4, <1>5, <2>1
    <3>3. rows' = R \cup {r}
        BY <1>6, <2>1
    <3> HIDE DEF R
    <3>4. RowsOK(R, m)
        BY <1>11 DEF R
    <3>5. RowsOK(R \cup {r}, made')
        BY <1>8, <3>1, <3>2, <3>4, RowAdded
    <3> QED BY <3>3, <3>5
  <2>2. CASE ~fresh
    <3>1. rows' = rows \cup new /\ made' = m
        BY <1>6, <1>8, <2>2
    <3> QED BY <1>11, <3>1
  <2> QED BY <2>1, <2>2
<1>13. \A q \in new \cup {r} : q \in Row /\ q.learner = l
    BY <1>1, <1>3, <1>4, <1>5, <1>9, <1>10
<1>14. \A q \in rows' \ rows : q \in new \cup {r} /\ Payload(q, q.id) = Main(q)
    BY <1>5, <1>6, <1>9, <1>10
<1>15. \A q \in rows' \ rows : q.id \in Nat /\ q.id > made
  <2>1. \A q \in last : fresh /\ q = r
      OBVIOUS
  <2>2. fresh => r.id \in Nat /\ r.id > made
      BY <1>1, <1>2, <1>4
  <2>3. \A q \in new : q.id \in Nat /\ q.id > made
      BY <1>1, <1>4, <1>5
  <2> HIDE DEF last
  <2> QED BY <1>6, <2>1, <2>2, <2>3
<1>16. made' \in Nat /\ made' >= made
  <2>1. c \in {0, 1}
      BY <1>2
  <2> QED BY <1>1, <1>8, <2>1 DEF m
<1> QED BY <1>1, <1>2, <1>3, <1>4, <1>5, <1>12, <1>13, <1>14, <1>15, <1>16
        DEF fresh

LEMMA SubmitStep ==
    ASSUME IInv, NEW p \in Web, NEW l \in Learners,
           NEW kind \in {"homework", "project"}, Submit(p, l, kind)
    PROVE  IInv'
<1> USE DEF IInv
<1> DEFINE new == Enrolled(l)
           r == IF RowsOf(kind, l) = {}
                THEN NewRow(kind, l, made + Cardinality(new) + 1)
                ELSE CHOOSE q \in RowsOf(kind, l) : TRUE
           synced == {Sync(q, TRUE) : q \in new}
           first == SetToSeq(synced)
           then == SubmissionCallbacks(r)
           cs == first \o then
           touched == {<<q.kind, l>> : q \in new \cup {r}}
<1>1. /\ rows' = rows \cup new \cup {r}
      /\ made' = made + Cardinality(rows' \ rows) /\ made' <= MaxRows
      /\ Commit(p, touched, cs)
      /\ UNCHANGED <<learners, project, held, excused>>
    BY DEF Submit
<1>2. clock \in 0 .. MaxChanges /\ clock < MaxChanges /\ RowsOK(rows, made)
    BY <1>1 DEF TypeOK, Commit, Counted
<1>3. /\ RowsOf(kind, l) = {} =>
            r = NewRow(kind, l, made + Cardinality(new) + 1)
      /\ RowsOf(kind, l) # {} => r \in RowsOf(kind, l)
    OBVIOUS
<1>4. new = Enrolled(l)
    OBVIOUS
<1> HIDE DEF new, r
<1>5. /\ RowsOK(rows', made') /\ IsFiniteSet(new)
      /\ \A q \in new \cup {r} : q \in Row /\ q.learner = l
      /\ \A q \in rows' \ rows : /\ q \in new \cup {r}
                                 /\ Payload(q, q.id) = Main(q)
                                 /\ q.id \in Nat /\ q.id > made
      /\ r.kind = kind
      /\ \A q \in new : q.kind = "enrollment"
      /\ made' \in Nat /\ made' >= made /\ made \in Nat
  <2>1. Submitted(l, kind, new, r)
      BY <1>1, <1>2, <1>3, <1>4 DEF Submitted
  <2> QED BY <2>1, SubmittedRows
<1>6. \A q \in new \cup {r} :
          /\ Sync(q, TRUE) \in Callbacks
          /\ Sync(q, TRUE).at = clock + 1
          /\ Sync(q, TRUE).keys = Main(q) \cup {Contact(q.learner)}
          /\ \A k \in Sync(q, TRUE).keys : k.list # "contact" =>
                (k \in Wanted' <=> Sync(q, TRUE).do = "upsert")
    BY <1>1, <1>2, <1>5, SyncTells
<1> DEFINE sync == Sync(r, TRUE)
           mail == Email(r)
<1>7. mail \in Callbacks /\ mail.keys = {} /\ mail.at = clock + 1
    BY <1>2, <1>5, RowCallbacks DEF Row
<1>8. sync \in Callbacks
    BY <1>6
<1>9. then = IF r.kind = "homework" THEN <<mail, sync>> ELSE <<sync, mail>>
    BY DEF SubmissionCallbacks
<1>10. \A q \in new : Sync(q, TRUE) \in synced
    OBVIOUS
<1>11. \A s \in synced : \E q \in new : s = Sync(q, TRUE)
    OBVIOUS
<1>12. IsFiniteSet(synced)
  <2> DEFINE f == [q \in new |-> Sync(q, TRUE)]
  <2>1. f \in Surjection(new, synced)
      BY DEF Surjection
  <2> QED BY <1>5, <2>1, FS_Surjection
<1> HIDE DEF sync, mail, then, first, synced
<1>13. then \in Seq(Callbacks) /\ Range(then) = {sync, mail}
  <2>1. CASE r.kind = "homework"
    <3>1. /\ then \in Seq(Callbacks) /\ DOMAIN then = {1, 2}
          /\ then[1] = mail /\ then[2] = sync
        BY <1>7, <1>8, <1>9, <2>1, Tuples
    <3> QED BY <3>1 DEF Range
  <2>2. CASE r.kind # "homework"
    <3>1. /\ then \in Seq(Callbacks) /\ DOMAIN then = {1, 2}
          /\ then[1] = sync /\ then[2] = mail
        BY <1>7, <1>8, <1>9, <2>2, Tuples
    <3> QED BY <3>1 DEF Range
  <2> QED BY <2>1, <2>2
<1>14. first \in Seq(Callbacks) /\ Range(first) = synced
  <2> DEFINE n == Cardinality(synced)
  <2>1. /\ n \in Nat /\ first \in [1 .. n -> synced]
        /\ \A s \in synced : \E i \in 1 .. n : first[i] = s
      BY <1>12, SeqOfSet DEF first
  <2>2. synced \subseteq Callbacks
      BY <1>6, <1>11
  <2> HIDE DEF n
  <2>3. first \in [1 .. n -> Callbacks]
      BY <2>1, <2>2
  <2>4. first \in Seq(Callbacks)
      BY <2>1, <2>3
  <2> QED BY <2>1, <2>4 DEF Range
<1>15. cs \in Seq(Callbacks) /\ Range(cs) = synced \cup {sync, mail}
    BY <1>13, <1>14, Concatenation
<1> HIDE DEF cs
<1>16. /\ \A i \in DOMAIN cs :
             cs[i] = mail \/ \E q \in new \cup {r} : cs[i] = Sync(q, TRUE)
       /\ \A q \in new \cup {r} : \E i \in DOMAIN cs : cs[i] = Sync(q, TRUE)
  <2>1. \A i \in DOMAIN cs : cs[i] \in synced \cup {sync, mail}
      BY <1>15 DEF Range
  <2>2. \A c \in synced \cup {sync, mail} : \E i \in DOMAIN cs : cs[i] = c
      BY <1>15 DEF Range
  <2> QED BY <1>10, <1>11, <2>1, <2>2 DEF sync
<1>17. \A k \in Named :
          \/ k \in Wanted' <=> k \in Wanted
          \/ /\ <<KindOf(k.list), k.learner>> \in touched
             /\ \E i \in DOMAIN cs : k \in cs[i].keys
  <2> SUFFICES ASSUME NEW k \in Named, ~(k \in Wanted' <=> k \in Wanted)
               PROVE  /\ <<KindOf(k.list), k.learner>> \in touched
                      /\ \E i \in DOMAIN cs : k \in cs[i].keys
      OBVIOUS
  <2>1. rows \subseteq Row /\ rows' \subseteq Row
      BY <1>2, <1>5 DEF RowsOK
  <2>2. PICK q \in (rows \ rows') \cup (rows' \ rows) :
            /\ k \in Payload(q, q.id)
            /\ <<KindOf(k.list), k.learner>> = Place(q)
      BY <2>1, WantedChanges
  <2>3. q \in rows' \ rows
      BY <1>1
  <2>4. q \in new \cup {r} /\ k \in Main(q) /\ q.learner = l
      BY <1>5, <2>2, <2>3
  <2>5. k \in Sync(q, TRUE).keys
      BY <1>6, <2>4
  <2>6. Place(q) = <<q.kind, l>>
      BY <1>5, <2>4 DEF Place, Family
  <2> QED BY <1>16, <2>2, <2>4, <2>5, <2>6
<1>18. ASSUME NEW i \in DOMAIN cs
       PROVE  /\ cs[i].at = clock + 1
              /\ \A k \in cs[i].keys : k.list # "contact" =>
                    (k \in Wanted' <=> cs[i].do = "upsert")
  <2>1. CASE cs[i] = mail
      BY <1>7, <2>1
  <2>2. CASE \E q \in new \cup {r} : cs[i] = Sync(q, TRUE)
      BY <1>6, <2>2
  <2> QED BY <1>16, <2>1, <2>2
<1> HIDE DEF touched
<1>19. HeldOK'
    BY <1>1, <1>2, <1>5, HeldKept
<1> QED BY <1>1, <1>5, <1>15, <1>17, <1>18, <1>19, CommitKeeps DEF MoreTypes

\* A volunteer's row comes without a callback, and is excused; an enrollment
\* on the way is synced.
LEMMA VolunteerStep ==
    ASSUME IInv, NEW p \in Web, NEW l \in Learners, Volunteer(p, l)
    PROVE  IInv'
<1> USE DEF IInv
<1> DEFINE new == Enrolled(l)
           r == NewRow("volunteer", l, made + Cardinality(new) + 1)
           synced == {Sync(q, TRUE) : q \in new}
           cs == SetToSeq(synced)
           touched == {Place(q) : q \in new \cup {r}}
<1>1. /\ rows' = rows \cup new \cup {r} /\ RowsOf("volunteer", l) = {}
      /\ made' = made + Cardinality(rows' \ rows) /\ made' <= MaxRows
      /\ Commit(p, touched, cs)
      /\ excused' = excused \cup ProjectMember(r, r.id)
      /\ UNCHANGED <<learners, project, held>>
    BY DEF Volunteer
<1>2. clock \in 0 .. MaxChanges /\ clock < MaxChanges /\ RowsOK(rows, made)
    BY <1>1 DEF TypeOK, Commit, Counted
<1>3. r = NewRow("volunteer", l, made + Cardinality(new) + 1)
    OBVIOUS
<1>4. new = Enrolled(l)
    OBVIOUS
<1> HIDE DEF new, r
<1>5. /\ RowsOK(rows', made') /\ IsFiniteSet(new)
      /\ \A q \in new \cup {r} : q \in Row /\ q.learner = l
      /\ \A q \in rows' \ rows : /\ q \in new \cup {r}
                                 /\ Payload(q, q.id) = Main(q)
                                 /\ q.id \in Nat /\ q.id > made
      /\ r.kind = "volunteer"
      /\ made' \in Nat /\ made' >= made /\ made \in Nat
  <2>1. Submitted(l, "volunteer", new, r)
      BY <1>1, <1>2, <1>3, <1>4 DEF Submitted
  <2> QED BY <2>1, SubmittedRows
<1>6. \A q \in new :
          /\ Sync(q, TRUE) \in Callbacks
          /\ Sync(q, TRUE).at = clock + 1
          /\ Sync(q, TRUE).keys = Main(q) \cup {Contact(q.learner)}
          /\ \A k \in Sync(q, TRUE).keys : k.list # "contact" =>
                (k \in Wanted' <=> Sync(q, TRUE).do = "upsert")
    BY <1>1, <1>2, <1>5, SyncTells
<1>7. IsFiniteSet(synced)
  <2> DEFINE f == [q \in new |-> Sync(q, TRUE)]
  <2>1. f \in Surjection(new, synced)
      BY DEF Surjection
  <2> QED BY <1>5, <2>1, FS_Surjection
<1>8. /\ \A q \in new : Sync(q, TRUE) \in synced
      /\ \A s \in synced : \E q \in new : s = Sync(q, TRUE)
    OBVIOUS
<1> HIDE DEF synced
<1>9. cs \in Seq(Callbacks) /\ Range(cs) = synced
  <2> DEFINE n == Cardinality(synced)
  <2>1. /\ n \in Nat /\ cs \in [1 .. n -> synced]
        /\ \A s \in synced : \E i \in 1 .. n : cs[i] = s
      BY <1>7, SeqOfSet
  <2>2. synced \subseteq Callbacks
      BY <1>6, <1>8
  <2> HIDE DEF n, cs
  <2>3. cs \in [1 .. n -> Callbacks]
      BY <2>1, <2>2
  <2>4. cs \in Seq(Callbacks)
      BY <2>1, <2>3
  <2> QED BY <2>1, <2>4 DEF Range
<1> HIDE DEF cs
<1>10. /\ \A i \in DOMAIN cs : \E q \in new : cs[i] = Sync(q, TRUE)
       /\ \A q \in new : \E i \in DOMAIN cs : cs[i] = Sync(q, TRUE)
    BY <1>8, <1>9 DEF Range
<1>11. Main(r) \subseteq ProjectMember(r, r.id)
    BY <1>5 DEF Main, Payload, PassedMember, Of
<1>12. \A k \in Named :
          \/ k \in Wanted' <=> k \in Wanted
          \/ /\ <<KindOf(k.list), k.learner>> \in touched
             /\ k \in excused' \/ \E i \in DOMAIN cs : k \in cs[i].keys
  <2> SUFFICES ASSUME NEW k \in Named, ~(k \in Wanted' <=> k \in Wanted)
               PROVE  /\ <<KindOf(k.list), k.learner>> \in touched
                      /\ k \in excused' \/ \E i \in DOMAIN cs : k \in cs[i].keys
      OBVIOUS
  <2>1. rows \subseteq Row /\ rows' \subseteq Row
      BY <1>2, <1>5 DEF RowsOK
  <2>2. PICK q \in (rows \ rows') \cup (rows' \ rows) :
            /\ k \in Payload(q, q.id)
            /\ <<KindOf(k.list), k.learner>> = Place(q)
      BY <2>1, WantedChanges
  <2>3. q \in rows' \ rows
      BY <1>1
  <2>4. q \in new \cup {r} /\ k \in Main(q)
      BY <1>5, <2>2, <2>3
  <2>5. CASE q \in new
      BY <1>6, <1>10, <2>2, <2>4, <2>5
  <2>6. CASE q = r
      BY <1>1, <1>11, <2>2, <2>4, <2>6
  <2> QED BY <2>4, <2>5, <2>6
<1>13. \A i \in DOMAIN cs :
          /\ cs[i].at = clock + 1
          /\ \A k \in cs[i].keys : k.list # "contact" =>
                (k \in Wanted' <=> cs[i].do = "upsert")
    BY <1>6, <1>10
<1> HIDE DEF touched
<1>14. HeldOK'
    BY <1>1, <1>2, <1>5, HeldKept
<1> QED BY <1>1, <1>5, <1>9, <1>12, <1>13, <1>14, CommitKeeps DEF MoreTypes

\* A row saved with every column: what it changes is excused, if no callback
\* carries it.
MarkKey(r) == IF r.kind = "project" THEN Outcome(r) ELSE Of("graduates", r, r.id)

LEMMA SavedRows ==
    ASSUME NEW r \in Row, RowsOK(rows, made), Save(r), r.id <= made,
           r.kind \in {"project", "enrollment"},
           \A q \in rows : q.id = r.id => Place(q) = Place(r) /\ q.kind = r.kind,
           Stored(r) \/ \A q \in rows : Place(q) # Place(r)
    PROVE  /\ RowsOK(rows', made') /\ r \in rows' /\ HeldOK'
           /\ \A k : ~(k \in Wanted' <=> k \in Wanted) =>
                 /\ <<KindOf(k.list), k.learner>> = Place(r)
                 /\ k \in Main(r) \cup {MarkKey(r)}
                 /\ r \notin rows
                 /\ ~Stored(r) \/ k \notin Main(r)
<1>1. /\ rows' = {q \in rows : q.id # r.id} \cup {r} /\ made' = made
      /\ held' = NoRow
    BY DEF Save
<1>2. \A q \in rows :
         /\ q.kind = r.kind /\ q.learner = r.learner => q.id = r.id
         /\ q.id = r.id => q.kind = r.kind /\ q.learner = r.learner
  <2> SUFFICES ASSUME NEW q \in rows
               PROVE  /\ q.kind = r.kind /\ q.learner = r.learner => q.id = r.id
                      /\ q.id = r.id => q.kind = r.kind /\ q.learner = r.learner
      OBVIOUS
  <2>1. q.id = r.id => q.kind = r.kind /\ q.learner = r.learner
      BY DEF Place
  <2>2. CASE Stored(r)
    <3>1. PICK x \in rows : x.id = r.id
        BY <2>2 DEF Stored
    <3>2. x.kind = r.kind /\ x.learner = r.learner
        BY <3>1 DEF Place
    <3> QED BY <2>1, <3>1, <3>2 DEF RowsOK
  <2>3. CASE \A x \in rows : Place(x) # Place(r)
      BY <2>1, <2>3 DEF Place
  <2> QED BY <2>2, <2>3
<1>3. RowsOK(rows', made')
    BY <1>1, <1>2 DEF RowsOK
<1>4. HeldOK'
    BY <1>1 DEF HeldOK
<1>5. ASSUME NEW k, ~(k \in Wanted' <=> k \in Wanted)
      PROVE  /\ <<KindOf(k.list), k.learner>> = Place(r)
             /\ k \in Main(r) \cup {MarkKey(r)}
             /\ r \notin rows
             /\ ~Stored(r) \/ k \notin Main(r)
  <2>1. rows \subseteq Row /\ rows' \subseteq Row
      BY <1>3 DEF RowsOK
  <2>2. PICK q \in (rows \ rows') \cup (rows' \ rows) :
            /\ k \in Payload(q, q.id)
            /\ <<KindOf(k.list), k.learner>> = Place(q)
      BY <1>5, <2>1, WantedChanges
  <2>3. q \in Row /\ q.id = r.id /\ q.kind = r.kind /\ q.learner = r.learner
      BY <1>1, <1>2, <2>1, <2>2
  <2>4. Main(q) = Main(r) /\ MarkKey(q) = MarkKey(r)
    <3>1. q.mark \in BOOLEAN /\ r.mark \in BOOLEAN
        BY <2>3 DEF Row
    <3>2. q = [r EXCEPT !.mark = q.mark]
        BY <2>3 DEF Row
    <3> QED BY <2>3, <3>1, <3>2, PayloadMarked DEF MarkKey
  <2>5. k \in Main(q) \cup {MarkKey(q)}
      BY <2>2, <2>3, PayloadParts DEF MarkKey, Family
  <2>6. r \notin rows
    <3> SUFFICES ASSUME r \in rows PROVE FALSE
        OBVIOUS
    <3>1. \A x \in rows : x.id = r.id => x = r
        BY DEF RowsOK
    <3>2. rows' = rows
        BY <1>1, <3>1
    <3> QED BY <2>2, <3>2
  <2>7. ASSUME Stored(r), k \in Main(r) PROVE FALSE
    <3>1. PICK x \in rows : x.id = r.id
        BY <2>7 DEF Stored
    <3>2. x \in Row /\ x.kind = r.kind /\ x.learner = r.learner
        BY <1>2, <2>1, <3>1
    <3>3. Main(x) = Main(r)
      <4>1. x.mark \in BOOLEAN /\ x = [r EXCEPT !.mark = x.mark]
          BY <3>1, <3>2 DEF Row
      <4> QED BY <4>1, PayloadMarked
    <3>4. k \in Payload(x, x.id) /\ k \in Payload(r, r.id)
        BY <2>7, <3>2, <3>3, PayloadParts
    <3>5. r \in rows'
        BY <1>1
    <3> QED BY <1>5, <3>1, <3>4, <3>5 DEF Wanted
  <2> QED BY <2>2, <2>3, <2>4, <2>5, <2>6, <2>7 DEF Place
<1> QED BY <1>1, <1>3, <1>4, <1>5

\* What is held may be saved: its row, if it is there, has its place.
LEMMA HeldSaved ==
    ASSUME IInv, held # NoRow, NEW b \in BOOLEAN
    PROVE  LET r == [held EXCEPT !.mark = b] IN
           /\ held \in Row /\ r \in Row /\ r.id = held.id /\ r.id <= made
           /\ r.kind = held.kind /\ r.learner = held.learner
           /\ held.kind \in {"project", "enrollment"}
           /\ \A q \in rows : q.id = r.id => Place(q) = Place(r) /\ q.kind = r.kind
<1>1. /\ held \in Row /\ held.kind \in {"project", "enrollment"}
      /\ held.id <= made
      /\ \A q \in rows : q.id = held.id =>
            q.kind = held.kind /\ q.learner = held.learner
    BY DEF IInv, HeldOK
<1>2. LET r == [held EXCEPT !.mark = b] IN
      /\ r \in Row /\ r.id = held.id
      /\ r.kind = held.kind /\ r.learner = held.learner
    BY <1>1 DEF Row
<1> QED BY <1>1, <1>2 DEF Place

LEMMA SubmitAgainStep ==
    ASSUME IInv, NEW p \in Web, SubmitAgain(p)
    PROVE  IInv'
<1> USE DEF IInv
<1> DEFINE r == held
           sync == Sync(r, TRUE)
           mail == Email(r)
           cs == <<sync, mail>>
           touched == {Place(r)}
<1>1. /\ r # NoRow /\ r.kind = "project" /\ MaySave(r) /\ Save(r)
      /\ Commit(p, touched, SubmissionCallbacks(r))
      /\ excused' = excused \cup (IF r \in rows THEN {} ELSE {Outcome(r)})
    BY DEF SubmitAgain
<1>2. clock \in 0 .. MaxChanges /\ clock < MaxChanges /\ RowsOK(rows, made)
    BY <1>1 DEF TypeOK, Commit, Counted
<1>3. /\ r \in Row /\ r.id <= made
      /\ \A q \in rows : q.id = r.id => Place(q) = Place(r) /\ q.kind = r.kind
  <2>1. r \in Row /\ r.mark \in BOOLEAN /\ [r EXCEPT !.mark = r.mark] = r
      BY <1>1 DEF HeldOK, Row
  <2> QED BY <1>1, <2>1, HeldSaved
<1>4. SubmissionCallbacks(r) = cs
    BY <1>1 DEF SubmissionCallbacks
<1>5. UNCHANGED <<learners, project, made>>
    BY <1>1 DEF Save
<1> PICK R : R = r
    OBVIOUS
<1>6. /\ R \in Row /\ R.kind = "project" /\ R.id <= made /\ MaySave(R) /\ Save(R)
      /\ \A q \in rows : q.id = R.id => Place(q) = Place(R) /\ q.kind = R.kind
    BY <1>1, <1>3
<1>7. /\ RowsOK(rows', made') /\ R \in rows' /\ HeldOK'
      /\ \A k : ~(k \in Wanted' <=> k \in Wanted) =>
            /\ <<KindOf(k.list), k.learner>> = Place(R)
            /\ k \in Main(R) \cup {MarkKey(R)}
            /\ R \notin rows
    BY <1>2, <1>6, SavedRows DEF MaySave
<1>8. /\ Sync(R, TRUE) \in Callbacks
      /\ Sync(R, TRUE).at = clock + 1
      /\ Sync(R, TRUE).keys = Main(R) \cup {Contact(R.learner)}
      /\ \A k \in Sync(R, TRUE).keys : k.list # "contact" =>
            (k \in Wanted' <=> Sync(R, TRUE).do = "upsert")
    BY <1>2, <1>6, <1>7, SyncTells
<1>9. mail \in Callbacks /\ mail.keys = {} /\ mail.at = clock + 1
    BY <1>2, <1>3, RowCallbacks DEF Row
<1>10. sync = Sync(R, TRUE) /\ touched = {Place(R)}
    OBVIOUS
<1>11. MarkKey(R) = Outcome(R) /\ (R \notin rows => Outcome(R) \in excused')
    BY <1>1, <1>6 DEF MarkKey
<1>12. /\ cs \in Seq(Callbacks) /\ DOMAIN cs = {1, 2}
       /\ cs[1] = sync /\ cs[2] = mail
  <2>1. sync \in Callbacks
      BY <1>8
  <2>2. mail \in Callbacks
      BY <1>9
  <2> HIDE DEF sync, mail
  <2> QED BY <2>1, <2>2, Tuples
<1> HIDE DEF sync, mail, r
<1> HIDE DEF cs, touched
<1>13. \A k \in Named :
          \/ k \in Wanted' <=> k \in Wanted
          \/ /\ <<KindOf(k.list), k.learner>> \in touched
             /\ k \in excused' \/ \E i \in DOMAIN cs : k \in cs[i].keys
    BY <1>7, <1>8, <1>10, <1>11, <1>12
<1>14. \A i \in DOMAIN cs :
          /\ cs[i].at = clock + 1
          /\ \A k \in cs[i].keys : k.list # "contact" =>
                (k \in Wanted' <=> cs[i].do = "upsert")
    BY <1>8, <1>9, <1>10, <1>12
<1>15. Commit(p, touched, cs)
    BY <1>1, <1>4
<1> QED BY <1>1, <1>5, <1>7, <1>12, <1>13, <1>14, <1>15, CommitKeeps
        DEF MoreTypes

\* A save without a callback, if what it changes is excused.
LEMMA SilentSave ==
    ASSUME IInv, NEW p \in Web, NEW r \in Row, Save(r), r.id <= made,
           r.kind \in {"project", "enrollment"},
           \A q \in rows : q.id = r.id => Place(q) = Place(r) /\ q.kind = r.kind,
           Stored(r) \/ \A q \in rows : Place(q) # Place(r),
           Commit(p, {Place(r)}, << >>), excused \subseteq excused',
           r \notin rows => MarkKey(r) \in excused',
           ~Stored(r) => Main(r) \subseteq excused'
    PROVE  IInv'
<1> USE DEF IInv
<1>1. RowsOK(rows, made) /\ UNCHANGED <<learners, project, made>>
    BY DEF Counted, Save
<1>2. /\ RowsOK(rows', made') /\ HeldOK'
      /\ \A k : ~(k \in Wanted' <=> k \in Wanted) =>
            /\ <<KindOf(k.list), k.learner>> = Place(r)
            /\ k \in Main(r) \cup {MarkKey(r)}
            /\ r \notin rows
            /\ ~Stored(r) \/ k \notin Main(r)
    BY <1>1, SavedRows
<1>3. \A k \in Named :
          \/ k \in Wanted' <=> k \in Wanted
          \/ <<KindOf(k.list), k.learner>> \in {Place(r)} /\ k \in excused'
    BY <1>2
<1>4. << >> \in Seq(Callbacks) /\ DOMAIN << >> = {}
    OBVIOUS
<1> QED BY <1>1, <1>2, <1>3, <1>4, CommitKeeps DEF MoreTypes

LEMMA EditPassedStep ==
    ASSUME IInv, NEW p \in Web, EditPassed(p)
    PROVE  IInv'
<1>1. PICK passed \in BOOLEAN :
        LET r == [held EXCEPT !.mark = passed]
        IN  /\ held # NoRow /\ held.kind = "project"
            /\ MaySave(r)
            /\ Save(r)
            /\ Commit(p, {Place(r)}, << >>)
            /\ excused' = excused
                  \cup (IF r \in rows THEN {} ELSE {Outcome(r)})
                  \cup (IF Stored(r) THEN {} ELSE Main(r))
    BY DEF EditPassed
<1> DEFINE r == [held EXCEPT !.mark = passed]
<1>2. /\ r \in Row /\ r.id <= made /\ r.kind = "project"
      /\ \A q \in rows : q.id = r.id => Place(q) = Place(r) /\ q.kind = r.kind
    BY <1>1, HeldSaved
<1>3. /\ MaySave(r) /\ Save(r) /\ Commit(p, {Place(r)}, << >>)
      /\ excused' = excused
            \cup (IF r \in rows THEN {} ELSE {Outcome(r)})
            \cup (IF Stored(r) THEN {} ELSE Main(r))
    BY <1>1
<1> HIDE DEF r
<1>4. /\ excused \subseteq excused'
      /\ r \notin rows => MarkKey(r) \in excused'
      /\ ~Stored(r) => Main(r) \subseteq excused'
    BY <1>2, <1>3 DEF MarkKey
<1> QED BY <1>2, <1>3, <1>4, SilentSave DEF MaySave

LEMMA SaveEnrollmentStep ==
    ASSUME IInv, NEW p \in Web, SaveEnrollment(p)
    PROVE  IInv'
<1>1. /\ held # NoRow /\ held.kind = "enrollment" /\ Stored(held) /\ Save(held)
      /\ Commit(p, {Place(held)}, << >>)
      /\ excused' = excused \cup
            (IF held \in rows THEN {} ELSE {Of("graduates", held, held.id)})
    BY DEF SaveEnrollment
<1>2. held \in Row /\ held.mark \in BOOLEAN /\ [held EXCEPT !.mark = held.mark] = held
    BY <1>1 DEF IInv, HeldOK, Row
<1>3. /\ held.id <= made
      /\ \A q \in rows : q.id = held.id => Place(q) = Place(held) /\ q.kind = held.kind
    BY <1>1, <1>2, HeldSaved
<1>4. MarkKey(held) = Of("graduates", held, held.id)
    BY <1>1 DEF MarkKey
<1>5. excused \subseteq excused' /\ (held \notin rows => MarkKey(held) \in excused')
    BY <1>1, <1>4
<1> PICK r : r = held
    OBVIOUS
<1>6. /\ r \in Row /\ r.kind = "enrollment" /\ Stored(r) /\ Save(r) /\ r.id <= made
      /\ Commit(p, {Place(r)}, << >>)
      /\ \A q \in rows : q.id = r.id => Place(q) = Place(r) /\ q.kind = r.kind
      /\ r \notin rows => MarkKey(r) \in excused'
    BY <1>1, <1>2, <1>3, <1>5
<1> QED BY <1>5, <1>6, SilentSave

-----------------------------------------------------------------------------
(* The theorems *)

LEMMA RequestStep ==
    ASSUME IInv, NEW p \in Web, Request(p)
    PROVE  IInv'
<1>1. ASSUME NEW l \in Learners,
             \/ Register(p, l) \/ Enroll(p, l) \/ Certify(p, l)
             \/ \E kind \in {"homework", "project"} : Submit(p, l, kind)
             \/ Volunteer(p, l) \/ DeleteSubmission(p, l)
             \/ AdminDeleteRegistration(p, l) \/ AdminDeleteUser(p, l)
      PROVE  IInv'
    BY <1>1, RegisterStep, EnrollStep, CertifyStep, SubmitStep,
       VolunteerStep, DeleteSubmissionStep, AdminDeleteRegistrationStep, AdminDeleteUserStep
<1>2. CASE Score(p) \/ AdminDeleteProject(p)
    BY <1>2, ScoreStep, AdminDeleteProjectStep
<1>3. CASE SendHomeworkScores(p) \/ SendAssignments(p) \/ SendProjectScores(p)
  <2>1. /\ <<"homework">> \in Seq(Lists) /\ <<"project">> \in Seq(Lists)
        /\ <<"project", "passed">> \in Seq(Lists)
      BY Tuples DEF Lists
  <2> QED BY <1>3, <2>1, SendToStep
          DEF SendHomeworkScores, SendAssignments, SendProjectScores
<1>4. CASE RunCallback(p) \/ CallbackRaises(p) \/ Die(p)
    BY <1>4, RunCallbackStep, AbandonStep DEF CallbackRaises, Die
<1>5. CASE SubmitAgain(p) \/ EditPassed(p) \/ SaveEnrollment(p)
    BY <1>5, SubmitAgainStep, EditPassedStep, SaveEnrollmentStep
<1> QED BY <1>1, <1>2, <1>3, <1>4, <1>5 DEF Request

LEMMA InitInv == Init => IInv
<1> SUFFICES ASSUME Init PROVE IInv
    OBVIOUS
<1> USE BoundsAssumption DEF Init
<1>1. Wanted = {}
    BY DEF Wanted
<1>2. TypeOK
    BY DEF TypeOK
<1>3. << >> \in Seq(Callbacks) /\ DOMAIN << >> = {}
    OBVIOUS
<1>4. MoreTypes
    BY <1>3 DEF MoreTypes, Batches
<1>5. Counted
    BY DEF Counted, RowsOK
<1>6. EventsTell
    BY <1>3 DEF EventsTell
<1>7. DriftHasACause
    BY <1>1 DEF DriftHasACause, Drift
<1>8. HeldOK
    BY DEF HeldOK
<1> QED BY <1>2, <1>4, <1>5, <1>6, <1>7, <1>8 DEF IInv

LEMMA NextInv == IInv /\ [Next]_vars => IInv'
<1> SUFFICES ASSUME IInv, [Next]_vars PROVE IInv'
    OBVIOUS
<1>1. CASE Next
    BY <1>1, RequestStep, ReadStep, CommandStep DEF Next
<1>2. CASE UNCHANGED vars
  <2>1. UNCHANGED <<db, held, clock, changed, members, pending, excused, batch, imports>>
      BY <1>2 DEF vars
  <2> QED BY <2>1, HandOver DEF IInv, MoreTypes, EventsTell
<1> QED BY <1>1, <1>2

\* The invariant, of every state the requests, the callbacks, the commands
\* and the mail service can reach.
THEOREM Invariant == Spec => []IInv
BY InitInv, NextInv, PTL DEF Spec

\* Keys are never shared: whatever learners enroll, submit and leave, and
\* whatever the admin deletes, two rows never have one source key, nor one
\* kind and learner, with submissions looked up and inserted in one step.
THEOREM Typing == Spec => []TypeOK
<1>1. IInv => TypeOK
    BY DEF IInv
<1> QED BY <1>1, Invariant, PTL

\* Whatever the requests, callbacks, processes and commands do, a membership
\* of Datamailer that no callback is about to touch differs from the course
\* database only for a reason the model names: a callback was lost, a deleted
\* instance had lost its key, an event was carried out after the row had
\* changed again, staff edited or an older save set back what is not synced,
\* or the row is a volunteer's.
THEOREM MembershipsDriftOnlyForACause == Spec => []DriftHasACause
<1>1. IInv => DriftHasACause
    BY DEF IInv
<1> QED BY <1>1, Invariant, PTL

=============================================================================
