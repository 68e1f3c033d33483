---------------------------- MODULE CountingProofs ----------------------------
(***************************************************************************)
(* Theorems about three components whose arguments count finite sets:      *)
(* about ReviewAssignment, for any number of submissions and any smaller   *)
(* number of reviews per reviewer (what a reviewer has got of what the     *)
(* pools have lost); about ProjectVotes, for every limit and any number of *)
(* voters, submissions and requests in flight (the votes there are with    *)
(* those about to be); and about Statistics, for any students, scores,     *)
(* requests and jobs (how many score below and up to a value, and how      *)
(* many places a leaderboard has).                                         *)
(***************************************************************************)
EXTENDS ReviewAssignment, ProjectVotes, Statistics, FiniteSetTheorems,
        WellFoundedInduction, TLAPS

-----------------------------------------------------------------------------
(* The draw: the inductive invariant *)

\* How many submissions a reviewer has got.
Share(i) == IF i < reviewer THEN NumPeers
            ELSE IF i = reviewer THEN slot ELSE 0

SharesExact ==
    \A i \in Projects : i \notin assigned[i]
                        /\ Cardinality(assigned[i]) = Share(i)

\* A reviewer may draw everything but itself and what it has got.
SelectedIsOwn == ~Done => selected = assigned[reviewer] \cup {reviewer}

\* A pool loses at most one submission per reviewer.
PoolsLargeEnough ==
    \A s \in Slots :
        Cardinality(pool[s]) + reviewer + (IF s < slot THEN 1 ELSE 0) >= N

\* The reviewers that cannot fall back found a submission in a pool, and a
\* submission leaves each pool once.
Early(p) == {i \in ReviewersOf(p) : i < N - NumPeers}
Taken(p) == {s \in Slots : p \notin pool[s]}
EarlyFromPools ==
    \A p \in Projects : Cardinality(Early(p)) <= Cardinality(Taken(p))

DrawInv ==
    /\ DrawTypeOK
    /\ Done => slot = NumPeers
    /\ SharesExact
    /\ SelectedIsOwn
    /\ PoolsLargeEnough
    /\ EarlyFromPools

-----------------------------------------------------------------------------
(* Lemmas about counting *)

LEMMA ProjectsCounted ==
    /\ IsFiniteSet(Projects) /\ Cardinality(Projects) = N
    /\ IsFiniteSet(Slots) /\ Cardinality(Slots) = NumPeers
<1>1. ASSUME NEW n \in Nat
      PROVE  IsFiniteSet(0 .. n - 1) /\ Cardinality(0 .. n - 1) = n
  <2>1. 0 \in Int /\ n - 1 \in Int
      OBVIOUS
  <2>2. /\ IsFiniteSet(0 .. n - 1)
        /\ Cardinality(0 .. n - 1) = IF 0 > n - 1 THEN 0 ELSE (n - 1) - 0 + 1
      BY <2>1, FS_Interval
  <2> QED BY <2>2
<1> QED BY <1>1, SizeAssumption DEF Projects, Slots

LEMMA SubsetsCounted ==
    /\ \A S \in SUBSET Projects :
          IsFiniteSet(S) /\ Cardinality(S) \in Nat /\ Cardinality(S) <= N
    /\ \A S \in SUBSET Slots :
          IsFiniteSet(S) /\ Cardinality(S) \in Nat /\ Cardinality(S) <= NumPeers
BY ProjectsCounted, FS_Subset, FS_CardinalityType

\* A smaller set has at most as many elements.
LEMMA SubsetSmaller ==
    ASSUME NEW S, NEW T, IsFiniteSet(T), S \subseteq T
    PROVE  IsFiniteSet(S) /\ Cardinality(S) <= Cardinality(T)
BY FS_Subset

LEMMA AddOne ==
    ASSUME NEW S, NEW x, IsFiniteSet(S)
    PROVE  /\ IsFiniteSet(S \cup {x})
           /\ Cardinality(S \cup {x}) \in Nat
           /\ Cardinality(S \cup {x}) <= Cardinality(S) + 1
           /\ x \notin S => Cardinality(S \cup {x}) = Cardinality(S) + 1
<1>1. Cardinality(S) \in Nat
    BY FS_CardinalityType
<1>2. /\ IsFiniteSet(S \cup {x})
      /\ Cardinality(S \cup {x}) =
            IF x \in S THEN Cardinality(S) ELSE Cardinality(S) + 1
    BY FS_AddElement
<1>3. Cardinality(S \cup {x}) \in Nat
    BY <1>2, FS_CardinalityType
<1> QED BY <1>1, <1>2, <1>3

LEMMA RemoveOne ==
    ASSUME NEW S, NEW x, IsFiniteSet(S)
    PROVE  /\ Cardinality(S \ {x}) \in Nat
           /\ Cardinality(S \ {x}) + 1 >= Cardinality(S)
<1>1. Cardinality(S) \in Nat
    BY FS_CardinalityType
<1>2. /\ IsFiniteSet(S \ {x})
      /\ Cardinality(S \ {x}) =
            IF x \in S THEN Cardinality(S) - 1 ELSE Cardinality(S)
    BY FS_RemoveElement
<1>3. Cardinality(S \ {x}) \in Nat
    BY <1>2, FS_CardinalityType
<1> QED BY <1>1, <1>2, <1>3

\* Before its draw for a slot, a reviewer has slot + 1 submissions selected.
LEMMA SelectedCounted ==
    ASSUME DrawInv, slot < NumPeers
    PROVE  /\ reviewer \in Projects
           /\ IsFiniteSet(selected)
           /\ Cardinality(selected) = slot + 1
<1>1. reviewer \in Projects /\ ~Done
    BY SizeAssumption DEF DrawInv, DrawTypeOK, Done, Projects
<1>2. /\ reviewer \notin assigned[reviewer]
      /\ Cardinality(assigned[reviewer]) = slot
      /\ IsFiniteSet(assigned[reviewer])
    BY <1>1, SubsetsCounted DEF DrawInv, DrawTypeOK, SharesExact, Share, Projects
<1>3. selected = assigned[reviewer] \cup {reviewer}
    BY <1>1 DEF DrawInv, SelectedIsOwn
<1> QED BY <1>1, <1>2, <1>3, AddOne

-----------------------------------------------------------------------------
(* What the invariant says of a draw *)

LEMMA DrawPossible == DrawInv => SomethingToDraw
<1> SUFFICES ASSUME DrawInv, slot < NumPeers, Fallback = {} PROVE FALSE
    BY DEF SomethingToDraw, Candidates
<1>1. Projects \subseteq selected
    BY DEF Fallback
<1>2. N <= slot + 1
    BY <1>1, SelectedCounted, SubsetSmaller, ProjectsCounted
<1> QED BY <1>2, SizeAssumption DEF DrawInv, DrawTypeOK

LEMMA FallbackLate == DrawInv => FallbackOnlyAtTheEnd
<1> SUFFICES ASSUME DrawInv, slot < NumPeers, Available = {}
             PROVE  reviewer + slot + 1 >= N
    BY DEF FallbackOnlyAtTheEnd
<1>1. slot \in Slots /\ pool[slot] \subseteq Projects
    BY SizeAssumption DEF DrawInv, DrawTypeOK, Slots
<1>2. pool[slot] \subseteq selected
    BY DEF Available
<1>3. Cardinality(pool[slot]) <= slot + 1
    BY <1>2, SelectedCounted, SubsetSmaller
<1>4. Cardinality(pool[slot]) + reviewer + 0 >= N
    BY <1>1, SizeAssumption DEF DrawInv, PoolsLargeEnough, DrawTypeOK
<1>5. /\ Cardinality(pool[slot]) \in Nat /\ slot \in Nat
      /\ reviewer \in Nat /\ N \in Nat
    BY <1>1, SubsetsCounted, SizeAssumption DEF DrawInv, DrawTypeOK
<1> QED BY <1>3, <1>4, <1>5

LEMMA CandidatesTyped ==
    ASSUME DrawInv, slot < NumPeers, NEW p \in Candidates
    PROVE  p \in Projects /\ p \notin selected
<1>1. pool[slot] \subseteq Projects
    BY SizeAssumption DEF DrawInv, DrawTypeOK, Slots
<1> QED BY <1>1 DEF Candidates, Available, Fallback

-----------------------------------------------------------------------------
(* The invariant is inductive *)

LEMMA DrawInvInit == DrawInit => DrawInv
<1> SUFFICES ASSUME DrawInit PROVE DrawInv
    OBVIOUS
<1> USE SizeAssumption
<1>1. DrawTypeOK
    BY DEF DrawInit, DrawTypeOK, Projects, ProjectPool
<1>2. ~Done
    BY DEF DrawInit, Done
<1>3. SharesExact /\ SelectedIsOwn
    BY FS_EmptySet DEF DrawInit, SharesExact, Share, SelectedIsOwn, Projects
<1>4. PoolsLargeEnough
  <2> SUFFICES ASSUME NEW s \in Slots
               PROVE  Cardinality(pool[s]) + reviewer
                          + (IF s < slot THEN 1 ELSE 0) >= N
      BY DEF PoolsLargeEnough
  <2>1. pool[s] = Projects /\ reviewer = 0 /\ ~(s < slot)
      BY DEF DrawInit, ProjectPool, Projects, Slots
  <2> QED BY <2>1, ProjectsCounted
<1>5. EarlyFromPools
  <2> SUFFICES ASSUME NEW p \in Projects
               PROVE  Cardinality(Early(p)) <= Cardinality(Taken(p))
      BY DEF EarlyFromPools
  <2>1. Early(p) = {} /\ Taken(p) \subseteq Slots
      BY DEF DrawInit, Early, ReviewersOf, Taken
  <2> QED BY <2>1, FS_EmptySet, SubsetsCounted
<1> QED BY <1>1, <1>2, <1>3, <1>4, <1>5 DEF DrawInv

\* A draw, in the terms of the invariant.
LEMMA SelectInv ==
    ASSUME DrawInv, Select
    PROVE  DrawInv'
<1> USE SizeAssumption
<1>1. PICK p \in Candidates :
        /\ selected' = selected \cup {p}
        /\ pool' = [pool EXCEPT ![slot] = @ \ {p}]
        /\ assigned' = [assigned EXCEPT ![reviewer] = @ \cup {p}]
    BY DEF Select, Draw
<1>2. /\ slot < NumPeers /\ slot' = slot + 1 /\ reviewer' = reviewer
      /\ slot \in Nat /\ slot \in Slots /\ NumPeers \in Nat
    BY DEF Select, DrawInv, DrawTypeOK, Slots
<1>3. p \in Projects /\ p \notin selected
    BY <1>2, CandidatesTyped
<1>4. reviewer \in Projects /\ ~Done
    BY <1>2, SelectedCounted DEF Done, Projects
<1>5. p # reviewer /\ p \notin assigned[reviewer]
    BY <1>3, <1>4 DEF DrawInv, SelectedIsOwn
<1>6. DrawTypeOK'
  <2>1. reviewer' \in 0 .. N /\ slot' \in 0 .. NumPeers
      BY <1>2 DEF DrawInv, DrawTypeOK
  <2>2. p \in 0 .. N
      BY <1>3 DEF Projects
  <2>3. selected' \subseteq 0 .. N
      BY <1>1, <2>2 DEF DrawInv, DrawTypeOK
  <2>4. pool' \in [Slots -> SUBSET Projects]
      BY <1>1, <1>2 DEF DrawInv, DrawTypeOK
  <2>5. assigned' \in [Projects -> SUBSET Projects]
      BY <1>1, <1>3, <1>4 DEF DrawInv, DrawTypeOK
  <2>6. Slots' = Slots /\ Projects' = Projects
      BY DEF Slots, Projects
  <2> QED BY <2>1, <2>3, <2>4, <2>5, <2>6 DEF DrawTypeOK
<1>7. Done' => (slot' = NumPeers)
    BY <1>2, <1>4 DEF Done
<1>8. SharesExact'
  <2> SUFFICES ASSUME NEW i \in Projects
               PROVE  /\ i \notin assigned'[i]
                      /\ Cardinality(assigned'[i]) = Share(i)'
      BY DEF SharesExact, Projects
  <2>1. CASE i = reviewer
    <3>1. assigned'[i] = assigned[i] \cup {p}
        BY <1>1, <1>4, <2>1 DEF DrawInv, DrawTypeOK
    <3>2. IsFiniteSet(assigned[i])
        BY SubsetsCounted DEF DrawInv, DrawTypeOK
    <3>3. i \notin assigned[i] /\ Cardinality(assigned[i]) = slot
        BY <2>1 DEF DrawInv, SharesExact, Share, DrawTypeOK
    <3>4. Cardinality(assigned'[i]) = slot + 1
        BY <1>5, <2>1, <3>1, <3>2, <3>3, AddOne
    <3>5. Share(i)' = slot + 1
        BY <1>2, <2>1 DEF Share, DrawInv, DrawTypeOK
    <3> QED BY <1>5, <2>1, <3>1, <3>3, <3>4, <3>5
  <2>2. CASE i # reviewer
    <3>1. assigned'[i] = assigned[i]
        BY <1>1, <2>2 DEF DrawInv, DrawTypeOK
    <3>2. Share(i)' = Share(i)
        BY <1>2, <2>2 DEF Share
    <3> QED BY <3>1, <3>2 DEF DrawInv, SharesExact
  <2> QED BY <2>1, <2>2
<1>9. SelectedIsOwn'
    BY <1>1, <1>2, <1>4 DEF DrawInv, SelectedIsOwn, DrawTypeOK, Done
<1>10. PoolsLargeEnough'
  <2> SUFFICES ASSUME NEW s \in Slots
               PROVE  Cardinality(pool'[s]) + reviewer'
                          + (IF s < slot' THEN 1 ELSE 0) >= N
      BY DEF PoolsLargeEnough, Slots
  <2>1. /\ Cardinality(pool[s]) \in Nat /\ IsFiniteSet(pool[s])
        /\ reviewer \in Nat /\ s \in Nat
      BY SubsetsCounted DEF DrawInv, DrawTypeOK, Slots
  <2>2. Cardinality(pool[s]) + reviewer + (IF s < slot THEN 1 ELSE 0) >= N
      BY DEF DrawInv, PoolsLargeEnough
  <2>3. CASE s = slot
    <3>1. pool'[s] = pool[s] \ {p}
        BY <1>1, <2>3 DEF DrawInv, DrawTypeOK
    <3>2. Cardinality(pool[s] \ {p}) \in Nat
          /\ Cardinality(pool[s] \ {p}) + 1 >= Cardinality(pool[s])
        BY <2>1, RemoveOne
    <3> QED BY <1>2, <2>1, <2>2, <2>3, <3>1, <3>2
  <2>4. CASE s # slot
    <3>1. pool'[s] = pool[s]
        BY <1>1, <2>4 DEF DrawInv, DrawTypeOK
    <3> QED BY <1>2, <2>1, <2>2, <2>4, <3>1
  <2> QED BY <2>3, <2>4
<1>11. EarlyFromPools'
  <2> SUFFICES ASSUME NEW q \in Projects
               PROVE  Cardinality(Early(q)') <= Cardinality(Taken(q)')
      BY DEF EarlyFromPools, Projects
  <2>1. /\ Taken(q) \subseteq Slots /\ Taken(q)' \subseteq Slots
        /\ Early(q) \subseteq Projects /\ Early(q)' \subseteq Projects
      BY DEF Taken, Early, ReviewersOf, Slots, Projects
  <2>2. /\ IsFiniteSet(Taken(q)) /\ IsFiniteSet(Taken(q)')
        /\ IsFiniteSet(Early(q)) /\ IsFiniteSet(Early(q)')
        /\ Cardinality(Taken(q)) \in Nat /\ Cardinality(Taken(q)') \in Nat
        /\ Cardinality(Early(q)) \in Nat /\ Cardinality(Early(q)') \in Nat
      BY <2>1, SubsetsCounted
  <2>3. Cardinality(Early(q)) <= Cardinality(Taken(q))
      BY DEF DrawInv, EarlyFromPools
  <2>4. Taken(q) \subseteq Taken(q)'
      BY <1>1 DEF Taken, DrawInv, DrawTypeOK, Slots
  <2>5. Cardinality(Taken(q)) <= Cardinality(Taken(q)')
      BY <2>2, <2>4, SubsetSmaller
  <2>6. CASE Early(q)' \subseteq Early(q)
    <3>1. Cardinality(Early(q)') <= Cardinality(Early(q))
        BY <2>2, <2>6, SubsetSmaller
    <3> QED BY <2>2, <2>3, <2>5, <3>1
  <2>7. CASE ~(Early(q)' \subseteq Early(q))
    <3>1. q = p /\ reviewer < N - NumPeers
          /\ Early(q)' \subseteq Early(q) \cup {reviewer}
        BY <1>1, <1>2, <1>4, <2>7
           DEF Early, ReviewersOf, DrawInv, DrawTypeOK, Projects
    <3>2. Available # {}
        BY <1>2, <3>1, FallbackLate DEF FallbackOnlyAtTheEnd, DrawInv, DrawTypeOK
    <3>3. q \in pool[slot]
        BY <1>1, <3>1, <3>2 DEF Candidates, Available
    <3>4. slot \notin Taken(q) /\ Taken(q) \cup {slot} \subseteq Taken(q)'
        BY <1>1, <1>2, <2>4, <3>1, <3>3 DEF Taken, DrawInv, DrawTypeOK
    <3>5. Cardinality(Taken(q)') >= Cardinality(Taken(q)) + 1
      <4>1. Cardinality(Taken(q) \cup {slot}) = Cardinality(Taken(q)) + 1
          BY <2>2, <3>4, AddOne
      <4> QED BY <2>2, <3>4, <4>1, SubsetSmaller
    <3>6. Cardinality(Early(q)') <= Cardinality(Early(q)) + 1
      <4>1. /\ IsFiniteSet(Early(q) \cup {reviewer})
            /\ Cardinality(Early(q) \cup {reviewer}) \in Nat
            /\ Cardinality(Early(q) \cup {reviewer}) <= Cardinality(Early(q)) + 1
          BY <2>2, AddOne
      <4>2. Cardinality(Early(q)') <= Cardinality(Early(q) \cup {reviewer})
          BY <3>1, <4>1, SubsetSmaller
      <4> QED BY <2>2, <4>1, <4>2
    <3> QED BY <2>2, <2>3, <3>5, <3>6
  <2> QED BY <2>6, <2>7
<1> QED BY <1>6, <1>7, <1>8, <1>9, <1>10, <1>11 DEF DrawInv

\* The next reviewer starts where the last one stopped.
LEMMA NextReviewerInv ==
    ASSUME DrawInv, NextReviewer
    PROVE  DrawInv'
<1> USE SizeAssumption
<1>1. /\ reviewer \in Projects /\ slot = NumPeers
      /\ reviewer' = reviewer + 1
      /\ slot' = IF reviewer' = N THEN NumPeers ELSE 0
      /\ selected' = {reviewer'}
      /\ pool' = pool /\ assigned' = assigned
    BY DEF NextReviewer, Done, DrawInv, DrawTypeOK, Projects
<1>2. DrawTypeOK'
    BY <1>1 DEF DrawInv, DrawTypeOK, Projects
<1>3. Done' => (slot' = NumPeers)
    BY <1>1 DEF Done
<1>4. SharesExact'
    BY <1>1 DEF DrawInv, SharesExact, Share, Projects
<1>5. SelectedIsOwn'
  <2> SUFFICES ASSUME ~Done' PROVE assigned'[reviewer'] = {}
      BY <1>1 DEF SelectedIsOwn
  <2>1. reviewer' \in Projects
      BY <1>1 DEF Done, Projects
  <2>2. Cardinality(assigned[reviewer']) = 0
      BY <1>1, <2>1 DEF DrawInv, SharesExact, Share, Projects
  <2>3. IsFiniteSet(assigned[reviewer'])
      BY <2>1, SubsetsCounted DEF DrawInv, DrawTypeOK
  <2> QED BY <1>1, <2>2, <2>3, FS_EmptySet
<1>6. PoolsLargeEnough'
  <2> SUFFICES ASSUME NEW s \in Slots
               PROVE  Cardinality(pool[s]) + reviewer'
                          + (IF s < slot' THEN 1 ELSE 0) >= N
      BY <1>1 DEF PoolsLargeEnough, Slots
  <2>1. Cardinality(pool[s]) \in Nat /\ reviewer \in Nat /\ s < slot
      BY <1>1, SubsetsCounted DEF DrawInv, DrawTypeOK, Slots
  <2>2. Cardinality(pool[s]) + reviewer + 1 >= N
      BY <2>1 DEF DrawInv, PoolsLargeEnough
  <2> QED BY <1>1, <2>1, <2>2
<1>7. EarlyFromPools'
    BY <1>1 DEF DrawInv, EarlyFromPools, Early, Taken, ReviewersOf, Projects, Slots
<1> QED BY <1>2, <1>3, <1>4, <1>5, <1>6, <1>7 DEF DrawInv

LEMMA DrawInvariance == DrawSpec => []DrawInv
<1>1. ASSUME DrawInv, UNCHANGED drawVars PROVE DrawInv'
    BY <1>1 DEF drawVars, DrawInv, DrawTypeOK, Done, SharesExact, Share, SelectedIsOwn,
                PoolsLargeEnough, EarlyFromPools, Early, Taken, ReviewersOf,
                Projects, Slots
<1>2. DrawInv /\ [DrawNext]_drawVars => DrawInv'
    BY <1>1, SelectInv, NextReviewerInv DEF DrawNext, Return
<1> QED BY DrawInvInit, <1>2, PTL DEF DrawSpec

-----------------------------------------------------------------------------
(* Theorems *)

\* Pools and assignments stay sets of submissions of the project, and the
\* loop within its bounds.
THEOREM DrawTyping == DrawSpec => []DrawTypeOK
<1>1. DrawInv => DrawTypeOK
  BY DEF DrawInv
<1> QED BY <1>1, DrawInvariance, PTL

\* random.choice always has something to choose from.
THEOREM NeverStuck == DrawSpec => []SomethingToDraw
BY DrawInvariance, DrawPossible, PTL

\* The function returns a draw: each submission reviews NumPeers others.
THEOREM ReturnsADraw == DrawSpec => []ResultIsADraw
<1>1. DrawInv => ResultIsADraw
  <2> SUFFICES ASSUME DrawInv, Done PROVE assigned \in Draws(Projects, NumPeers)
      BY DEF ResultIsADraw
  <2>1. \A i \in Projects : Share(i) = NumPeers
      BY SizeAssumption DEF Share, Done, Projects
  <2> QED BY <2>1 DEF DrawInv, DrawTypeOK, SharesExact, Draws
<1> QED BY <1>1, DrawInvariance, PTL

\* Only the last reviewers leave their pools.
THEOREM FallbackIsLate == DrawSpec => []FallbackOnlyAtTheEnd
BY DrawInvariance, FallbackLate, PTL

\* No submission gets more than twice its share of reviews.
THEOREM ShareAtMostDoubled == DrawSpec => []AtMostTwiceTheShare
<1>1. DrawInv => AtMostTwiceTheShare
  <2> SUFFICES ASSUME DrawInv, NEW p \in Projects
               PROVE  Cardinality(ReviewersOf(p)) <= 2 * NumPeers
      BY DEF AtMostTwiceTheShare
  <2> USE SizeAssumption
  <2> DEFINE Late == N - NumPeers .. N - 1
  <2>1. /\ IsFiniteSet(Late) /\ Cardinality(Late) = NumPeers
    <3>1. N - NumPeers \in Int /\ N - 1 \in Int
        OBVIOUS
    <3>2. /\ IsFiniteSet(Late)
          /\ Cardinality(Late) = IF N - NumPeers > N - 1 THEN 0
                                 ELSE (N - 1) - (N - NumPeers) + 1
        BY <3>1, FS_Interval
    <3> QED BY <3>2
  <2>2. ReviewersOf(p) \subseteq Early(p) \cup Late
      BY DEF Early, ReviewersOf, Projects
  <2> HIDE DEF Late
  <2>3. /\ IsFiniteSet(Early(p)) /\ Cardinality(Early(p)) \in Nat
        /\ Cardinality(Early(p)) <= NumPeers
    <3>1. Early(p) \subseteq Projects /\ Taken(p) \subseteq Slots
        BY DEF Early, ReviewersOf, Taken
    <3>2. Cardinality(Early(p)) <= Cardinality(Taken(p))
        BY DEF DrawInv, EarlyFromPools
    <3> QED BY <3>1, <3>2, SubsetsCounted
  <2>4. /\ IsFiniteSet(Early(p) \cup Late)
        /\ Cardinality(Early(p) \cup Late) <= Cardinality(Early(p)) + NumPeers
    <3>1. IsFiniteSet(Early(p) \cap Late)
        BY <2>1, SubsetSmaller
    <3>2. Cardinality(Early(p) \cap Late) \in Nat
        BY <3>1, FS_CardinalityType
    <3>3. /\ IsFiniteSet(Early(p) \cup Late)
          /\ Cardinality(Early(p) \cup Late) =
                Cardinality(Early(p)) + Cardinality(Late)
                    - Cardinality(Early(p) \cap Late)
        BY <2>1, <2>3, FS_Union
    <3> QED BY <2>1, <2>3, <3>2, <3>3
  <2>5. Cardinality(Early(p) \cup Late) \in Nat
      BY <2>4, FS_CardinalityType
  <2>6. /\ Cardinality(ReviewersOf(p)) <= Cardinality(Early(p) \cup Late)
        /\ Cardinality(ReviewersOf(p)) \in Nat
      BY <2>2, <2>4, FS_Subset, FS_CardinalityType
  <2> QED BY <2>3, <2>4, <2>5, <2>6
<1> QED BY <1>1, DrawInvariance, PTL

-----------------------------------------------------------------------------
(* Votes *)

\* The requests of a voter that have found the count below the limit.
Voting(v) == {t \in Tabs : req[t].step = "insert" /\ req[t].voter = v}

\* Whoever counts last finds fewer votes than the limit, and by then at most
\* the other requests have counted and not yet inserted.
VotesAndVotingBounded ==
    \A v \in Voters :
        Cardinality(VotesOf(v)) + Cardinality(Voting(v)) + 1
            <= Limit + Cardinality(Tabs)

VotesInv == VoteTypeOK /\ VotesAndVotingBounded

\* Votes and pending requests can be counted.
LEMMA Counting ==
    ASSUME NEW v
    PROVE  /\ IsFiniteSet(VotesOf(v)) /\ Cardinality(VotesOf(v)) \in Nat
           /\ IsFiniteSet(Voting(v)) /\ Cardinality(Voting(v)) \in Nat
           /\ Cardinality(Voting(v)) <= Cardinality(Tabs)
           /\ Cardinality(Tabs) \in Nat
BY FinitelyMany, FS_Subset, FS_CardinalityType DEF VotesOf, Voting

\* A step that gives a voter no vote and no pending request keeps the bound.
LEMMA Shrinking ==
    ASSUME VotesAndVotingBounded, NEW v \in Voters,
           VotesOf(v)' \subseteq VotesOf(v), Voting(v)' \subseteq Voting(v)
    PROVE  Cardinality(VotesOf(v))' + Cardinality(Voting(v))' + 1
               <= Limit + Cardinality(Tabs)
<1>1. /\ Cardinality(VotesOf(v)') \in Nat
      /\ Cardinality(VotesOf(v)') <= Cardinality(VotesOf(v))
      /\ Cardinality(Voting(v)') \in Nat
      /\ Cardinality(Voting(v)') <= Cardinality(Voting(v))
    BY Counting, FS_Subset, FS_CardinalityType
<1> QED BY <1>1, Counting, LimitAssumption DEF VotesAndVotingBounded

LEMMA VotesInvInit == VoteInit => VotesInv
<1> SUFFICES ASSUME VoteInit PROVE VotesInv
    OBVIOUS
<1>1. VoteTypeOK
    BY DEF VoteInit, VoteTypeOK, Request
<1>2. ASSUME NEW v \in Voters PROVE VotesOf(v) = {} /\ Voting(v) = {}
    BY DEF VoteInit, VotesOf, Voting, NoRequest
<1>3. VotesAndVotingBounded
    BY <1>2, FS_EmptySet, Counting, LimitAssumption DEF VotesAndVotingBounded
<1> QED BY <1>1, <1>3 DEF VotesInv

LEMMA VoteTypeStep ==
    ASSUME VotesInv, [VoteNext]_voteVars
    PROVE  VoteTypeOK'
<1> USE DEF VotesInv, VoteTypeOK
<1>1. ASSUME NEW t \in Tabs, NEW v \in Voters, NEW s \in Submissions,
             Look(t, v, s)
      PROVE  VoteTypeOK'
    BY <1>1 DEF Look, Set, Request
<1>2. ASSUME NEW t \in Tabs, Count(t) PROVE VoteTypeOK'
    BY <1>2 DEF Count, Set, Request, NoRequest
<1>3. ASSUME NEW t \in Tabs, Insert(t) PROVE VoteTypeOK'
  <2>1. req[t].voter \in Voters
      BY <1>3 DEF Insert, Request, NoRequest
  <2> QED BY <1>3, <2>1 DEF Insert, Set, Request
<1>4. ASSUME NEW v \in Voters, NEW s \in Submissions, Remove(v, s)
      PROVE  VoteTypeOK'
    BY <1>4 DEF Remove
<1>5. ASSUME NEW s \in Submissions, SubmitProject(s)
      PROVE  VoteTypeOK'
    BY <1>5 DEF SubmitProject
<1>6. ASSUME NEW s \in Submissions, DeleteProject(s)
      PROVE  VoteTypeOK'
    BY <1>6 DEF DeleteProject
<1>7. CASE UNCHANGED voteVars
    BY <1>7 DEF voteVars
<1> QED BY <1>1, <1>2, <1>3, <1>4, <1>5, <1>6, <1>7 DEF VoteNext

LEMMA VoteBoundStep ==
    ASSUME VotesInv, [VoteNext]_voteVars
    PROVE  VotesAndVotingBounded'
<1> SUFFICES ASSUME NEW v \in Voters
             PROVE  Cardinality(VotesOf(v))' + Cardinality(Voting(v))' + 1
                        <= Limit + Cardinality(Tabs)
    BY DEF VotesAndVotingBounded
<1> USE DEF VotesInv, VoteTypeOK
<1>1. CASE VotesOf(v)' \subseteq VotesOf(v) /\ Voting(v)' \subseteq Voting(v)
    BY <1>1, Shrinking
<1>2. ASSUME NEW t \in Tabs, NEW w \in Voters, NEW s \in Submissions,
             Look(t, w, s)
      PROVE  VotesOf(v)' \subseteq VotesOf(v) /\ Voting(v)' \subseteq Voting(v)
    BY <1>2 DEF Look, Set, VotesOf, Voting
<1>3. ASSUME NEW t \in Tabs, Count(t)
      PROVE  Cardinality(VotesOf(v))' + Cardinality(Voting(v))' + 1
                 <= Limit + Cardinality(Tabs)
  <2>1. VotesOf(v)' = VotesOf(v)
      BY <1>3 DEF Count, VotesOf
  <2>2. CASE req[t].voter = v /\ BelowLimit(v)
    <3>1. Cardinality(VotesOf(v)) + 1 <= Limit
        BY <2>2, Counting, LimitAssumption DEF BelowLimit
    <3>2. Voting(v)' \subseteq Tabs
        BY DEF Voting
    <3>3. /\ Cardinality(Voting(v)') \in Nat
          /\ Cardinality(Voting(v)') <= Cardinality(Tabs)
        BY <3>2, FinitelyMany, FS_Subset, FS_CardinalityType
    <3> QED BY <2>1, <3>1, <3>3, Counting, LimitAssumption
  <2>3. CASE ~(req[t].voter = v /\ BelowLimit(v))
    <3>1. Voting(v)' \subseteq Voting(v)
        BY <1>3, <2>3 DEF Count, Set, Voting, NoRequest, Request
    <3> QED BY <1>1, <2>1, <3>1
  <2> QED BY <2>2, <2>3
<1>4. ASSUME NEW t \in Tabs, Insert(t)
      PROVE  Cardinality(VotesOf(v))' + Cardinality(Voting(v))' + 1
                 <= Limit + Cardinality(Tabs)
  <2>1. CASE req[t].voter = v
    <3>1. t \in Voting(v) /\ Voting(v)' = Voting(v) \ {t}
        BY <1>4, <2>1 DEF Insert, Set, Voting, NoRequest
    <3>2. Cardinality(Voting(v)') = Cardinality(Voting(v)) - 1
        BY <3>1, Counting, FS_RemoveElement
    <3>3. VotesOf(v)' \subseteq VotesOf(v) \cup {req[t].submission}
        BY <1>4, <2>1 DEF Insert, VotesOf
    <3>4. /\ IsFiniteSet(VotesOf(v) \cup {req[t].submission})
          /\ Cardinality(VotesOf(v) \cup {req[t].submission})
                 <= Cardinality(VotesOf(v)) + 1
      <4> DEFINE V == VotesOf(v)
                 s == req[t].submission
      <4>1. IsFiniteSet(V) /\ Cardinality(V) \in Nat
          BY Counting
      <4> HIDE DEF V, s
      <4>2. /\ IsFiniteSet(V \cup {s})
            /\ Cardinality(V \cup {s}) =
                  IF s \in V THEN Cardinality(V) ELSE Cardinality(V) + 1
          BY <4>1, FS_AddElement
      <4>3. Cardinality(V \cup {s}) <= Cardinality(V) + 1
          BY <4>1, <4>2
      <4> QED BY <4>2, <4>3 DEF V, s
    <3>5. /\ Cardinality(VotesOf(v)') \in Nat
          /\ Cardinality(VotesOf(v)') <= Cardinality(VotesOf(v)) + 1
        BY <3>3, <3>4, Counting, FS_Subset, FS_CardinalityType
    <3> QED BY <3>2, <3>5, Counting, LimitAssumption
            DEF VotesAndVotingBounded
  <2>2. CASE req[t].voter # v
    <3>1. /\ VotesOf(v)' \subseteq VotesOf(v)
          /\ Voting(v)' \subseteq Voting(v)
        BY <1>4, <2>2 DEF Insert, Set, VotesOf, Voting, NoRequest
    <3> QED BY <1>1, <3>1
  <2> QED BY <2>1, <2>2
<1>5. ASSUME \/ \E w \in Voters, s \in Submissions : Remove(w, s)
             \/ \E s \in Submissions : SubmitProject(s) \/ DeleteProject(s)
             \/ UNCHANGED voteVars
      PROVE  VotesOf(v)' \subseteq VotesOf(v) /\ Voting(v)' \subseteq Voting(v)
    BY <1>5 DEF Remove, SubmitProject, DeleteProject, voteVars, VotesOf, Voting
<1> QED BY <1>1, <1>2, <1>3, <1>4, <1>5 DEF VoteNext

LEMMA VotesInvariance == VoteSpec => []VotesInv
<1>1. VotesInv /\ [VoteNext]_voteVars => VotesInv'
    BY VoteTypeStep, VoteBoundStep DEF VotesInv
<1> QED BY VotesInvInit, <1>1, PTL DEF VoteSpec

\* However many requests vote at once, a voter ends up with at most one vote
\* over the limit for each request beside the first.
THEOREM OvershootIsBounded == VoteSpec => []OvershootBounded
<1>1. VotesInv => OvershootBounded
    BY Counting, LimitAssumption
       DEF VotesInv, VotesAndVotingBounded, OvershootBounded
<1> QED BY <1>1, VotesInvariance, PTL

\* The rows and requests are well-formed; a vote never outlives the submission
\* it is for.
THEOREM VoteTyping == VoteSpec => []VoteTypeOK
<1>1. VotesInv => VoteTypeOK
    BY DEF VotesInv
<1> QED BY <1>1, VotesInvariance, PTL

-----------------------------------------------------------------------------
(* Statistics: numbers *)

\* A nonempty set of natural numbers has a least element.
LEMMA LeastNumber ==
    ASSUME NEW T, T \subseteq Nat, T # {}
    PROVE  \E m \in T : \A n \in T : m <= n
<1> DEFINE R == {ss \in Nat \X Nat : ss[1] < ss[2]}
<1>1. IsWellFoundedOn(R, Nat)
    BY NatLessThanWellFounded DEF OpToRel
<1> HIDE DEF R
<1>2. PICK m \in T : \A n \in T : ~(<<n, m>> \in R)
    BY <1>1, WFMin
<1>3. \A n \in T : ~(n < m)
    BY <1>2 DEF R
<1> QED BY <1>3

\* A finite one has a greatest element: the one that the fewest exceed.
LEMMA GreatestNumber ==
    ASSUME NEW T, IsFiniteSet(T), T \subseteq Nat, T # {}
    PROVE  \E m \in T : \A n \in T : n <= m
<1> DEFINE Above(x) == {y \in T : x < y}
           Counts == {Cardinality(Above(x)) : x \in T}
<1>1. ASSUME NEW x \in T PROVE IsFiniteSet(Above(x)) /\ Cardinality(Above(x)) \in Nat
  BY FS_Subset, FS_CardinalityType
<1>2. Counts \subseteq Nat /\ Counts # {}
  <2> HIDE DEF Above
  <2> QED
    BY <1>1
<1>3. PICK k \in Counts : \A n \in Counts : k <= n
  <2> HIDE DEF Counts
  <2> QED
    BY <1>2, LeastNumber
<1>4. PICK m \in T : k = Cardinality(Above(m))
  OBVIOUS
<1>5. ASSUME NEW n \in T PROVE n <= m
  <2> SUFFICES ASSUME m < n PROVE FALSE
    OBVIOUS
  <2>1. Above(n) \in SUBSET Above(m) /\ n \in Above(m) /\ n \notin Above(n)
    <3>1. m \in Nat /\ n \in Nat /\ \A y \in T : y \in Nat
      OBVIOUS
    <3>2. ~(n < n) /\ \A y \in T : n < y => m < y
      BY <3>1
    <3> QED
      BY <3>2
  <2>2. Cardinality(Above(m)) <= Cardinality(Above(n))
    BY <1>3, <1>4
  <2> HIDE DEF Above
  <2>3. Cardinality(Above(n)) <= Cardinality(Above(m))
        /\ (Cardinality(Above(m)) = Cardinality(Above(n)) => Above(m) = Above(n))
    BY <1>1, <2>1, FS_Subset
  <2>4. Above(m) = Above(n)
    <3>1. Cardinality(Above(n)) \in Nat /\ Cardinality(Above(m)) \in Nat
      BY <1>1
    <3> QED
      BY <2>2, <2>3, <3>1
  <2> QED
    BY <2>1, <2>4
<1> QED
  BY <1>5

\* Scores of finitely many students, one at least.
Graded(f) == IsFiniteSet(DOMAIN f) /\ DOMAIN f # {} /\ \A s \in DOMAIN f : f[s] \in Nat
RangeOf(f) == {f[s] : s \in DOMAIN f}

LEMMA RangeIsNumbers ==
    ASSUME NEW f, Graded(f)
    PROVE  IsFiniteSet(RangeOf(f)) /\ RangeOf(f) \subseteq Nat /\ RangeOf(f) # {}
<1> DEFINE g == [s \in DOMAIN f |-> f[s]]
<1>1. g \in Surjection(DOMAIN f, RangeOf(f))
  BY DEF Surjection, RangeOf
<1> HIDE DEF g
<1>2. IsFiniteSet(RangeOf(f))
  BY <1>1, FS_Surjection DEF Graded
<1> QED
  BY <1>2 DEF Graded, RangeOf

LEMMA LeastAndGreatest ==
    ASSUME NEW T, IsFiniteSet(T), T \subseteq Nat, T # {}
    PROVE  /\ Min(T) \in T /\ \A x \in T : Min(T) <= x
           /\ Max(T) \in T /\ \A x \in T : x <= Max(T)
<1>1. \E m \in T : \A n \in T : m <= n
  BY LeastNumber
<1>2. \E m \in T : \A n \in T : m >= n
  BY GreatestNumber
<1>3. Min(T) \in T /\ \A x \in T : Min(T) <= x
  BY <1>1 DEF Min
<1>4. Max(T) \in T /\ \A x \in T : Max(T) >= x
  BY <1>2 DEF Max
<1> QED
  BY <1>3, <1>4

LEMMA CountsAreNat ==
    ASSUME NEW f, Graded(f), NEW v
    PROVE  /\ Below(f, v) \in Nat /\ UpTo(f, v) \in Nat
           /\ IsFiniteSet({s \in DOMAIN f : f[s] < v})
           /\ IsFiniteSet({s \in DOMAIN f : f[s] <= v})
           /\ Cardinality(DOMAIN f) \in Nat /\ Cardinality(DOMAIN f) # 0
<1>1. {s \in DOMAIN f : f[s] < v} \in SUBSET DOMAIN f
      /\ {s \in DOMAIN f : f[s] <= v} \in SUBSET DOMAIN f
  OBVIOUS
<1>2. IsFiniteSet(DOMAIN f) /\ DOMAIN f # {}
  BY DEF Graded
<1>3. IsFiniteSet({s \in DOMAIN f : f[s] < v}) /\ IsFiniteSet({s \in DOMAIN f : f[s] <= v})
  BY <1>1, <1>2, FS_Subset
<1>4. Cardinality(DOMAIN f) \in Nat /\ Cardinality(DOMAIN f) # 0
  BY <1>2, FS_CardinalityType, FS_EmptySet
<1> QED
  BY <1>3, <1>4, FS_CardinalityType DEF Below, UpTo

\* There is a score in each place: the least one that so many do not exceed.
LEMMA SomethingInPlace ==
    ASSUME NEW f, Graded(f), NEW k \in 1 .. Cardinality(DOMAIN f)
    PROVE  InPlace(f, k) \in RangeOf(f)
<1> DEFINE T == {v \in RangeOf(f) : k <= UpTo(f, v)}
<1>1. k \in Nat /\ 1 <= k /\ k <= Cardinality(DOMAIN f)
  BY CountsAreNat
<1>2. T \subseteq Nat
  BY RangeIsNumbers
<1>3. T # {}
  <2>1. Max(RangeOf(f)) \in RangeOf(f) /\ \A s \in DOMAIN f : f[s] <= Max(RangeOf(f))
    <3>1. \A s \in DOMAIN f : f[s] \in RangeOf(f)
      BY DEF RangeOf
    <3> QED
      BY <3>1, RangeIsNumbers, LeastAndGreatest
  <2>2. {s \in DOMAIN f : f[s] <= Max(RangeOf(f))} = DOMAIN f
    BY <2>1
  <2>3. UpTo(f, Max(RangeOf(f))) = Cardinality(DOMAIN f)
    BY <2>2 DEF UpTo
  <2> QED
    BY <1>1, <2>1, <2>3
<1>4. PICK m \in T : \A n \in T : m <= n
  <2> HIDE DEF T
  <2> QED
    BY <1>2, <1>3, LeastNumber
<1>5. Below(f, m) < k
  <2> SUFFICES ASSUME k <= Below(f, m) PROVE FALSE
    <3>1. Below(f, m) \in Nat
      BY CountsAreNat
    <3> QED
      BY <1>1, <3>1
  <2> DEFINE low == {s \in DOMAIN f : f[s] < m}
             g == [s \in low |-> f[s]]
  <2>1. Below(f, m) = Cardinality(low) /\ IsFiniteSet(low)
    BY CountsAreNat DEF Below
  <2>2. DOMAIN g = low /\ \A s \in low : s \in DOMAIN f /\ g[s] = f[s] /\ f[s] < m
    OBVIOUS
  <2> HIDE DEF low, g
  <2>3. low # {}
    BY <1>1, <2>1, FS_EmptySet
  <2>4. Graded(g)
    BY <2>1, <2>2, <2>3 DEF Graded
  <2>5. Max(RangeOf(g)) \in RangeOf(g) /\ \A x \in RangeOf(g) : x <= Max(RangeOf(g))
    BY <2>4, RangeIsNumbers, LeastAndGreatest
  <2>6. PICK s \in low : f[s] = Max(RangeOf(g))
    BY <2>2, <2>5 DEF RangeOf
  <2>7. \A t \in low : f[t] <= f[s]
    BY <2>2, <2>5, <2>6 DEF RangeOf
  <2> DEFINE high == {t \in DOMAIN f : f[t] <= f[s]}
  <2>8. low \in SUBSET high
    BY <2>2, <2>7
  <2>9. UpTo(f, f[s]) = Cardinality(high) /\ IsFiniteSet(high) /\ UpTo(f, f[s]) \in Nat
    BY CountsAreNat DEF UpTo
  <2> HIDE DEF high
  <2>10. k <= UpTo(f, f[s])
    <3>1. Cardinality(low) <= Cardinality(high) /\ Cardinality(low) \in Nat
      BY <2>1, <2>8, <2>9, FS_Subset, FS_CardinalityType
    <3> QED
      BY <1>1, <2>1, <2>9, <3>1
  <2>11. f[s] \in T
    BY <2>2, <2>10 DEF RangeOf
  <2>12. m <= f[s] /\ f[s] < m /\ m \in Nat /\ f[s] \in Nat
    BY <1>2, <1>4, <2>2, <2>11
  <2> QED
    BY <2>12
<1>6. m \in RangeOf(f) /\ Below(f, m) < k /\ k <= UpTo(f, m)
  BY <1>4, <1>5
<1> QED
  BY <1>6 DEF InPlace, RangeOf

\* The least, the median and the largest, in this order.
LEMMA NumbersInOrder ==
    ASSUME NEW f, Graded(f)
    PROVE  /\ Numbers(f) \in [least : Nat, twiceMedian : Nat, largest : Nat]
           /\ 2 * Numbers(f).least <= Numbers(f).twiceMedian
           /\ Numbers(f).twiceMedian <= 2 * Numbers(f).largest
<1> DEFINE n == Cardinality(DOMAIN f)
           lower == InPlace(f, (n + 1) \div 2)
           upper == InPlace(f, n \div 2 + 1)
           least == Min(RangeOf(f))
           largest == Max(RangeOf(f))
<1>1. n \in Nat /\ n # 0
  BY CountsAreNat
<1>2. (n + 1) \div 2 \in 1 .. n /\ n \div 2 + 1 \in 1 .. n
  <2> HIDE DEF n
  <2> QED
    BY <1>1
<1>3. lower \in RangeOf(f) /\ upper \in RangeOf(f)
  <2> HIDE DEF lower, upper
  <2>1. ASSUME NEW k \in 1 .. n PROVE InPlace(f, k) \in RangeOf(f)
    BY SomethingInPlace
  <2> QED
    BY <1>2, <2>1 DEF lower, upper
<1>4. least \in Nat /\ largest \in Nat
      /\ \A x \in RangeOf(f) : x \in Nat /\ least <= x /\ x <= largest
  BY RangeIsNumbers, LeastAndGreatest
<1>5. Numbers(f) = [least |-> least, largest |-> largest, twiceMedian |-> lower + upper]
  BY DEF Numbers, RangeOf
<1> HIDE DEF lower, upper, least, largest
<1> QED
  BY <1>3, <1>4, <1>5

-----------------------------------------------------------------------------
(* The inductive invariant *)

Points == Scores \cup {0}
Totals == UNION {[S -> Points] : S \in SUBSET Students}

\* A row of statistics: numbers are given of three or more, and in order.
InOrder(row) ==
    /\ row.given <=> row.n >= 3
    /\ 2 * row.numbers.least <= row.numbers.twiceMedian
    /\ row.numbers.twiceMedian <= 2 * row.numbers.largest
StatsRow == {row \in [row : {TRUE}, n : Nat, given : BOOLEAN,
                      numbers : [least : Nat, twiceMedian : Nat, largest : Nat]] :
                InOrder(row)}
ViewStep == {Idle, [at |-> "created"]} \cup [at : {"calculated"}, result : StatsRow]

\* A row of the platform: ranks go from one without a gap.
Gapless(board) == {board[s].rank : s \in DOMAIN board} = 1 .. Cardinality(DOMAIN board)
Ranking == {board \in UNION {[S -> [rank : Nat, points : Points]] : S \in SUBSET Students} :
                Gapless(board)}
Sums == {0} \cup {SumOver(f) : f \in Totals}
PlatformRow == [row : {TRUE}, visible : BOOLEAN, board : Ranking, points : Sums]
UserRows == UNION {[S -> [rank : Nat, points : Points, by : Nat, among : SUBSET Students]] :
                      S \in SUBSET Students}

JobRow == [at : {"idle", "begun", "active", "read", "platform", "deleted", "created"},
           caller : {"admin", "script"}, serial : Nat, visible : BOOLEAN,
           active : SUBSET Students, totals : Totals, saved : {None} \cup PlatformRow]

\* What a job has read and saved fits together.
JobFits(r) ==
    /\ r.at \in {"read", "platform", "deleted"} => DOMAIN r.totals = r.active
    /\ r.at \in {"platform", "deleted", "created"} => r.saved # None
    /\ r.at \in {"platform", "deleted"} =>
          \A s \in DOMAIN r.saved.board :
             s \in r.active /\ r.saved.board[s].points = r.totals[s]

AssignmentInv ==
    /\ kind \in {"homework", "project"}
    /\ scored \in BOOLEAN
    /\ score \in Totals

\* Whoever computes has a row to fill; and without a cause to differ, what was
\* computed is what would be computed now.
PageInv ==
    /\ stats \in {None} \cup StatsRow
    /\ cause \in BOOLEAN
    /\ view \in [Views -> ViewStep]
    /\ Computing # {} => stats # None
    /\ stats # None => scored
    /\ ~cause => \A r \in Views :
          view[r].at = "calculated" => view[r].result = Distribution(score)
    /\ NumbersHaveACause

YearTyped ==
    /\ jobs \in Nat
    /\ wrapped \in {None} \cup PlatformRow
    /\ users \in UserRows
    /\ job \in [Jobs -> JobRow]
    /\ form \in [Forms -> {None} \cup PlatformRow]
    /\ alone \in BOOLEAN
    /\ \A j \in Jobs : JobFits(job[j])

\* The rows of a job are there together.
UsersTogether ==
    /\ \A s \in DOMAIN users : users[s].among \subseteq DOMAIN users
    /\ \A s, t \in DOMAIN users :
          users[s].by # users[t].by => users[s].among \cap users[t].among = {}

\* The participants' rows agree with this leaderboard.
Agree(board) ==
    /\ DOMAIN board \subseteq DOMAIN users
    /\ \A s \in DOMAIN users :
          IF s \in DOMAIN board
          THEN /\ users[s].rank = board[s].rank
               /\ users[s].points = board[s].points
          ELSE users[s].rank = 0

\* A job that nothing has overlapped is the only one, has saved what there
\* is and put the rows of the participants beside it; a form that was opened
\* after it has the same leaderboard.
OnlyJob ==
    /\ \A i, j \in InFlight : i = j
    /\ InFlight # {} => wrapped # None
    /\ \A j \in InFlight :
          /\ job[j].at \in {"platform", "deleted", "created"} =>
                job[j].saved.board = wrapped.board
          /\ job[j].at = "deleted" => users = << >>
          /\ job[j].at = "created" => Agree(wrapped.board)
    /\ InFlight = {} /\ wrapped # None => Agree(wrapped.board)
    /\ \A f \in Opened :
          /\ InFlight = {} /\ wrapped # None
          /\ form[f].board = wrapped.board

YearInv == YearTyped /\ UsersTogether /\ (alone => OnlyJob)

IInv == AssignmentInv /\ PageInv /\ YearInv

-----------------------------------------------------------------------------
(* Types *)

LEMMA NoRows == DOMAIN << >> = {}
OBVIOUS

LEMMA TotalsAre ==
    ASSUME NEW f
    PROVE  /\ f \in Totals => /\ DOMAIN f \subseteq Students
                              /\ \A s \in DOMAIN f : f[s] \in Points
                              /\ f = [s \in DOMAIN f |-> f[s]]
           /\ \A S : S \subseteq Students /\ f \in [S -> Points] => f \in Totals
<1>1. ASSUME f \in Totals PROVE /\ DOMAIN f \subseteq Students
                                /\ \A s \in DOMAIN f : f[s] \in Points
                                /\ f = [s \in DOMAIN f |-> f[s]]
  <2>1. PICK S \in SUBSET Students : f \in [S -> Points]
    BY <1>1 DEF Totals
  <2> QED
    BY <2>1
<1>2. ASSUME NEW S, S \subseteq Students, f \in [S -> Points] PROVE f \in Totals
  BY <1>2 DEF Totals
<1> QED
  BY <1>1, <1>2

LEMMA DistributionIsRow ==
    ASSUME NEW f \in Totals
    PROVE  Distribution(f) \in StatsRow
<1> DEFINE n == Cardinality(DOMAIN f)
           numbers == IF n < 3 THEN NoNumbers ELSE Numbers(f)
<1>1. DOMAIN f \subseteq Students /\ \A s \in DOMAIN f : f[s] \in Nat
  BY TotalsAre, ScoresAssumption DEF Points
<1>2. IsFiniteSet(DOMAIN f) /\ n \in Nat
  BY <1>1, StudentsAssumption, FS_Subset, FS_CardinalityType
<1>3. /\ numbers \in [least : Nat, twiceMedian : Nat, largest : Nat]
      /\ 2 * numbers.least <= numbers.twiceMedian
      /\ numbers.twiceMedian <= 2 * numbers.largest
  <2>1. CASE n < 3
    BY <2>1 DEF NoNumbers
  <2>2. CASE ~(n < 3)
    <3>1. DOMAIN f # {}
      <4> HIDE DEF n
      <4>1. n # 0
        BY <1>2, <2>2
      <4> QED
        BY <4>1, FS_EmptySet DEF n
    <3>2. Graded(f)
      BY <1>1, <1>2, <3>1 DEF Graded
    <3>3. numbers = Numbers(f)
      BY <2>2
    <3> QED
      BY <3>2, <3>3, NumbersInOrder
  <2> QED
    BY <2>1, <2>2
<1>4. Distribution(f) = [row |-> TRUE, n |-> n, given |-> n >= 3, numbers |-> numbers]
  BY DEF Distribution
<1> DEFINE given == n >= 3
<1>5. given \in BOOLEAN /\ (given <=> n >= 3)
  OBVIOUS
<1> HIDE DEF n, numbers, given
<1>6. Distribution(f) = [row |-> TRUE, n |-> n, given |-> given, numbers |-> numbers]
  BY <1>4 DEF given
<1>7. Distribution(f) \in [row : {TRUE}, n : Nat, given : BOOLEAN,
                         numbers : [least : Nat, twiceMedian : Nat, largest : Nat]]
  BY <1>2, <1>3, <1>5, <1>6
<1>8. InOrder(Distribution(f))
  BY <1>3, <1>5, <1>6 DEF InOrder
<1> QED
  BY <1>7, <1>8 DEF StatsRow

LEMMA BlankIsRow == Blank \in StatsRow /\ Blank # None
BY DEF Blank, StatsRow, InOrder, NoNumbers, None

LEMMA RowsAreRows ==
    /\ \A row \in StatsRow : row # None
    /\ \A row \in PlatformRow : row # None
<1>1. None.row = FALSE
  BY DEF None
<1>2. \A row \in StatsRow : row.row = TRUE
  BY DEF StatsRow
<1>3. \A row \in PlatformRow : row.row = TRUE
  BY DEF PlatformRow
<1> QED
  BY <1>1, <1>2, <1>3

\* The best are ranked from one without a gap.
LEMMA BoardIsRanking ==
    ASSUME NEW totals \in Totals, NEW board \in Boards(totals),
           NEW new, new = [s \in DOMAIN board |-> [rank |-> board[s], points |-> totals[s]]]
    PROVE  /\ new \in Ranking
           /\ DOMAIN new \subseteq DOMAIN totals
           /\ \A s \in DOMAIN new : new[s].points = totals[s]
<1> DEFINE n == Cardinality(DOMAIN totals)
           length == IF n < TopSize THEN n ELSE TopSize
<1>1. PICK top \in SUBSET DOMAIN totals : board \in [top -> 1 .. length]
  BY DEF Boards
<1>2. /\ DOMAIN board = top /\ Cardinality(top) = length
      /\ \A s, t \in top : s # t => board[s] # board[t]
  BY <1>1 DEF Boards
<1>3. /\ DOMAIN totals \subseteq Students /\ \A s \in DOMAIN totals : totals[s] \in Points
  BY TotalsAre
<1>4. IsFiniteSet(top) /\ length \in Nat
  BY <1>1, <1>2, <1>3, StudentsAssumption, FS_Subset, FS_CardinalityType
<1> HIDE DEF length, n
<1>5. IsFiniteSet(1 .. length) /\ Cardinality(1 .. length) = length
  <2>1. 1 \in Int /\ length \in Int
    BY <1>4
  <2>2. /\ IsFiniteSet(1 .. length)
        /\ Cardinality(1 .. length) = IF 1 > length THEN 0 ELSE length - 1 + 1
    BY <2>1, FS_Interval
  <2> QED
    BY <1>4, <2>2
<1>6. board \in Injection(top, 1 .. length)
  BY <1>1, <1>2 DEF Injection, IsInjective
<1>7. board \in Surjection(top, 1 .. length)
  BY <1>2, <1>5, <1>6, FS_Injection
<1>8. {board[s] : s \in top} = 1 .. length
  BY <1>7 DEF Surjection
<1>9. DOMAIN new = top /\ \A s \in top : new[s] = [rank |-> board[s], points |-> totals[s]]
  BY <1>2
<1>10. Gapless(new)
  <2>1. \A s \in top : new[s].rank = board[s]
    BY <1>9
  <2>2. {new[s].rank : s \in top} = {board[s] : s \in top}
    BY <2>1
  <2> QED
    BY <1>2, <1>8, <1>9, <2>2 DEF Gapless
<1>11. new \in [top -> [rank : Nat, points : Points]]
  <2>1. \A s \in top : board[s] \in Nat /\ totals[s] \in Points
    BY <1>1, <1>3, <1>4
  <2> QED
    BY <1>2, <2>1
<1>12. top \in SUBSET Students
  BY <1>1, <1>3
<1>13. new \in Ranking
  BY <1>10, <1>11, <1>12 DEF Ranking
<1> QED
  BY <1>1, <1>9, <1>13

LEMMA IdleJob == NoJob \in JobRow /\ JobFits(NoJob) /\ NoJob.at = "idle"
<1>1. << >> \in Totals
  <2>1. DOMAIN << >> = {} /\ {} \in SUBSET Students /\ << >> \in [{} -> Points]
    BY NoRows
  <2> QED
    BY <2>1 DEF Totals
<1> QED
  BY <1>1 DEF NoJob, JobRow, JobFits, None

LEMMA InitInv == Init => IInv
<1> SUFFICES ASSUME Init PROVE IInv
  OBVIOUS
<1>1. << >> \in Totals /\ << >> \in UserRows
  <2>1. DOMAIN << >> = {} /\ {} \in SUBSET Students
    BY NoRows
  <2>2. \A T : << >> \in [{} -> T]
    OBVIOUS
  <2> QED
    BY <2>1, <2>2 DEF Totals, UserRows
<1>2. AssignmentInv
  BY <1>1 DEF Init, AssignmentInv
<1>3. Computing = {}
  BY DEF Init, Computing, Idle
<1>4. PageInv
  BY <1>3 DEF Init, PageInv, NumbersHaveACause, ViewStep, Idle
<1>5. NoJob \in JobRow /\ JobFits(NoJob)
  BY <1>1 DEF NoJob, JobRow, JobFits, None
<1>6. InFlight = {} /\ Opened = {}
  BY DEF Init, InFlight, Opened, NoJob
<1>7. YearTyped
  BY <1>1, <1>5 DEF Init, YearTyped
<1>8. UsersTogether /\ OnlyJob
  BY <1>6, NoRows DEF Init, UsersTogether, OnlyJob
<1> QED
  BY <1>2, <1>4, <1>7, <1>8 DEF IInv, YearInv

-----------------------------------------------------------------------------
(* The assignment *)

LEMMA YearUnchanged ==
    ASSUME YearInv, UNCHANGED year
    PROVE  YearInv'
BY DEF YearInv, year, YearTyped, UsersTogether, OnlyJob, Agree, InFlight, Opened, JobFits

LEMMA AssignmentUnchanged ==
    ASSUME AssignmentInv, UNCHANGED assignment
    PROVE  AssignmentInv'
BY DEF AssignmentInv, assignment

LEMMA PageUnchanged ==
    ASSUME PageInv, UNCHANGED page, UNCHANGED <<scored, score>>
    PROVE  PageInv'
BY DEF PageInv, page, Computing, Calculated, NumbersHaveACause

\* A change that the row does not follow is a cause.
LEMMA PageOutdated ==
    ASSUME PageInv, Outdated, UNCHANGED scored
    PROVE  PageInv'
<1>1. stats' = stats /\ view' = view /\ cause' = (cause \/ stats # None)
  BY DEF Outdated
<1>2. Computing' = Computing
  BY <1>1 DEF Computing
<1>3. ~cause' => stats = None /\ Computing = {}
  BY <1>1 DEF PageInv
<1>4. ~cause' => \A r \in Views : view[r].at # "calculated"
  BY <1>3 DEF Computing
<1>5. cause' \in BOOLEAN
  BY <1>1 DEF PageInv
<1>6. ~cause' => \A r \in Views :
          view'[r].at = "calculated" => view'[r].result = Distribution(score)'
  BY <1>1, <1>4
<1>7. NumbersHaveACause'
  BY <1>1, <1>3 DEF NumbersHaveACause
<1> QED
  BY <1>1, <1>2, <1>5, <1>6, <1>7 DEF PageInv

LEMMA SubmitInv ==
    ASSUME IInv, NEW s \in Students, Submit(s)
    PROVE  AssignmentInv' /\ PageInv'
<1>1. score' = [t \in Submitted \cup {s} |-> IF t = s THEN 0 ELSE score[t]]
      /\ Outdated /\ UNCHANGED <<kind, scored>>
  BY DEF Submit
<1>2. score' \in Totals
  <2>1. Submitted \subseteq Students /\ \A t \in Submitted : score[t] \in Points
    BY TotalsAre DEF IInv, AssignmentInv, Submitted
  <2>2. score' \in [Submitted \cup {s} -> Points]
    BY <1>1, <2>1 DEF Points
  <2> QED
    BY <2>1, <2>2, TotalsAre
<1>3. PageInv'
  BY <1>1, PageOutdated DEF IInv
<1> QED
  BY <1>1, <1>2, <1>3 DEF IInv, AssignmentInv

LEMMA DeleteInv ==
    ASSUME IInv, NEW s \in Students, Delete(s)
    PROVE  AssignmentInv' /\ PageInv'
<1>1. score' = Restrict(score, Submitted \ {s}) /\ Outdated /\ UNCHANGED <<kind, scored>>
  BY DEF Delete
<1>2. score' \in Totals
  <2>1. Submitted \subseteq Students /\ \A t \in Submitted : score[t] \in Points
    BY TotalsAre DEF IInv, AssignmentInv, Submitted
  <2>2. score' \in [Submitted \ {s} -> Points]
    BY <1>1, <2>1 DEF Restrict
  <2> QED
    BY <2>1, <2>2, TotalsAre
<1>3. PageInv'
  BY <1>1, PageOutdated DEF IInv
<1> QED
  BY <1>1, <1>2, <1>3 DEF IInv, AssignmentInv

LEMMA EditScoreInv ==
    ASSUME IInv, NEW s \in Students, NEW v \in Scores, EditScore(s, v)
    PROVE  AssignmentInv' /\ PageInv'
<1>1. score' = [score EXCEPT ![s] = v] /\ Outdated /\ UNCHANGED <<kind, scored>>
  BY DEF EditScore
<1>2. score' \in Totals
  <2>1. Submitted \subseteq Students /\ (\A t \in Submitted : score[t] \in Points)
        /\ score = [t \in Submitted |-> score[t]]
    BY TotalsAre DEF IInv, AssignmentInv, Submitted
  <2>2. score' \in [Submitted -> Points]
    BY <1>1, <2>1 DEF Points
  <2> QED
    BY <2>1, <2>2, TotalsAre
<1>3. PageInv'
  BY <1>1, PageOutdated DEF IInv
<1> QED
  BY <1>1, <1>2, <1>3 DEF IInv, AssignmentInv

\* Scoring gives every submission a score.
LEMMA NewScores ==
    ASSUME score \in Totals, NEW new \in [Submitted -> Scores]
    PROVE  new \in Totals
<1>1. Submitted \subseteq Students
  BY TotalsAre DEF Submitted
<1>2. new \in [Submitted -> Points]
  BY DEF Points
<1> QED
  BY <1>1, <1>2, TotalsAre

LEMMA ScoreHomeworkInv ==
    ASSUME IInv, ScoreHomework
    PROVE  AssignmentInv' /\ PageInv'
<1>1. PICK new \in [Submitted -> Scores] : score' = new /\ stats' = ScoredStats(new)
  BY DEF ScoreHomework
<1>2. scored' = TRUE /\ cause' = (Computing # {}) /\ UNCHANGED <<kind, view>>
  BY DEF ScoreHomework
<1>3. score' \in Totals
  BY <1>1, NewScores DEF IInv, AssignmentInv
<1>4. stats' = Distribution(score)'
  BY <1>1 DEF ScoredStats
<1>5. stats' \in StatsRow
  BY <1>1, <1>3, DistributionIsRow DEF ScoredStats
<1>6. stats' # None
  BY <1>5, RowsAreRows
<1>7. Computing' = Computing
  BY <1>2 DEF Computing
<1>8. ~cause' => \A r \in Views : view'[r].at # "calculated"
  BY <1>2 DEF Computing
<1>9. NumbersHaveACause'
  BY <1>4 DEF NumbersHaveACause
<1>10. PageInv'
  BY <1>2, <1>5, <1>6, <1>8, <1>9 DEF IInv, PageInv
<1> QED
  BY <1>2, <1>3, <1>10 DEF IInv, AssignmentInv

LEMMA ScoreProjectInv ==
    ASSUME IInv, ScoreProject
    PROVE  AssignmentInv' /\ PageInv'
<1>1. PICK new \in [Submitted -> Scores] : score' = new
  BY DEF ScoreProject
<1>2. scored' = TRUE /\ ~scored /\ UNCHANGED <<kind, stats, cause, view>>
  BY DEF ScoreProject, page
<1>3. score' \in Totals
  BY <1>1, NewScores DEF IInv, AssignmentInv
<1>4. stats = None /\ Computing = {}
  BY <1>2 DEF IInv, PageInv
<1>5. \A r \in Views : view[r].at # "calculated"
  BY <1>4 DEF Computing
<1>6. Computing' = Computing
  BY <1>2 DEF Computing
<1>7. NumbersHaveACause'
  BY <1>2, <1>4 DEF NumbersHaveACause
<1>8. PageInv'
  BY <1>2, <1>4, <1>5, <1>6, <1>7 DEF IInv, PageInv
<1> QED
  BY <1>2, <1>3, <1>8 DEF IInv, AssignmentInv

-----------------------------------------------------------------------------
(* The requests of statistics *)

LEMMA GetOrCreateInv ==
    ASSUME AssignmentInv, PageInv, NEW r \in Views, NEW force \in BOOLEAN,
           GetOrCreate(r, force)
    PROVE  PageInv'
<1>1. /\ scored /\ stats' = (IF stats = None THEN Blank ELSE stats)
      /\ view' = [view EXCEPT ![r] = IF Computes(force) THEN [at |-> "created"] ELSE Idle]
      /\ UNCHANGED <<scored, score, cause>>
  BY DEF GetOrCreate, assignment
<1>2. view \in [Views -> ViewStep]
  BY DEF PageInv
<1>3. view' \in [Views -> ViewStep] /\ \A q \in Views \ {r} : view'[q] = view[q]
  BY <1>1, <1>2 DEF ViewStep
<1>4. view'[r] \in {Idle, [at |-> "created"]}
      /\ (stats = None => view'[r] = [at |-> "created"])
  BY <1>1, <1>2 DEF Computes
<1>5. view'[r].at # "calculated"
  BY <1>4 DEF Idle
<1>6. stats' \in StatsRow /\ stats' # None
  BY <1>1, BlankIsRow, RowsAreRows DEF PageInv
<1>7. \A q \in Views : view'[q].at = "calculated" => view'[q] = view[q]
  BY <1>3, <1>5
<1>8. view[r].at = "idle"
  BY DEF GetOrCreate, Idle
<1>9. Computing \subseteq Computing' /\ Calculated \subseteq Calculated'
  BY <1>3, <1>8 DEF Computing, Calculated
<1>10. NumbersHaveACause'
  <2>1. CASE stats = None
    <3>1. r \in Computing'
      BY <1>4, <2>1 DEF Computing
    <3> QED
      BY <1>1, <2>1, <3>1 DEF NumbersHaveACause
  <2>2. CASE stats # None
    BY <1>1, <1>9, <2>2 DEF NumbersHaveACause, PageInv
  <2> QED
    BY <2>1, <2>2
<1> QED
  BY <1>1, <1>3, <1>6, <1>7, <1>10 DEF PageInv

LEMMA CalculateInv ==
    ASSUME AssignmentInv, PageInv, NEW r \in Views, Calculate(r)
    PROVE  PageInv'
<1>1. /\ view[r].at = "created"
      /\ view' = [view EXCEPT ![r] = [at |-> "calculated", result |-> Distribution(score)]]
      /\ cause' = (cause /\ Calculated # {})
      /\ UNCHANGED <<scored, score, stats>>
  BY DEF Calculate, assignment
<1>2. view \in [Views -> ViewStep] /\ Distribution(score) \in StatsRow
  BY DistributionIsRow DEF PageInv, AssignmentInv
<1>3. view' \in [Views -> ViewStep] /\ \A q \in Views \ {r} : view'[q] = view[q]
  BY <1>1, <1>2 DEF ViewStep
<1>4. view'[r] = [at |-> "calculated", result |-> Distribution(score)]
  BY <1>1, <1>2
<1>5. Computing' = Computing
  BY <1>1, <1>3, <1>4 DEF Computing
<1>6. ~cause' => \A q \in Views :
          view'[q].at = "calculated" => view'[q].result = Distribution(score)
  <2> SUFFICES ASSUME ~cause', NEW q \in Views, view'[q].at = "calculated"
               PROVE  view'[q].result = Distribution(score)
    OBVIOUS
  <2>1. CASE q = r
    BY <1>4, <2>1
  <2>2. CASE q # r
    <3>1. view'[q] = view[q] /\ q \in Calculated
      BY <1>3, <2>2 DEF Calculated
    <3>2. ~cause
      BY <1>1, <3>1 DEF PageInv
    <3> QED
      BY <3>1, <3>2 DEF PageInv
  <2> QED
    BY <2>1, <2>2
<1>7. r \in Calculated'
  BY <1>4 DEF Calculated
<1>8. NumbersHaveACause'
  BY <1>7 DEF NumbersHaveACause
<1>9. cause' \in BOOLEAN
  BY <1>1 DEF PageInv
<1> QED
  BY <1>1, <1>3, <1>5, <1>6, <1>8, <1>9 DEF PageInv

LEMMA SaveStatsInv ==
    ASSUME PageInv, NEW r \in Views, SaveStats(r)
    PROVE  PageInv'
<1>1. /\ view[r].at = "calculated" /\ stats' = view[r].result
      /\ view' = [view EXCEPT ![r] = Idle]
      /\ UNCHANGED <<scored, score, cause>>
  BY DEF SaveStats, assignment
<1>2. view \in [Views -> ViewStep]
  BY DEF PageInv
<1>3. view' \in [Views -> ViewStep] /\ \A q \in Views \ {r} : view'[q] = view[q]
  BY <1>1, <1>2 DEF ViewStep
<1>4. view'[r].at = "idle"
  BY <1>1, <1>2 DEF Idle
<1>5. stats' \in StatsRow
  BY <1>1, <1>2 DEF ViewStep, Idle
<1>6. r \in Computing /\ scored
  BY <1>1 DEF Computing, PageInv
<1>7. ~cause => stats' = Distribution(score)
  BY <1>1 DEF PageInv
<1>8. NumbersHaveACause'
  BY <1>1, <1>7 DEF NumbersHaveACause
<1>9. \A q \in Views : view'[q].at = "calculated" => view'[q] = view[q]
  BY <1>3, <1>4
<1>10. stats' # None
  BY <1>5, RowsAreRows
<1> QED
  BY <1>1, <1>3, <1>5, <1>6, <1>8, <1>9, <1>10 DEF PageInv

LEMMA StopViewInv ==
    ASSUME PageInv, NEW r \in Views, StopView(r)
    PROVE  PageInv'
<1>1. /\ view' = [view EXCEPT ![r] = Idle] /\ cause' = TRUE
      /\ UNCHANGED <<scored, score, stats>>
  BY DEF StopView, assignment
<1>2. view \in [Views -> ViewStep]
  BY DEF PageInv
<1>3. view' \in [Views -> ViewStep] /\ \A q \in Views \ {r} : view'[q] = view[q]
  BY <1>1, <1>2 DEF ViewStep
<1>4. view'[r].at = "idle"
  BY <1>1, <1>2 DEF Idle
<1>5. Computing' \subseteq Computing
  BY <1>3, <1>4 DEF Computing
<1> QED
  BY <1>1, <1>3, <1>5 DEF PageInv, NumbersHaveACause

-----------------------------------------------------------------------------
(* The jobs *)

\* A job goes on, and nothing else: it keeps what it has saved, and that is
\* what there is.
LEMMA JobGoesOn ==
    ASSUME YearInv, NEW j \in Jobs, job[j].at # "idle",
           NEW r \in JobRow, r.at \in {"active", "read"}, JobFits(r),
           job' = [job EXCEPT ![j] = r], UNCHANGED <<wrapped, users, form, alone, jobs>>
    PROVE  YearInv'
<1>1. job' \in [Jobs -> JobRow] /\ job'[j] = r /\ \A i \in Jobs \ {j} : job'[i] = job[i]
  BY DEF YearInv, YearTyped
<1>2. InFlight' = InFlight /\ j \in InFlight /\ Opened' = Opened
  BY <1>1 DEF InFlight, Opened
<1>3. YearTyped'
  BY <1>1 DEF YearInv, YearTyped, JobFits
<1>4. ASSUME alone PROVE OnlyJob'
  <2>1. OnlyJob
    BY <1>4 DEF YearInv
  <2>2. InFlight = {j}
    BY <1>2, <2>1 DEF OnlyJob
  <2> QED
    BY <1>1, <1>2, <2>1, <2>2 DEF OnlyJob
<1> QED
  BY <1>3, <1>4 DEF YearInv, UsersTogether

LEMMA ReadActivityInv ==
    ASSUME AssignmentInv, YearInv, NEW j \in Jobs, ReadActivity(j)
    PROVE  YearInv'
<1> DEFINE r == [job[j] EXCEPT !.at = "active", !.active = Submitted]
<1>1. /\ job[j].at = "begun" /\ job' = [job EXCEPT ![j] = r]
      /\ UNCHANGED <<wrapped, users, form, alone, jobs>>
  BY DEF ReadActivity, JobStep
<1>2. job[j] \in JobRow /\ Submitted \subseteq Students
  BY TotalsAre DEF YearInv, YearTyped, AssignmentInv, Submitted
<1>3. r \in JobRow /\ r.at = "active"
  BY <1>2 DEF JobRow
<1> HIDE DEF r
<1>4. JobFits(r)
  BY <1>3 DEF JobFits
<1> QED
  BY <1>1, <1>3, <1>4, JobGoesOn

LEMMA ReadEnrollmentsInv ==
    ASSUME AssignmentInv, YearInv, NEW j \in Jobs, ReadEnrollments(j)
    PROVE  YearInv'
<1> DEFINE totals == [s \in job[j].active |-> Total(s)]
           r == [job[j] EXCEPT !.at = "read", !.totals = totals]
<1>1. /\ job[j].at = "active" /\ job' = [job EXCEPT ![j] = r]
      /\ UNCHANGED <<wrapped, users, form, alone, jobs>>
  BY DEF ReadEnrollments, JobStep
<1>2. job[j] \in JobRow
  BY DEF YearInv, YearTyped
<1>3. job[j].active \subseteq Students
  BY <1>2 DEF JobRow
<1>4. totals \in Totals
  <2>1. \A s \in job[j].active : Total(s) \in Points
    BY TotalsAre DEF Total, Points, AssignmentInv, Submitted
  <2>2. totals \in [job[j].active -> Points]
    BY <2>1
  <2> QED
    BY <1>3, <2>2, TotalsAre
<1>5. DOMAIN totals = job[j].active
  OBVIOUS
<1> HIDE DEF totals
<1>6. r \in JobRow /\ r.at = "read" /\ r.totals = totals /\ r.active = job[j].active
  BY <1>2, <1>4 DEF JobRow
<1> HIDE DEF r
<1>7. JobFits(r)
  BY <1>5, <1>6 DEF JobFits
<1> QED
  BY <1>1, <1>6, <1>7, JobGoesOn

LEMMA BlankWrappedIsRow ==
    BlankWrapped \in PlatformRow /\ DOMAIN BlankWrapped.board = {}
<1>1. << >> \in [{} -> [rank : Nat, points : Points]] /\ DOMAIN << >> = {}
  BY NoRows
<1>2. Gapless(<< >>)
  <2>1. Cardinality({}) = 0
    BY FS_EmptySet
  <2>2. 1 .. 0 = {}
    OBVIOUS
  <2> QED
    BY <1>1, <2>1, <2>2 DEF Gapless
<1>3. << >> \in Ranking
  BY <1>1, <1>2 DEF Ranking
<1> QED
  BY <1>1, <1>3 DEF BlankWrapped, PlatformRow, Sums

LEMMA BeginJobInv ==
    ASSUME YearInv, NEW j \in Jobs, NEW caller \in {"admin", "script"}, BeginJob(j, caller)
    PROVE  YearInv'
<1> DEFINE row == IF wrapped = None THEN BlankWrapped ELSE wrapped
           r == [NoJob EXCEPT !.at = "begun", !.caller = caller,
                              !.serial = jobs, !.visible = row.visible]
<1>1. /\ job[j] = NoJob /\ wrapped' = row
      /\ alone' = (InFlight \cup Opened = {})
      /\ jobs' = jobs + 1 /\ UNCHANGED <<users, form>>
  BY DEF BeginJob, Begun
<1>2. job' = [job EXCEPT ![j] = r]
  BY <1>1 DEF BeginJob
<1>3. row \in PlatformRow /\ row # None
  BY BlankWrappedIsRow, RowsAreRows DEF YearInv, YearTyped
<1>4. row.visible \in BOOLEAN
  BY <1>3 DEF PlatformRow
<1> HIDE DEF row
<1>5. << >> \in Totals
  <2>1. DOMAIN << >> = {} /\ {} \in SUBSET Students /\ << >> \in [{} -> Points]
    BY NoRows
  <2> QED
    BY <2>1 DEF Totals
<1>6. r \in JobRow /\ r.at = "begun"
  BY <1>4, <1>5 DEF NoJob, JobRow, YearInv, YearTyped
<1> HIDE DEF r
<1>7. JobFits(r)
  BY <1>6 DEF JobFits
<1>8. job' \in [Jobs -> JobRow] /\ job'[j] = r /\ \A i \in Jobs \ {j} : job'[i] = job[i]
  BY <1>2, <1>6 DEF YearInv, YearTyped
<1>9. YearTyped'
  BY <1>1, <1>3, <1>7, <1>8 DEF YearInv, YearTyped
<1>10. ASSUME alone' PROVE OnlyJob'
  <2>1. InFlight = {} /\ Opened = {}
    BY <1>1, <1>10
  <2>2. Opened' = {}
    BY <1>1, <2>1 DEF Opened
  <2>3. InFlight' = {j}
    BY <1>6, <1>8, <2>1 DEF InFlight
  <2> QED
    BY <1>1, <1>3, <1>6, <1>8, <2>2, <2>3 DEF OnlyJob
<1> QED
  BY <1>1, <1>9, <1>10 DEF YearInv, UsersTogether

LEMMA SavePlatformInv ==
    ASSUME AssignmentInv, YearInv, NEW j \in Jobs, SavePlatform(j)
    PROVE  YearInv'
<1>1. PICK board \in Boards(Ranked(j)) :
          LET row == [row |-> TRUE, visible |-> job[j].visible, points |-> SumNow(j),
                      board |-> [s \in DOMAIN board |->
                                    [rank |-> board[s], points |-> Ranked(j)[s]]]]
          IN  /\ wrapped' = row
              /\ job' = [job EXCEPT ![j] = [@ EXCEPT !.at = "platform", !.saved = row]]
  BY DEF SavePlatform
<1> DEFINE totals == job[j].totals
           new == [s \in DOMAIN board |-> [rank |-> board[s], points |-> totals[s]]]
           row == [row |-> TRUE, visible |-> job[j].visible, points |-> SumNow(j),
                   board |-> new]
           r == [job[j] EXCEPT !.at = "platform", !.saved = row]
<1>2. wrapped' = row /\ job' = [job EXCEPT ![j] = r]
  BY <1>1 DEF Ranked
<1>3. job[j].at = "read" /\ UNCHANGED <<users, form, alone, jobs>>
  BY DEF SavePlatform, JobStep
<1>4. job[j] \in JobRow /\ JobFits(job[j])
  BY DEF YearInv, YearTyped
<1>5. totals \in Totals /\ DOMAIN totals = job[j].active /\ board \in Boards(totals)
  BY <1>1, <1>3, <1>4 DEF JobRow, JobFits, Ranked
<1>6. job[j].active \subseteq Students /\ job[j].visible \in BOOLEAN
  BY <1>4 DEF JobRow
<1>7. new \in Ranking /\ DOMAIN new \subseteq job[j].active
      /\ \A s \in DOMAIN new : new[s].points = totals[s]
  <2> HIDE DEF totals
  <2> QED
    BY <1>5, BoardIsRanking
<1>8. SumNow(j) \in Sums
  <2> DEFINE f == [s \in job[j].active |-> Total(s)]
  <2>1. \A s \in job[j].active : Total(s) \in Points
    BY TotalsAre DEF Total, Points, AssignmentInv, Submitted
  <2>2. f \in [job[j].active -> Points]
    BY <2>1
  <2>3. SumNow(j) = SumOver(f)
    BY DEF SumNow
  <2> HIDE DEF f
  <2>4. f \in Totals
    BY <1>6, <2>2, TotalsAre
  <2> QED
    BY <2>3, <2>4 DEF Sums
<1> HIDE DEF new
<1>9. row \in PlatformRow /\ row.board = new
  BY <1>6, <1>7, <1>8 DEF PlatformRow
<1>10. row # None
  BY <1>9, RowsAreRows
<1> HIDE DEF row
<1>11. r \in JobRow /\ r.at = "platform" /\ r.saved = row
       /\ r.active = job[j].active /\ r.totals = totals
  BY <1>4, <1>9 DEF JobRow
<1> HIDE DEF r, totals
<1>12. JobFits(r)
  BY <1>5, <1>7, <1>9, <1>10, <1>11 DEF JobFits
<1>13. job' \in [Jobs -> JobRow] /\ job'[j] = r /\ \A i \in Jobs \ {j} : job'[i] = job[i]
  BY <1>2, <1>11 DEF YearInv, YearTyped
<1>14. YearTyped'
  BY <1>2, <1>3, <1>9, <1>12, <1>13 DEF YearInv, YearTyped
<1>15. InFlight' = InFlight /\ j \in InFlight /\ Opened' = Opened
  BY <1>3, <1>11, <1>13 DEF InFlight, Opened
<1>16. ASSUME alone PROVE OnlyJob'
  <2>1. InFlight = {j} /\ Opened = {}
    BY <1>15, <1>16 DEF YearInv, OnlyJob
  <2> QED
    BY <1>2, <1>10, <1>11, <1>13, <1>15, <2>1 DEF OnlyJob
<1> QED
  BY <1>3, <1>14, <1>16 DEF YearInv, UsersTogether

LEMMA DeleteUsersInv ==
    ASSUME YearInv, NEW j \in Jobs, DeleteUsers(j)
    PROVE  YearInv'
<1>1. /\ job[j].at = "platform" /\ users' = << >>
      /\ job' = [job EXCEPT ![j].at = "deleted"]
      /\ UNCHANGED <<wrapped, form, alone, jobs>>
  BY DEF DeleteUsers, JobStep
<1>2. job \in [Jobs -> JobRow] /\ JobFits(job[j])
  BY DEF YearInv, YearTyped
<1>3. job'[j] \in JobRow /\ job'[j].at = "deleted" /\ job'[j].saved = job[j].saved
      /\ job'[j].active = job[j].active /\ job'[j].totals = job[j].totals
  BY <1>1, <1>2 DEF JobRow
<1>4. job' \in [Jobs -> JobRow] /\ \A i \in Jobs \ {j} : job'[i] = job[i]
  BY <1>1, <1>2, <1>3
<1>5. JobFits(job'[j])
  BY <1>1, <1>2, <1>3 DEF JobFits
<1>6. << >> \in UserRows
  <2>1. DOMAIN << >> = {} /\ {} \in SUBSET Students
        /\ << >> \in [{} -> [rank : Nat, points : Points, by : Nat, among : SUBSET Students]]
    BY NoRows
  <2> QED
    BY <2>1 DEF UserRows
<1>7. YearTyped'
  BY <1>1, <1>4, <1>5, <1>6 DEF YearInv, YearTyped
<1>8. UsersTogether'
  BY <1>1, NoRows DEF UsersTogether
<1>9. InFlight' = InFlight /\ j \in InFlight /\ Opened' = Opened
  BY <1>1, <1>3, <1>4 DEF InFlight, Opened
<1>10. ASSUME alone PROVE OnlyJob'
  <2>1. InFlight = {j} /\ Opened = {} /\ wrapped # None
        /\ job[j].saved.board = wrapped.board
    BY <1>1, <1>9, <1>10 DEF YearInv, OnlyJob
  <2> QED
    BY <1>1, <1>3, <1>9, <2>1 DEF OnlyJob
<1> QED
  BY <1>1, <1>7, <1>8, <1>10 DEF YearInv

LEMMA UserRowColumns ==
    ASSUME NEW j, NEW s
    PROVE  /\ UserRow(j, s).rank = IF s \in DOMAIN job[j].saved.board
                                   THEN job[j].saved.board[s].rank ELSE 0
           /\ UserRow(j, s).points = job[j].totals[s]
           /\ UserRow(j, s).by = job[j].serial
           /\ UserRow(j, s).among = job[j].active
<1> DEFINE rank == IF s \in DOMAIN job[j].saved.board
                   THEN job[j].saved.board[s].rank ELSE 0
<1>1. UserRow(j, s) = [rank |-> rank, points |-> job[j].totals[s],
                       by |-> job[j].serial, among |-> job[j].active]
  BY DEF UserRow
<1> HIDE DEF rank
<1>2. UserRow(j, s).rank = rank
  BY <1>1
<1> QED
  BY <1>1, <1>2 DEF rank

\* The rows of the participants, when they do not conflict with those there.
LEMMA RowsCreated ==
    ASSUME YearTyped, NEW j \in Jobs, job[j].at = "deleted",
           NEW new, new = WithRows(j)
    PROVE  /\ new \in UserRows
           /\ DOMAIN new = job[j].active \cup DOMAIN users
           /\ \A s \in job[j].active : new[s] = UserRow(j, s)
           /\ \A s \in DOMAIN users \ job[j].active : new[s] = users[s]
           /\ job[j].saved \in PlatformRow /\ DOMAIN job[j].saved.board \subseteq job[j].active
           /\ \A s \in DOMAIN job[j].saved.board :
                 job[j].saved.board[s].points = job[j].totals[s]
<1> DEFINE Cols == [rank : Nat, points : Points, by : Nat, among : SUBSET Students]
           board == job[j].saved.board
           active == job[j].active
           totals == job[j].totals
<1>1. job[j] \in JobRow /\ JobFits(job[j]) /\ job[j].saved \in PlatformRow
  BY DEF YearTyped, JobFits, JobRow
<1>2. /\ active \subseteq Students /\ job[j].serial \in Nat /\ DOMAIN totals = active
      /\ totals \in Totals
  BY <1>1 DEF JobRow, JobFits
<1>3. \A s \in active : totals[s] \in Points
  BY <1>2, TotalsAre
<1>4. DOMAIN board \subseteq active /\ \A s \in DOMAIN board : board[s].points = totals[s]
  BY <1>1 DEF JobFits
<1>5. \A s \in DOMAIN board : board[s].rank \in Nat
  <2>1. board \in Ranking
    BY <1>1 DEF PlatformRow
  <2>2. PICK S \in SUBSET Students : board \in [S -> [rank : Nat, points : Points]]
    BY <2>1 DEF Ranking
  <2> QED
    BY <2>2
<1>6. \A s \in active : UserRow(j, s) \in Cols
  BY <1>2, <1>3, <1>5 DEF UserRow
<1>7. PICK S \in SUBSET Students : users \in [S -> Cols]
  BY DEF YearTyped, UserRows
<1>8. new = [s \in active \cup DOMAIN users |->
                IF s \in active THEN UserRow(j, s) ELSE users[s]]
  BY DEF WithRows
<1> HIDE DEF Cols, board, active, totals
<1>9. new \in [active \cup S -> Cols]
  BY <1>6, <1>7, <1>8
<1>10. new \in UserRows
  BY <1>2, <1>7, <1>9 DEF UserRows, Cols
<1> QED
  BY <1>1, <1>4, <1>7, <1>8, <1>10 DEF board, active, totals

\* The request is done, or a script goes on to publish what it has saved.
LEMMA JobAfterCreation ==
    ASSUME YearTyped, NEW j \in Jobs, job[j].at = "deleted",
           NEW new, new = AfterRows(j),
           NEW goesOn, goesOn = (~Conflicting(j) /\ job[j].caller = "script")
    PROVE  /\ new \in JobRow /\ JobFits(new)
           /\ new.at = IF goesOn THEN "created" ELSE "idle"
           /\ goesOn => new.saved = job[j].saved
<1>1. job[j] \in JobRow /\ job[j].saved # None
  BY DEF YearTyped, JobFits
<1>2. job[j].saved \in PlatformRow
  BY <1>1 DEF JobRow
<1>3. << >> \in Totals
  <2>1. DOMAIN << >> = {} /\ {} \in SUBSET Students /\ << >> \in [{} -> Points]
    BY NoRows
  <2> QED
    BY <2>1 DEF Totals
<1>4. NoJob \in JobRow
  BY <1>3 DEF JobRow, NoJob
<1>5. new \in JobRow /\ new.at = (IF goesOn THEN "created" ELSE "idle")
      /\ (goesOn => new.saved = job[j].saved)
  BY <1>2, <1>4 DEF JobRow, NoJob, AfterRows
<1> QED
  BY <1>1, <1>5 DEF JobFits

LEMMA CreateUsersInv ==
    ASSUME YearInv, NEW j \in Jobs, CreateUsers(j)
    PROVE  YearInv'
<1> DEFINE goesOn == ~Conflicting(j) /\ job[j].caller = "script"
           new == AfterRows(j)
           active == job[j].active
           board == job[j].saved.board
           created == WithRows(j)
<1>1. /\ job[j].at = "deleted" /\ job' = [job EXCEPT ![j] = new]
      /\ users' = (IF Conflicting(j) THEN users ELSE created)
      /\ UNCHANGED <<wrapped, form, alone, jobs>>
  BY DEF CreateUsers, JobStep
<1>2. YearTyped /\ UsersTogether
  BY DEF YearInv
<1>3. goesOn \in BOOLEAN
  BY DEF Conflicting
<1>4. /\ new \in JobRow /\ JobFits(new)
      /\ new.at = (IF goesOn THEN "created" ELSE "idle")
      /\ goesOn => new.saved = job[j].saved
  <2>1. goesOn = (~Conflicting(j) /\ job[j].caller = "script") /\ new = AfterRows(j)
    OBVIOUS
  <2> HIDE DEF goesOn, new
  <2> QED
    BY <1>1, <1>2, <2>1, JobAfterCreation
<1>5. /\ created \in UserRows
      /\ DOMAIN created = active \cup DOMAIN users
      /\ \A s \in active : created[s] = UserRow(j, s)
      /\ \A s \in DOMAIN users \ active : created[s] = users[s]
      /\ DOMAIN board \subseteq active
      /\ \A s \in DOMAIN board : board[s].points = job[j].totals[s]
  <2>1. created = WithRows(j)
    OBVIOUS
  <2> HIDE DEF created
  <2> QED
    BY <1>1, <1>2, <2>1, RowsCreated
<1>6. Conflicting(j) <=> DOMAIN users \cap active # {}
  BY DEF Conflicting
<1> HIDE DEF new, created
<1>7. job' \in [Jobs -> JobRow] /\ job'[j] = new /\ \A i \in Jobs \ {j} : job'[i] = job[i]
  BY <1>1, <1>2, <1>4 DEF YearTyped
<1>8. YearTyped'
  BY <1>1, <1>2, <1>4, <1>5, <1>7 DEF YearTyped
<1>9. UsersTogether'
  <2>1. CASE Conflicting(j)
    BY <1>1, <1>2, <2>1 DEF UsersTogether
  <2>2. CASE ~Conflicting(j)
    <3>1. users' = created /\ DOMAIN users \cap active = {}
      BY <1>1, <1>6, <2>2
    <3>2. \A s \in active : users'[s].among = active /\ users'[s].by = job[j].serial
      <4>1. \A s \in active : users'[s] = UserRow(j, s)
        BY <1>5, <3>1
      <4> QED
        BY <4>1, UserRowColumns
    <3>3. \A s \in DOMAIN users : users'[s] = users[s] /\ users[s].among \subseteq DOMAIN users
      BY <1>2, <1>5, <3>1 DEF UsersTogether
    <3> HIDE DEF active
    <3>4. DOMAIN users' = active \cup DOMAIN users
      BY <1>5, <3>1
    <3>5. \A s \in DOMAIN users' : users'[s].among \subseteq DOMAIN users'
      BY <3>2, <3>3, <3>4
    <3>6. ASSUME NEW s \in DOMAIN users', NEW t \in DOMAIN users',
                 users'[s].by # users'[t].by
          PROVE  users'[s].among \cap users'[t].among = {}
      <4>1. CASE s \in active /\ t \in active
        BY <3>2, <3>6, <4>1
      <4>2. CASE s \in active /\ t \in DOMAIN users
        BY <3>1, <3>2, <3>3, <4>2
      <4>3. CASE s \in DOMAIN users /\ t \in active
        BY <3>1, <3>2, <3>3, <4>3
      <4>4. CASE s \in DOMAIN users /\ t \in DOMAIN users
        BY <1>2, <3>3, <3>6, <4>4 DEF UsersTogether
      <4> QED
        BY <3>4, <3>6, <4>1, <4>2, <4>3, <4>4
    <3> QED
      BY <3>5, <3>6 DEF UsersTogether
  <2> QED
    BY <2>1, <2>2
<1>10. ASSUME alone PROVE OnlyJob'
  <2>1. OnlyJob /\ j \in InFlight
    BY <1>1, <1>10 DEF YearInv, InFlight
  <2>2. InFlight = {j} /\ Opened = {} /\ wrapped # None /\ board = wrapped.board
        /\ users = << >>
    BY <1>1, <2>1 DEF OnlyJob
  <2>3. ~Conflicting(j) /\ users' = created /\ DOMAIN users' = active
    BY <1>1, <1>5, <1>6, <2>2, NoRows
  <2>4. \A s \in active :
           /\ users'[s].rank = (IF s \in DOMAIN board THEN board[s].rank ELSE 0)
           /\ users'[s].points = job[j].totals[s]
    <3>1. \A s \in active : users'[s] = UserRow(j, s)
      BY <1>5, <2>3
    <3> QED
      BY <3>1, UserRowColumns
  <2>5. Agree(wrapped.board)'
    <3> HIDE DEF active, board
    <3> QED
      BY <1>1, <1>5, <2>2, <2>3, <2>4 DEF Agree
  <2>6. Opened' = {}
    BY <1>1, <2>2 DEF Opened
  <2>7. InFlight' = IF goesOn THEN {j} ELSE {}
    BY <1>4, <1>7, <2>2 DEF InFlight
  <2>8. goesOn => job'[j].at = "created" /\ job'[j].saved.board = wrapped'.board
    BY <1>1, <1>4, <1>7, <2>2
  <2> HIDE DEF goesOn
  <2> QED
    BY <1>1, <2>2, <2>5, <2>6, <2>7, <2>8 DEF OnlyJob
<1> QED
  BY <1>1, <1>8, <1>9, <1>10 DEF YearInv

LEMMA Shown ==
    ASSUME NEW row \in PlatformRow, NEW visible \in BOOLEAN,
           NEW new, new = [row EXCEPT !.visible = visible]
    PROVE  new \in PlatformRow /\ new.board = row.board /\ new # None
<1>1. new \in PlatformRow /\ new.board = row.board
  BY DEF PlatformRow
<1> QED
  BY <1>1, RowsAreRows

LEMMA PublishInv ==
    ASSUME YearInv, NEW j \in Jobs, Publish(j)
    PROVE  YearInv'
<1>1. /\ job[j].at = "created" /\ wrapped' = [job[j].saved EXCEPT !.visible = TRUE]
      /\ job' = [job EXCEPT ![j] = NoJob]
      /\ UNCHANGED <<users, form, alone, jobs>>
  BY DEF Publish, JobStep
<1>2. YearTyped
  BY DEF YearInv
<1>3. job[j].saved \in PlatformRow
  BY <1>1, <1>2 DEF YearTyped, JobFits, JobRow
<1>4. wrapped' \in PlatformRow /\ wrapped'.board = job[j].saved.board /\ wrapped' # None
  BY <1>1, <1>3, Shown
<1>5. NoJob \in JobRow /\ JobFits(NoJob) /\ NoJob.at = "idle"
  BY IdleJob
<1>6. job' \in [Jobs -> JobRow] /\ job'[j] = NoJob /\ \A i \in Jobs \ {j} : job'[i] = job[i]
  BY <1>1, <1>2, <1>5 DEF YearTyped
<1>7. YearTyped'
  BY <1>1, <1>2, <1>4, <1>5, <1>6 DEF YearTyped
<1>8. ASSUME alone PROVE OnlyJob'
  <2>1. OnlyJob /\ j \in InFlight
    BY <1>1, <1>8 DEF YearInv, InFlight
  <2>2. InFlight = {j} /\ Opened = {} /\ job[j].saved.board = wrapped.board
        /\ Agree(wrapped.board)
    BY <1>1, <2>1 DEF OnlyJob
  <2>3. InFlight' = {} /\ Opened' = {}
    BY <1>1, <1>5, <1>6, <2>2 DEF InFlight, Opened
  <2>4. Agree(wrapped.board)'
    BY <1>1, <1>4, <2>2 DEF Agree
  <2> QED
    BY <2>3, <2>4 DEF OnlyJob
<1> QED
  BY <1>1, <1>7, <1>8 DEF YearInv, UsersTogether

LEMMA StopJobInv ==
    ASSUME YearInv, NEW j \in Jobs, StopJob(j)
    PROVE  YearInv'
<1>1. job' = [job EXCEPT ![j] = NoJob] /\ alone' = FALSE
      /\ UNCHANGED <<wrapped, users, form, jobs>>
  BY DEF StopJob
<1>2. NoJob \in JobRow /\ JobFits(NoJob)
  BY IdleJob
<1>3. YearTyped'
  BY <1>1, <1>2 DEF YearInv, YearTyped
<1> QED
  BY <1>1, <1>3 DEF YearInv, UsersTogether

LEMMA OpenFormInv ==
    ASSUME YearInv, NEW f \in Forms, OpenForm(f)
    PROVE  YearInv'
<1>1. /\ wrapped # None /\ form' = [form EXCEPT ![f] = wrapped]
      /\ alone' = (alone /\ InFlight = {}) /\ jobs' = jobs + 1
      /\ UNCHANGED <<wrapped, users, job>>
  BY DEF OpenForm, Begun
<1>2. form' \in [Forms -> {None} \cup PlatformRow] /\ form'[f] = wrapped
      /\ \A g \in Forms \ {f} : form'[g] = form[g]
  BY <1>1 DEF YearInv, YearTyped
<1>3. YearTyped'
  BY <1>1, <1>2 DEF YearInv, YearTyped, JobFits
<1>4. ASSUME alone' PROVE OnlyJob'
  <2>1. OnlyJob /\ InFlight = {}
    BY <1>1, <1>4 DEF YearInv
  <2>2. InFlight' = {}
    BY <1>1, <2>1 DEF InFlight
  <2>3. Agree(wrapped.board)'
    BY <1>1, <2>1 DEF OnlyJob, Agree
  <2>4. \A g \in Opened' : form'[g].board = wrapped'.board
    BY <1>1, <1>2, <2>1 DEF OnlyJob, Opened
  <2> QED
    BY <1>1, <2>2, <2>3, <2>4 DEF OnlyJob
<1> QED
  BY <1>1, <1>3, <1>4 DEF YearInv, UsersTogether

LEMMA SaveFormInv ==
    ASSUME YearInv, NEW f \in Forms, SaveForm(f)
    PROVE  YearInv'
<1> DEFINE visible == ~form[f].visible
<1>1. /\ form[f] # None /\ wrapped' = [form[f] EXCEPT !.visible = visible]
      /\ form' = [form EXCEPT ![f] = None]
      /\ UNCHANGED <<users, job, alone, jobs>>
  BY DEF SaveForm
<1>2. form[f] \in PlatformRow /\ visible \in BOOLEAN
  BY <1>1 DEF YearInv, YearTyped, PlatformRow
<1> HIDE DEF visible
<1>3. wrapped' \in PlatformRow /\ wrapped'.board = form[f].board /\ wrapped' # None
  BY <1>1, <1>2, Shown
<1>4. form' \in [Forms -> {None} \cup PlatformRow] /\ form'[f] = None
      /\ \A g \in Forms \ {f} : form'[g] = form[g]
  BY <1>1 DEF YearInv, YearTyped
<1>5. YearTyped'
  BY <1>1, <1>3, <1>4 DEF YearInv, YearTyped, JobFits
<1>6. ASSUME alone PROVE OnlyJob'
  <2>1. OnlyJob /\ f \in Opened
    BY <1>1, <1>6 DEF YearInv, Opened
  <2>2. InFlight = {} /\ wrapped # None /\ form[f].board = wrapped.board
        /\ Agree(wrapped.board)
    BY <2>1 DEF OnlyJob
  <2>3. InFlight' = {} /\ wrapped'.board = wrapped.board
    BY <1>1, <1>3, <2>2 DEF InFlight
  <2>4. Agree(wrapped.board)'
    BY <1>1, <2>2, <2>3 DEF Agree
  <2>5. \A g \in Opened' : form'[g].board = wrapped'.board
    BY <1>4, <2>1, <2>3 DEF OnlyJob, Opened
  <2> QED
    BY <1>3, <2>3, <2>4, <2>5 DEF OnlyJob
<1> QED
  BY <1>1, <1>5, <1>6 DEF YearInv, UsersTogether

-----------------------------------------------------------------------------
(* Theorems *)

LEMMA StepInv ==
    ASSUME IInv, [Next]_vars
    PROVE  IInv'
<1>1. AssignmentInv /\ PageInv /\ YearInv
  BY DEF IInv
<1>2. CASE UNCHANGED vars
  BY <1>1, <1>2, AssignmentUnchanged, PageUnchanged, YearUnchanged
     DEF vars, IInv, assignment, page, year
<1>3. ASSUME NEW s \in Students, Submit(s) \/ Delete(s) \/ \E v \in Scores : EditScore(s, v)
      PROVE  IInv'
  BY <1>1, <1>3, SubmitInv, DeleteInv, EditScoreInv, YearUnchanged
     DEF IInv, Edit, Submit, Delete, EditScore
<1>4. CASE ScoreHomework \/ ScoreProject
  BY <1>1, <1>4, ScoreHomeworkInv, ScoreProjectInv, YearUnchanged
     DEF IInv, Edit, ScoreHomework, ScoreProject
<1>5. ASSUME NEW r \in Views,
             \/ \E force \in BOOLEAN : GetOrCreate(r, force)
             \/ Calculate(r) \/ SaveStats(r) \/ StopView(r)
      PROVE  IInv'
  <2>1. PageInv'
    BY <1>1, <1>5, GetOrCreateInv, CalculateInv, SaveStatsInv, StopViewInv
  <2>2. UNCHANGED assignment /\ UNCHANGED year
    BY <1>5 DEF GetOrCreate, Calculate, SaveStats, StopView
  <2> QED
    BY <1>1, <2>1, <2>2, AssignmentUnchanged, YearUnchanged DEF IInv
<1>6. ASSUME UNCHANGED <<assignment, page>>, YearInv'
      PROVE  IInv'
  BY <1>1, <1>6, AssignmentUnchanged, PageUnchanged DEF IInv, assignment
<1>7. ASSUME NEW j \in Jobs,
             \/ \E caller \in {"admin", "script"} : BeginJob(j, caller)
             \/ ReadActivity(j) \/ ReadEnrollments(j) \/ SavePlatform(j)
             \/ DeleteUsers(j) \/ CreateUsers(j) \/ Publish(j) \/ StopJob(j)
      PROVE  IInv'
  <2>1. YearInv'
    BY <1>1, <1>7, BeginJobInv, ReadActivityInv, ReadEnrollmentsInv, SavePlatformInv,
       DeleteUsersInv, CreateUsersInv, PublishInv, StopJobInv
  <2>2. UNCHANGED <<assignment, page>>
    BY <1>7 DEF BeginJob, Begun, ReadActivity, ReadEnrollments, SavePlatform, DeleteUsers,
                CreateUsers, Publish, StopJob, JobStep
  <2> QED
    BY <1>6, <2>1, <2>2
<1>8. ASSUME NEW f \in Forms, OpenForm(f) \/ SaveForm(f)
      PROVE  IInv'
  <2>1. YearInv'
    BY <1>1, <1>8, OpenFormInv, SaveFormInv
  <2>2. UNCHANGED <<assignment, page>>
    BY <1>8 DEF OpenForm, Begun, SaveForm
  <2> QED
    BY <1>6, <2>1, <2>2
<1> QED
  BY <1>2, <1>3, <1>4, <1>5, <1>7, <1>8 DEF Next

\* The invariant holds in every interleaving of edits, requests and jobs.
THEOREM Invariant == Spec => []IInv
BY InitInv, StepInv, PTL DEF Spec

\* Whatever is scored, deleted and computed meanwhile, the numbers shown are in
\* order and the ranks of the leaderboard have no gap.
THEOREM Typing == Spec => []TypeOK
<1>1. IInv => TypeOK
  <2> SUFFICES ASSUME IInv PROVE TypeOK
    OBVIOUS
  <2>1. Submitted \subseteq Students /\ \A s \in Submitted : score[s] \in Scores \cup {0}
    BY TotalsAre DEF IInv, AssignmentInv, Submitted, Points
  <2>2. stats # None => InOrder(stats)
    BY DEF IInv, PageInv, StatsRow
  <2>3. wrapped # None => Gapless(wrapped.board)
    BY DEF IInv, YearInv, YearTyped, PlatformRow, Ranking
  <2> QED
    BY <2>1, <2>2, <2>3 DEF TypeOK, InOrder, Gapless, IInv, AssignmentInv
<1> QED
  BY <1>1, Invariant, PTL

\* Computing and saving the statistics are steps apart, and submissions are added
\* in any state of the assignment; numbers that are not those of the submissions
\* are due to what came between, or after, and a calculation that no older one
\* overlaps (calculate_homework_statistics, calculate_project_statistics) rights them.
THEOREM DifferentNumbersHaveACause == Spec => []NumbersHaveACause
<1>1. IInv => NumbersHaveACause
  BY DEF IInv, PageInv
<1> QED
  BY <1>1, Invariant, PTL

\* One read of the enrollments serves leaderboard and rows, so they agree although
\* scores change; and the unique constraint keeps the rows of two jobs apart.
THEOREM RowsAgreeWithTheLeaderboard == Spec => []WrappedAgrees
<1>1. IInv => WrappedAgrees
  BY DEF IInv, YearInv, UsersTogether, OnlyJob, Agree, WrappedAgrees
<1> QED
  BY <1>1, Invariant, PTL
=============================================================================
