------------------------- MODULE ProjectScoresProofs -------------------------
(***************************************************************************)
(* The marks of a project for any learners, reviews, criteria, scores and  *)
(* requests.  First what the marks are, as functions of the responses;     *)
(* then what each request in flight knows of the rows it has read, and     *)
(* what it has locked; from these that marks, totals and the leaderboard   *)
(* are right unless the history of the model says why.                     *)
(***************************************************************************)
EXTENDS ProjectScores, FiniteSetTheorems, WellFoundedInduction, TLAPS

-----------------------------------------------------------------------------
(* Numbers *)

\* A nonempty set of natural numbers has a least element.
LEMMA LeastNumber ==
    ASSUME NEW T, T \subseteq Nat, T # {}
    PROVE  \E m \in T : \A n \in T : m <= n
<1> DEFINE R == {ss \in Nat \X Nat : ss[1] < ss[2]}
<1>1. IsWellFoundedOn(R, Nat)
    BY NatLessThanWellFounded DEF OpToRel
<1> HIDE DEF R
<1>2. PICK m \in T : \A n \in T : ~(<<n, m>> \in R)
    BY <1>1, WFMin
<1>3. \A n \in T : ~(n < m)
    BY <1>2 DEF R
<1> QED BY <1>3

\* A part of a finite set is finite and has no more elements.
LEMMA PartCounts ==
    ASSUME NEW T, IsFiniteSet(T), NEW S, S \subseteq T
    PROVE  /\ IsFiniteSet(S) /\ Cardinality(S) \in Nat /\ Cardinality(T) \in Nat
           /\ Cardinality(S) <= Cardinality(T)
           /\ Cardinality(S) = Cardinality(T) => S = T
<1>1. S \in SUBSET T
  OBVIOUS
<1> QED
  BY <1>1, FS_Subset, FS_CardinalityType

-----------------------------------------------------------------------------
(* The sum over the criteria *)

OneOf(t) == CHOOSE x \in t : TRUE
IsSum(it, w, D) ==
    it = [t \in D |-> IF t = {} THEN 0 ELSE w[OneOf(t)] + it[t \ {OneOf(t)}]]
UpTo(S, n) == {t \in SUBSET S : Cardinality(t) <= n}

LEMMA SumUnfolds ==
    ASSUME NEW w
    PROVE  SumOver(w) = (CHOOSE it : IsSum(it, w, SUBSET DOMAIN w))[DOMAIN w]
BY DEF SumOver, FoldFunction, FoldFunctionOnSet, MapThenFoldSet, IsSum, OneOf

LEMMA OneIsTaken ==
    ASSUME NEW S, IsFiniteSet(S), NEW t \in SUBSET S, t # {}
    PROVE  /\ OneOf(t) \in t
           /\ IsFiniteSet(t) /\ t \ {OneOf(t)} \in SUBSET S
           /\ Cardinality(t) \in Nat \ {0}
           /\ Cardinality(t \ {OneOf(t)}) = Cardinality(t) - 1
<1>1. OneOf(t) \in t
  BY DEF OneOf
<1>2. IsFiniteSet(t)
  BY FS_Subset
<1>3. Cardinality(t \ {OneOf(t)}) = Cardinality(t) - 1
  BY <1>1, <1>2, FS_RemoveElement
<1>4. Cardinality(t) \in Nat
  BY <1>2, FS_CardinalityType
<1>5. Cardinality(t) # 0
  BY <1>2, FS_EmptySet
<1> QED
  BY <1>1, <1>2, <1>3, <1>4, <1>5

\* The sum of finitely many numbers is defined: by cardinality.
LEMMA SumExists ==
    ASSUME NEW w, NEW S, IsFiniteSet(S)
    PROVE  \E it : IsSum(it, w, SUBSET S)
<1> DEFINE T == {n \in Nat : ~\E it : IsSum(it, w, UpTo(S, n))}
<1>1. T = {}
  <2> SUFFICES ASSUME T # {} PROVE FALSE
    OBVIOUS
  <2>1. PICK m \in T : \A n \in T : m <= n
    BY LeastNumber
  <2>2. m \in Nat /\ ~\E it : IsSum(it, w, UpTo(S, m))
    OBVIOUS
  <2>3. CASE m = 0
    <3> DEFINE it == [t \in UpTo(S, 0) |-> 0]
    <3>1. \A t \in UpTo(S, 0) : t = {}
      <4> SUFFICES ASSUME NEW t \in UpTo(S, 0), t # {} PROVE FALSE
        OBVIOUS
      <4>1. t \in SUBSET S /\ Cardinality(t) <= 0
        BY DEF UpTo
      <4>2. Cardinality(t) \in Nat \ {0}
        BY <4>1, OneIsTaken
      <4> QED
        BY <4>1, <4>2
    <3>2. IsSum(it, w, UpTo(S, 0))
      BY <3>1 DEF IsSum
    <3> QED
      BY <2>2, <2>3, <3>2
  <2>4. CASE m # 0
    <3>1. m - 1 \in Nat /\ m - 1 \notin T
      BY <2>1, <2>2, <2>4
    <3>2. PICK it : IsSum(it, w, UpTo(S, m - 1))
      BY <3>1
    <3> DEFINE more == [t \in UpTo(S, m) |-> IF t = {} THEN 0
                          ELSE w[OneOf(t)] + it[t \ {OneOf(t)}]]
    <3>3. \A t \in UpTo(S, m) : t # {} => t \ {OneOf(t)} \in UpTo(S, m - 1)
      <4> SUFFICES ASSUME NEW t \in UpTo(S, m), t # {}
                   PROVE  t \ {OneOf(t)} \in UpTo(S, m - 1)
        OBVIOUS
      <4>1. t \in SUBSET S /\ Cardinality(t) <= m
        BY DEF UpTo
      <4> QED
        BY <4>1, <2>2, OneIsTaken DEF UpTo
    <3>4. \A t \in UpTo(S, m - 1) : t \in UpTo(S, m)
      <4> SUFFICES ASSUME NEW t \in UpTo(S, m - 1) PROVE t \in UpTo(S, m)
        OBVIOUS
      <4>1. t \in SUBSET S /\ Cardinality(t) <= m - 1 /\ IsFiniteSet(t)
        BY FS_Subset DEF UpTo
      <4>2. Cardinality(t) \in Nat
        BY <4>1, FS_CardinalityType
      <4> QED
        BY <4>1, <4>2, <2>2 DEF UpTo
    <3>5. \A t \in UpTo(S, m - 1) : more[t] = it[t]
      <4> SUFFICES ASSUME NEW t \in UpTo(S, m - 1) PROVE more[t] = it[t]
        OBVIOUS
      <4>1. more[t] = IF t = {} THEN 0
                      ELSE w[OneOf(t)] + it[t \ {OneOf(t)}]
        BY <3>4
      <4>2. it[t] = IF t = {} THEN 0
                    ELSE w[OneOf(t)] + it[t \ {OneOf(t)}]
        BY <3>2 DEF IsSum
      <4> QED
        BY <4>1, <4>2
    <3>6. \A t \in UpTo(S, m) : t # {} =>
            it[t \ {OneOf(t)}] = more[t \ {OneOf(t)}]
      BY <3>3, <3>5
    <3>7. IsSum(more, w, UpTo(S, m))
      <4>1. more = [t \in UpTo(S, m) |-> IF t = {} THEN 0
                      ELSE w[OneOf(t)] + more[t \ {OneOf(t)}]]
        BY <3>6
      <4> QED
        BY <4>1 DEF IsSum
    <3> QED
      BY <2>2, <3>7
  <2> QED
    BY <2>3, <2>4
<1>2. UpTo(S, Cardinality(S)) = SUBSET S
  BY FS_Subset DEF UpTo
<1>3. Cardinality(S) \in Nat /\ Cardinality(S) \notin T
  BY <1>1, FS_CardinalityType
<1>4. \E it : IsSum(it, w, UpTo(S, Cardinality(S)))
  BY <1>3
<1> QED
  BY <1>2, <1>4

\* The sum of finitely many numbers is a number.
LEMMA SumIsNat ==
    ASSUME NEW S, IsFiniteSet(S), NEW w \in [S -> Nat]
    PROVE  SumOver(w) \in Nat
<1> DEFINE it == CHOOSE it : IsSum(it, w, SUBSET S)
<1>1. IsSum(it, w, SUBSET S)
  BY SumExists
<1>2. SumOver(w) = it[S]
  BY SumUnfolds
<1> HIDE DEF it
<1>3. \A t \in SUBSET S : it[t] = IF t = {} THEN 0
                                  ELSE w[OneOf(t)] + it[t \ {OneOf(t)}]
  BY <1>1 DEF IsSum
<1> DEFINE Bad == {t \in SUBSET S : it[t] \notin Nat}
           T == {n \in Nat : \E t \in Bad : Cardinality(t) = n}
<1>4. Bad = {}
  <2> SUFFICES ASSUME Bad # {} PROVE FALSE
    OBVIOUS
  <2>1. \A t \in Bad : Cardinality(t) \in T
    <3> SUFFICES ASSUME NEW t \in Bad PROVE Cardinality(t) \in T
      OBVIOUS
    <3>1. IsFiniteSet(t)
      BY FS_Subset
    <3> QED
      BY <3>1, FS_CardinalityType
  <2>2. PICK m \in T : \A n \in T : m <= n
    <3>1. T # {}
      BY <2>1
    <3> HIDE DEF T
    <3> QED
      BY <3>1, LeastNumber DEF T
  <2>3. PICK t \in Bad : Cardinality(t) = m
    OBVIOUS
  <2>4. t # {}
    <3>1. it[{}] = 0 /\ it[t] \notin Nat
      BY <1>3
    <3> QED
      BY <3>1
  <2>5. t \ {OneOf(t)} \notin Bad
    BY <2>1, <2>2, <2>3, <2>4, OneIsTaken
  <2>6. it[t \ {OneOf(t)}] \in Nat /\ OneOf(t) \in S
    BY <2>4, <2>5, OneIsTaken
  <2>7. w[OneOf(t)] + it[t \ {OneOf(t)}] \in Nat
    BY <2>6
  <2> QED
    BY <1>3, <2>4, <2>7
<1> QED
  BY <1>2, <1>4

-----------------------------------------------------------------------------
(* The median *)

Below(R, v) == Cardinality({r \in R : r[3] < v})
\* A finite, nonempty set of responses.
ResponseSet(R) == IsFiniteSet(R) /\ R # {} /\ \A r \in R : r[3] \in Nat

LEMMA CountsAreNat ==
    ASSUME NEW R, ResponseSet(R), NEW v
    PROVE  /\ AtMost(R, v) \in Nat /\ Below(R, v) \in Nat
           /\ Cardinality(R) \in Nat \ {0} /\ AtMost(R, v) <= Cardinality(R)
<1>1. {r \in R : r[3] <= v} \subseteq R /\ {r \in R : r[3] < v} \subseteq R
  OBVIOUS
<1>2. IsFiniteSet(R) /\ R # {}
  BY DEF ResponseSet
<1>3. Cardinality(R) \in Nat /\ Cardinality(R) # 0
  BY <1>2, FS_CardinalityType, FS_EmptySet
<1> QED
  BY <1>1, <1>2, <1>3, PartCounts DEF AtMost, Below

\* Some response is worth as much as every other.
LEMMA GreatestResponse ==
    ASSUME NEW R, ResponseSet(R)
    PROVE  \E r \in R : \A q \in R : q[3] <= r[3]
<1> DEFINE T == {Cardinality(R) - AtMost(R, r[3]) : r \in R}
<1>1. T \subseteq Nat /\ T # {}
  <2>1. \A r \in R : Cardinality(R) - AtMost(R, r[3]) \in Nat
    BY CountsAreNat
  <2> QED
    BY <2>1 DEF ResponseSet
<1>2. PICK m \in T : \A n \in T : m <= n
  <2> HIDE DEF T
  <2> QED
    BY <1>1, LeastNumber
<1>3. PICK r \in R : m = Cardinality(R) - AtMost(R, r[3])
  OBVIOUS
<1>4. ASSUME NEW q \in R PROVE q[3] <= r[3]
  <2> SUFFICES ASSUME ~(q[3] <= r[3]) PROVE FALSE
    OBVIOUS
  <2> DEFINE low == {x \in R : x[3] <= r[3]}
             high == {x \in R : x[3] <= q[3]}
  <2>1. r[3] \in Nat /\ q[3] \in Nat /\ IsFiniteSet(R)
    BY DEF ResponseSet
  <2>2. low \subseteq high /\ q \in high /\ q \notin low
    BY <2>1 DEF ResponseSet
  <2>3. high \subseteq R
    OBVIOUS
  <2>4. AtMost(R, r[3]) = Cardinality(low) /\ AtMost(R, q[3]) = Cardinality(high)
    BY DEF AtMost
  <2>5. IsFiniteSet(high)
    BY <2>1, <2>3, PartCounts
  <2> HIDE DEF low, high
  <2>6. Cardinality(low) <= Cardinality(high) /\ Cardinality(low) # Cardinality(high)
    BY <2>2, <2>5, PartCounts
  <2>7. Cardinality(R) - AtMost(R, r[3]) <= Cardinality(R) - AtMost(R, q[3])
    BY <1>2, <1>3
  <2>8. Cardinality(R) \in Nat /\ AtMost(R, r[3]) \in Nat /\ AtMost(R, q[3]) \in Nat
    BY CountsAreNat
  <2> QED
    BY <2>4, <2>6, <2>7, <2>8
<1> QED
  BY <1>4

\* A part of the responses that is not empty.
LEMMA PartOfResponses ==
    ASSUME NEW R, ResponseSet(R), NEW P, P \subseteq R, P # {}
    PROVE  ResponseSet(P)
<1>1. IsFiniteSet(P)
  BY PartCounts DEF ResponseSet
<1> QED
  BY <1>1 DEF ResponseSet

\* There is a response in each place, and its worth is the least one that so
\* many responses do not exceed.
LEMMA InPlaceIsLeast ==
    ASSUME NEW R, ResponseSet(R), NEW k \in 1..Cardinality(R)
    PROVE  /\ \E r \in R : InPlace(R, k) = r[3]
           /\ k <= AtMost(R, InPlace(R, k))
           /\ \A u \in Nat : k <= AtMost(R, u) => InPlace(R, k) <= u
<1> DEFINE T == {v \in {r[3] : r \in R} : k <= AtMost(R, v)}
<1>1. k \in Nat /\ 1 <= k /\ k <= Cardinality(R) /\ Cardinality(R) \in Nat
  BY CountsAreNat
<1>2. T \subseteq Nat
  BY DEF ResponseSet
<1>3. T # {}
  <2>1. PICK r \in R : \A q \in R : q[3] <= r[3]
    BY GreatestResponse
  <2>2. AtMost(R, r[3]) = Cardinality(R)
    <3>1. {q \in R : q[3] <= r[3]} = R
      BY <2>1
    <3> QED
      BY <3>1 DEF AtMost
  <2>3. r[3] \in T
    BY <1>1, <2>2
  <2> QED
    BY <2>3
<1>4. PICK m \in T : \A n \in T : m <= n
  <2> HIDE DEF T
  <2> QED
    BY <1>2, <1>3, LeastNumber
<1>5. m \in Nat
  BY <1>2, <1>4
<1>6. Below(R, m) < k
  <2> SUFFICES ASSUME ~(Below(R, m) < k) PROVE FALSE
    OBVIOUS
  <2> DEFINE P == {r \in R : r[3] < m}
  <2>1. Below(R, m) = Cardinality(P) /\ Below(R, m) \in Nat
    BY CountsAreNat DEF Below
  <2>2. P \subseteq R
    OBVIOUS
  <2>3. P # {}
    <3> HIDE DEF P
    <3> QED
      BY <1>1, <2>1, FS_EmptySet
  <2>4. PICK r \in P : \A q \in P : q[3] <= r[3]
    <3> HIDE DEF P
    <3> QED
      BY <2>2, <2>3, PartOfResponses, GreatestResponse
  <2>5. r \in R /\ r[3] < m
    BY <2>4
  <2> DEFINE H == {q \in R : q[3] <= r[3]}
  <2>6. P \subseteq H
    BY <2>4
  <2>7. IsFiniteSet(H)
    BY PartCounts DEF ResponseSet
  <2>8. AtMost(R, r[3]) = Cardinality(H)
    BY DEF AtMost
  <2>9. Cardinality(P) <= Cardinality(H) /\ Cardinality(H) \in Nat
    <3> HIDE DEF P, H
    <3> QED
      BY <2>6, <2>7, PartCounts
  <2>10. k <= AtMost(R, r[3])
    <3> HIDE DEF P, H
    <3> QED
      BY <1>1, <2>1, <2>8, <2>9
  <2>11. r[3] \in T /\ r[3] \in Nat
    BY <2>5, <2>10 DEF ResponseSet
  <2>12. m <= r[3]
    <3> HIDE DEF T
    <3> QED
      BY <1>4, <2>11
  <2> QED
    BY <1>5, <2>5, <2>11, <2>12
<1> DEFINE Middling(v) == Below(R, v) < k /\ k <= AtMost(R, v)
<1>7. InPlace(R, k) = CHOOSE v \in {r[3] : r \in R} : Middling(v)
  BY DEF InPlace, Below, AtMost
<1>8. m \in {r[3] : r \in R} /\ Middling(m)
  BY <1>4, <1>6
<1>9. InPlace(R, k) \in {r[3] : r \in R} /\ Middling(InPlace(R, k))
  <2> HIDE DEF Middling
  <2> QED
    BY <1>7, <1>8
<1> DEFINE v == InPlace(R, k)
<1>10. v \in Nat /\ Below(R, v) < k /\ k <= AtMost(R, v)
  BY <1>9 DEF ResponseSet
<1> HIDE DEF v
<1>11. ASSUME NEW u \in Nat, k <= AtMost(R, u) PROVE v <= u
  <2> SUFFICES ASSUME u < v PROVE FALSE
    BY <1>10
  <2> DEFINE low == {r \in R : r[3] <= u}
             high == {r \in R : r[3] < v}
  <2>1. low \subseteq high
    BY <1>10 DEF ResponseSet
  <2>2. IsFiniteSet(high)
    BY PartCounts DEF ResponseSet
  <2>3. AtMost(R, u) = Cardinality(low) /\ Below(R, v) = Cardinality(high)
    BY DEF AtMost, Below
  <2> HIDE DEF low, high
  <2>4. Cardinality(low) <= Cardinality(high) /\ Cardinality(low) \in Nat
        /\ Cardinality(high) \in Nat
    BY <2>1, <2>2, PartCounts
  <2> QED
    BY <1>1, <1>10, <1>11, <2>3, <2>4
<1> QED
  BY <1>9, <1>10, <1>11 DEF v

\* What the specification of the median calls the least answer.
LeastFor(R, half) == Min({v \in Scores : 2 * AtMost(R, v) >= half})

LEMMA InPlaceIsLeastFor ==
    ASSUME NEW R, ResponseSet(R), \A r \in R : r[3] \in Scores,
           NEW k \in 1..Cardinality(R), NEW half \in {2 * k - 1, 2 * k}
    PROVE  InPlace(R, k) = LeastFor(R, half) /\ InPlace(R, k) \in Nat
<1> DEFINE v == InPlace(R, k)
           T == {u \in Scores : 2 * AtMost(R, u) >= half}
<1>1. /\ v \in Scores /\ k <= AtMost(R, v)
      /\ \A u \in Nat : k <= AtMost(R, u) => v <= u
  BY InPlaceIsLeast
<1>2. k \in Nat /\ k >= 1 /\ Scores \subseteq Nat
  BY CountsAreNat, MarksAssumption
<1>3. \A u : AtMost(R, u) \in Nat
  BY CountsAreNat
<1> HIDE DEF v
<1>4. \A u : 2 * AtMost(R, u) >= half <=> k <= AtMost(R, u)
  BY <1>2, <1>3
<1>5. v \in T /\ \A u \in T : v <= u
  BY <1>1, <1>2, <1>4
<1>6. T \subseteq Nat
  BY <1>2
<1>7. Min(T) = CHOOSE x \in T : \A y \in T : x <= y
  BY DEF Min
<1> HIDE DEF T
<1>8. \A x \in T : (\A y \in T : x <= y) => x = v
  BY <1>5, <1>6
<1>9. Min(T) = v
  BY <1>5, <1>7, <1>8
<1> QED
  BY <1>1, <1>2, <1>9 DEF T, v, LeastFor

\* The one in the middle, or the mean of the two, is the median by counting.
LEMMA MiddleIsTheMedian ==
    ASSUME NEW R, ResponseSet(R), \A r \in R : r[3] \in Scores
    PROVE  Middle(R) = CeilingOfMedian(R) /\ Middle(R) \in Nat
<1> DEFINE n == Cardinality(R)
<1>1. n \in Nat \ {0}
  BY CountsAreNat
<1>2. CeilingOfMedian(R) = (LeastFor(R, n) + LeastFor(R, n + 1) + 1) \div 2
  BY DEF CeilingOfMedian, LeastFor
<1>3. CASE n % 2 = 1
  <2> DEFINE k == (n + 1) \div 2
  <2>1. k \in 1..n /\ n = 2 * k - 1
    <3> HIDE DEF n
    <3> QED
      BY <1>1, <1>3
  <2>2. Middle(R) = InPlace(R, k)
    BY <1>3 DEF Middle
  <2> HIDE DEF k
  <2>3. n + 1 = 2 * k
    <3> HIDE DEF n
    <3> QED
      BY <1>1, <2>1
  <2>4. InPlace(R, k) = LeastFor(R, n) /\ InPlace(R, k) = LeastFor(R, n + 1)
        /\ InPlace(R, k) \in Nat
    BY <2>1, <2>3, InPlaceIsLeastFor
  <2> HIDE DEF n
  <2>5. \A v \in Nat : (v + v + 1) \div 2 = v
    OBVIOUS
  <2> QED
    BY <1>2, <2>2, <2>4, <2>5
<1>4. CASE n % 2 # 1
  <2> DEFINE k == n \div 2
  <2>1. k \in 1..n /\ k + 1 \in 1..n /\ n = 2 * k /\ n + 1 = 2 * (k + 1) - 1
    <3> HIDE DEF n
    <3> QED
      BY <1>1, <1>4
  <2>2. Middle(R) = (InPlace(R, k) + InPlace(R, k + 1) + 1) \div 2
    BY <1>4 DEF Middle
  <2> HIDE DEF k
  <2>3. InPlace(R, k) = LeastFor(R, n) /\ InPlace(R, k) \in Nat
    BY <2>1, InPlaceIsLeastFor
  <2>4. InPlace(R, k + 1) = LeastFor(R, n + 1) /\ InPlace(R, k + 1) \in Nat
    BY <2>1, InPlaceIsLeastFor
  <2> HIDE DEF n
  <2>5. \A v, w \in Nat : (v + w + 1) \div 2 \in Nat
    OBVIOUS
  <2> QED
    BY <1>2, <2>2, <2>3, <2>4, <2>5
<1> QED
  BY <1>3, <1>4

-----------------------------------------------------------------------------
(* The responses to a criterion, and the score *)

Evaluations == [of : Students, key : Keys, answers : Answers]

\* The values of a function on a finite set are finitely many.
LEMMA ImageIsFinite ==
    ASSUME NEW S, IsFiniteSet(S), NEW f, DOMAIN f = S, NEW T,
           T = {f[x] : x \in S}, f = [x \in S |-> f[x]]
    PROVE  IsFiniteSet(T)
<1>1. f \in Surjection(S, T)
  BY DEF Surjection
<1> QED
  BY <1>1, FS_Surjection

LEMMA ResponsesAreCounted ==
    ASSUME reviews \in [Assigned -> Answers \cup {NotHandedIn}],
           NEW E, IsFiniteSet(E), E \subseteq Evaluations,
           NEW s, NEW c \in Criteria,
           ~(ReviewsOf(s) = {} /\ {e \in E : e.of = s} = {})
    PROVE  /\ ResponseSet(Responses(s, E, c))
           /\ \A r \in Responses(s, E, c) : r[3] \in Scores
<1> DEFINE F == {e \in E : e.of = s}
           peers == {<<"peer", pair, reviews[pair][c]>> : pair \in ReviewsOf(s)}
           system == {<<"system", e.key, e.answers[c]>> : e \in F}
<1>1. Responses(s, E, c) = peers \cup system
  BY DEF Responses
<1>2. IsFiniteSet(ReviewsOf(s)) /\ IsFiniteSet(F)
  BY PartCounts, AssignedAssumption DEF ReviewsOf
<1>3. IsFiniteSet(peers)
  <2> DEFINE f == [pair \in ReviewsOf(s) |-> <<"peer", pair, reviews[pair][c]>>]
  <2>1. peers = {f[pair] : pair \in ReviewsOf(s)} /\ DOMAIN f = ReviewsOf(s)
        /\ f = [pair \in ReviewsOf(s) |-> f[pair]]
    OBVIOUS
  <2> HIDE DEF f, peers
  <2> QED
    BY <1>2, <2>1, ImageIsFinite
<1>4. IsFiniteSet(system)
  <2> DEFINE f == [e \in F |-> <<"system", e.key, e.answers[c]>>]
  <2>1. system = {f[e] : e \in F} /\ DOMAIN f = F /\ f = [e \in F |-> f[e]]
    OBVIOUS
  <2> HIDE DEF f, F, system
  <2> QED
    BY <1>2, <2>1, ImageIsFinite
<1>5. IsFiniteSet(peers \cup system)
  <2> HIDE DEF peers, system
  <2> QED
    BY <1>3, <1>4, FS_Union
<1>6. peers # {} \/ system # {}
  <2>1. CASE ReviewsOf(s) # {}
    BY <2>1
  <2>2. CASE F # {}
    BY <2>2
  <2> QED
    BY <2>1, <2>2
<1>7. ASSUME NEW r \in peers PROVE r[3] \in Scores
  <2>1. PICK pair \in ReviewsOf(s) : r = <<"peer", pair, reviews[pair][c]>>
    OBVIOUS
  <2>2. reviews[pair] \in Answers
    BY DEF ReviewsOf
  <2> QED
    BY <2>1, <2>2 DEF Answers
<1>8. ASSUME NEW r \in system PROVE r[3] \in Scores
  <2>1. PICK e \in F : r = <<"system", e.key, e.answers[c]>>
    OBVIOUS
  <2>2. e.answers \in Answers
    BY DEF Evaluations
  <2> QED
    BY <2>1, <2>2 DEF Answers
<1>9. \A r \in peers \cup system : r[3] \in Scores /\ r[3] \in Nat
  <2> HIDE DEF peers, system
  <2> QED
    BY <1>7, <1>8, MarksAssumption
<1> HIDE DEF peers, system
<1> QED
  BY <1>1, <1>5, <1>6, <1>9 DEF ResponseSet

\* calculate_project_score is the sum of the medians over the criteria.
LEMMA ScoreIsMedians ==
    ASSUME reviews \in [Assigned -> Answers \cup {NotHandedIn}],
           IsFiniteSet(evals), evals \subseteq Evaluations, NEW s
    PROVE  Score(s, evals) = MedianScore(s)
<1>1. {e \in evals : e.of = s} = EvalsOf(s)
  BY DEF EvalsOf
<1>2. CASE ReviewsOf(s) = {} /\ EvalsOf(s) = {}
  BY <1>1, <1>2 DEF Score, MedianScore
<1>3. CASE ~(ReviewsOf(s) = {} /\ EvalsOf(s) = {})
  <2>1. \A c \in Criteria : Middle(Responses(s, evals, c))
                            = CeilingOfMedian(Responses(s, evals, c))
    BY <1>1, <1>3, ResponsesAreCounted, MiddleIsTheMedian
  <2> DEFINE middles == [c \in Criteria |-> Middle(Responses(s, evals, c))]
             medians == [c \in Criteria |-> CeilingOfMedian(Responses(s, evals, c))]
  <2>2. middles = medians
    BY <2>1
  <2>3. Score(s, evals) = SumOver(middles)
    BY <1>1, <1>3 DEF Score
  <2>4. MedianScore(s) = SumOver(medians)
    BY <1>3 DEF MedianScore
  <2> HIDE DEF middles, medians
  <2> QED
    BY <2>2, <2>3, <2>4
<1> QED
  BY <1>2, <1>3

LEMMA ScoreIsNat ==
    ASSUME reviews \in [Assigned -> Answers \cup {NotHandedIn}],
           NEW E, IsFiniteSet(E), E \subseteq Evaluations, NEW s
    PROVE  Score(s, E) \in Nat
<1>1. CASE ReviewsOf(s) = {} /\ {e \in E : e.of = s} = {}
  <2>1. Score(s, E) = Cardinality(Criteria) * MiddleOption
    BY <1>1 DEF Score
  <2>2. Cardinality(Criteria) \in Nat /\ MiddleOption \in Nat
    BY MarksAssumption, FS_CardinalityType
  <2> QED
    BY <2>1, <2>2
<1>2. CASE ~(ReviewsOf(s) = {} /\ {e \in E : e.of = s} = {})
  <2> DEFINE middles == [c \in Criteria |-> Middle(Responses(s, E, c))]
  <2>1. Score(s, E) = SumOver(middles)
    BY <1>2 DEF Score
  <2>2. \A c \in Criteria : Middle(Responses(s, E, c)) \in Nat
    BY <1>2, ResponsesAreCounted, MiddleIsTheMedian
  <2>3. middles \in [Criteria -> Nat]
    BY <2>2
  <2> HIDE DEF middles
  <2> QED
    BY <2>1, <2>3, SumIsNat, MarksAssumption
<1> QED
  BY <1>1, <1>2

\* The score depends on the reviews of the submission and its evaluations.
LEMMA ScoreStays ==
    ASSUME NEW s, ReviewsOf(s)' = ReviewsOf(s), EvalsOf(s)' = EvalsOf(s),
           \A pair \in ReviewsOf(s) : reviews'[pair] = reviews[pair]
    PROVE  Score(s, evals)' = Score(s, evals)
<1>1. {e \in evals : e.of = s}' = {e \in evals : e.of = s}
  BY DEF EvalsOf
<1>2. \A c : Responses(s, evals, c)' = Responses(s, evals, c)
  BY <1>1 DEF Responses
<1>2a. PICK responses : responses = [c \in Criteria |-> Responses(s, evals, c)]
  OBVIOUS
<1> DEFINE middles == [c \in Criteria |-> Middle(responses[c])]
<1>3. \A c \in Criteria : responses[c] = Responses(s, evals, c)
                          /\ responses[c] = Responses(s, evals, c)'
  BY <1>2, <1>2a
<1>4. Score(s, evals) = IF ReviewsOf(s) = {} /\ {e \in evals : e.of = s} = {}
        THEN Cardinality(Criteria) * MiddleOption ELSE SumOver(middles)
  BY <1>3 DEF Score
<1>5. Score(s, evals)' = IF ReviewsOf(s)' = {} /\ {e \in evals : e.of = s}' = {}
        THEN Cardinality(Criteria) * MiddleOption ELSE SumOver(middles)
  BY <1>3 DEF Score
<1> QED
  BY <1>1, <1>4, <1>5

-----------------------------------------------------------------------------
(* The inductive invariant *)

NoSums == << >>
SumsOrNone == {NoSums} \cup [Students -> Nat]
RowOf == UNION {[{s} -> SubRow] : s \in Students}
ScoreBegun == [op |-> "score", stage |-> "begun", rows |-> << >>, sums |-> << >>]

\* A request in flight, by what it is for.
EvaluateRequests ==
    [op : {"evaluate"}, stage : {"locked"}, rows : RowOf, eval : Evaluations]
ScoreRequests ==
    [op : {"score"}, stage : {"read", "written", "summed"},
     rows : [UnderEvaluation -> SubRow], sums : SumsOrNone,
     inputs : [UnderEvaluation -> (SUBSET Assigned) \X (SUBSET Evaluations)],
     disabled : SUBSET Students]
ToggleRequests ==
    [op : {"toggle"}, stage : {"read", "written", "summed"},
     rows : {<< >>} \cup RowOf, sums : SumsOrNone,
     of : Students, off : BOOLEAN, row : SubRow]
RecountRequests ==
    [op : {"recount"}, stage : {"committed", "summed"}, rows : {<< >>},
     sums : SumsOrNone]
OwnRowRequests ==
    [op : {"own"}, stage : {"read"}, rows : {<< >>}, sums : SumsOrNone,
     of : Students, read : [hidden : BOOLEAN, off : BOOLEAN, total : Nat]]

Requests == {Idle, ScoreBegun} \cup EvaluateRequests \cup ScoreRequests
            \cup ToggleRequests \cup RecountRequests \cup OwnRowRequests

\* Types of the requests, and of what each has summed.
RequestsTyped ==
    /\ req \in [Processes -> Requests]
    /\ \A p \in Processes : req[p].stage = "summed" => req[p].sums \in [Students -> Nat]

\* Types; what is counted is finite.
Typed ==
    /\ TypeOK
    /\ IsFiniteSet(evals)
    /\ page = [p \in Processes |-> page[p]]
    /\ RequestsTyped

\* No submission is locked by two requests.
Locked == \A p, q \in Processes : p # q => Locks(p) \cap Locks(q) = {}

\* An evaluation works on the row as it is.
EvaluationKnows(r) == r.rows = [t \in {r.eval.of} |-> subs[t]]

\* The switch has zeroed the points in the row as it is, or had none to zero.
ToggleKnows(r) ==
    r.stage # "read" =>
        r.rows = IF r.off /\ r.row.lip > 0
                 THEN [t \in {r.of} |-> ZeroedColumns(subs[t], r.row)] ELSE << >>

\* Scoring has right rows for what it read: no review and no evaluation it
\* read is gone, and with none added the score is the one there is now.
ScoringKnows(r) ==
    \A s \in UnderEvaluation :
        /\ r.inputs[s][1] \subseteq ReviewsOf(s) /\ r.inputs[s][2] \subseteq EvalsOf(s)
        /\ r.inputs[s] = Inputs(s) => r.rows[s].score = Score(s, evals)
        /\ r.rows[s].total = Total(r.rows[s])
        /\ r.rows[s].passed <=> Passes(r.rows[s])
        /\ s \in r.disabled => r.rows[s].lip = 0

KnownOf(p) ==
    /\ req[p].op = "evaluate" => EvaluationKnows(req[p])
    /\ req[p].op = "toggle" => ToggleKnows(req[p])
    /\ req[p].op = "score" /\ req[p].stage # "begun" => ScoringKnows(req[p])
Known == \A p \in Processes : KnownOf(p)

\* The score of a scored submission is what it would be scored again.
MarksStand ==
    state = "CO" =>
        \A s \in UnderEvaluation :
            <<"marks", s>> \notin excused => subs[s].score = Score(s, evals)

\* A recount follows, or the leaderboard and the pages are right.
RecountPending == \E p \in Processes : req[p].op = "recount"
BoardRight ==
    state = "CO" =>
        \A s \in Students : <<"board", s>> \notin excused => board[s] = subs[s].total
PagesRight ==
    \A p \in Processes :
        page[p] # NoPage /\ <<"page", p>> \notin excused => page[p].shown = Shown
BoardStands == RecountPending \/ (BoardRight /\ PagesRight)

IInv == /\ Typed
        /\ Locked
        /\ Known
        /\ MarksStand
        /\ PassingIsEarned
        /\ TotalIsTheSum
        /\ BoardStands

\* A column of a row is written.
LEMMA ScoreWritten ==
    ASSUME NEW row \in SubRow, NEW x \in Nat, NEW new, new = [row EXCEPT !.score = x]
    PROVE  /\ new \in SubRow /\ new.score = x /\ new.credit = row.credit
           /\ new.lip = row.lip /\ new.total = row.total /\ new.enough = row.enough
           /\ new.passed = row.passed
BY DEF SubRow

LEMMA CreditWritten ==
    ASSUME NEW row \in SubRow, NEW x \in Nat, NEW new, new = [row EXCEPT !.credit = x]
    PROVE  /\ new \in SubRow /\ new.score = row.score /\ new.credit = x
           /\ new.lip = row.lip /\ new.total = row.total /\ new.enough = row.enough
           /\ new.passed = row.passed
BY DEF SubRow

LEMMA LipWritten ==
    ASSUME NEW row \in SubRow, NEW x \in Nat, NEW new, new = [row EXCEPT !.lip = x]
    PROVE  /\ new \in SubRow /\ new.score = row.score /\ new.credit = row.credit
           /\ new.lip = x /\ new.total = row.total /\ new.enough = row.enough
           /\ new.passed = row.passed
BY DEF SubRow

LEMMA TotalWritten ==
    ASSUME NEW row \in SubRow, NEW x \in Nat, NEW new, new = [row EXCEPT !.total = x]
    PROVE  /\ new \in SubRow /\ new.score = row.score /\ new.credit = row.credit
           /\ new.lip = row.lip /\ new.total = x /\ new.enough = row.enough
           /\ new.passed = row.passed
BY DEF SubRow

LEMMA EnoughWritten ==
    ASSUME NEW row \in SubRow, NEW x \in BOOLEAN, NEW new, new = [row EXCEPT !.enough = x]
    PROVE  /\ new \in SubRow /\ new.score = row.score /\ new.credit = row.credit
           /\ new.lip = row.lip /\ new.total = row.total /\ new.enough = x
           /\ new.passed = row.passed
BY DEF SubRow

LEMMA PassedWritten ==
    ASSUME NEW row \in SubRow, NEW x \in BOOLEAN, NEW new, new = [row EXCEPT !.passed = x]
    PROVE  /\ new \in SubRow /\ new.score = row.score /\ new.credit = row.credit
           /\ new.lip = row.lip /\ new.total = row.total /\ new.enough = row.enough
           /\ new.passed = x
BY DEF SubRow

-----------------------------------------------------------------------------
(* Rows and requests *)

LEMMA NoRows == DOMAIN << >> = {}
OBVIOUS

LEMMA UnderEvaluationAreStudents == UnderEvaluation \subseteq Students
BY AssignedAssumption DEF UnderEvaluation

\* What is known of a request by what it is for.
LEMMA Kinds ==
    ASSUME NEW r \in Requests
    PROVE  /\ r.op = "idle" => r = Idle
           /\ r.op = "evaluate" => r \in EvaluateRequests
           /\ r.op = "score" => r = ScoreBegun \/ r \in ScoreRequests
           /\ r.op = "score" /\ r.stage # "begun" => r \in ScoreRequests
           /\ r.op = "toggle" => r \in ToggleRequests
           /\ r.op = "recount" => r \in RecountRequests
           /\ r.op = "own" => r \in OwnRowRequests
           /\ r.op \in {"idle", "evaluate", "score", "toggle", "recount", "own"}
           /\ r.stage = "idle" => r = Idle
BY DEF Requests, Idle, ScoreBegun, EvaluateRequests, ScoreRequests, ToggleRequests,
       RecountRequests, OwnRowRequests

\* The rows a request has are rows of submissions.
LEMMA RowsOfRequests ==
    ASSUME NEW r \in Requests
    PROVE  /\ DOMAIN r.rows \subseteq Students
           /\ \A s \in DOMAIN r.rows : r.rows[s] \in SubRow
<1>1. CASE r = Idle
  BY <1>1, NoRows DEF Idle
<1>2. CASE r = ScoreBegun
  BY <1>2, NoRows DEF ScoreBegun
<1>3. CASE r \in EvaluateRequests
  <2>1. PICK s \in Students : r.rows \in [{s} -> SubRow]
    BY <1>3 DEF EvaluateRequests, RowOf
  <2> QED
    BY <2>1
<1>4. CASE r \in ScoreRequests
  <2>1. r.rows \in [UnderEvaluation -> SubRow]
    BY <1>4 DEF ScoreRequests
  <2> QED
    BY <2>1, UnderEvaluationAreStudents
<1>5. CASE r \in ToggleRequests
  <2>1. r.rows = << >> \/ r.rows \in RowOf
    BY <1>5 DEF ToggleRequests
  <2>2. CASE r.rows = << >>
    BY <2>2, NoRows
  <2>3. CASE r.rows \in RowOf
    <3>1. PICK s \in Students : r.rows \in [{s} -> SubRow]
      BY <2>3 DEF RowOf
    <3> QED
      BY <3>1
  <2> QED
    BY <2>1, <2>2, <2>3
<1>6. CASE r \in RecountRequests
  BY <1>6, NoRows DEF RecountRequests
<1>7. CASE r \in OwnRowRequests
  BY <1>7, NoRows DEF OwnRowRequests
<1> QED
  BY <1>1, <1>2, <1>3, <1>4, <1>5, <1>6, <1>7 DEF Requests

\* The columns of a row are numbers and flags; so are its total and verdict.
LEMMA ColumnsOfRows ==
    ASSUME NEW row \in SubRow
    PROVE  /\ row.score \in Nat /\ row.credit \in Nat /\ row.lip \in Nat
           /\ row.total \in Nat /\ row.enough \in BOOLEAN /\ row.passed \in BOOLEAN
           /\ Total(row) \in Nat /\ Passes(row) \in BOOLEAN
BY DEF SubRow, Total, Passes

LEMMA RescoredIsRow ==
    ASSUME NEW row \in SubRow, NEW score \in Nat
    PROVE  /\ Rescored(row, score) \in SubRow
           /\ Rescored(row, score).score = score
           /\ Rescored(row, score).credit = row.credit
           /\ Rescored(row, score).lip = row.lip
           /\ Rescored(row, score).enough = row.enough
           /\ Rescored(row, score).total = Total(Rescored(row, score))
           /\ Rescored(row, score).passed <=> Passes(Rescored(row, score))
<1> DEFINE marked == [row EXCEPT !.score = score]
           summed == [marked EXCEPT !.total = Total(marked)]
           judged == [summed EXCEPT !.passed = Passes(marked)]
<1>1. Rescored(row, score) = judged
  BY DEF Rescored
<1>2. /\ marked \in SubRow /\ marked.score = score /\ marked.credit = row.credit
      /\ marked.lip = row.lip /\ marked.enough = row.enough
  <2> HIDE DEF summed, judged
  <2> QED
    BY ScoreWritten
<1> HIDE DEF marked
<1>3. Total(marked) \in Nat /\ Passes(marked) \in BOOLEAN
  BY <1>2, ColumnsOfRows
<1>4. /\ summed \in SubRow /\ summed.score = score /\ summed.credit = row.credit
      /\ summed.lip = row.lip /\ summed.enough = row.enough
      /\ summed.total = Total(marked)
  BY <1>2, <1>3, TotalWritten
<1> HIDE DEF summed
<1>5. /\ judged \in SubRow /\ judged.score = score /\ judged.credit = row.credit
      /\ judged.lip = row.lip /\ judged.enough = row.enough
      /\ judged.total = Total(marked) /\ judged.passed = Passes(marked)
  BY <1>3, <1>4, PassedWritten
<1> HIDE DEF judged
<1>6. Total(judged) = Total(marked)
  BY <1>2, <1>5 DEF Total
<1>7. Passes(judged) <=> Passes(marked)
  BY <1>2, <1>5 DEF Passes
<1> QED
  BY <1>1, <1>5, <1>6, <1>7

LEMMA ZeroedIsRow ==
    ASSUME NEW row \in SubRow, NEW read \in SubRow
    PROVE  /\ ZeroedColumns(row, read) \in SubRow
           /\ ZeroedColumns(row, read).score = row.score
           /\ ZeroedColumns(row, read).credit = row.credit
           /\ ZeroedColumns(row, read).lip = 0
           /\ ZeroedColumns(row, read).total = read.score + read.credit
           /\ ZeroedColumns(row, read).enough = row.enough
           /\ ZeroedColumns(row, read).passed = row.passed
<1> DEFINE zeroed == [row EXCEPT !.lip = 0]
           new == [zeroed EXCEPT !.total = read.score + read.credit]
<1>1. ZeroedColumns(row, read) = new
  BY DEF ZeroedColumns
<1>2. /\ zeroed \in SubRow /\ zeroed.score = row.score /\ zeroed.credit = row.credit
      /\ zeroed.lip = 0 /\ zeroed.enough = row.enough /\ zeroed.passed = row.passed
  <2> HIDE DEF new
  <2> QED
    BY LipWritten
<1> HIDE DEF zeroed
<1>3. read.score + read.credit \in Nat
  BY ColumnsOfRows
<1> QED
  BY <1>1, <1>2, <1>3, TotalWritten

LEMMA ScoredIsRow ==
    ASSUME NEW s, Score(s, evals) \in Nat
    PROVE  /\ ScoreSubmission(s) \in SubRow
           /\ ScoreSubmission(s).score = Score(s, evals)
           /\ ScoreSubmission(s).lip = LipEarned(s)
           /\ ScoreSubmission(s).total = Total(ScoreSubmission(s))
           /\ ScoreSubmission(s).passed <=> Passes(ScoreSubmission(s))
<1> DEFINE count == Cardinality(ReviewsBy(s))
           enough == count >= PeersToReview
           one == [Unscored EXCEPT !.score = Score(s, evals)]
           two == [one EXCEPT !.credit = count]
           three == [two EXCEPT !.lip = LipEarned(s)]
           marks == [three EXCEPT !.enough = enough]
           summed == [marks EXCEPT !.total = Total(marks)]
           row == [summed EXCEPT !.passed = Passes(marks)]
<1>1. count \in Nat
  BY PartCounts, AssignedAssumption DEF ReviewsBy
<1>2. LipEarned(s) \in Nat
  BY MarksAssumption DEF LipEarned
<1>3. ScoreSubmission(s) = row
  BY DEF ScoreSubmission
<1>4. Unscored \in SubRow
  BY DEF Unscored, SubRow
<1>5. enough \in BOOLEAN
  OBVIOUS
<1> HIDE DEF count, enough, two, three, marks, summed, row
<1>6. one \in SubRow /\ one.score = Score(s, evals)
  BY <1>4, ScoreWritten
<1> HIDE DEF one
<1>7. two \in SubRow /\ two.score = Score(s, evals)
  BY <1>1, <1>6, CreditWritten DEF two
<1>8. three \in SubRow /\ three.score = Score(s, evals) /\ three.lip = LipEarned(s)
  BY <1>2, <1>7, LipWritten DEF three
<1>9. marks \in SubRow /\ marks.score = Score(s, evals) /\ marks.lip = LipEarned(s)
  BY <1>5, <1>8, EnoughWritten DEF marks
<1>10. Total(marks) \in Nat /\ Passes(marks) \in BOOLEAN
  BY <1>9, ColumnsOfRows
<1>11. /\ summed \in SubRow /\ summed.score = marks.score /\ summed.lip = marks.lip
       /\ summed.credit = marks.credit /\ summed.enough = marks.enough
       /\ summed.total = Total(marks)
  BY <1>9, <1>10, TotalWritten DEF summed
<1>12. /\ row \in SubRow /\ row.score = marks.score /\ row.lip = marks.lip
       /\ row.credit = marks.credit /\ row.enough = marks.enough
       /\ row.total = Total(marks) /\ row.passed = Passes(marks)
  BY <1>10, <1>11, PassedWritten DEF row
<1>13. Total(row) = Total(marks)
  BY <1>12 DEF Total
<1>14. Passes(row) <=> Passes(marks)
  BY <1>12 DEF Passes
<1> QED
  BY <1>3, <1>9, <1>12, <1>13, <1>14

LEMMA SeenIsRows ==
    ASSUME Typed, NEW p \in Processes
    PROVE  Seen(p) \in [Students -> SubRow] /\ TotalsOf(Seen(p)) \in [Students -> Nat]
<1>1. req[p] \in Requests /\ subs \in [Students -> SubRow]
  BY DEF Typed, TypeOK, RequestsTyped
<1>2. Seen(p) \in [Students -> SubRow]
  BY <1>1, RowsOfRequests DEF Seen
<1>3. \A row \in SubRow : row.total \in Nat
  BY DEF SubRow
<1> QED
  BY <1>2, <1>3 DEF TotalsOf

-----------------------------------------------------------------------------
(* Requests take steps *)

LEMMA RequestSteps ==
    ASSUME RequestsTyped, NEW p \in Processes, NEW r \in Requests, Step(p, r),
           r.stage = "summed" => r.sums \in [Students -> Nat]
    PROVE  /\ RequestsTyped'
           /\ req'[p] = r /\ \A q \in Processes \ {p} : req'[q] = req[q]
BY DEF RequestsTyped, Step

\* The requests that begin are requests.
LEMMA NewRequests ==
    /\ Idle \in Requests /\ Idle.stage = "idle" /\ Idle.op = "idle"
    /\ [Idle EXCEPT !.op = "recount", !.stage = "committed"] \in RecountRequests
    /\ [Idle EXCEPT !.op = "recount", !.stage = "committed"].stage = "committed"
    /\ [Idle EXCEPT !.op = "score", !.stage = "begun"] = ScoreBegun
    /\ ScoreBegun \in Requests /\ ScoreBegun.stage = "begun" /\ ScoreBegun.op = "score"
<1>1. Idle \in Requests /\ ScoreBegun \in Requests
  BY DEF Requests
<1>2. Idle = [op |-> "idle", stage |-> "idle", rows |-> << >>, sums |-> << >>]
  BY DEF Idle
<1> DEFINE one == [Idle EXCEPT !.op = "recount"]
           two == [Idle EXCEPT !.op = "score"]
<1>3. one = [op |-> "recount", stage |-> "idle", rows |-> << >>, sums |-> << >>]
      /\ two = [op |-> "score", stage |-> "idle", rows |-> << >>, sums |-> << >>]
  BY <1>2
<1> HIDE DEF one, two
<1>4. [one EXCEPT !.stage = "committed"]
        = [op |-> "recount", stage |-> "committed", rows |-> << >>, sums |-> << >>]
  BY <1>3
<1>5. [two EXCEPT !.stage = "begun"] = ScoreBegun
  BY <1>3 DEF ScoreBegun
<1>6. ScoreBegun.stage = "begun" /\ ScoreBegun.op = "score" /\ Idle.stage = "idle"
      /\ Idle.op = "idle"
  BY DEF ScoreBegun, Idle
<1>7. [op |-> "recount", stage |-> "committed", rows |-> << >>, sums |-> << >>]
        \in RecountRequests
  BY DEF RecountRequests, SumsOrNone, NoSums
<1> QED
  BY <1>1, <1>4, <1>5, <1>6, <1>7 DEF one, two

LEMMA EvaluationBegins ==
    ASSUME Typed, NEW p \in Processes, NEW s \in Students, NEW key \in Keys,
           NEW answers \in Answers, NEW r,
           r = [op |-> "evaluate", stage |-> "locked", rows |-> [t \in {s} |-> subs[t]],
                eval |-> [of |-> s, key |-> key, answers |-> answers]]
    PROVE  r \in EvaluateRequests /\ r \in Requests
<1>1. [t \in {s} |-> subs[t]] \in [{s} -> SubRow]
  BY DEF Typed, TypeOK
<1>2. [t \in {s} |-> subs[t]] \in RowOf
  BY <1>1 DEF RowOf
<1>3. r \in EvaluateRequests
  BY <1>2 DEF EvaluateRequests, Evaluations
<1> QED
  BY <1>3 DEF Requests

LEMMA ScoringReads ==
    ASSUME Typed, NEW r,
           r = [op |-> "score", stage |-> "read",
                rows |-> [s \in UnderEvaluation |-> ScoreSubmission(s)],
                sums |-> << >>,
                inputs |-> [s \in UnderEvaluation |-> Inputs(s)],
                disabled |-> disabled]
    PROVE  r \in ScoreRequests /\ r \in Requests
<1>1. \A s \in UnderEvaluation : ScoreSubmission(s) \in SubRow
  BY ScoreIsNat, ScoredIsRow DEF Typed, TypeOK, Evaluations
<1>2. \A s : Inputs(s) \in (SUBSET Assigned) \X (SUBSET Evaluations)
  <2>1. \A s : ReviewsOf(s) \in SUBSET Assigned /\ EvalsOf(s) \in SUBSET Evaluations
    BY DEF ReviewsOf, EvalsOf, Typed, TypeOK, Evaluations
  <2> QED
    BY <2>1 DEF Inputs
<1>3. /\ [s \in UnderEvaluation |-> ScoreSubmission(s)] \in [UnderEvaluation -> SubRow]
      /\ [s \in UnderEvaluation |-> Inputs(s)]
            \in [UnderEvaluation -> (SUBSET Assigned) \X (SUBSET Evaluations)]
  BY <1>1, <1>2
<1>4. disabled \in SUBSET Students
  BY DEF Typed, TypeOK
<1>5. r \in ScoreRequests
  BY <1>3, <1>4 DEF ScoreRequests, SumsOrNone, NoSums
<1> QED
  BY <1>5 DEF Requests

LEMMA OwnRowBegins ==
    ASSUME Typed, NEW s \in Students, NEW r,
           r = [op |-> "own", stage |-> "read", rows |-> << >>, sums |-> << >>,
                of |-> s,
                read |-> [hidden |-> s \in hidden, off |-> s \in disabled,
                          total |-> board[s]]]
    PROVE  r \in OwnRowRequests /\ r \in Requests
<1>1. board[s] \in Nat
  BY DEF Typed, TypeOK
<1>2. /\ (s \in hidden) \in BOOLEAN
      /\ (s \in disabled) \in BOOLEAN
  OBVIOUS
<1>3. [hidden |-> s \in hidden, off |-> s \in disabled, total |-> board[s]]
        \in [hidden : BOOLEAN, off : BOOLEAN, total : Nat]
  BY <1>1, <1>2
<1>4. r \in OwnRowRequests
  BY <1>3 DEF OwnRowRequests, SumsOrNone, NoSums
<1> QED
  BY <1>4 DEF Requests

LEMMA ToggleBegins ==
    ASSUME Typed, NEW s \in Students, NEW r,
           r = [op |-> "toggle", stage |-> "read", rows |-> << >>, sums |-> << >>,
                of |-> s, off |-> s \notin disabled, row |-> subs[s]]
    PROVE  r \in ToggleRequests /\ r \in Requests
<1>1. subs[s] \in SubRow
  BY DEF Typed, TypeOK
<1>2. r \in ToggleRequests
  BY <1>1 DEF ToggleRequests, SumsOrNone, NoSums
<1> QED
  BY <1>2 DEF Requests

\* What is written of a request in flight.
LEMMA ScoreWrites ==
    ASSUME NEW r \in ScoreRequests, NEW new, new = [r EXCEPT !.stage = "written"]
    PROVE  /\ new \in ScoreRequests /\ new \in Requests /\ new.stage = "written"
           /\ new.op = "score" /\ new.rows = r.rows /\ new.inputs = r.inputs
           /\ new.disabled = r.disabled
<1>1. /\ new \in ScoreRequests /\ new.stage = "written"
      /\ new.op = "score" /\ new.rows = r.rows /\ new.inputs = r.inputs
      /\ new.disabled = r.disabled
  BY DEF ScoreRequests
<1> QED
  BY <1>1 DEF Requests

SwitchWritten(r, rows) == [r EXCEPT !.stage = "written", !.rows = rows]

LEMMA ToggleWrites ==
    ASSUME NEW r \in ToggleRequests, NEW rows \in {<< >>} \cup RowOf
    PROVE  LET new == SwitchWritten(r, rows) IN
           /\ new \in ToggleRequests /\ new \in Requests /\ new.stage = "written"
           /\ new.op = "toggle" /\ new.rows = rows /\ new.of = r.of /\ new.off = r.off
           /\ new.row = r.row
<1> DEFINE one == [r EXCEPT !.stage = "written"]
           new == [one EXCEPT !.rows = rows]
<1>1. /\ one \in ToggleRequests /\ one.stage = "written" /\ one.op = "toggle"
      /\ one.of = r.of /\ one.off = r.off /\ one.row = r.row
  BY DEF ToggleRequests
<1>2. SwitchWritten(r, rows) = new
  BY DEF SwitchWritten
<1> HIDE DEF one
<1>3. /\ new \in ToggleRequests /\ new.stage = "written" /\ new.op = "toggle"
      /\ new.rows = rows /\ new.of = r.of /\ new.off = r.off /\ new.row = r.row
  BY <1>1 DEF ToggleRequests
<1> HIDE DEF new
<1> QED
  BY <1>2, <1>3 DEF Requests

LEMMA Sums ==
    ASSUME NEW r \in Requests, r.stage \in {"written", "committed"},
           NEW sums \in [Students -> Nat], NEW new,
           new = [r EXCEPT !.stage = "summed", !.sums = sums]
    PROVE  /\ new \in Requests /\ new.stage = "summed" /\ new.op = r.op
           /\ new.rows = r.rows /\ new.sums = sums
           /\ r.op = "toggle" => new.of = r.of /\ new.off = r.off /\ new.row = r.row
           /\ r.op = "score" => new.inputs = r.inputs /\ new.disabled = r.disabled
           /\ r.op \in {"score", "toggle", "recount"}
<1> DEFINE one == [r EXCEPT !.stage = "summed"]
<1>1. new = [one EXCEPT !.sums = sums]
  OBVIOUS
<1>2. sums \in SumsOrNone
  BY DEF SumsOrNone
<1>3. r \in ScoreRequests \/ r \in ToggleRequests \/ r \in RecountRequests
  BY DEF Requests, Idle, ScoreBegun, EvaluateRequests, OwnRowRequests
<1>4. CASE r \in ScoreRequests
  <2>1. /\ one \in ScoreRequests /\ one.stage = "summed" /\ one.op = "score"
        /\ one.rows = r.rows /\ one.inputs = r.inputs /\ one.disabled = r.disabled
        /\ r.op = "score"
    <3> HIDE <1>1
    <3> QED
      BY <1>4 DEF ScoreRequests
  <2> HIDE DEF one
  <2>2. /\ new \in ScoreRequests /\ new.stage = "summed" /\ new.op = "score"
        /\ new.rows = r.rows /\ new.inputs = r.inputs /\ new.disabled = r.disabled
        /\ new.sums = sums
    BY <1>1, <1>2, <2>1 DEF ScoreRequests
  <2> QED
    BY <2>1, <2>2 DEF Requests
<1>5. CASE r \in ToggleRequests
  <2>1. /\ one \in ToggleRequests /\ one.stage = "summed" /\ one.op = "toggle"
        /\ one.rows = r.rows /\ one.of = r.of /\ one.off = r.off /\ one.row = r.row
        /\ r.op = "toggle"
    BY <1>5 DEF ToggleRequests
  <2> HIDE DEF one
  <2>2. /\ new \in ToggleRequests /\ new.stage = "summed" /\ new.op = "toggle"
        /\ new.rows = r.rows /\ new.of = r.of /\ new.off = r.off /\ new.row = r.row
        /\ new.sums = sums
    BY <1>1, <1>2, <2>1 DEF ToggleRequests
  <2> QED
    BY <2>1, <2>2 DEF Requests
<1>6. CASE r \in RecountRequests
  <2>1. /\ one \in RecountRequests /\ one.stage = "summed" /\ one.op = "recount"
        /\ one.rows = r.rows /\ r.op = "recount"
    BY <1>6 DEF RecountRequests
  <2> HIDE DEF one
  <2>2. /\ new \in RecountRequests /\ new.stage = "summed" /\ new.op = "recount"
        /\ new.rows = r.rows /\ new.sums = sums
    BY <1>1, <1>2, <2>1 DEF RecountRequests
  <2> QED
    BY <2>1, <2>2 DEF Requests
<1> QED
  BY <1>3, <1>4, <1>5, <1>6

-----------------------------------------------------------------------------
(* Types *)

LEMMA TypedInit ==
    ASSUME Init PROVE Typed
<1> USE DEF Init
<1>1. NotHandedIn = [c \in Criteria |-> -1]
  BY DEF NotHandedIn
<1>2. Unscored \in SubRow
  BY DEF Unscored, SubRow
<1>3. TypeOK
  BY <1>2 DEF TypeOK
<1>4. IsFiniteSet(evals)
  BY FS_EmptySet
<1>5. RequestsTyped
  BY NewRequests DEF RequestsTyped
<1> QED
  BY <1>3, <1>4, <1>5 DEF Typed

LEMMA TypedUnchanged ==
    ASSUME Typed, UNCHANGED <<db, page, req>>
    PROVE  Typed'
BY DEF Typed, TypeOK, RequestsTyped, db

\* A request that changes nothing in the database, and no page.
LEMMA TypedRequest ==
    ASSUME Typed, NEW p \in Processes, NEW r \in Requests, Step(p, r),
           r.stage = "summed" => r.sums \in [Students -> Nat],
           UNCHANGED <<db, page>>
    PROVE  Typed'
<1>1. RequestsTyped'
  BY RequestSteps DEF Typed
<1> QED
  BY <1>1 DEF Typed, TypeOK, db

LEMMA TypedEvaluateCommit ==
    ASSUME Typed, Known, NEW p \in Processes, EvaluateCommit(p)
    PROVE  Typed'
<1> DEFINE e == req[p].eval
<1>1. req[p] \in EvaluateRequests
  BY Kinds DEF EvaluateCommit, Serving, Typed, RequestsTyped
<1>2. e \in Evaluations /\ req[p].rows \in RowOf
  BY <1>1 DEF EvaluateRequests
<1>3. evals' = evals \cup {e} /\ Same(e) = {}
  BY DEF EvaluateCommit
<1>4. subs' = [subs EXCEPT ![e.of] = Rescored(req[p].rows[e.of], Score(e.of, evals \cup {e}))]
  BY DEF EvaluateCommit
<1>5. Step(p, RecountNext)
  BY DEF EvaluateCommit
<1>6. UNCHANGED <<state, reviews, disabled, hidden, board, page>>
  BY DEF EvaluateCommit
<1> HIDE DEF e
<1>7. IsFiniteSet(evals')
  BY <1>3, FS_AddElement DEF Typed
<1>8. evals' \subseteq Evaluations
  BY <1>2, <1>3 DEF Typed, TypeOK, Evaluations
<1>9. \A f, g \in evals' : f.of = g.of /\ f.key = g.key => f = g
  BY <1>3 DEF Typed, TypeOK, Same
<1>10. subs' \in [Students -> SubRow]
  <2>1. subs \in [Students -> SubRow]
    BY DEF Typed, TypeOK
  <2>2. req[p].rows[e.of] \in SubRow
    <3>1. req[p].rows = [t \in {e.of} |-> subs[t]]
      BY <1>1 DEF EvaluateRequests, Known, KnownOf, EvaluationKnows, e
    <3>2. e.of \in DOMAIN req[p].rows
      BY <3>1
    <3> QED
      BY <3>2, RowsOfRequests DEF Typed, RequestsTyped
  <2>3. Score(e.of, evals \cup {e}) \in Nat
    BY <1>3, <1>7, <1>8, ScoreIsNat DEF Typed, TypeOK
  <2>4. Rescored(req[p].rows[e.of], Score(e.of, evals \cup {e})) \in SubRow
    BY <2>2, <2>3, RescoredIsRow
  <2> QED
    BY <1>4, <2>1, <2>4
<1>11. RequestsTyped'
  <2>1. RecountNext \in Requests /\ RecountNext.stage # "summed"
    BY NewRequests DEF RecountNext, Requests
  <2> QED
    BY <1>5, <2>1, RequestSteps DEF Typed
<1> QED
  BY <1>6, <1>7, <1>8, <1>9, <1>10, <1>11 DEF Typed, TypeOK, Evaluations

\* A request ends, and its sums are published.
LEMMA Publishes ==
    ASSUME Typed, NEW p \in Processes, req[p].stage = "summed", NEW known,
           Publish(p, known)
    PROVE  /\ board' \in [Students -> Nat] /\ board' = req[p].sums
           /\ page' = [q \in Processes |-> page'[q]] /\ RequestsTyped'
           /\ page'[p] = NoPage /\ \A q \in Processes \ {p} : page'[q] = page[q]
           /\ req'[p] = Idle /\ \A q \in Processes \ {p} : req'[q] = req[q]
<1>1. board' = req[p].sums /\ page' = Invalidated(p) /\ Step(p, Idle)
  BY DEF Publish
<1>2. req[p].sums \in [Students -> Nat]
  BY DEF Typed, RequestsTyped
<1>3. RequestsTyped' /\ req'[p] = Idle /\ \A q \in Processes \ {p} : req'[q] = req[q]
  BY <1>1, NewRequests, RequestSteps DEF Typed
<1>4. /\ page' = [q \in Processes |-> page'[q]]
      /\ page'[p] = NoPage /\ \A q \in Processes \ {p} : page'[q] = page[q]
  BY <1>1 DEF Invalidated, Typed
<1> QED
  BY <1>1, <1>2, <1>3, <1>4

LEMMA TypedScoreCommit ==
    ASSUME Typed, NEW p \in Processes, ScoreCommit(p)
    PROVE  Typed'
<1>1. req[p].stage = "summed" /\ state' = "CO" /\ subs' = Seen(p)
      /\ UNCHANGED <<reviews, evals, disabled, hidden, ops>>
  BY DEF ScoreCommit, Serving
<1>2. PICK known : Publish(p, known)
  BY DEF ScoreCommit
<1>3. subs' \in [Students -> SubRow]
  BY <1>1, SeenIsRows
<1> QED
  BY <1>1, <1>2, <1>3, Publishes DEF Typed, TypeOK

LEMMA TypedToggleCommit ==
    ASSUME Typed, NEW p \in Processes, ToggleCommit(p)
    PROVE  Typed'
<1>1. req[p].stage = "summed" /\ subs' = Seen(p)
      /\ UNCHANGED <<state, reviews, evals, hidden, ops>>
  BY DEF ToggleCommit, Serving
<1>2. PICK known : Publish(p, known)
  BY DEF ToggleCommit
<1>3. subs' \in [Students -> SubRow]
  BY <1>1, SeenIsRows
<1>4. disabled' \subseteq Students
  <2>1. req[p] \in ToggleRequests
    BY Kinds DEF ToggleCommit, Serving, Typed, RequestsTyped
  <2>2. req[p].of \in Students
    BY <2>1 DEF ToggleRequests
  <2>3. disabled' = IF req[p].off THEN disabled \cup {req[p].of}
                    ELSE disabled \ {req[p].of}
    BY DEF ToggleCommit
  <2> QED
    BY <2>2, <2>3 DEF Typed, TypeOK
<1> QED
  BY <1>1, <1>2, <1>3, <1>4, Publishes DEF Typed, TypeOK

LEMMA TypedRecountEnd ==
    ASSUME Typed, NEW p \in Processes, RecountEnd(p)
    PROVE  Typed'
<1>1. req[p].stage = "summed"
      /\ UNCHANGED <<state, reviews, evals, subs, disabled, hidden, ops>>
  BY DEF RecountEnd, Serving
<1>2. Publish(p, excused)
  BY DEF RecountEnd
<1> QED
  BY <1>1, <1>2, Publishes DEF Typed, TypeOK

LEMMA TypedEdit ==
    ASSUME Typed, NEW p \in Processes, NEW s \in Students, NEW form \in Edits,
           Edit(p, s, form)
    PROVE  Typed'
<1>1. form \in SubRow
  BY EditsAssumption
<1>2. [form EXCEPT !.total = Total(form)] \in SubRow
  BY <1>1, ColumnsOfRows, TotalWritten
<1> DEFINE row == [form EXCEPT !.total = Total(form)]
<1>3. /\ subs' = [subs EXCEPT ![s] = row]
      /\ UNCHANGED <<state, reviews, evals, disabled, hidden, board, page, req>>
  BY DEF Edit
<1> HIDE DEF row
<1>4. subs' \in [Students -> SubRow]
  BY <1>2, <1>3 DEF Typed, TypeOK, row
<1> QED
  BY <1>3, <1>4 DEF Typed, TypeOK, RequestsTyped

LEMMA TypedHandIn ==
    ASSUME Typed, NEW pair \in Assigned, NEW answers \in Answers, HandIn(pair, answers)
    PROVE  Typed'
<1>1. reviews' \in [Assigned -> Answers \cup {NotHandedIn}]
  BY DEF HandIn, Typed, TypeOK
<1> QED
  BY <1>1 DEF HandIn, Typed, TypeOK, RequestsTyped

LEMMA TypedView ==
    ASSUME Typed, NEW p \in Processes,
           View(p) \/ Expire(p)
    PROVE  Typed'
<1>1. page' = [q \in Processes |-> page'[q]]
  BY DEF View, Expire, Typed
<1>2. UNCHANGED <<db, req>>
  BY DEF View, Expire
<1> QED
  BY <1>1, <1>2 DEF Typed, TypeOK, RequestsTyped, db

\* The learner's own row is of a learner, and what was read has its types.
LEMMA OwnRowHeld ==
    ASSUME Typed, NEW p \in Processes, Serving(p, "own", "read")
    PROVE  /\ req[p].of \in Students
           /\ req[p].read.total \in Nat
<1>1. req[p] \in OwnRowRequests
  BY Kinds DEF Serving, Typed, RequestsTyped
<1>2. PICK r : r = req[p]
  OBVIOUS
<1>3. r.of \in Students /\ r.read \in [hidden : BOOLEAN, off : BOOLEAN, total : Nat]
  BY <1>1, <1>2 DEF OwnRowRequests
<1> QED
  BY <1>2, <1>3

LEMMA TypedOwnRow ==
    ASSUME Typed, NEW p \in Processes, OwnRowSwitch(p) \/ OwnRowSave(p)
    PROVE  Typed'
<1> PICK s : s = req[p].of
  OBVIOUS
<1>1. s \in Students /\ req[p].read.total \in Nat /\ Step(p, Idle)
  BY OwnRowHeld DEF OwnRowSwitch, OwnRowSave
<1>2. \A S, on : S \subseteq Students => Switched(S, s, on) \subseteq Students
  BY <1>1 DEF Switched
<1>3. hidden' \subseteq Students /\ disabled' \subseteq Students
  BY <1>2 DEF OwnRowSwitch, OwnRowSave, Typed, TypeOK
<1>4. board' \in [Students -> Nat]
  BY <1>1 DEF OwnRowSwitch, OwnRowSave, Typed, TypeOK
<1>5. page' = [q \in Processes |-> page'[q]]
  BY DEF OwnRowSwitch, OwnRowSave, Typed, Invalidated
<1>6. UNCHANGED <<state, reviews, evals, subs>>
  BY DEF OwnRowSwitch, OwnRowSave
<1>7. RequestsTyped'
  BY <1>1, NewRequests, RequestSteps DEF Typed
<1> QED
  BY <1>3, <1>4, <1>5, <1>6, <1>7 DEF Typed, TypeOK

LEMMA TypedToggleWrite ==
    ASSUME Typed, NEW p \in Processes, ToggleWrite(p)
    PROVE  /\ Typed'
           /\ req'[p] \in ToggleRequests /\ req'[p].op = "toggle"
           /\ req'[p].stage = "written"
           /\ req'[p].of = req[p].of /\ req'[p].off = req[p].off
           /\ req'[p].row = req[p].row
           /\ req'[p].rows = IF req[p].off /\ req[p].row.lip > 0
                 THEN [t \in {req[p].of} |-> ZeroedColumns(subs[t], req[p].row)] ELSE << >>
<1> DEFINE r == req[p]
           rows == IF r.off /\ r.row.lip > 0
                   THEN [t \in {r.of} |-> ZeroedColumns(subs[t], r.row)] ELSE << >>
           new == SwitchWritten(r, rows)
<1>1. r \in ToggleRequests
  BY Kinds DEF ToggleWrite, Serving, Typed, RequestsTyped
<1>2. Step(p, new) /\ UNCHANGED <<db, page>>
  BY DEF ToggleWrite, SwitchWritten
<1>3. rows \in {<< >>} \cup RowOf
  <2>1. r.of \in Students /\ r.row \in SubRow /\ subs[r.of] \in SubRow
    BY <1>1 DEF ToggleRequests, Typed, TypeOK
  <2>2. ZeroedColumns(subs[r.of], r.row) \in SubRow
    BY <2>1, ZeroedIsRow
  <2>3. [t \in {r.of} |-> ZeroedColumns(subs[t], r.row)] \in [{r.of} -> SubRow]
    BY <2>2
  <2> QED
    BY <2>1, <2>3 DEF RowOf
<1> HIDE DEF r, rows
<1>4. /\ new \in ToggleRequests /\ new \in Requests /\ new.stage = "written"
      /\ new.op = "toggle" /\ new.rows = rows /\ new.of = r.of /\ new.off = r.off
      /\ new.row = r.row
  BY <1>1, <1>3, ToggleWrites
<1> HIDE DEF new
<1>5. req'[p] = new
  BY <1>2, <1>4, RequestSteps DEF Typed
<1>6. Typed'
  BY <1>2, <1>4, TypedRequest
<1> QED
  BY <1>4, <1>5, <1>6 DEF r, rows

LEMMA TypedScoreWrite ==
    ASSUME Typed, NEW p \in Processes, ScoreWrite(p)
    PROVE  /\ Typed'
           /\ req[p] \in ScoreRequests /\ req'[p] \in ScoreRequests
           /\ req'[p].op = "score" /\ req'[p].stage = "written"
           /\ req'[p].rows = req[p].rows /\ req'[p].inputs = req[p].inputs
           /\ req'[p].disabled = req[p].disabled
<1> DEFINE new == [req[p] EXCEPT !.stage = "written"]
<1>1. req[p] \in ScoreRequests
  BY Kinds DEF ScoreWrite, Serving, Typed, RequestsTyped
<1>2. Step(p, new) /\ UNCHANGED <<db, page>>
  BY DEF ScoreWrite
<1>3. /\ new \in ScoreRequests /\ new \in Requests /\ new.stage = "written"
      /\ new.op = "score" /\ new.rows = req[p].rows /\ new.inputs = req[p].inputs
      /\ new.disabled = req[p].disabled
  BY <1>1, ScoreWrites
<1> HIDE DEF new
<1>4. req'[p] = new
  BY <1>2, <1>3, RequestSteps DEF Typed
<1>5. Typed'
  BY <1>2, <1>3, TypedRequest
<1> QED
  BY <1>1, <1>3, <1>4, <1>5

LEMMA TypedSum ==
    ASSUME Typed, NEW p \in Processes, Sum(p)
    PROVE  /\ Typed'
           /\ req'[p].stage = "summed" /\ req'[p].op = req[p].op
           /\ req'[p].rows = req[p].rows
           /\ req[p].op = "toggle" => /\ req'[p].of = req[p].of
                                      /\ req'[p].off = req[p].off
                                      /\ req'[p].row = req[p].row
           /\ req[p].op = "score" => /\ req'[p].inputs = req[p].inputs
                                     /\ req'[p].disabled = req[p].disabled
           /\ req[p].op \in {"score", "toggle", "recount"}
<1> DEFINE new == [req[p] EXCEPT !.stage = "summed", !.sums = TotalsOf(Seen(p))]
<1>1. req[p] \in Requests /\ TotalsOf(Seen(p)) \in [Students -> Nat]
  BY SeenIsRows DEF Typed, RequestsTyped
<1>2. Step(p, new) /\ UNCHANGED <<db, page>> /\ req[p].stage \in {"written", "committed"}
  BY DEF Sum
<1>3. /\ new \in Requests /\ new.stage = "summed" /\ new.op = req[p].op
      /\ new.rows = req[p].rows /\ new.sums = TotalsOf(Seen(p))
      /\ req[p].op = "toggle" => new.of = req[p].of /\ new.off = req[p].off
                                 /\ new.row = req[p].row
      /\ req[p].op = "score" => new.inputs = req[p].inputs
                                /\ new.disabled = req[p].disabled
      /\ req[p].op \in {"score", "toggle", "recount"}
  BY <1>1, <1>2, Sums
<1> HIDE DEF new
<1>4. req'[p] = new
  BY <1>1, <1>2, <1>3, RequestSteps DEF Typed
<1>5. Typed'
  BY <1>1, <1>2, <1>3, TypedRequest
<1> QED
  BY <1>3, <1>4, <1>5

LEMMA TypedServe ==
    ASSUME Typed, Known, NEW p \in Processes, Serve(p)
    PROVE  Typed'
<1>1. ASSUME NEW s \in Students, NEW key \in Keys, NEW answers \in Answers,
             Evaluate(p, s, key, answers)
      PROVE  Typed'
  <2> DEFINE r == [op |-> "evaluate", stage |-> "locked",
                   rows |-> [t \in {s} |-> subs[t]],
                   eval |-> [of |-> s, key |-> key, answers |-> answers]]
  <2>1. Step(p, r) /\ UNCHANGED <<db, page>>
    BY <1>1 DEF Evaluate, Begin
  <2>2. r.stage # "summed"
    OBVIOUS
  <2>3. r \in Requests
    BY EvaluationBegins
  <2> HIDE DEF r
  <2> QED
    BY <2>1, <2>2, <2>3, TypedRequest
<1>2. ASSUME NEW s \in Students, NEW form \in Edits, Edit(p, s, form) PROVE Typed'
  BY <1>2, TypedEdit
<1>3. ASSUME NEW s \in Students, ToggleRead(p, s) PROVE Typed'
  <2> DEFINE r == [op |-> "toggle", stage |-> "read", rows |-> << >>, sums |-> << >>,
                   of |-> s, off |-> s \notin disabled, row |-> subs[s]]
  <2>1. Step(p, r) /\ UNCHANGED <<db, page>>
    BY <1>3 DEF ToggleRead, Begin
  <2>2. r.stage # "summed"
    OBVIOUS
  <2>3. r \in Requests
    BY ToggleBegins
  <2> HIDE DEF r
  <2> QED
    BY <2>1, <2>2, <2>3, TypedRequest
<1>4. ASSUME NEW s \in Students, OwnRowRead(p, s) PROVE Typed'
  <2> DEFINE r == [op |-> "own", stage |-> "read", rows |-> << >>, sums |-> << >>,
                   of |-> s,
                   read |-> [hidden |-> s \in hidden, off |-> s \in disabled,
                             total |-> board[s]]]
  <2>1. Step(p, r) /\ UNCHANGED <<db, page>>
    BY <1>4 DEF OwnRowRead, Begin
  <2>2. r.stage # "summed"
    OBVIOUS
  <2>3. r \in Requests
    BY OwnRowBegins
  <2> HIDE DEF r
  <2> QED
    BY <2>1, <2>2, <2>3, TypedRequest
<1>5. CASE EvaluateAgain(p) \/ Fail(p)
  <2>1. Step(p, Idle) /\ UNCHANGED <<db, page>>
    BY <1>5 DEF EvaluateAgain, Fail
  <2> QED
    BY <2>1, NewRequests, TypedRequest
<1>6. CASE EvaluateCommit(p)
  BY <1>6, TypedEvaluateCommit
<1>7. CASE ScoreBegin(p)
  <2>1. Step(p, ScoreBegun) /\ UNCHANGED <<db, page>>
    BY <1>7, NewRequests DEF ScoreBegin, Begin
  <2> QED
    BY <2>1, NewRequests, TypedRequest
<1>8. CASE ScoreCalculate(p)
  <2> DEFINE r == [op |-> "score", stage |-> "read",
                   rows |-> [s \in UnderEvaluation |-> ScoreSubmission(s)],
                   sums |-> << >>,
                   inputs |-> [s \in UnderEvaluation |-> Inputs(s)],
                   disabled |-> disabled]
  <2>1. Step(p, r) /\ UNCHANGED <<db, page>>
    BY <1>8 DEF ScoreCalculate
  <2>2. r.stage # "summed"
    OBVIOUS
  <2>3. r \in Requests
    BY ScoringReads
  <2> HIDE DEF r
  <2> QED
    BY <2>1, <2>2, <2>3, TypedRequest
<1>9. CASE ScoreWrite(p)
  BY <1>9, TypedScoreWrite
<1>10. CASE ScoreCommit(p)
  BY <1>10, TypedScoreCommit
<1>11. CASE ToggleWrite(p)
  BY <1>11, TypedToggleWrite
<1>12. CASE ToggleCommit(p)
  BY <1>12, TypedToggleCommit
<1>13. CASE Sum(p)
  BY <1>13, TypedSum
<1>14. CASE RecountEnd(p)
  BY <1>14, TypedRecountEnd
<1>15. CASE View(p) \/ Expire(p)
  BY <1>15, TypedView
<1>16. CASE OwnRowSwitch(p) \/ OwnRowSave(p)
  BY <1>16, TypedOwnRow
<1> QED
  BY <1>1, <1>2, <1>3, <1>4, <1>5, <1>6, <1>7, <1>8, <1>9, <1>10, <1>11, <1>12, <1>13,
     <1>14, <1>15, <1>16 DEF Serve

LEMMA TypedStep ==
    ASSUME Typed, Known, [Next]_vars
    PROVE  Typed'
<1>1. CASE UNCHANGED vars
  BY <1>1, TypedUnchanged DEF vars
<1>2. CASE \E p \in Processes : Serve(p)
  BY <1>2, TypedServe
<1>3. CASE \E pair \in Assigned, answers \in Answers : HandIn(pair, answers)
  BY <1>3, TypedHandIn
<1> QED
  BY <1>1, <1>2, <1>3 DEF Next

-----------------------------------------------------------------------------
(* Locks *)

\* What a step of p does to the rest: other requests stay as they are, and
\* so do the submissions they have locked; what p locks nobody else has.
Spares(p) ==
    /\ \A q \in Processes \ {p} : req'[q] = req[q]
    /\ \A q \in Processes \ {p} : \A s \in Locks(q) : subs'[s] = subs[s]
    /\ Locks(p)' \subseteq Locks(p) \/ Free(p, Locks(p)')

LEMMA LocksOfIdle == \A q : req'[q] = Idle => Locks(q)' = {}
BY DEF Locks, Idle

\* What p has locked no other request has.
LEMMA OwnLocks ==
    ASSUME Locked, NEW p \in Processes, NEW q \in Processes \ {p}, NEW s,
           s \in Locks(q)
    PROVE  s \notin Locks(p)
BY DEF Locked

\* A transaction writes only what it has locked.
LEMMA SeenSpares ==
    ASSUME Typed, Locked, NEW p \in Processes, req[p].stage \in {"locked", "written", "summed"},
           NEW q \in Processes \ {p}, NEW s \in Locks(q)
    PROVE  Seen(p)[s] = subs[s] /\ s \in Students
<1>1. s \notin DOMAIN req[p].rows
  BY OwnLocks DEF Locks
<1>2. s \in DOMAIN req[q].rows
  BY DEF Locks
<1>3. s \in Students
  BY <1>2, RowsOfRequests DEF Typed, RequestsTyped
<1> QED
  BY <1>1, <1>3 DEF Seen

LEMMA SparesServe ==
    ASSUME Typed, Known, Locked, NEW p \in Processes, Serve(p)
    PROVE  Spares(p)
<1>0. \A r : Step(p, r) => req'[p] = r /\ \A q \in Processes \ {p} : req'[q] = req[q]
  BY DEF Step, Typed, RequestsTyped
<1>1. ASSUME NEW s \in Students, NEW key \in Keys, NEW answers \in Answers,
             Evaluate(p, s, key, answers)
      PROVE  Spares(p)
  <2> DEFINE r == [op |-> "evaluate", stage |-> "locked",
                   rows |-> [t \in {s} |-> subs[t]],
                   eval |-> [of |-> s, key |-> key, answers |-> answers]]
  <2>1. Step(p, r) /\ UNCHANGED subs /\ Free(p, {s})
    BY <1>1 DEF Evaluate, Begin, db
  <2>2. DOMAIN r.rows = {s} /\ r.stage = "locked"
    OBVIOUS
  <2> HIDE DEF r
  <2>3. Locks(p)' = {s}
    BY <1>0, <2>1, <2>2 DEF Locks
  <2>4. Free(p, Locks(p)')
    BY <2>1, <2>3 DEF Free
  <2> QED
    BY <1>0, <2>1, <2>4 DEF Spares
<1>2. ASSUME NEW s \in Students, NEW form \in Edits, Edit(p, s, form) PROVE Spares(p)
  <2>1. UNCHANGED req /\ Free(p, {s})
    BY <1>2 DEF Edit
  <2>2. \A t \in Students : t # s => subs'[t] = subs[t]
    BY <1>2 DEF Edit, Typed, TypeOK
  <2>3. Locks(p)' = Locks(p)
    BY <2>1 DEF Locks
  <2>4. \A q \in Processes \ {p} : Locks(q) \subseteq Students
    BY RowsOfRequests DEF Locks, Typed, RequestsTyped
  <2>5. \A q \in Processes \ {p} : s \notin Locks(q)
    BY <2>1 DEF Free
  <2> QED
    BY <2>1, <2>2, <2>3, <2>4, <2>5 DEF Spares
<1>3. ASSUME NEW s \in Students, ToggleRead(p, s) PROVE Spares(p)
  <2> DEFINE r == [op |-> "toggle", stage |-> "read", rows |-> << >>, sums |-> << >>,
                   of |-> s, off |-> s \notin disabled, row |-> subs[s]]
  <2>1. Step(p, r) /\ UNCHANGED subs
    BY <1>3 DEF ToggleRead, Begin, db
  <2>2. r.stage = "read"
    OBVIOUS
  <2> HIDE DEF r
  <2>3. Locks(p)' = {}
    BY <1>0, <2>1, <2>2 DEF Locks
  <2> QED
    BY <1>0, <2>1, <2>3 DEF Spares
<1>4. ASSUME NEW s \in Students, OwnRowRead(p, s) PROVE Spares(p)
  <2> DEFINE r == [op |-> "own", stage |-> "read", rows |-> << >>, sums |-> << >>,
                   of |-> s,
                   read |-> [hidden |-> s \in hidden, off |-> s \in disabled,
                             total |-> board[s]]]
  <2>1. Step(p, r) /\ UNCHANGED subs
    BY <1>4 DEF OwnRowRead, Begin, db
  <2>2. r.stage = "read"
    OBVIOUS
  <2> HIDE DEF r
  <2>3. Locks(p)' = {}
    BY <1>0, <2>1, <2>2 DEF Locks
  <2> QED
    BY <1>0, <2>1, <2>3 DEF Spares
<1>5. CASE EvaluateAgain(p) \/ Fail(p) \/ OwnRowSwitch(p) \/ OwnRowSave(p)
  <2>1. Step(p, Idle) /\ UNCHANGED subs
    BY <1>5 DEF EvaluateAgain, Fail, OwnRowSwitch, OwnRowSave, db
  <2>2. Locks(p)' = {}
    BY <1>0, <2>1, LocksOfIdle
  <2> QED
    BY <1>0, <2>1, <2>2 DEF Spares
<1>6. CASE EvaluateCommit(p)
  <2> DEFINE e == req[p].eval
  <2>1. req[p] \in EvaluateRequests /\ req[p].rows = [t \in {e.of} |-> subs[t]]
    BY <1>6, Kinds DEF EvaluateCommit, Serving, Typed, RequestsTyped, Known, KnownOf,
                       EvaluationKnows
  <2>2. Locks(p) = {e.of}
    BY <2>1 DEF Locks, EvaluateRequests
  <2>3. PICK row : subs' = [subs EXCEPT ![e.of] = row]
    BY <1>6 DEF EvaluateCommit
  <2>4. Step(p, RecountNext)
    BY <1>6 DEF EvaluateCommit
  <2>5. Locks(p)' = {}
    BY <1>0, <2>4, NewRequests, LocksOfIdle DEF RecountNext, Locks
  <2>6. ASSUME NEW q \in Processes \ {p}, NEW s \in Locks(q) PROVE subs'[s] = subs[s]
    <3>1. s # e.of
      BY <2>2, OwnLocks
    <3>2. s \in Students
      BY SeenSpares, <2>1 DEF EvaluateRequests
    <3> QED
      BY <2>3, <3>1, <3>2 DEF Typed, TypeOK
  <2> QED
    BY <1>0, <2>4, <2>5, <2>6 DEF Spares
<1>7. CASE ScoreBegin(p)
  <2>1. Step(p, ScoreBegun) /\ UNCHANGED subs
    BY <1>7, NewRequests DEF ScoreBegin, Begin, db
  <2>2. Locks(p)' = {}
    BY <1>0, <2>1, NewRequests DEF Locks
  <2> QED
    BY <1>0, <2>1, <2>2 DEF Spares
<1>8. CASE ScoreCalculate(p)
  <2>1. PICK r : Step(p, r) /\ r.stage = "read"
    BY <1>8 DEF ScoreCalculate
  <2>2. UNCHANGED subs
    BY <1>8 DEF ScoreCalculate, db
  <2>3. Locks(p)' = {}
    BY <1>0, <2>1 DEF Locks
  <2> QED
    BY <1>0, <2>1, <2>2, <2>3 DEF Spares
<1>9. CASE ScoreWrite(p)
  <2>1. Free(p, DOMAIN req[p].rows) /\ UNCHANGED subs
    BY <1>9 DEF ScoreWrite, db
  <2>2. Locks(p)' = DOMAIN req[p].rows
    BY <1>9, TypedScoreWrite DEF Locks
  <2>3. \A q \in Processes \ {p} : req'[q] = req[q]
    BY <1>0, <1>9 DEF ScoreWrite
  <2> QED
    BY <2>1, <2>2, <2>3 DEF Spares
<1>10. CASE ScoreCommit(p) \/ ToggleCommit(p) \/ RecountEnd(p)
  <2>1. Step(p, Idle) /\ req[p].stage = "summed"
    BY <1>10 DEF ScoreCommit, ToggleCommit, RecountEnd, Publish, Serving
  <2>2. subs' = Seen(p) \/ subs' = subs
    BY <1>10 DEF ScoreCommit, ToggleCommit, RecountEnd
  <2>3. Locks(p)' = {}
    BY <1>0, <2>1, LocksOfIdle
  <2>4. \A q \in Processes \ {p} : \A s \in Locks(q) : subs'[s] = subs[s]
    BY <2>1, <2>2, SeenSpares
  <2> QED
    BY <1>0, <2>1, <2>3, <2>4 DEF Spares
<1>11. CASE ToggleWrite(p)
  <2> DEFINE zero == req[p].off /\ req[p].row.lip > 0
  <2>1. zero => Free(p, {req[p].of})
    BY <1>11 DEF ToggleWrite
  <2>2. UNCHANGED subs /\ \E r : Step(p, r)
    BY <1>11 DEF ToggleWrite, db
  <2>3. DOMAIN req'[p].rows = IF zero THEN {req[p].of} ELSE {}
    BY <1>11, TypedToggleWrite, NoRows
  <2>4. Locks(p)' = IF zero THEN {req[p].of} ELSE {}
    BY <1>11, <2>3, TypedToggleWrite DEF Locks
  <2>5. Free(p, Locks(p)') \/ Locks(p)' \subseteq Locks(p)
    BY <2>1, <2>4 DEF Free
  <2> QED
    BY <1>0, <2>2, <2>5 DEF Spares
<1>12. CASE Sum(p)
  <2>1. UNCHANGED subs /\ \E r : Step(p, r)
    BY <1>12 DEF Sum, db
  <2>2. req'[p].rows = req[p].rows /\ req'[p].stage = "summed"
    BY <1>12, TypedSum
  <2>3. req[p].stage = "written" \/ DOMAIN req[p].rows = {}
    <3>1. CASE req[p].stage = "committed"
      <4>1. req[p] \in RecountRequests
        BY <1>12, <3>1, TypedSum, Kinds DEF Typed, RequestsTyped, ScoreRequests,
                                            ToggleRequests, ScoreBegun
      <4> QED
        BY <4>1, NoRows DEF RecountRequests
    <3> QED
      BY <1>12, <3>1 DEF Sum
  <2>4. Locks(p)' \subseteq Locks(p)
    BY <2>2, <2>3 DEF Locks
  <2> QED
    BY <1>0, <2>1, <2>4 DEF Spares
<1>13. CASE View(p) \/ Expire(p)
  <2>1. UNCHANGED <<req, subs>>
    BY <1>13 DEF View, Expire, db
  <2> QED
    BY <2>1 DEF Spares, Locks
<1> QED
  BY <1>1, <1>2, <1>3, <1>4, <1>5, <1>6, <1>7, <1>8, <1>9, <1>10, <1>11, <1>12, <1>13
     DEF Serve

LEMMA LockedInit == Init => Locked
BY DEF Init, Locked, Locks, Idle

LEMMA LockedStep ==
    ASSUME Typed, Known, Locked, [Next]_vars
    PROVE  Locked'
<1>1. CASE UNCHANGED req
  BY <1>1 DEF Locked, Locks
<1>2. ASSUME NEW p \in Processes, Serve(p) PROVE Locked'
  <2>1. Spares(p)
    BY <1>2, SparesServe
  <2>2. \A q \in Processes \ {p} : Locks(q)' = Locks(q)
    BY <2>1 DEF Spares, Locks
  <2>3. \A q \in Processes \ {p} : Locks(p)' \cap Locks(q) = {}
    BY <2>1 DEF Spares, Free, Locked
  <2>4. \A q, r \in Processes : q # r => Locks(q)' \cap Locks(r)' = {}
    BY <2>2, <2>3 DEF Locked
  <2> QED
    BY <2>4 DEF Locked
<1> QED
  BY <1>1, <1>2 DEF Next, HandIn, vars

-----------------------------------------------------------------------------
(* What is read stays read *)

\* Reviews and evaluations of s are added, never changed; with none added
\* its score stays.
Grows(s) ==
    /\ ReviewsOf(s) \subseteq ReviewsOf(s)' /\ EvalsOf(s) \subseteq EvalsOf(s)'
    /\ ReviewsOf(s)' = ReviewsOf(s) /\ EvalsOf(s)' = EvalsOf(s)
          => Score(s, evals)' = Score(s, evals)

LEMMA NothingCameIn ==
    ASSUME UNCHANGED <<reviews, evals>>
    PROVE  \A s : /\ ReviewsOf(s)' = ReviewsOf(s) /\ EvalsOf(s)' = EvalsOf(s)
                  /\ Score(s, evals)' = Score(s, evals)
<1>1. \A s : ReviewsOf(s)' = ReviewsOf(s) /\ EvalsOf(s)' = EvalsOf(s)
  BY DEF ReviewsOf, EvalsOf
<1> QED
  BY <1>1, ScoreStays

LEMMA ReviewCameIn ==
    ASSUME Typed, NEW pair \in Assigned, NEW answers \in Answers, HandIn(pair, answers)
    PROVE  \A s : Grows(s)
<1> SUFFICES ASSUME NEW s PROVE Grows(s)
  OBVIOUS
<1>1. /\ reviews[pair] = NotHandedIn /\ reviews' = [reviews EXCEPT ![pair] = answers]
      /\ evals' = evals
  BY DEF HandIn
<1>2. \A other \in ReviewsOf(s) : reviews'[other] = reviews[other]
  BY <1>1 DEF ReviewsOf, Typed, TypeOK
<1>3. ReviewsOf(s) \subseteq ReviewsOf(s)'
  BY <1>2 DEF ReviewsOf
<1>4. EvalsOf(s)' = EvalsOf(s)
  BY <1>1 DEF EvalsOf
<1>5. ReviewsOf(s)' = ReviewsOf(s) => Score(s, evals)' = Score(s, evals)
  BY <1>2, <1>4, ScoreStays
<1> QED
  BY <1>3, <1>4, <1>5 DEF Grows

LEMMA EvaluationCameIn ==
    ASSUME Typed, NEW p \in Processes, EvaluateCommit(p)
    PROVE  /\ \A s : Grows(s)
           /\ \A s : s # req[p].eval.of => Score(s, evals)' = Score(s, evals)
           /\ \A s : Score(s, evals)' = Score(s, evals \cup {req[p].eval})
<1> DEFINE e == req[p].eval
<1>1. evals' = evals \cup {e} /\ reviews' = reviews
  BY DEF EvaluateCommit
<1> HIDE DEF e
<1>2. ASSUME NEW s
      PROVE  /\ Grows(s)
             /\ s # e.of => Score(s, evals)' = Score(s, evals)
             /\ Score(s, evals)' = Score(s, evals \cup {e})
  <2>1. ReviewsOf(s)' = ReviewsOf(s)
    BY <1>1 DEF ReviewsOf
  <2>2. EvalsOf(s) \subseteq EvalsOf(s)' /\ (s # e.of => EvalsOf(s)' = EvalsOf(s))
    BY <1>1 DEF EvalsOf
  <2>3. EvalsOf(s)' = EvalsOf(s) => Score(s, evals)' = Score(s, evals)
    BY <1>1, <2>1, ScoreStays
  <2>4. Score(s, evals)' = Score(s, evals \cup {e})
    <3> DEFINE E == evals \cup {e}
    <3>1. {f \in evals : f.of = s}' = {f \in E : f.of = s}
      BY <1>1
    <3>2. \A c : Responses(s, evals, c)' = Responses(s, E, c)
      BY <1>1, <2>1, <3>1 DEF Responses
    <3> HIDE DEF E
    <3>3. PICK responses : responses = [c \in Criteria |-> Responses(s, E, c)]
      OBVIOUS
    <3> DEFINE middles == [c \in Criteria |-> Middle(responses[c])]
    <3>4. \A c \in Criteria : responses[c] = Responses(s, E, c)
                              /\ responses[c] = Responses(s, evals, c)'
      BY <3>2, <3>3
    <3>5. Score(s, E) = IF ReviewsOf(s) = {} /\ {f \in E : f.of = s} = {}
            THEN Cardinality(Criteria) * MiddleOption ELSE SumOver(middles)
      BY <3>4 DEF Score
    <3>6. Score(s, evals)' = IF ReviewsOf(s)' = {} /\ {f \in evals : f.of = s}' = {}
            THEN Cardinality(Criteria) * MiddleOption ELSE SumOver(middles)
      BY <3>4 DEF Score
    <3> QED
      BY <2>1, <3>1, <3>5, <3>6 DEF E
  <2> QED
    BY <2>1, <2>2, <2>3, <2>4 DEF Grows
<1> QED
  BY <1>2 DEF e

LEMMA InputsGrow ==
    ASSUME Typed, [Next]_vars
    PROVE  \A s : Grows(s)
<1>1. CASE UNCHANGED <<reviews, evals>>
  BY <1>1, NothingCameIn DEF Grows
<1>2. ASSUME NEW p \in Processes, Serve(p) PROVE \A s : Grows(s)
  <2>1. CASE EvaluateCommit(p)
    BY <2>1, EvaluationCameIn
  <2>2. CASE ~EvaluateCommit(p)
    <3>1. UNCHANGED <<reviews, evals>>
      BY <1>2, <2>2 DEF Serve, Evaluate, Edit, ToggleRead, OwnRowRead, OwnRowSwitch,
           OwnRowSave, EvaluateAgain, ScoreBegin, ScoreCalculate, ScoreWrite, ScoreCommit, ToggleWrite, ToggleCommit, Sum,
           RecountEnd, View, Expire, Fail, db
    <3> QED
      BY <3>1, <1>1
  <2> QED
    BY <2>1, <2>2
<1>3. ASSUME NEW pair \in Assigned, NEW answers \in Answers, HandIn(pair, answers)
      PROVE  \A s : Grows(s)
  BY <1>3, ReviewCameIn
<1> QED
  BY <1>1, <1>2, <1>3 DEF Next, vars, db

\* What scoring has read stays true of a request that does not change.
LEMMA ScoringStillKnows ==
    ASSUME NEW r \in ScoreRequests, ScoringKnows(r), \A s : Grows(s)
    PROVE  ScoringKnows(r)'
<1> SUFFICES ASSUME NEW s \in UnderEvaluation
             PROVE  /\ r.inputs[s][1] \subseteq ReviewsOf(s)'
                    /\ r.inputs[s][2] \subseteq EvalsOf(s)'
                    /\ r.inputs[s] = Inputs(s)' => r.rows[s].score = Score(s, evals)'
                    /\ r.rows[s].total = Total(r.rows[s])
                    /\ r.rows[s].passed <=> Passes(r.rows[s])
                    /\ s \in r.disabled => r.rows[s].lip = 0
  BY DEF ScoringKnows, UnderEvaluation, Total, Passes
<1>1. /\ r.inputs[s][1] \subseteq ReviewsOf(s) /\ r.inputs[s][2] \subseteq EvalsOf(s)
      /\ r.inputs[s] = Inputs(s) => r.rows[s].score = Score(s, evals)
      /\ r.rows[s].total = Total(r.rows[s])
      /\ r.rows[s].passed <=> Passes(r.rows[s])
      /\ s \in r.disabled => r.rows[s].lip = 0
  BY DEF ScoringKnows
<1>2. Grows(s)
  OBVIOUS
<1>3. r.inputs[s] = <<r.inputs[s][1], r.inputs[s][2]>>
  BY DEF ScoreRequests
<1>4. ASSUME r.inputs[s] = Inputs(s)' PROVE r.rows[s].score = Score(s, evals)'
  <2>1. r.inputs[s][1] = ReviewsOf(s)' /\ r.inputs[s][2] = EvalsOf(s)'
    BY <1>4 DEF Inputs
  <2>2. ReviewsOf(s)' = ReviewsOf(s) /\ EvalsOf(s)' = EvalsOf(s)
    BY <1>1, <1>2, <2>1 DEF Grows
  <2>3. r.inputs[s] = Inputs(s)
    BY <1>3, <2>1, <2>2 DEF Inputs
  <2> QED
    BY <1>1, <1>2, <2>2, <2>3 DEF Grows
<1> QED
  BY <1>1, <1>2, <1>4 DEF Grows

LEMMA OthersStillKnow ==
    ASSUME Typed, NEW q \in Processes, KnownOf(q), req'[q] = req[q],
           \A s \in Locks(q) : subs'[s] = subs[s], \A s : Grows(s)
    PROVE  KnownOf(q)'
<1> DEFINE r == req[q]
<1>0. r \in Requests
  BY DEF Typed, RequestsTyped
<1>1. ASSUME r.op = "evaluate" PROVE EvaluationKnows(r)'
  <2>1. r \in EvaluateRequests /\ r.rows = [t \in {r.eval.of} |-> subs[t]]
    BY <1>0, <1>1, Kinds DEF KnownOf, EvaluationKnows
  <2>2. r.eval.of \in Locks(q)
    BY <2>1 DEF Locks, EvaluateRequests
  <2>3. r.rows = [t \in {r.eval.of} |-> subs'[t]]
    BY <2>1, <2>2
  <2> QED
    BY <2>3 DEF EvaluationKnows
<1>2. ASSUME r.op = "toggle" PROVE ToggleKnows(r)'
  <2>1. r \in ToggleRequests /\ ToggleKnows(r)
    BY <1>0, <1>2, Kinds DEF KnownOf
  <2>2. CASE r.stage = "read"
    BY <2>2 DEF ToggleKnows
  <2>3. CASE r.stage # "read" /\ ~(r.off /\ r.row.lip > 0)
    BY <2>1, <2>3 DEF ToggleKnows
  <2>4. CASE r.stage # "read" /\ r.off /\ r.row.lip > 0
    <3>1. r.rows = [t \in {r.of} |-> ZeroedColumns(subs[t], r.row)]
      BY <2>1, <2>4 DEF ToggleKnows
    <3>2. r.of \in Locks(q)
      BY <2>1, <2>4, <3>1 DEF Locks, ToggleRequests
    <3>3. r.rows = [t \in {r.of} |-> ZeroedColumns(subs'[t], r.row)]
      BY <3>1, <3>2
    <3> QED
      BY <2>4, <3>3 DEF ToggleKnows, ZeroedColumns
  <2> QED
    BY <2>2, <2>3, <2>4
<1>3. ASSUME r.op = "score", r.stage # "begun" PROVE ScoringKnows(r)'
  <2>1. r \in ScoreRequests /\ ScoringKnows(r)
    BY <1>0, <1>3, Kinds DEF KnownOf
  <2>2. PICK y : y = req[q]
    OBVIOUS
  <2>3. ScoringKnows(y)'
    BY <2>1, <2>2, ScoringStillKnows
  <2>4. req'[q] = y
    BY <2>2
  <2> QED
    BY <2>3, <2>4
<1> QED
  BY <1>1, <1>2, <1>3 DEF KnownOf

\* With the database as it is, what a request knows depends on what it holds.
LEMMA ScoringKnowsTheSame ==
    ASSUME UNCHANGED db, NEW p, ScoringKnows(req[p]),
           req'[p].rows = req[p].rows, req'[p].inputs = req[p].inputs,
           req'[p].disabled = req[p].disabled
    PROVE  ScoringKnows(req[p])'
<1>1. UNCHANGED <<reviews, evals>>
  BY DEF db
<1>2. \A s : /\ ReviewsOf(s)' = ReviewsOf(s) /\ EvalsOf(s)' = EvalsOf(s)
             /\ Score(s, evals)' = Score(s, evals)
  BY <1>1, NothingCameIn
<1>3. \A s : Inputs(s)' = Inputs(s)
  BY <1>2 DEF Inputs
<1> QED
  BY <1>2, <1>3 DEF ScoringKnows, Total, Passes, UnderEvaluation

LEMMA KnownServe ==
    ASSUME Typed, Locked, Known, NEW p \in Processes, Serve(p)
    PROVE  KnownOf(p)'
<1>0. /\ \A r : Step(p, r) => req'[p] = r
      /\ KnownOf(p)
  BY DEF Step, Typed, RequestsTyped, Known
<1>1. ASSUME NEW s \in Students, NEW key \in Keys, NEW answers \in Answers,
             Evaluate(p, s, key, answers)
      PROVE  KnownOf(p)'
  <2> DEFINE r == [op |-> "evaluate", stage |-> "locked",
                   rows |-> [t \in {s} |-> subs[t]],
                   eval |-> [of |-> s, key |-> key, answers |-> answers]]
  <2>1. Step(p, r) /\ UNCHANGED subs
    BY <1>1 DEF Evaluate, Begin, db
  <2>2. r.op = "evaluate" /\ r.eval.of = s /\ r.rows = [t \in {s} |-> subs'[t]]
    BY <2>1
  <2> HIDE DEF r
  <2>3. req'[p].op = "evaluate" /\ req'[p].eval.of = s
        /\ req'[p].rows = [t \in {s} |-> subs'[t]]
    BY <1>0, <2>1, <2>2
  <2> QED
    BY <2>3 DEF KnownOf, EvaluationKnows
<1>2. ASSUME NEW s \in Students, NEW form \in Edits, Edit(p, s, form) PROVE KnownOf(p)'
  <2>1. req'[p] = Idle
    BY <1>2 DEF Edit
  <2> QED
    BY <2>1, NewRequests DEF KnownOf
<1>3. ASSUME NEW s \in Students, ToggleRead(p, s) PROVE KnownOf(p)'
  <2> DEFINE r == [op |-> "toggle", stage |-> "read", rows |-> << >>, sums |-> << >>,
                   of |-> s, off |-> s \notin disabled, row |-> subs[s]]
  <2>1. Step(p, r)
    BY <1>3 DEF ToggleRead, Begin
  <2>2. r.op = "toggle" /\ r.stage = "read"
    OBVIOUS
  <2> HIDE DEF r
  <2>3. req'[p].op = "toggle" /\ req'[p].stage = "read"
    BY <1>0, <2>1, <2>2
  <2> QED
    BY <2>3 DEF KnownOf, ToggleKnows
<1>4. CASE View(p)
  <2>1. req'[p] = Idle
    BY <1>4 DEF View
  <2> QED
    BY <2>1, NewRequests DEF KnownOf
<1>13. ASSUME NEW s \in Students, OwnRowRead(p, s) PROVE KnownOf(p)'
  <2> DEFINE r == [op |-> "own", stage |-> "read", rows |-> << >>, sums |-> << >>,
                   of |-> s,
                   read |-> [hidden |-> s \in hidden, off |-> s \in disabled,
                             total |-> board[s]]]
  <2>1. Step(p, r)
    BY <1>13 DEF OwnRowRead, Begin
  <2>2. r.op = "own"
    OBVIOUS
  <2> HIDE DEF r
  <2>3. req'[p].op = "own"
    BY <1>0, <2>1, <2>2
  <2> QED
    BY <2>3 DEF KnownOf
<1>5. CASE EvaluateAgain(p) \/ Fail(p) \/ ScoreCommit(p) \/ ToggleCommit(p)
           \/ RecountEnd(p) \/ OwnRowSwitch(p) \/ OwnRowSave(p)
  <2>1. req'[p] = Idle
    BY <1>0, <1>5 DEF EvaluateAgain, Fail, ScoreCommit, ToggleCommit, RecountEnd, Publish,
       OwnRowSwitch, OwnRowSave
  <2> QED
    BY <2>1, NewRequests DEF KnownOf
<1>6. CASE EvaluateCommit(p)
  <2>1. req'[p] = RecountNext
    BY <1>0, <1>6 DEF EvaluateCommit
  <2>2. req'[p].op \in {"idle", "recount"}
    BY <2>1, NewRequests DEF RecountNext, RecountRequests
  <2> QED
    BY <2>2 DEF KnownOf
<1>7. CASE ScoreBegin(p)
  <2>1. req'[p] = ScoreBegun
    BY <1>0, <1>7, NewRequests DEF ScoreBegin, Begin
  <2> QED
    BY <2>1, NewRequests DEF KnownOf
<1>8. CASE ScoreCalculate(p)
  <2> DEFINE r == [op |-> "score", stage |-> "read",
                   rows |-> [s \in UnderEvaluation |-> ScoreSubmission(s)],
                   sums |-> << >>,
                   inputs |-> [s \in UnderEvaluation |-> Inputs(s)],
                   disabled |-> disabled]
  <2>1. Step(p, r) /\ UNCHANGED db
    BY <1>8 DEF ScoreCalculate
  <2>2. /\ r.op = "score" /\ r.disabled = disabled
        /\ \A s \in UnderEvaluation : r.rows[s] = ScoreSubmission(s)
                                      /\ r.inputs[s] = Inputs(s)
    OBVIOUS
  <2> HIDE DEF r
  <2>3. /\ req'[p].op = "score" /\ req'[p].disabled = disabled
        /\ \A s \in UnderEvaluation : /\ req'[p].rows[s] = ScoreSubmission(s)
                                      /\ req'[p].inputs[s] = Inputs(s)
    BY <1>0, <2>1, <2>2
  <2>4. UNCHANGED <<reviews, evals>>
    BY <2>1 DEF db
  <2>5. ASSUME NEW s \in UnderEvaluation
        PROVE  /\ ReviewsOf(s)' = ReviewsOf(s) /\ EvalsOf(s)' = EvalsOf(s)
               /\ Score(s, evals)' = Score(s, evals) /\ Inputs(s)' = Inputs(s)
               /\ ScoreSubmission(s).score = Score(s, evals)
               /\ ScoreSubmission(s).total = Total(ScoreSubmission(s))
               /\ ScoreSubmission(s).passed <=> Passes(ScoreSubmission(s))
               /\ s \in disabled => ScoreSubmission(s).lip = 0
               /\ Inputs(s)[1] = ReviewsOf(s) /\ Inputs(s)[2] = EvalsOf(s)
    <3>1. ReviewsOf(s)' = ReviewsOf(s) /\ EvalsOf(s)' = EvalsOf(s)
          /\ Score(s, evals)' = Score(s, evals)
      BY <2>4, NothingCameIn
    <3>2. Score(s, evals) \in Nat
      BY ScoreIsNat DEF Typed, TypeOK, Evaluations
    <3> QED
      BY <3>1, <3>2, ScoredIsRow DEF Inputs, LipEarned
  <2>6. ScoringKnows(req[p])'
    <3>1. \A s \in UnderEvaluation :
            /\ req'[p].inputs[s][1] \subseteq ReviewsOf(s)'
            /\ req'[p].inputs[s][2] \subseteq EvalsOf(s)'
            /\ req'[p].inputs[s] = Inputs(s)' => req'[p].rows[s].score = Score(s, evals)'
            /\ req'[p].rows[s].total = Total(req'[p].rows[s])
            /\ req'[p].rows[s].passed <=> Passes(req'[p].rows[s])
            /\ s \in req'[p].disabled => req'[p].rows[s].lip = 0
      BY <2>3, <2>5
    <3> QED
      BY <3>1 DEF ScoringKnows, UnderEvaluation, Total, Passes
  <2> QED
    BY <2>3, <2>6 DEF KnownOf
<1>9. CASE ScoreWrite(p)
  <2>1. UNCHANGED db /\ req[p].op = "score" /\ req[p].stage # "begun"
    BY <1>9 DEF ScoreWrite, Serving
  <2>2. ScoringKnows(req[p])
    BY <1>0, <2>1 DEF KnownOf
  <2>3. ScoringKnows(req[p])'
    BY <1>9, <2>1, <2>2, TypedScoreWrite, ScoringKnowsTheSame
  <2> QED
    BY <1>9, <2>3, TypedScoreWrite DEF KnownOf
<1>10. CASE ToggleWrite(p)
  <2>1. UNCHANGED subs
    BY <1>10 DEF ToggleWrite, db
  <2>2. req'[p].rows = IF req'[p].off /\ req'[p].row.lip > 0
           THEN [t \in {req'[p].of} |-> ZeroedColumns(subs'[t], req'[p].row)] ELSE << >>
    BY <1>10, <2>1, TypedToggleWrite
  <2>3. ToggleKnows(req[p])'
    BY <2>2 DEF ToggleKnows, ZeroedColumns
  <2> QED
    BY <1>10, <2>3, TypedToggleWrite DEF KnownOf
<1>11. CASE Sum(p)
  <2>1. UNCHANGED db /\ UNCHANGED subs /\ req[p].stage \in {"written", "committed"}
    BY <1>11 DEF Sum, db
  <2>2. req'[p].op = req[p].op /\ req[p].op \in {"score", "toggle", "recount"}
    BY <1>11, TypedSum
  <2>3. CASE req[p].op = "score"
    <3>1. ScoringKnows(req[p])
      BY <1>0, <2>1, <2>3 DEF KnownOf
    <3>2. ScoringKnows(req[p])'
      BY <1>11, <2>1, <2>3, <3>1, TypedSum, ScoringKnowsTheSame
    <3> QED
      BY <2>2, <2>3, <3>2 DEF KnownOf
  <2>4. CASE req[p].op = "toggle"
    <3>1. req[p].rows = IF req[p].off /\ req[p].row.lip > 0
             THEN [t \in {req[p].of} |-> ZeroedColumns(subs[t], req[p].row)] ELSE << >>
      BY <1>0, <2>1, <2>4 DEF KnownOf, ToggleKnows
    <3>2. req'[p].rows = IF req'[p].off /\ req'[p].row.lip > 0
             THEN [t \in {req'[p].of} |-> ZeroedColumns(subs'[t], req'[p].row)] ELSE << >>
      BY <1>11, <2>1, <2>4, <3>1, TypedSum
    <3>3. ToggleKnows(req[p])'
      BY <3>2 DEF ToggleKnows, ZeroedColumns
    <3> QED
      BY <2>2, <2>4, <3>3 DEF KnownOf
  <2>5. CASE req[p].op = "recount"
    BY <2>2, <2>5 DEF KnownOf
  <2> QED
    BY <2>2, <2>3, <2>4, <2>5
<1>12. CASE Expire(p)
  <2>1. UNCHANGED <<reviews, evals>> /\ UNCHANGED <<req, subs>>
    BY <1>12 DEF Expire, db
  <2>2. \A s : Grows(s)
    BY <2>1, NothingCameIn DEF Grows
  <2> QED
    BY <1>0, <2>1, <2>2, OthersStillKnow
<1> QED
  BY <1>1, <1>2, <1>3, <1>4, <1>5, <1>6, <1>7, <1>8, <1>9, <1>10, <1>11, <1>12,
     <1>13 DEF Serve

LEMMA KnownInit == Init => Known
BY NewRequests DEF Init, Known, KnownOf

LEMMA KnownStep ==
    ASSUME Typed, Locked, Known, [Next]_vars
    PROVE  Known'
<1>0. \A s : Grows(s)
  BY InputsGrow
<1>1. CASE UNCHANGED <<req, subs>>
  <2>1. \A p \in Processes : KnownOf(p)'
    BY <1>0, <1>1, OthersStillKnow DEF Known
  <2> QED
    BY <2>1 DEF Known
<1>2. ASSUME NEW p \in Processes, Serve(p) PROVE Known'
  <2>1. Spares(p) /\ KnownOf(p)'
    BY <1>2, SparesServe, KnownServe
  <2>2. ASSUME NEW q \in Processes \ {p} PROVE KnownOf(q)'
    <3>1. KnownOf(q)
      BY DEF Known
    <3>2. req'[q] = req[q] /\ \A s \in Locks(q) : subs'[s] = subs[s]
      BY <2>1 DEF Spares
    <3> QED
      BY <1>0, <3>1, <3>2, OthersStillKnow
  <2>3. \A q \in Processes : KnownOf(q)'
    BY <2>1, <2>2
  <2> QED
    BY <2>3 DEF Known
<1> QED
  BY <1>1, <1>2 DEF Next, HandIn, vars, db

-----------------------------------------------------------------------------
(* Marks *)

MarksRight == MarksStand /\ PassingIsEarned /\ TotalIsTheSum
Marked == {"marks", "passed", "torn", "lip"}

LEMMA MarksRightInit == Init => MarksRight
BY MarksAssumption DEF Init, MarksRight, MarksStand, PassingIsEarned, TotalIsTheSum,
   Unscored, Passes, Total

\* A step that leaves the marks and what is known of them alone.
LEMMA MarksUntouched ==
    ASSUME Typed, MarksRight, UNCHANGED <<state, reviews, evals, subs, disabled>>,
           \A w \in Marked, s \in Students : <<w, s>> \in excused => <<w, s>> \in excused'
    PROVE  MarksRight'
<1>1. \A s \in Students : /\ <<"marks", s>> \notin excused' => <<"marks", s>> \notin excused
                          /\ <<"passed", s>> \notin excused' => <<"passed", s>> \notin excused
                          /\ <<"torn", s>> \notin excused' => <<"torn", s>> \notin excused
                          /\ <<"lip", s>> \notin excused' => <<"lip", s>> \notin excused
  BY DEF Marked
<1>2. \A s \in UnderEvaluation : s \in Students
  BY UnderEvaluationAreStudents
<1>3. \A s : Score(s, evals)' = Score(s, evals)
  BY NothingCameIn
<1>4. ASSUME NEW s \in UnderEvaluation, state' = "CO", <<"marks", s>> \notin excused'
      PROVE  subs'[s].score = Score(s, evals)'
  BY <1>1, <1>2, <1>3, <1>4 DEF MarksRight, MarksStand
<1>5. MarksStand'
  BY <1>4 DEF MarksStand, UnderEvaluation
<1>6. PassingIsEarned'
  BY <1>1 DEF MarksRight, PassingIsEarned, Passes
<1>7. TotalIsTheSum'
  <2>1. \A s \in disabled : <<"lip", s>> \notin excused' => subs[s].lip = 0
    BY <1>1 DEF MarksRight, TotalIsTheSum, Typed, TypeOK
  <2>2. \A s \in Students : <<"torn", s>> \notin excused' => subs[s].total = Total(subs[s])
    BY <1>1 DEF MarksRight, TotalIsTheSum
  <2> QED
    BY <2>1, <2>2 DEF TotalIsTheSum, Total
<1> QED
  BY <1>5, <1>6, <1>7 DEF MarksRight

\* What publishing adds to what is known concerns totals and pages only.
LEMMA PublishExcuses ==
    ASSUME NEW p \in Processes, NEW known, Publish(p, known)
    PROVE  /\ \A w \in Marked : \A s : <<w, s>> \in excused' <=> <<w, s>> \in known
           /\ \A s \in Students : <<"board", s>> \notin excused'
                                    => req[p].sums[s] = Seen(p)[s].total
           /\ \A q \in Processes \ {p} : <<"page", q>> \notin excused' => page[q] = NoPage
<1>1. excused' = (known \ (Excuse("board", Students) \cup Excuse("page", {p})))
                  \cup Excuse("board", {s \in Students : req[p].sums[s] # Seen(p)[s].total})
                  \cup Foreign(p)
  BY DEF Publish
<1>2. \A w, s : <<w, s>> \in Foreign(p) => w = "page"
  BY DEF Foreign, Excuse
<1>3. \A w, s, S : <<w, s>> \in Excuse("board", S) => w = "board"
  BY DEF Excuse
<1>4. \A w, s : <<w, s>> \in Excuse("page", {p}) => w = "page"
  BY DEF Excuse
<1>5. \A w \in Marked : w # "board" /\ w # "page"
  BY DEF Marked
<1>6. \A w \in Marked : \A s : <<w, s>> \in excused' <=> <<w, s>> \in known
  BY <1>1, <1>2, <1>3, <1>4, <1>5
<1>7. ASSUME NEW s \in Students, <<"board", s>> \notin excused'
      PROVE  req[p].sums[s] = Seen(p)[s].total
  BY <1>1, <1>7 DEF Excuse
<1>8. ASSUME NEW q \in Processes \ {p}, <<"page", q>> \notin excused' PROVE page[q] = NoPage
  BY <1>1, <1>8 DEF Foreign, Excuse
<1> QED
  BY <1>6, <1>7, <1>8

LEMMA ScoreCommitMarks ==
    ASSUME Typed, Known, MarksRight, NEW p \in Processes, ScoreCommit(p)
    PROVE  MarksRight'
<1> DEFINE r == req[p]
           known == (excused \ (Marked \X (DOMAIN r.rows)))
                    \cup Excuse("marks", Overlooked(p))
                    \cup Excuse("lip", (DOMAIN r.rows) \cap (disabled \ r.disabled))
<1>1. /\ r.op = "score" /\ r.stage = "summed" /\ subs' = Seen(p)
      /\ Publish(p, known) /\ UNCHANGED <<reviews, evals, disabled>>
  BY DEF ScoreCommit, Serving, Marked
<1>2. r \in ScoreRequests /\ ScoringKnows(r)
  BY <1>1, Kinds DEF Typed, RequestsTyped, Known, KnownOf
<1>3. DOMAIN r.rows = UnderEvaluation /\ UnderEvaluation \subseteq Students
  BY <1>2, UnderEvaluationAreStudents DEF ScoreRequests
<1>4. \A s \in Students : subs'[s] = IF s \in UnderEvaluation THEN r.rows[s] ELSE subs[s]
  BY <1>1, <1>3 DEF Seen
<1>5. \A w \in Marked : \A s : <<w, s>> \in excused' <=> <<w, s>> \in known
  <2> HIDE DEF known, r
  <2> QED
    BY <1>1, PublishExcuses
<1>6. \A s \in UnderEvaluation :
        /\ r.inputs[s] = Inputs(s) => r.rows[s].score = Score(s, evals)
        /\ r.rows[s].total = Total(r.rows[s])
        /\ r.rows[s].passed <=> Passes(r.rows[s])
        /\ s \in r.disabled => r.rows[s].lip = 0
  BY <1>2 DEF ScoringKnows
<1>7. \A s \in UnderEvaluation : <<"marks", s>> \notin excused' => r.inputs[s] = Inputs(s)
  BY <1>3, <1>5 DEF Overlooked, Excuse, Marked
<1>8. \A s \in UnderEvaluation : <<"lip", s>> \notin excused' /\ s \in disabled
                                   => s \in r.disabled
  BY <1>3, <1>5 DEF Excuse, Marked
<1>9. \A w \in Marked : \A s : s \notin UnderEvaluation /\ <<w, s>> \notin excused'
                             => <<w, s>> \notin excused
  BY <1>3, <1>5
<1> HIDE DEF known, r
<1>10. \A s : Score(s, evals)' = Score(s, evals)
  BY <1>1, NothingCameIn
<1>11. MarksStand'
  <2>1. \A s \in UnderEvaluation :
            <<"marks", s>> \notin excused' => subs'[s].score = Score(s, evals)'
    BY <1>3, <1>4, <1>6, <1>7, <1>10
  <2> QED
    BY <2>1 DEF MarksStand, UnderEvaluation
<1>12. PassingIsEarned'
  <2>1. \A s \in Students : <<"passed", s>> \notin excused'
                              => (subs'[s].passed <=> Passes(subs'[s]))
    <3>1. "passed" \in Marked
      BY DEF Marked
    <3> QED
      BY <1>4, <1>6, <1>9, <3>1 DEF MarksRight, PassingIsEarned
  <2> QED
    BY <2>1 DEF PassingIsEarned, Passes
<1>13. TotalIsTheSum'
  <2>1. "torn" \in Marked /\ "lip" \in Marked
    BY DEF Marked
  <2>2. \A s \in Students : <<"torn", s>> \notin excused' => subs'[s].total = Total(subs'[s])
    BY <1>4, <1>6, <1>9, <2>1 DEF MarksRight, TotalIsTheSum
  <2>3. \A s \in disabled : <<"lip", s>> \notin excused' => subs'[s].lip = 0
    <3>1. disabled \subseteq Students
      BY DEF Typed, TypeOK
    <3> QED
      BY <1>4, <1>6, <1>8, <1>9, <2>1, <3>1 DEF MarksRight, TotalIsTheSum
  <2>4. disabled' = disabled
    BY <1>1
  <2> QED
    BY <2>2, <2>3, <2>4 DEF TotalIsTheSum, Total
<1> QED
  BY <1>11, <1>12, <1>13 DEF MarksRight

LEMMA EvaluateCommitMarks ==
    ASSUME Typed, Known, MarksRight, NEW p \in Processes, EvaluateCommit(p)
    PROVE  MarksRight'
<1>0. PICK e : e = req[p].eval
  OBVIOUS
<1> DEFINE new == Rescored(subs[e.of], Score(e.of, evals \cup {e}))
<1>1. req[p] \in EvaluateRequests /\ EvaluationKnows(req[p])
  BY Kinds DEF EvaluateCommit, Serving, Typed, RequestsTyped, Known, KnownOf
<1>2. e \in Evaluations /\ e.of \in Students /\ req[p].rows[e.of] = subs[e.of]
  BY <1>0, <1>1 DEF EvaluateRequests, EvaluationKnows, Evaluations
<1>3. /\ subs' = [subs EXCEPT ![e.of] = new] /\ evals' = evals \cup {e}
      /\ excused' = excused \ ({"marks", "passed", "torn"} \X {e.of})
      /\ UNCHANGED <<state, reviews, disabled>>
  BY <1>0, <1>2 DEF EvaluateCommit
<1>4. subs[e.of] \in SubRow /\ subs \in [Students -> SubRow]
  BY <1>2 DEF Typed, TypeOK
<1>5. Score(e.of, evals \cup {e}) \in Nat
  <2>1. IsFiniteSet(evals \cup {e})
    BY FS_AddElement DEF Typed
  <2>2. evals \cup {e} \subseteq Evaluations
    BY <1>2 DEF Typed, TypeOK, Evaluations
  <2> QED
    BY <2>1, <2>2, ScoreIsNat DEF Typed, TypeOK
<1>6. /\ new.score = Score(e.of, evals \cup {e}) /\ new.lip = subs[e.of].lip
      /\ new.total = Total(new) /\ (new.passed <=> Passes(new))
  BY <1>4, <1>5, RescoredIsRow
<1>7. /\ \A s : s # e.of => Score(s, evals)' = Score(s, evals)
      /\ Score(e.of, evals)' = Score(e.of, evals \cup {e})
  BY <1>0, EvaluationCameIn
<1> HIDE DEF new
<1>8. \A s \in Students : subs'[s] = IF s = e.of THEN new ELSE subs[s]
  BY <1>3, <1>4
<1>9. \A w, s : s # e.of /\ <<w, s>> \notin excused' => <<w, s>> \notin excused
  BY <1>3
<1>10. \A s : <<"lip", s>> \notin excused' => <<"lip", s>> \notin excused
  BY <1>3
<1>11. MarksStand'
  <2>1. \A s \in UnderEvaluation : state = "CO" /\ <<"marks", s>> \notin excused'
            => subs'[s].score = Score(s, evals)'
    BY <1>6, <1>7, <1>8, <1>9, UnderEvaluationAreStudents DEF MarksRight, MarksStand
  <2>2. state' = state
    BY <1>3
  <2> QED
    BY <2>1, <2>2 DEF MarksStand, UnderEvaluation
<1>12. PassingIsEarned'
  <2>1. \A s \in Students : <<"passed", s>> \notin excused'
                              => (subs'[s].passed <=> Passes(subs'[s]))
    BY <1>6, <1>8, <1>9 DEF MarksRight, PassingIsEarned
  <2> QED
    BY <2>1 DEF PassingIsEarned, Passes
<1>13. TotalIsTheSum'
  <2>1. \A s \in Students : <<"torn", s>> \notin excused' => subs'[s].total = Total(subs'[s])
    BY <1>6, <1>8, <1>9 DEF MarksRight, TotalIsTheSum
  <2>2. \A s \in disabled : <<"lip", s>> \notin excused' => subs'[s].lip = 0
    <3>1. disabled \subseteq Students
      BY DEF Typed, TypeOK
    <3> QED
      BY <1>6, <1>8, <1>10, <3>1 DEF MarksRight, TotalIsTheSum
  <2>3. disabled' = disabled
    BY <1>3
  <2> QED
    BY <2>1, <2>2, <2>3 DEF TotalIsTheSum, Total
<1> QED
  BY <1>11, <1>12, <1>13 DEF MarksRight

LEMMA ToggleCommitMarks ==
    ASSUME Typed, Known, MarksRight, NEW p \in Processes, ToggleCommit(p)
    PROVE  MarksRight'
<1>0. PICK r : r = req[p]
  OBVIOUS
<1> DEFINE s == r.of
           zero == r.off /\ r.row.lip > 0
           new == Seen(p)[s]
           torn == {t \in DOMAIN r.rows : [r.row EXCEPT !.lip = 0]
                                          # [new EXCEPT !.total = r.row.total,
                                                        !.enough = r.row.enough,
                                                        !.passed = r.row.passed]}
           known == (excused \ ({"torn", "lip"} \X (DOMAIN r.rows)))
                    \cup Excuse("torn", torn)
                    \cup Excuse("lip", {t \in {s} : r.off /\ r.row.lip # subs[s].lip})
<1>1. /\ r.op = "toggle" /\ r.stage = "summed" /\ subs' = Seen(p) /\ Publish(p, known)
      /\ disabled' = IF r.off THEN disabled \cup {s} ELSE disabled \ {s}
      /\ UNCHANGED <<state, reviews, evals>>
  BY <1>0 DEF ToggleCommit, Serving
<1>2. r \in ToggleRequests /\ ToggleKnows(r)
  BY <1>0, <1>1, Kinds DEF Typed, RequestsTyped, Known, KnownOf
<1>3. /\ s \in Students /\ r.row \in SubRow /\ subs[s] \in SubRow
      /\ r.rows = IF zero THEN [t \in {s} |-> ZeroedColumns(subs[t], r.row)] ELSE << >>
      /\ subs \in [Students -> SubRow] /\ disabled \subseteq Students
  BY <1>1, <1>2 DEF ToggleRequests, ToggleKnows, Typed, TypeOK
<1>4. DOMAIN r.rows = IF zero THEN {s} ELSE {}
  BY <1>3, NoRows
<1> DEFINE written == ZeroedColumns(subs[s], r.row)
<1>5. \A t \in Students : subs'[t] = IF zero /\ t = s THEN written ELSE subs[t]
  <2>1. \A t \in Students : Seen(p)[t] = IF t \in DOMAIN r.rows THEN r.rows[t] ELSE subs[t]
    BY <1>0 DEF Seen
  <2>2. zero => r.rows[s] = written
    BY <1>3
  <2> HIDE DEF known, zero, s, written
  <2> QED
    BY <1>1, <1>4, <2>1, <2>2
<1>6. /\ written \in SubRow /\ written.score = subs[s].score
      /\ written.credit = subs[s].credit /\ written.lip = 0
      /\ written.total = r.row.score + r.row.credit
      /\ written.enough = subs[s].enough /\ written.passed = subs[s].passed
  BY <1>3, ZeroedIsRow
<1>7. zero => new = written
  BY <1>0, <1>3, <1>4 DEF Seen
<1>8. \A w \in Marked : \A t : <<w, t>> \in excused' <=> <<w, t>> \in known
  <2> HIDE DEF known
  <2> QED
    BY <1>1, PublishExcuses
<1>9. \A t : /\ <<"marks", t>> \notin excused' => <<"marks", t>> \notin excused
             /\ <<"passed", t>> \notin excused' => <<"passed", t>> \notin excused
  <2> HIDE DEF torn
  <2> QED
    BY <1>8 DEF Marked
<1>10. \A t : ~(zero /\ t = s) =>
          /\ <<"torn", t>> \notin excused' => <<"torn", t>> \notin excused
          /\ <<"lip", t>> \notin excused' => <<"lip", t>> \notin excused
  <2> HIDE DEF torn, zero, s
  <2> QED
    BY <1>4, <1>8 DEF Marked
<1>11. zero /\ <<"torn", s>> \notin excused'
          => r.row.score = subs[s].score /\ r.row.credit = subs[s].credit
  <2> SUFFICES ASSUME zero, <<"torn", s>> \notin excused'
               PROVE  r.row.score = subs[s].score /\ r.row.credit = subs[s].credit
    OBVIOUS
  <2>1. s \notin torn
    <3> HIDE DEF torn, zero, s
    <3> QED
      BY <1>8 DEF Excuse, Marked
  <2> DEFINE zeroed == [r.row EXCEPT !.lip = 0]
             one == [new EXCEPT !.total = r.row.total]
             two == [one EXCEPT !.enough = r.row.enough]
             three == [two EXCEPT !.passed = r.row.passed]
  <2>2. zeroed = three
    BY <1>4, <2>1
  <2>3. new \in SubRow /\ new.score = subs[s].score /\ new.credit = subs[s].credit
    BY <1>6, <1>7
  <2> HIDE DEF new
  <2>4. zeroed.score = r.row.score /\ zeroed.credit = r.row.credit
    BY <1>3, LipWritten
  <2> HIDE DEF zeroed, three
  <2>5. one \in SubRow /\ one.score = new.score /\ one.credit = new.credit
    BY <1>3, <2>3, ColumnsOfRows, TotalWritten
  <2> HIDE DEF one
  <2>6. two \in SubRow /\ two.score = one.score /\ two.credit = one.credit
    BY <1>3, <2>5, ColumnsOfRows, EnoughWritten
  <2> HIDE DEF two
  <2>7. three.score = two.score /\ three.credit = two.credit
    BY <1>3, <2>6, ColumnsOfRows, PassedWritten DEF three
  <2> QED
    BY <2>2, <2>3, <2>4, <2>5, <2>6, <2>7
<1>12. r.off /\ <<"lip", s>> \notin excused' => r.row.lip = subs[s].lip
  <2> HIDE DEF torn, s
  <2> QED
    BY <1>8 DEF Excuse, Marked
<1>13. r.row.lip \in Nat
  BY <1>3, ColumnsOfRows
<1> HIDE DEF known, new, torn
<1>14. \A t : Score(t, evals)' = Score(t, evals)
  BY <1>1, NothingCameIn
<1>15. MarksStand'
  <2>1. \A t \in UnderEvaluation : state = "CO" /\ <<"marks", t>> \notin excused'
            => subs'[t].score = Score(t, evals)'
    <3> HIDE DEF s, zero, written
    <3> QED
      BY <1>5, <1>6, <1>9, <1>14, UnderEvaluationAreStudents DEF MarksRight, MarksStand
  <2>2. state' = state
    BY <1>1
  <2> QED
    BY <2>1, <2>2 DEF MarksStand, UnderEvaluation
<1>16. PassingIsEarned'
  <2>1. \A t \in Students : <<"passed", t>> \notin excused'
                              => (subs'[t].passed <=> Passes(subs'[t]))
    <3>1. Passes(written) <=> Passes(subs[s])
      <4> HIDE DEF written
      <4> QED
        BY <1>6 DEF Passes
    <3> HIDE DEF s, zero, written
    <3> QED
      BY <1>5, <1>6, <1>9, <3>1 DEF MarksRight, PassingIsEarned
  <2> QED
    BY <2>1 DEF PassingIsEarned, Passes
<1>17. TotalIsTheSum'
  <2>1. ASSUME NEW t \in Students, <<"torn", t>> \notin excused'
        PROVE  subs'[t].total = Total(subs'[t])
    <3>1. CASE zero /\ t = s
      <4>1. written.total = Total(written)
        <5>1. written.total = written.score + written.credit
          <6> HIDE DEF written, zero
          <6> QED
            BY <1>6, <1>11, <2>1, <3>1
        <5>2. written.score \in Nat /\ written.credit \in Nat /\ written.lip = 0
          BY <1>6, ColumnsOfRows
        <5> HIDE DEF written
        <5> QED
          BY <5>1, <5>2 DEF Total
      <4> QED
        BY <1>5, <3>1, <4>1
    <3>2. CASE ~(zero /\ t = s)
      BY <1>5, <1>10, <2>1, <3>2 DEF MarksRight, TotalIsTheSum
    <3> QED
      BY <3>1, <3>2
  <2>2. ASSUME NEW t \in disabled', <<"lip", t>> \notin excused'
        PROVE  subs'[t].lip = 0
    <3>1. CASE zero /\ t = s
      BY <1>3, <1>5, <1>6, <3>1
    <3>2. CASE ~(zero /\ t = s) /\ t \in disabled
      <4>1. subs'[t] = subs[t] /\ t \in disabled /\ <<"lip", t>> \notin excused
        BY <1>3, <1>5, <1>10, <2>2, <3>2
      <4> QED
        BY <4>1 DEF MarksRight, TotalIsTheSum
    <3>3. CASE ~(zero /\ t = s) /\ t \notin disabled
      <4>1. r.off /\ t = s
        BY <1>1, <2>2, <3>3
      <4>2. ~(r.row.lip > 0)
        BY <3>3, <4>1
      <4>3. r.row.lip = 0 /\ r.row.lip = subs[s].lip
        BY <1>12, <1>13, <2>2, <4>1, <4>2
      <4> QED
        BY <1>3, <1>5, <3>3, <4>1, <4>3
    <3> QED
      BY <3>1, <3>2, <3>3
  <2>3. \A t \in Students : <<"torn", t>> \notin excused' => subs'[t].total = Total(subs'[t])
    BY <2>1
  <2>4. \A t \in disabled' : <<"lip", t>> \notin excused' => subs'[t].lip = 0
    BY <2>2
  <2> QED
    BY <2>3, <2>4 DEF TotalIsTheSum, Total
<1> QED
  BY <1>15, <1>16, <1>17 DEF MarksRight

LEMMA EditMarks ==
    ASSUME Typed, MarksRight, NEW p \in Processes, NEW s \in Students,
           NEW form \in Edits, Edit(p, s, form)
    PROVE  MarksRight'
<1> DEFINE row == [form EXCEPT !.total = Total(form)]
<1>1. /\ subs' = [subs EXCEPT ![s] = row]
      /\ excused' = (excused \ Excuse("torn", {s}))
                    \cup ({"marks", "passed", "lip", "board"} \X {s})
                    \cup Excuse("page", Processes)
      /\ UNCHANGED <<state, reviews, evals, disabled>>
  BY DEF Edit
<1>2. form \in SubRow
  BY EditsAssumption
<1>3. /\ row.total = Total(form) /\ row.score = form.score
      /\ row.credit = form.credit /\ row.lip = form.lip
  BY <1>2, ColumnsOfRows, TotalWritten
<1> HIDE DEF row
<1>4. row.total = Total(row)
  BY <1>3 DEF Total
<1>5. \A t \in Students : subs'[t] = IF t = s THEN row ELSE subs[t]
  BY <1>1 DEF Typed, TypeOK
<1>6. \A w, t : t # s /\ <<w, t>> \notin excused' => <<w, t>> \notin excused
  BY <1>1 DEF Excuse
<1>7. <<"marks", s>> \in excused' /\ <<"passed", s>> \in excused' /\ <<"lip", s>> \in excused'
  BY <1>1
<1>8. \A t : Score(t, evals)' = Score(t, evals)
  BY <1>1, NothingCameIn
<1>9. MarksStand'
  <2>1. \A t \in UnderEvaluation : state = "CO" /\ <<"marks", t>> \notin excused'
            => subs'[t].score = Score(t, evals)'
    BY <1>5, <1>6, <1>7, <1>8, UnderEvaluationAreStudents DEF MarksRight, MarksStand
  <2>2. state' = state
    BY <1>1
  <2> QED
    BY <2>1, <2>2 DEF MarksStand, UnderEvaluation
<1>10. PassingIsEarned'
  <2>1. \A t \in Students : <<"passed", t>> \notin excused'
                              => (subs'[t].passed <=> Passes(subs'[t]))
    BY <1>5, <1>6, <1>7 DEF MarksRight, PassingIsEarned
  <2> QED
    BY <2>1 DEF PassingIsEarned, Passes
<1>11. TotalIsTheSum'
  <2>1. \A t \in Students : <<"torn", t>> \notin excused' => subs'[t].total = Total(subs'[t])
    BY <1>4, <1>5, <1>6 DEF MarksRight, TotalIsTheSum
  <2>2. \A t \in disabled : <<"lip", t>> \notin excused' => subs'[t].lip = 0
    <3>1. disabled \subseteq Students
      BY DEF Typed, TypeOK
    <3> QED
      BY <1>5, <1>6, <1>7, <3>1 DEF MarksRight, TotalIsTheSum
  <2>3. disabled' = disabled
    BY <1>1
  <2> QED
    BY <2>1, <2>2, <2>3 DEF TotalIsTheSum, Total
<1> QED
  BY <1>9, <1>10, <1>11 DEF MarksRight

LEMMA HandInMarks ==
    ASSUME Typed, MarksRight, NEW pair \in Assigned, NEW answers \in Answers,
           HandIn(pair, answers)
    PROVE  MarksRight'
<1>1. state' = "PR" /\ UNCHANGED <<subs, disabled, excused>>
  BY DEF HandIn
<1>2. MarksStand'
  BY <1>1 DEF MarksStand
<1>3. PassingIsEarned'
  BY <1>1 DEF MarksRight, PassingIsEarned, Passes
<1>4. TotalIsTheSum'
  BY <1>1 DEF MarksRight, TotalIsTheSum, Total
<1> QED
  BY <1>2, <1>3, <1>4 DEF MarksRight

\* The enrollment form may put the switch back over points.
LEMMA OwnRowMarks ==
    ASSUME Typed, MarksRight, NEW p \in Processes, OwnRowSwitch(p) \/ OwnRowSave(p)
    PROVE  MarksRight'
<1> PICK s : s = req[p].of
  OBVIOUS
<1>1. UNCHANGED <<state, reviews, evals, subs>>
  BY DEF OwnRowSwitch, OwnRowSave
<1>2. \A w \in Marked, t \in Students : <<w, t>> \in excused => <<w, t>> \in excused'
  BY DEF OwnRowSwitch, OwnRowSave, Marked, Excuse
<1>3. \A t \in Students : /\ <<"marks", t>> \notin excused' => <<"marks", t>> \notin excused
                          /\ <<"passed", t>> \notin excused' => <<"passed", t>> \notin excused
                          /\ <<"torn", t>> \notin excused' => <<"torn", t>> \notin excused
                          /\ <<"lip", t>> \notin excused' => <<"lip", t>> \notin excused
  BY <1>2 DEF Marked
<1>4. \A t \in disabled' : t \in disabled \/ subs[t].lip = 0 \/ <<"lip", t>> \in excused'
  <2>1. CASE OwnRowSwitch(p)
    BY <2>1 DEF OwnRowSwitch
  <2>2. CASE OwnRowSave(p)
    <3>1. /\ Excuse("lip", {t \in {s} : t \in disabled' \ disabled /\ subs[t].lip # 0})
               \subseteq excused'
          /\ disabled' \subseteq disabled \cup {s}
      BY <2>2 DEF OwnRowSave, Switched
    <3> QED
      BY <3>1 DEF Excuse
  <2> QED
    BY <2>1, <2>2
<1>5. disabled' \subseteq Students
  BY TypedOwnRow DEF Typed, TypeOK
<1>6. \A t \in UnderEvaluation : t \in Students
  BY UnderEvaluationAreStudents
<1>7. \A t : Score(t, evals)' = Score(t, evals)
  BY <1>1, NothingCameIn
<1>8. ASSUME NEW t \in UnderEvaluation, state' = "CO", <<"marks", t>> \notin excused'
      PROVE  subs'[t].score = Score(t, evals)'
  BY <1>1, <1>3, <1>6, <1>7, <1>8 DEF MarksRight, MarksStand
<1>9. MarksStand'
  BY <1>8 DEF MarksStand, UnderEvaluation
<1>10. PassingIsEarned'
  BY <1>1, <1>3 DEF MarksRight, PassingIsEarned, Passes
<1>11. TotalIsTheSum'
  <2>1. \A t \in disabled' : <<"lip", t>> \notin excused' => subs[t].lip = 0
    BY <1>3, <1>4, <1>5 DEF MarksRight, TotalIsTheSum
  <2>2. \A t \in Students : <<"torn", t>> \notin excused' => subs[t].total = Total(subs[t])
    BY <1>3 DEF MarksRight, TotalIsTheSum
  <2> QED
    BY <1>1, <2>1, <2>2 DEF TotalIsTheSum, Total
<1> QED
  BY <1>9, <1>10, <1>11 DEF MarksRight

LEMMA MarksRightStep ==
    ASSUME Typed, Known, MarksRight, [Next]_vars
    PROVE  MarksRight'
<1>1. CASE UNCHANGED vars
  BY <1>1, MarksUntouched DEF vars, db
<1>2. ASSUME NEW p \in Processes, Serve(p) PROVE MarksRight'
  <2>1. CASE EvaluateCommit(p)
    BY <2>1, EvaluateCommitMarks
  <2>2. CASE ScoreCommit(p)
    BY <2>2, ScoreCommitMarks
  <2>3. CASE ToggleCommit(p)
    BY <2>3, ToggleCommitMarks
  <2>4. CASE \E s \in Students, form \in Edits : Edit(p, s, form)
    BY <2>4, EditMarks
  <2>5. CASE RecountEnd(p)
    <3>1. Publish(p, excused) /\ UNCHANGED <<state, reviews, evals, subs, disabled>>
      BY <2>5 DEF RecountEnd
    <3> QED
      BY <3>1, PublishExcuses, MarksUntouched
  <2>6. CASE View(p) \/ Expire(p) \/ Fail(p)
    <3>1. UNCHANGED <<state, reviews, evals, subs, disabled>>
      BY <2>6 DEF View, Expire, Fail, db
    <3>2. \A w \in Marked, s \in Students : <<w, s>> \in excused => <<w, s>> \in excused'
      BY <2>6 DEF View, Expire, Fail, Marked, Excuse
    <3> QED
      BY <3>1, <3>2, MarksUntouched
  <2>7. CASE \/ \E s \in Students : \/ ToggleRead(p, s) \/ OwnRowRead(p, s)
                                    \/ \E key \in Keys, answers \in Answers :
                                          Evaluate(p, s, key, answers)
             \/ EvaluateAgain(p) \/ ScoreBegin(p) \/ ScoreCalculate(p) \/ ScoreWrite(p)
             \/ ToggleWrite(p) \/ Sum(p)
    <3>1. UNCHANGED <<db, excused>>
      BY <2>7 DEF ToggleRead, OwnRowRead, Evaluate, EvaluateAgain, ScoreBegin, ScoreCalculate,
         ScoreWrite, ToggleWrite, Sum
    <3> QED
      BY <3>1, MarksUntouched DEF db
  <2> QED
    BY <1>2, <2>1, <2>2, <2>3, <2>4, <2>5, <2>6, <2>7, OwnRowMarks DEF Serve
<1>3. ASSUME NEW pair \in Assigned, NEW answers \in Answers, HandIn(pair, answers)
      PROVE  MarksRight'
  BY <1>3, HandInMarks
<1> QED
  BY <1>1, <1>2, <1>3 DEF Next

-----------------------------------------------------------------------------
(* The leaderboard *)

LEMMA BoardInit == Init => BoardStands
BY DEF Init, BoardStands, BoardRight, PagesRight

LEMMA ShownStays ==
    ASSUME UNCHANGED <<board, hidden, state>>, state = "CO" => UNCHANGED subs
    PROVE  Shown' = Shown
BY DEF Shown

LEMMA BoardUntouched ==
    ASSUME BoardRight, PagesRight, UNCHANGED <<db, page, excused>>
    PROVE  BoardRight' /\ PagesRight'
<1>1. Shown' = Shown
  BY ShownStays DEF db
<1>2. PagesRight'
  BY <1>1 DEF PagesRight
<1>3. BoardRight'
  BY DEF BoardRight, db
<1> QED
  BY <1>2, <1>3

\* A recount is under way until it ends or fails.
LEMMA PendingPersists ==
    ASSUME Typed, Known, Locked, NEW p \in Processes, Serve(p), RecountPending,
           ~RecountEnd(p), ~(Fail(p) /\ req[p].op = "recount")
    PROVE  RecountPending'
<1>1. PICK q \in Processes : req[q].op = "recount"
  BY DEF RecountPending
<1>2. CASE q # p
  <2>1. req'[q] = req[q]
    BY <1>2, SparesServe DEF Spares
  <2> QED
    BY <1>1, <2>1 DEF RecountPending
<1>3. CASE q = p
  <2>1. req[p].op = "recount" /\ req[p] # Idle
    BY <1>1, <1>3 DEF Idle
  <2>2. Sum(p) \/ Expire(p)
    BY <2>1 DEF Serve, Evaluate, Edit, ToggleRead, OwnRowRead, OwnRowSwitch, OwnRowSave,
       Begin, EvaluateAgain, EvaluateCommit, ScoreBegin, ScoreCalculate, ScoreWrite, ScoreCommit, ToggleWrite,
       ToggleCommit, View, Serving
  <2>3. req'[p].op = "recount"
    BY <2>1, <2>2, TypedSum DEF Expire
  <2> QED
    BY <2>3 DEF RecountPending
<1> QED
  BY <1>2, <1>3

\* Publishing sets the leaderboard right, with no page left that is wrong and
\* not known to be.
LEMMA PublishingRights ==
    ASSUME Typed, NEW p \in Processes, NEW known, Publish(p, known),
           req[p].stage = "summed", \A s \in Students : subs'[s] = Seen(p)[s]
    PROVE  BoardRight' /\ PagesRight'
<1>1. /\ board' = req[p].sums
      /\ page'[p] = NoPage /\ \A q \in Processes \ {p} : page'[q] = page[q]
  BY Publishes
<1>2. /\ \A s \in Students : <<"board", s>> \notin excused'
                               => req[p].sums[s] = Seen(p)[s].total
      /\ \A q \in Processes \ {p} : <<"page", q>> \notin excused' => page[q] = NoPage
  BY PublishExcuses
<1>3. \A s \in Students : <<"board", s>> \notin excused' => board'[s] = subs'[s].total
  BY <1>1, <1>2
<1>4. \A q \in Processes : page'[q] = NoPage \/ <<"page", q>> \in excused'
  BY <1>1, <1>2
<1>5. BoardRight'
  BY <1>3 DEF BoardRight
<1>6. PagesRight'
  BY <1>4 DEF PagesRight, NoPage
<1> QED
  BY <1>5, <1>6

\* What learners set in their enrollment: pages are dropped, or left behind and
\* known to be; the form may put an old total back.
LEMMA OwnRowBoard ==
    ASSUME Typed, NEW p \in Processes, OwnRowSwitch(p) \/ OwnRowSave(p),
           BoardRight, PagesRight
    PROVE  BoardRight' /\ PagesRight'
<1> PICK s : s = req[p].of
  OBVIOUS
<1>1. UNCHANGED <<state, subs>>
  BY DEF OwnRowSwitch, OwnRowSave
<1>2. ASSUME NEW t \in Students, <<"board", t>> \notin excused'
      PROVE  <<"board", t>> \notin excused /\ board'[t] = board[t]
  <2>1. CASE OwnRowSwitch(p)
    BY <1>2, <2>1 DEF OwnRowSwitch, Excuse
  <2>2. CASE OwnRowSave(p)
    <3>1. /\ excused \subseteq excused'
          /\ Excuse("board", {u \in {s} : board'[u] # board[u]}) \subseteq excused'
          /\ t # s => board'[t] = board[t]
      BY <2>2 DEF OwnRowSave, Typed, TypeOK
    <3> QED
      BY <1>2, <3>1 DEF Excuse
  <2> QED
    BY <2>1, <2>2
<1>3. BoardRight'
  BY <1>1, <1>2 DEF BoardRight
<1>4. ASSUME NEW q \in Processes, page'[q] # NoPage, <<"page", q>> \notin excused'
      PROVE  /\ UNCHANGED <<hidden, board>>
             /\ page'[q] = page[q] /\ <<"page", q>> \notin excused
  <2>1. UNCHANGED <<hidden, board>>
    <3>1. LeftBehind \subseteq excused' => <<"page", q>> \in excused'
      BY <1>4 DEF LeftBehind, Excuse
    <3>2. CASE OwnRowSwitch(p)
      BY <1>4, <3>1, <3>2 DEF OwnRowSwitch
    <3>3. CASE OwnRowSave(p)
      BY <1>4, <3>1, <3>3 DEF OwnRowSave
    <3> QED
      BY <3>2, <3>3
  <2>2. CASE OwnRowSave(p)
    BY <1>4, <2>1, <2>2 DEF OwnRowSave
  <2>3. CASE OwnRowSwitch(p)
    <3>1. PICK hide \in BOOLEAN :
            /\ page' = IF hide # req[p].read.hidden THEN Invalidated(p) ELSE page
            /\ excused \ Excuse("page", {u \in {p} : hide # req[p].read.hidden})
                 \subseteq excused'
      BY <2>3 DEF OwnRowSwitch
    <3>2. CASE hide # req[p].read.hidden
      <4>1. q # p
        BY <1>4, <3>1, <3>2 DEF Invalidated, Typed
      <4>2. page'[q] = page[q]
        BY <3>1, <3>2, <4>1 DEF Invalidated, Typed
      <4> QED
        BY <1>4, <2>1, <3>1, <4>1, <4>2 DEF Excuse
    <3>3. CASE hide = req[p].read.hidden
      BY <1>4, <2>1, <3>1, <3>3 DEF Excuse
    <3> QED
      BY <3>2, <3>3
  <2> QED
    BY <2>2, <2>3
<1>5. UNCHANGED <<hidden, board>> => Shown' = Shown
  BY <1>1, ShownStays
<1>6. PagesRight'
  BY <1>4, <1>5 DEF PagesRight, NoPage
<1> QED
  BY <1>3, <1>6

LEMMA BoardServe ==
    ASSUME Typed, Known, Locked, BoardStands, NEW p \in Processes, Serve(p)
    PROVE  BoardStands'
<1>1. CASE ScoreCommit(p) \/ ToggleCommit(p) \/ RecountEnd(p)
  <2>1. /\ req[p].stage = "summed" /\ \E known : Publish(p, known)
    BY <1>1 DEF ScoreCommit, ToggleCommit, RecountEnd, Serving
  <2>2. \A s \in Students : subs'[s] = Seen(p)[s]
    <3>1. CASE ScoreCommit(p) \/ ToggleCommit(p)
      BY <3>1 DEF ScoreCommit, ToggleCommit
    <3>2. CASE RecountEnd(p)
      <4>1. req[p] \in RecountRequests /\ subs' = subs
        BY <3>2, Kinds DEF RecountEnd, Serving, Typed, RequestsTyped
      <4>2. DOMAIN req[p].rows = {}
        BY <4>1, NoRows DEF RecountRequests
      <4> QED
        BY <4>1, <4>2 DEF Seen
    <3> QED
      BY <1>1, <3>1, <3>2
  <2>3. BoardRight' /\ PagesRight'
    BY <2>1, <2>2, PublishingRights
  <2> QED
    BY <2>3 DEF BoardStands
<1>2. CASE Fail(p) /\ req[p].op = "recount"
  <2>1. excused' = excused \cup Excuse("board", Students) \cup Excuse("page", Processes)
    BY <1>2 DEF Fail
  <2>2. /\ \A s \in Students : <<"board", s>> \in excused'
        /\ \A q \in Processes : <<"page", q>> \in excused'
    BY <2>1 DEF Excuse
  <2> QED
    BY <2>2 DEF BoardStands, BoardRight, PagesRight
<1>3. CASE ~RecountEnd(p) /\ ~(Fail(p) /\ req[p].op = "recount") /\ RecountPending
  BY <1>3, PendingPersists DEF BoardStands
<1> SUFFICES ASSUME BoardRight, PagesRight,
                    ~RecountEnd(p), ~(Fail(p) /\ req[p].op = "recount")
             PROVE  BoardStands'
  BY <1>1, <1>2, <1>3 DEF BoardStands
<1>4. CASE EvaluateCommit(p)
  <2>1. CASE state = "CO"
    <3>1. req'[p] = [Idle EXCEPT !.op = "recount", !.stage = "committed"]
      BY <1>4, <2>1 DEF EvaluateCommit, Step, RecountNext, Typed, RequestsTyped
    <3>2. req'[p].op = "recount"
      BY <3>1, NewRequests DEF RecountRequests
    <3> QED
      BY <3>2 DEF BoardStands, RecountPending
  <2>2. CASE state # "CO"
    <3>1. /\ UNCHANGED <<state, hidden, board, page>>
          /\ excused' = excused \ ({"marks", "passed", "torn"} \X {req[p].eval.of})
      BY <1>4 DEF EvaluateCommit
    <3>2. Shown' = Shown
      BY <2>2, <3>1, ShownStays
    <3>3. \A q : <<"page", q>> \notin excused' => <<"page", q>> \notin excused
      BY <3>1
    <3>4. PagesRight'
      BY <3>1, <3>2, <3>3 DEF PagesRight
    <3> QED
      BY <2>2, <3>1, <3>4 DEF BoardStands, BoardRight
  <2> QED
    BY <2>1, <2>2
<1>5. ASSUME NEW s \in Students, NEW form \in Edits, Edit(p, s, form) PROVE BoardStands'
  <2>1. /\ excused' = (excused \ Excuse("torn", {s}))
                      \cup ({"marks", "passed", "lip", "board"} \X {s})
                      \cup Excuse("page", Processes)
        /\ \A t \in Students : t # s => subs'[t] = subs[t]
        /\ UNCHANGED <<state, board>>
    BY <1>5 DEF Edit, Typed, TypeOK
  <2>2. /\ \A q \in Processes : <<"page", q>> \in excused'
        /\ \A t \in Students : <<"board", t>> \notin excused'
                                 => t # s /\ <<"board", t>> \notin excused
    BY <2>1 DEF Excuse
  <2>3. BoardRight'
    BY <2>1, <2>2 DEF BoardRight
  <2>4. PagesRight'
    BY <2>2 DEF PagesRight
  <2> QED
    BY <2>3, <2>4 DEF BoardStands
<1>6. CASE OwnRowSwitch(p) \/ OwnRowSave(p)
  BY <1>6, OwnRowBoard DEF BoardStands
<1>7. CASE View(p) \/ Expire(p)
  <2>1. /\ \/ page' = [page EXCEPT ![p] = [cached |-> TRUE, shown |-> Shown]]
           \/ page' = [page EXCEPT ![p] = NoPage]
        /\ excused' = excused \ Excuse("page", {p}) /\ UNCHANGED db
    BY <1>7 DEF View, Expire
  <2>2. /\ \A t : <<"board", t>> \notin excused' => <<"board", t>> \notin excused
        /\ \A q : q # p /\ <<"page", q>> \notin excused' => <<"page", q>> \notin excused
    BY <2>1 DEF Excuse
  <2>3. Shown' = Shown
    BY <2>1, ShownStays DEF db
  <2>4. BoardRight'
    BY <2>1, <2>2 DEF BoardRight, db
  <2>5. ASSUME NEW q \in Processes, page'[q] # NoPage, <<"page", q>> \notin excused'
        PROVE  page'[q].shown = Shown
    <3>1. CASE q = p
      <4>1. page'[p] = [cached |-> TRUE, shown |-> Shown] \/ page'[p] = NoPage
        BY <2>1 DEF Typed
      <4> QED
        BY <2>5, <3>1, <4>1
    <3>2. CASE q # p
      <4>1. page'[q] = page[q]
        BY <2>1, <3>2 DEF Typed
      <4> QED
        BY <2>2, <2>5, <3>2, <4>1 DEF PagesRight
    <3> QED
      BY <3>1, <3>2
  <2>6. PagesRight'
    BY <2>3, <2>5 DEF PagesRight, NoPage
  <2> QED
    BY <2>4, <2>6 DEF BoardStands
<1>8. CASE \/ \E s \in Students : \/ ToggleRead(p, s) \/ OwnRowRead(p, s)
                                  \/ \E key \in Keys, answers \in Answers :
                                        Evaluate(p, s, key, answers)
           \/ EvaluateAgain(p) \/ ScoreBegin(p) \/ ScoreCalculate(p) \/ ScoreWrite(p)
           \/ ToggleWrite(p) \/ Sum(p) \/ Fail(p)
  <2>1. UNCHANGED <<db, page, excused>>
    BY <1>8 DEF ToggleRead, OwnRowRead, Evaluate, EvaluateAgain, ScoreBegin, ScoreCalculate,
       ScoreWrite, ToggleWrite, Sum, Fail
  <2> QED
    BY <2>1, BoardUntouched DEF BoardStands
<1> QED
  BY <1>1, <1>4, <1>5, <1>6, <1>7, <1>8 DEF Serve

LEMMA BoardStep ==
    ASSUME Typed, Known, Locked, BoardStands, [Next]_vars
    PROVE  BoardStands'
<1>1. CASE UNCHANGED vars
  <2>1. UNCHANGED <<db, page, excused>> /\ UNCHANGED req
    BY <1>1 DEF vars
  <2> QED
    BY <2>1, BoardUntouched DEF BoardStands, RecountPending
<1>2. ASSUME NEW p \in Processes, Serve(p) PROVE BoardStands'
  BY <1>2, BoardServe
<1>3. ASSUME NEW pair \in Assigned, NEW answers \in Answers, HandIn(pair, answers)
      PROVE  BoardStands'
  <2>1. /\ state = "PR" /\ UNCHANGED <<state, subs, hidden, board, page, excused>>
        /\ UNCHANGED req
    BY <1>3 DEF HandIn
  <2>2. Shown' = Shown
    BY <2>1, ShownStays
  <2>3. PagesRight => PagesRight'
    BY <2>1, <2>2 DEF PagesRight
  <2>4. BoardRight'
    BY <2>1 DEF BoardRight
  <2> QED
    BY <2>1, <2>3, <2>4 DEF BoardStands, RecountPending
<1> QED
  BY <1>1, <1>2, <1>3 DEF Next

-----------------------------------------------------------------------------
(* The theorems *)

LEMMA IInvInit == Init => IInv
BY TypedInit, LockedInit, KnownInit, MarksRightInit, BoardInit DEF IInv, MarksRight

LEMMA IInvStep ==
    ASSUME IInv, [Next]_vars
    PROVE  IInv'
<1>1. Typed /\ Locked /\ Known /\ MarksRight /\ BoardStands
  BY DEF IInv, MarksRight
<1>2. Typed'
  BY <1>1, TypedStep
<1>3. Locked'
  BY <1>1, LockedStep
<1>4. Known'
  BY <1>1, KnownStep
<1>5. MarksRight'
  BY <1>1, MarksRightStep
<1>6. BoardStands'
  BY <1>1, BoardStep
<1> QED
  BY <1>2, <1>3, <1>4, <1>5, <1>6 DEF IInv, MarksRight

\* Requests lock apart and know the rows they work on; marks and the
\* leaderboard are right but for what the history excuses.
THEOREM Invariant == Spec => []IInv
<1>1. Init => IInv
  BY IInvInit
<1>2. IInv /\ [Next]_vars => IInv'
  BY IInvStep
<1> QED
  BY <1>1, <1>2, PTL DEF Spec

\* Rows, evaluations and totals have their types, and no key makes two
\* evaluations of one submission, whoever retries what.
THEOREM Typing == Spec => []TypeOK
<1>1. IInv => TypeOK
  BY DEF IInv, Typed
<1> QED
  BY <1>1, Invariant, PTL

\* The score of a scored submission is the sum over the criteria of the
\* median of all its responses, whatever scoring, the API and peers do at
\* once, but for what came in while it was scored.
THEOREM ScoresAreMedians == Spec => []ScoreIsTheMedian
<1>1. IInv => ScoreIsTheMedian
  <2> SUFFICES ASSUME IInv, NEW s \in UnderEvaluation, state = "CO",
                      <<"marks", s>> \notin excused
               PROVE  subs[s].score = MedianScore(s)
    BY DEF ScoreIsTheMedian
  <2>1. subs[s].score = Score(s, evals)
    BY DEF IInv, MarksStand
  <2>2. Score(s, evals) = MedianScore(s)
    BY ScoreIsMedians DEF IInv, Typed, TypeOK, Evaluations
  <2> QED
    BY <2>1, <2>2
<1> QED
  BY <1>1, Invariant, PTL

\* Who has passed has the points and the reviews for it.
THEOREM PassesAreEarned == Spec => []PassingIsEarned
<1>1. IInv => PassingIsEarned
  BY DEF IInv
<1> QED
  BY <1>1, Invariant, PTL

\* Totals are the sums of their parts, and learning in public switched off
\* earns nothing, but for a switch that met another write or was put back.
THEOREM TotalsAreSums == Spec => []TotalIsTheSum
<1>1. IInv => TotalIsTheSum
  BY DEF IInv
<1> QED
  BY <1>1, Invariant, PTL

\* With no request under way, the leaderboard has the totals there are, and
\* a cached page shows them, but for the recorded causes: overlapping or failed
\* recounts, staff edits, other processes' changes, and the enrollment form.
THEOREM TheBoardIsRight == Spec => []BoardAgrees
<1>1. IInv => BoardAgrees
  <2> SUFFICES ASSUME IInv, Quiet PROVE BoardAgrees
    BY DEF BoardAgrees
  <2>1. ~RecountPending
    BY NewRequests DEF Quiet, RecountPending
  <2>2. BoardRight /\ PagesRight
    BY <2>1 DEF IInv, BoardStands
  <2> QED
    BY <2>2 DEF BoardAgrees, BoardRight, PagesRight
<1> QED
  BY <1>1, Invariant, PTL

=============================================================================
