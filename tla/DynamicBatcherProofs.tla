------------------------ MODULE DynamicBatcherProofs ------------------------
(***************************************************************************)
(* Proofs about DynamicBatcher, for any calls, texts, workers and other    *)
(* users of the gate, and whether or not shutdowns are graceful.           *)
(*                                                                         *)
(* IInv says who works and who stands in the line of the gate, FutureInv   *)
(* which futures a call has, TextInv what the loop of _select_batch_locked *)
(* makes of the texts in the list, CountInv what "active" is, and DrainInv *)
(* where the texts are that somebody still waits for.                      *)
(***************************************************************************)
EXTENDS DynamicBatcher, InferenceGateProofs, WellFoundedInduction, NaturalsInduction

-----------------------------------------------------------------------------
(* Loops *)

\* A set of natural numbers has a least element (places and lengths in the list,
\* batching.py:150).
LEMMA LeastElement ==
  ASSUME NEW T \in SUBSET Nat, T # {}
  PROVE  \E x \in T : \A y \in T : x <= y
<1>1. PICK x \in T : \A y \in T : << y, x >> \notin OpToRel(<, Nat)
  BY NatLessThanWellFounded, WFMin
<1>2. \A y \in T : ~(y < x)
  BY <1>1 DEF OpToRel
<1>3. \A y \in T : y \in Nat
  OBVIOUS
<1> QED
  BY <1>2, <1>3

\* What holds at the start of a loop and is kept by each round holds after all
\* rounds (the loops of batching.py:152-160).
LEMMA Induction ==
  ASSUME NEW N \in Nat, NEW T, 0 \in T, \A n \in 1..N : n - 1 \in T => n \in T
  PROVE  0..N \subseteq T
<1> SUFFICES ASSUME NEW m \in 0..N, m \notin T PROVE FALSE
  OBVIOUS
<1> DEFINE C == {n \in 0..N : n \notin T}
<1>1. C \in SUBSET Nat /\ C # {}
  OBVIOUS
<1>2. PICK x \in C : \A y \in C : x <= y
  BY <1>1, LeastElement
<1>3. x \in 1..N
  BY <1>2
<1>4. x - 1 \in 0..N /\ x - 1 \notin C
  BY <1>2, <1>3
<1> QED
  BY <1>2, <1>3, <1>4

\* The values that a loop of N rounds may go through, from init on, each round by step.
Runs(N, S, init, step) ==
  {f \in [0..N -> S] : f[0] = init /\ \A n \in 1..N : f[n] = step[n][f[n - 1]]}

\* A loop whose rounds keep to S has such a run (batching.py:152-160).
LEMMA Recursion ==
  ASSUME NEW N \in Nat, NEW S, NEW init \in S, NEW step \in [1..N -> [S -> S]]
  PROVE  Runs(N, S, init, step) # {}
<1> DEFINE HasRun(m) == \E f \in [0..m -> S] : f[0] = init /\ \A n \in 1..m : f[n] = step[n][f[n - 1]]
           T == {m \in 0..N : HasRun(m)}
<1>1. 0 \in T
  <2> DEFINE z == [n \in 0..0 |-> init]
  <2>1. z \in [0..0 -> S] /\ z[0] = init
    OBVIOUS
  <2>2. \A n \in 1..0 : z[n] = step[n][z[n - 1]]
    OBVIOUS
  <2> HIDE DEF z
  <2>3. HasRun(0)
    BY <2>1, <2>2
  <2> QED
    BY <2>3
<1>2. ASSUME NEW m \in 1..N, m - 1 \in T PROVE m \in T
  <2>1. PICK f \in [0..m - 1 -> S] : f[0] = init /\ \A n \in 1..m - 1 : f[n] = step[n][f[n - 1]]
    BY <1>2
  <2> DEFINE g == [n \in 0..m |-> IF n = m THEN step[m][f[m - 1]] ELSE f[n]]
  <2>2. step[m] \in [S -> S] /\ f[m - 1] \in S
    BY <2>1
  <2>3. \A n \in 0..m : n # m => n \in 0..m - 1
    OBVIOUS
  <2>4. g \in [0..m -> S]
    BY <2>1, <2>2, <2>3
  <2>5. g[0] = init /\ \A n \in 0..m - 1 : g[n] = f[n]
    BY <2>1
  <2>6. \A n \in 1..m : g[n] = step[n][g[n - 1]]
    <3> TAKE n \in 1..m
    <3>1. n - 1 \in 0..m - 1 /\ g[n - 1] = f[n - 1]
      BY <2>5
    <3>2. CASE n = m
      BY <3>1, <3>2
    <3>3. CASE n # m
      <4>1. n \in 1..m - 1 /\ n \in 0..m - 1
        BY <3>3
      <4> QED
        BY <2>1, <2>5, <3>1, <4>1
    <3> QED
      BY <3>2, <3>3
  <2> HIDE DEF g
  <2>7. g[0] = init
    BY <2>1, <2>5
  <2>8. HasRun(m)
    BY <2>4, <2>6, <2>7
  <2> QED
    BY <2>8
<1>3. N \in T
  <2> HIDE DEF T
  <2>1. 0..N \subseteq T
    BY <1>1, <1>2, Induction
  <2> QED
    BY <2>1
<1> QED
  BY <1>3 DEF Runs
-----------------------------------------------------------------------------
(* The choice of a batch *)

\* A text that some call has asked for, and that may be embedded.
IsText(j) == /\ j \in Ids /\ input[j[1]] \in Inputs /\ j[2] \in DOMAIN input[j[1]].counts
             /\ TokenCount(j) <= MaxBatchTokens

\* What a text costs is a number within the limit of a batch.
LEMMA TextTokens ==
  ASSUME NEW j, IsText(j)
  PROVE  TokenCount(j) \in Nat
<1> DEFINE in == input[j[1]]
<1>1. in.counts \in Seq(Nat) /\ in.maxLength \in Nat /\ j[2] \in DOMAIN in.counts
  BY ConstantsAssumption DEF IsText
<1>0. in.counts[j[2]] \in Nat
  <2>1. j[2] \in 1..Len(in.counts)
    BY <1>1, LenProperties
  <2> HIDE DEF in
  <2> QED
    BY <1>1, <2>1, ElementOfSeq
<1>2. \E x \in {in.counts[j[2]], in.maxLength} : \A y \in {in.counts[j[2]], in.maxLength} : x <= y
  BY <1>0, <1>1
<1> QED
  BY <1>0, <1>1, <1>2 DEF TokenCount, Truncated, Min

\* Among the jobs that are left one is first, and the anchor is if it is there.
LEMMA FirstIsLeft ==
  ASSUME NEW p \in Seq(Ids), \A i \in DOMAIN p : IsText(p[i]),
         NEW S \in SUBSET DOMAIN p, S # {}
  PROVE  /\ First(p, S) \in S
         /\ 1 \in S => First(p, S) = 1
<1> DEFINE d(i) == Distance(p[1], p[i])
<1>1. DOMAIN p = 1..Len(p) /\ Len(p) \in Nat
  BY LenProperties
<1>2. \A i \in DOMAIN p : d(i) \in Nat
  <2>1. \A i \in DOMAIN p : TokenCount(p[i]) \in Nat
    BY TextTokens
  <2>2. 1 \in DOMAIN p
    BY <1>1
  <2> QED
    BY <2>1, <2>2 DEF Distance
<1>3. d(1) = 0
  <2>1. 1 \in DOMAIN p
    BY <1>1
  <2>2. TokenCount(p[1]) \in Nat
    BY <2>1, TextTokens
  <2> QED
    BY <2>2 DEF Distance
<1> HIDE DEF d
<1>4. \A i, k \in S : Before(p, i, k) <=> d(i) < d(k) \/ (d(i) = d(k) /\ i < k)
  BY DEF Before, d
<1>5. PICK x \in {d(i) : i \in S} : \A y \in {d(i) : i \in S} : x <= y
  <2>1. {d(i) : i \in S} \in SUBSET Nat /\ {d(i) : i \in S} # {}
    BY <1>2
  <2> QED
    BY <2>1, LeastElement
<1>6. PICK m \in {i \in S : d(i) = x} : \A k \in {i \in S : d(i) = x} : m <= k
  <2>1. {i \in S : d(i) = x} \in SUBSET Nat /\ {i \in S : d(i) = x} # {}
    BY <1>1, <1>5
  <2> QED
    BY <2>1, LeastElement
<1>7. ASSUME NEW k \in S \ {m} PROVE Before(p, m, k)
  <2>1. d(m) <= d(k) /\ m \in Nat /\ k \in Nat /\ d(m) \in Nat /\ d(k) \in Nat
    BY <1>1, <1>2, <1>5, <1>6
  <2>2. d(k) = d(m) => m <= k /\ m # k
    BY <1>6
  <2> QED
    BY <1>4, <1>6, <2>1, <2>2
<1>8. First(p, S) \in S /\ \A k \in S \ {First(p, S)} : Before(p, First(p, S), k)
  BY <1>6, <1>7 DEF First
<1> HIDE DEF First
<1>9. ASSUME 1 \in S, First(p, S) # 1 PROVE FALSE
  <2>1. d(First(p, S)) < 0 \/ (d(First(p, S)) = 0 /\ First(p, S) < 1)
    BY <1>3, <1>4, <1>8, <1>9
  <2>2. d(First(p, S)) \in Nat /\ First(p, S) \in 1..Len(p)
    BY <1>1, <1>2, <1>8
  <2> QED
    BY <2>1, <2>2
<1> QED
  BY <1>8, <1>9

States(p) == [batch : Seq(Ids), left : SUBSET DOMAIN p]

FirstState(p) == [batch |-> << >>, left |-> Compatibles(p)]

\* The rounds of the loop are those of a run of Offer, and keep to its states.
LEMMA Rounds ==
  ASSUME NEW p \in Seq(Ids), \A i \in DOMAIN p : IsText(p[i])
  PROVE  \E r \in [0..Len(p) -> States(p)] :
           /\ r[0] = FirstState(p)
           /\ \A n \in 1..Len(p) : r[n] = Offer(p, r[n - 1])
           /\ SelectBatch(p) = r[Len(p)].batch
<1> DEFINE offered == [s \in States(p) |-> Offer(p, s)]
           round[n \in 0..Len(p)] == IF n = 0 THEN FirstState(p) ELSE offered[round[n - 1]]
<1>1. SelectBatch(p) = round[Len(p)].batch
  BY DEF SelectBatch, FirstState, States
<1>2. FirstState(p) \in States(p)
  BY EmptySeq DEF FirstState, States, Compatibles
<1>3. offered \in [States(p) -> States(p)]
  <2> SUFFICES ASSUME NEW s \in States(p) PROVE Offer(p, s) \in States(p)
    OBVIOUS
  <2>1. CASE s.left = {}
    BY <2>1 DEF Offer
  <2>2. CASE s.left # {}
    <3>1. First(p, s.left) \in s.left /\ s.left \subseteq DOMAIN p /\ s.batch \in Seq(Ids)
      BY <2>2, FirstIsLeft DEF States
    <3>2. p[First(p, s.left)] \in Ids
      BY <3>1 DEF IsText
    <3>3. Append(s.batch, p[First(p, s.left)]) \in Seq(Ids)
      BY <3>1, <3>2, AppendProperties
    <3> QED
      BY <2>2, <3>1, <3>3 DEF Offer, States
  <2> QED
    BY <2>1, <2>2
<1>4. Len(p) \in Nat
  BY LenProperties
<1> HIDE DEF offered, round
<1>5. PICK f \in [0..Len(p) -> States(p)] :
        f[0] = FirstState(p) /\ \A n \in 1..Len(p) : f[n] = offered[f[n - 1]]
  <2> DEFINE step == [n \in 1..Len(p) |-> offered]
  <2>1. step \in [1..Len(p) -> [States(p) -> States(p)]]
    BY <1>3
  <2> HIDE DEF step
  <2>2. \E f \in [0..Len(p) -> States(p)] :
          f[0] = FirstState(p) /\ \A n \in 1..Len(p) : f[n] = step[n][f[n - 1]]
    <3>1. Runs(Len(p), States(p), FirstState(p), step) # {}
      BY <1>2, <1>4, <2>1, Recursion
    <3> QED
      BY <3>1 DEF Runs
  <2> QED
    BY <2>2 DEF step
<1>6. \A n \in 1..Len(p) : f[n - 1] \in States(p)
  BY <1>4
<1>7. \E g : g = [n \in 0..Len(p) |-> IF n = 0 THEN FirstState(p) ELSE offered[g[n - 1]]]
  <2>1. f = [n \in 0..Len(p) |-> IF n = 0 THEN FirstState(p) ELSE offered[f[n - 1]]]
    BY <1>4, <1>5
  <2> QED
    BY <2>1
<1>8. round = [n \in 0..Len(p) |-> IF n = 0 THEN FirstState(p) ELSE offered[round[n - 1]]]
  BY <1>7 DEF round
<1>9. round[0] = FirstState(p) /\ \A n \in 1..Len(p) : round[n] = offered[round[n - 1]]
  BY <1>4, <1>8
<1>10. 0..Len(p) \subseteq {n \in 0..Len(p) : round[n] \in States(p)}
  <2> DEFINE T == {n \in 0..Len(p) : round[n] \in States(p)}
  <2>1. 0 \in T /\ \A n \in 1..Len(p) : n - 1 \in T => n \in T
    BY <1>2, <1>3, <1>4, <1>9
  <2> HIDE DEF T
  <2>2. 0..Len(p) \subseteq T
    BY <1>4, <2>1, Induction
  <2> QED
    BY <2>2 DEF T
<1>11. round \in [0..Len(p) -> States(p)]
  BY <1>8, <1>10
<1>12. \A n \in 1..Len(p) : round[n] = Offer(p, round[n - 1])
  <2> TAKE n \in 1..Len(p)
  <2>1. round[n - 1] \in States(p) /\ round[n] = offered[round[n - 1]]
    BY <1>4, <1>9, <1>11
  <2> QED
    BY <2>1 DEF offered
<1> QED
  BY <1>1, <1>9, <1>11, <1>12
\* A batch, or the beginning of one, around its anchor a.
GoodBatch(a, b) ==
  /\ b \in Seq(Ids) /\ Len(b) <= MaxBatchSize
  /\ \A k \in DOMAIN b : /\ IsText(b[k]) /\ Compatible(a, b[k])
                         /\ TokenCount(b[k]) * Len(b) <= MaxBatchTokens
  /\ b # << >> => b[1] = a

GoodState(p, s) ==
  /\ s \in States(p) /\ GoodBatch(p[1], s.batch)
  /\ s.left \subseteq Compatibles(p)
  /\ s.batch = << >> => s.left = Compatibles(p)
  /\ \A k \in DOMAIN s.batch : \E i \in DOMAIN p : s.batch[k] = p[i]

\* An offer keeps the limits, whether it is taken or not.
LEMMA OfferKeepsGood ==
  ASSUME NEW p \in Seq(Ids), p # << >>, \A i \in DOMAIN p : IsText(p[i]),
         NEW s, GoodState(p, s)
  PROVE  GoodState(p, Offer(p, s)) /\ Offer(p, s).batch # << >>
<1>1. 1 \in DOMAIN p /\ 1 \in Compatibles(p)
  <2>1. Len(p) \in Nat \ {0} /\ DOMAIN p = 1..Len(p)
    BY EmptySeq, LenProperties
  <2> QED
    BY <2>1 DEF Compatibles, Compatible
<1> USE DEF GoodState
<1>2. CASE s.left = {}
  BY <1>1, <1>2 DEF Offer
<1> DEFINE i == First(p, s.left)
           b == s.batch
           taken == Len(b) < MaxBatchSize /\ WouldFit(b, p[i])
           o == Offer(p, s)
<1>3. CASE s.left # {}
  <2>1. i \in s.left /\ i \in DOMAIN p /\ (1 \in s.left => i = 1)
    BY <1>3, FirstIsLeft DEF States
  <2>2. IsText(p[i]) /\ Compatible(p[1], p[i])
    BY <2>1 DEF Compatibles
  <2>3. /\ b \in Seq(Ids) /\ Len(b) \in Nat /\ DOMAIN b = 1..Len(b)
        /\ p[i] \in Ids
        /\ GoodBatch(p[1], b)
    BY <2>2, LenProperties DEF States, IsText
  <2>4. o = [batch |-> IF taken THEN Append(b, p[i]) ELSE b, left |-> s.left \ {i}]
    BY <1>3 DEF Offer
  <2> HIDE DEF o
  <2>5. ASSUME taken PROVE GoodState(p, o) /\ o.batch # << >>
    <3> DEFINE a == Append(b, p[i])
    <3>1. /\ a \in Seq(Ids) /\ Len(a) = Len(b) + 1 /\ a # << >>
          /\ \A k \in 1..Len(b) : a[k] = b[k]
          /\ a[Len(b) + 1] = p[i]
      BY <2>3, AppendProperties
    <3>2. o.batch = a /\ o.left = s.left \ {i}
      BY <2>4, <2>5
    <3>3. DOMAIN a = 1..Len(b) + 1
      BY <3>1, LenProperties
    <3> HIDE DEF a
    <3>4. Len(a) <= MaxBatchSize
      BY <2>3, <2>5, <3>1, ConstantsAssumption
    <3>5. a[1] = p[1]
      <4>1. CASE b = << >>
        <5>1. s.left = Compatibles(p) /\ i = 1
          BY <1>1, <2>1, <4>1
        <5>2. Len(b) = 0
          BY <4>1, EmptySeq
        <5> QED
          BY <3>1, <5>1, <5>2
      <4>2. CASE b # << >>
        <5>1. Len(b) # 0 /\ b[1] = p[1]
          BY <2>3, <4>2, EmptySeq DEF GoodBatch
        <5> QED
          BY <2>3, <3>1, <5>1
      <4> QED
        BY <4>1, <4>2
    <3>6. ASSUME NEW k \in DOMAIN a
          PROVE  /\ IsText(a[k]) /\ Compatible(p[1], a[k])
                 /\ TokenCount(a[k]) * Len(a) <= MaxBatchTokens
                 /\ \E m \in DOMAIN p : a[k] = p[m]
      <4>1. CASE k \in 1..Len(b)
        <5>1. a[k] = b[k] /\ k \in DOMAIN b
          BY <2>3, <3>1, <4>1
        <5>2. IsText(b[k]) /\ Compatible(p[1], b[k]) /\ b[k] \in ToSet(b)
          BY <2>3, <5>1 DEF GoodBatch, ToSet
        <5>3. TokenCount(b[k]) * (Len(b) + 1) <= MaxBatchTokens
          BY <2>5, <5>2 DEF WouldFit
        <5> QED
          BY <3>1, <5>1, <5>2, <5>3
      <4>2. CASE k = Len(b) + 1
        <5>1. a[k] = p[i]
          BY <3>1, <4>2
        <5>2. TokenCount(p[i]) * (Len(b) + 1) <= MaxBatchTokens
          BY <2>5 DEF WouldFit
        <5> QED
          BY <2>1, <2>2, <3>1, <5>1, <5>2
      <4> QED
        BY <2>3, <3>3, <4>1, <4>2
    <3>7. GoodBatch(p[1], a)
      BY <3>1, <3>4, <3>5, <3>6 DEF GoodBatch
    <3>8. o \in States(p)
      BY <2>4, <2>5, <3>1 DEF States, a
    <3> QED
      BY <3>1, <3>2, <3>6, <3>7, <3>8
  <2>6. ASSUME ~taken PROVE GoodState(p, o) /\ o.batch # << >>
    <3>1. o = [batch |-> b, left |-> s.left \ {i}]
      BY <2>4, <2>6
    <3>2. b # << >>
      <4> SUFFICES ASSUME b = << >> PROVE taken
        BY <2>6
      <4>1. i = 1 /\ Len(b) = 0 /\ ToSet(b) = {}
        BY <1>1, <2>1, <2>3, EmptySeq DEF ToSet
      <4>2. TokenCount(p[1]) \in Nat /\ TokenCount(p[1]) <= MaxBatchTokens
        BY <2>2, <4>1, TextTokens DEF IsText
      <4>3. TokenCount(p[1]) * (0 + 1) <= MaxBatchTokens
        BY <4>2
      <4>4. WouldFit(b, p[1])
        BY <4>1, <4>3 DEF WouldFit
      <4>5. Len(b) < MaxBatchSize
        BY <4>1, ConstantsAssumption
      <4> QED
        BY <4>1, <4>4, <4>5
    <3>3. o \in States(p) /\ o.batch = b /\ o.left \subseteq Compatibles(p)
      BY <3>1 DEF States
    <3> QED
      BY <3>2, <3>3
  <2> QED
    BY <2>5, <2>6 DEF o
<1> QED
  BY <1>2, <1>3

\* What _select_batch_locked returns ...
LEMMA SelectedBatch ==
  ASSUME NEW p \in Seq(Ids), p # << >>, \A i \in DOMAIN p : IsText(p[i])
  PROVE  /\ GoodBatch(p[1], SelectBatch(p)) /\ SelectBatch(p) # << >>
<1>1. PICK r \in [0..Len(p) -> States(p)] :
        /\ r[0] = FirstState(p)
        /\ \A n \in 1..Len(p) : r[n] = Offer(p, r[n - 1])
        /\ SelectBatch(p) = r[Len(p)].batch
  BY Rounds
<1>2. Len(p) \in Nat \ {0}
  BY EmptySeq, LenProperties
<1> DEFINE T == {n \in 0..Len(p) : GoodState(p, r[n]) /\ (n # 0 => r[n].batch # << >>)}
<1>3. 0 \in T
  <2>1. r[0] \in States(p) /\ r[0].batch = << >> /\ r[0].left = Compatibles(p)
    BY <1>1, <1>2 DEF FirstState
  <2>2. << >> \in Seq(Ids) /\ Len(<< >>) = 0 /\ DOMAIN << >> = {}
    BY EmptySeq, LenProperties
  <2>3. GoodBatch(p[1], << >>)
    BY <2>2, ConstantsAssumption DEF GoodBatch
  <2> QED
    BY <1>2, <2>1, <2>2, <2>3 DEF GoodState
<1>4. ASSUME NEW n \in 1..Len(p), n - 1 \in T PROVE n \in T
  <2>1. GoodState(p, r[n - 1]) /\ r[n] = Offer(p, r[n - 1])
    BY <1>1, <1>4
  <2>2. GoodState(p, r[n]) /\ r[n].batch # << >>
    BY <2>1, OfferKeepsGood
  <2> QED
    BY <1>2, <2>2
<1>5. Len(p) \in T
  <2> HIDE DEF T
  <2>1. 0..Len(p) \subseteq T
    BY <1>2, <1>3, <1>4, Induction
  <2> QED
    BY <1>2, <2>1
<1> QED
  BY <1>1, <1>2, <1>5 DEF GoodState

\* An empty list gives an empty batch.
LEMMA NothingSelected == SelectBatch(<< >>) = << >>
<1>1. << >> \in Seq(Ids) /\ Len(<< >>) = 0 /\ DOMAIN << >> = {}
  BY EmptySeq, LenProperties
<1>2. PICK r \in [0..Len(<< >>) -> States(<< >>)] :
        /\ r[0] = FirstState(<< >>)
        /\ SelectBatch(<< >>) = r[Len(<< >>)].batch
  BY <1>1, Rounds
<1> QED
  BY <1>1, <1>2 DEF FirstState

Keep(p, b, n, s) == IF p[n] \in ToSet(b) THEN s ELSE Append(s, p[n])

\* What the choice of b leaves of the list is a part of it, and all that is not in b.
LEMMA RemainingJobs ==
  ASSUME NEW p \in Seq(Ids), NEW b
  PROVE  /\ Remaining(p, b) \in Seq(Ids)
         /\ \A j \in ToSet(p) : j \in ToSet(b) \/ j \in ToSet(Remaining(p, b))
         /\ ToSet(Remaining(p, b)) \subseteq ToSet(p)
<1> DEFINE kept[n \in 0..Len(p)] == IF n = 0 THEN << >> ELSE Keep(p, b, n, kept[n - 1])
<1>1. Remaining(p, b) = kept[Len(p)]
  BY DEF Remaining, Keep
<1>2. Len(p) \in Nat /\ DOMAIN p = 1..Len(p) /\ \A n \in 1..Len(p) : p[n] \in Ids
  BY LenProperties, ElementOfSeq
<1> HIDE DEF kept
<1>3. PICK f \in [0..Len(p) -> Seq(Ids)] :
        f[0] = << >> /\ \A n \in 1..Len(p) : f[n] = Keep(p, b, n, f[n - 1])
  <2> DEFINE step == [n \in 1..Len(p) |-> [s \in Seq(Ids) |-> Keep(p, b, n, s)]]
  <2>1. \A n \in 1..Len(p) : \A s \in Seq(Ids) : Keep(p, b, n, s) \in Seq(Ids)
    BY <1>2, AppendProperties DEF Keep
  <2>2. step \in [1..Len(p) -> [Seq(Ids) -> Seq(Ids)]]
    BY <2>1
  <2>3. \A n \in 1..Len(p) : \A s \in Seq(Ids) : step[n][s] = Keep(p, b, n, s)
    OBVIOUS
  <2> HIDE DEF step
  <2>4. Runs(Len(p), Seq(Ids), << >>, step) # {}
    BY <1>2, <2>2, EmptySeq, Recursion
  <2>5. PICK g \in [0..Len(p) -> Seq(Ids)] :
          g[0] = << >> /\ \A n \in 1..Len(p) : g[n] = step[n][g[n - 1]]
    BY <2>4 DEF Runs
  <2>6. \A n \in 1..Len(p) : g[n - 1] \in Seq(Ids)
    BY <1>2
  <2>7. \A n \in 1..Len(p) : g[n] = Keep(p, b, n, g[n - 1])
    BY <2>3, <2>5, <2>6
  <2> QED
    BY <2>5, <2>7
<1>4. kept = [n \in 0..Len(p) |-> IF n = 0 THEN << >> ELSE Keep(p, b, n, kept[n - 1])]
  <2>1. f = [n \in 0..Len(p) |-> IF n = 0 THEN << >> ELSE Keep(p, b, n, f[n - 1])]
    BY <1>2, <1>3
  <2>2. \E g : g = [n \in 0..Len(p) |-> IF n = 0 THEN << >> ELSE Keep(p, b, n, g[n - 1])]
    BY <2>1
  <2> QED
    BY <2>2 DEF kept
<1>5. kept[0] = << >>
  BY <1>2, <1>4
<1>9. ASSUME NEW n \in 1..Len(p) PROVE kept[n] = Keep(p, b, n, kept[n - 1])
  <2>1. n \in 0..Len(p) /\ n # 0
    BY <1>2
  <2> HIDE DEF Keep
  <2> QED
    BY <1>4, <2>1
<1> DEFINE T == {n \in 0..Len(p) :
                   /\ kept[n] \in Seq(Ids)
                   /\ \A i \in 1..n : p[i] \in ToSet(b) \/ p[i] \in ToSet(kept[n])
                   /\ ToSet(kept[n]) \subseteq ToSet(p)}
<1>6. 0 \in T
  <2>1. << >> \in Seq(Ids) /\ ToSet(<< >>) = {}
    BY EmptySeq, LenProperties DEF ToSet
  <2>2. \A i \in 1..0 : p[i] \in ToSet(b) \/ p[i] \in ToSet(kept[0])
    OBVIOUS
  <2>3. kept[0] \in Seq(Ids) /\ ToSet(kept[0]) \subseteq ToSet(p)
    BY <1>5, <2>1
  <2>4. 0 \in 0..Len(p)
    BY <1>2
  <2> QED
    BY <2>2, <2>3, <2>4
<1>7. ASSUME NEW n \in 1..Len(p), n - 1 \in T PROVE n \in T
  <2>1. /\ kept[n - 1] \in Seq(Ids) /\ ToSet(kept[n - 1]) \subseteq ToSet(p)
        /\ \A i \in 1..n - 1 : p[i] \in ToSet(b) \/ p[i] \in ToSet(kept[n - 1])
        /\ kept[n] = Keep(p, b, n, kept[n - 1])
    BY <1>7, <1>9
  <2>2. \A i \in 1..n : i = n \/ i \in 1..n - 1
    BY <1>2
  <2>3. p[n] \in ToSet(p) /\ p[n] \in Ids
    BY <1>2 DEF ToSet
  <2>4. CASE p[n] \in ToSet(b)
    BY <1>2, <2>1, <2>2, <2>4 DEF Keep
  <2>5. CASE p[n] \notin ToSet(b)
    <3>1. kept[n] = Append(kept[n - 1], p[n])
      BY <2>1, <2>5 DEF Keep
    <3>2. kept[n] \in Seq(Ids) /\ ToSet(kept[n]) = ToSet(kept[n - 1]) \cup {p[n]}
      <4> DEFINE s == kept[n - 1]
                 a == Append(s, p[n])
      <4>1. /\ a \in Seq(Ids) /\ Len(a) = Len(s) + 1
            /\ \A i \in 1..Len(s) : a[i] = s[i]
            /\ a[Len(s) + 1] = p[n]
        BY <2>1, <2>3, AppendProperties
      <4>2. DOMAIN a = 1..Len(s) + 1 /\ DOMAIN s = 1..Len(s) /\ Len(s) \in Nat
        BY <2>1, <4>1, LenProperties
      <4> HIDE DEF a, s
      <4>3. ToSet(a) = ToSet(s) \cup {p[n]}
        BY <4>1, <4>2 DEF ToSet
      <4> QED
        BY <3>1, <4>1, <4>3 DEF a, s
    <3> QED
      BY <1>2, <2>1, <2>2, <2>3, <3>2
  <2> QED
    BY <2>4, <2>5
<1>8. Len(p) \in T
  <2> HIDE DEF T
  <2>1. 0..Len(p) \subseteq T
    BY <1>2, <1>6, <1>7, Induction
  <2> QED
    BY <1>2, <2>1
<1>10. \A j \in ToSet(p) : \E i \in 1..Len(p) : p[i] = j
  BY <1>2 DEF ToSet
<1> QED
  BY <1>1, <1>8, <1>10
-----------------------------------------------------------------------------
(* The worker *)

Live(w) == pc[w] \notin {"unborn", "done"}

ControlTypes ==
  /\ worker \in Workers \cup {None}
  /\ pc \in [Workers -> {"unborn", "ready", "waiting", "notified", "filling", "refilled",
                         "gate", "call", "done"}]
  /\ cancelled \in SUBSET Workers
  /\ gate \in Seq(Users)
  /\ batch = [w \in Workers |-> batch[w]]

\* As in RerankQueueProofs: _worker_task names the only live task, and stop() is the
\* only one to cancel it.
WorkerInv ==
  /\ \A w \in Workers : Live(w) => worker = w
  /\ worker # None => pc[worker] # "unborn"
  /\ \A w \in cancelled : pc[w] # "unborn" /\ (worker = w => stopping)
  /\ stopCall = "awaiting" => worker # None

\* A worker has a batch in its hands exactly while it is busy, and stands in the
\* line of the gate once exactly while it is; one that calls the model heads it.
BatchInv == \A w \in Workers : Busy(w) <=> batch[w] # << >>

GateInv ==
  /\ IsInjective(gate)
  /\ \A w \in Workers : /\ Busy(w) <=> InLine(gate, w)
                        /\ pc[w] = "call" => Holds(gate, w)

IInv == ControlTypes /\ WorkerInv /\ BatchInv /\ GateInv /\ FullQueueIsNoticed

-----------------------------------------------------------------------------
\* No worker exists at first.
LEMMA InitIInv == Init => IInv
<1> SUFFICES ASSUME Init PROVE IInv
  OBVIOUS
<1> USE DEF Init
<1>1. << >> \in Seq(Users) /\ DOMAIN << >> = {}
  BY EmptySeq, LenProperties
<1>2. ControlTypes /\ WorkerInv
  BY <1>1 DEF ControlTypes, WorkerInv, Live
<1>3. BatchInv /\ GateInv /\ FullQueueIsNoticed
  BY <1>1 DEF BatchInv, GateInv, Busy, InLine, IsInjective, FullQueueIsNoticed
<1> QED
  BY <1>2, <1>3 DEF IInv

\* A worker that is alone, with no batch left, takes a batch from the list,
\* whichever it is, and joins the line of the gate.
LEMMA ServeBatchKeepsIInv ==
  ASSUME ControlTypes, WorkerInv, NEW w \in Workers, Live(w),
         NEW atGate \in Seq(Users), IsInjective(atGate),
         \A v \in Workers : ~InLine(atGate, v),
         \A v \in Workers : v # w => batch[v] = << >> /\ ~Busy(v),
         NEW n, ServeBatch(w, atGate, n),
         UNCHANGED << worker, stopping, stopCall, cancelled >>
  PROVE  IInv'
<1>1. worker = w /\ \A v \in Workers : v # w => ~Live(v)
  BY DEF WorkerInv
<1>2. w \in Users
  BY DEF Users
<1>3. /\ gate' = Acquire(atGate, w)
      /\ gate' \in Seq(Users)
      /\ IsInjective(gate')
      /\ \A v : InLine(gate', v) <=> (v = w \/ InLine(atGate, v))
      /\ Free(atGate) => Holds(gate', w)
  BY <1>2, AcquireLemma DEF ServeBatch
<1>4. PICK b : b # << >> /\ batch' = [batch EXCEPT ![w] = b]
  BY DEF ServeBatch
<1>5. \/ Free(atGate) /\ pc' = [pc EXCEPT ![w] = "call"]
      \/ pc' = [pc EXCEPT ![w] = "gate"]
  BY DEF ServeBatch
<1>6. ControlTypes'
  BY <1>3, <1>4, <1>5 DEF ControlTypes
<1>7. WorkerInv'
  BY <1>1, <1>5 DEF WorkerInv, Live, ControlTypes
<1>8. BatchInv'
  BY <1>4, <1>5 DEF BatchInv, Busy, ControlTypes
<1>9. GateInv'
  BY <1>3, <1>5 DEF GateInv, Busy, ControlTypes
<1>10. FullQueueIsNoticed'
  BY <1>1, <1>5 DEF FullQueueIsNoticed, Live, ControlTypes
<1> QED
  BY <1>6, <1>7, <1>8, <1>9, <1>10 DEF IInv

\* The loop of _run: the worker falls asleep, waits for more, or serves.
LEMMA NextBatchKeepsIInv ==
  ASSUME ControlTypes, WorkerInv, NEW w \in Workers, Live(w),
         NEW atGate \in Seq(Users), IsInjective(atGate),
         \A v \in Workers : ~InLine(atGate, v),
         \A v \in Workers : v # w => batch[v] = << >> /\ ~Busy(v),
         NEW n, NextBatch(w, atGate, n),
         UNCHANGED << worker, stopping, stopCall, cancelled >>
  PROVE  IInv'
<1>1. CASE ServeBatch(w, atGate, n)
  BY <1>1, ServeBatchKeepsIInv
<1>2. CASE /\ Len(pending) < MaxBatchSize
           /\ pc' = [pc EXCEPT ![w] = IF pending = << >> THEN "waiting" ELSE "filling"]
           /\ batch' = [batch EXCEPT ![w] = << >>]
           /\ gate' = atGate
           /\ pending' = pending
  <2>1. worker = w /\ \A v \in Workers : v # w => ~Live(v)
    BY DEF WorkerInv
  <2>2. \/ pc' = [pc EXCEPT ![w] = "waiting"]
        \/ pc' = [pc EXCEPT ![w] = "filling"]
    BY <1>2
  <2>3. ControlTypes'
    BY <1>2, <2>2 DEF ControlTypes
  <2>4. WorkerInv'
    BY <2>1, <2>2 DEF WorkerInv, Live, ControlTypes
  <2>5. BatchInv'
    BY <1>2, <2>2 DEF BatchInv, Busy, ControlTypes
  <2>6. GateInv'
    BY <1>2, <2>2 DEF GateInv, Busy, ControlTypes
  <2>7. FullQueueIsNoticed'
    BY <1>2 DEF FullQueueIsNoticed
  <2> QED
    BY <2>3, <2>4, <2>5, <2>6, <2>7 DEF IInv
<1> QED
  BY <1>1, <1>2 DEF NextBatch
-----------------------------------------------------------------------------
\* Every action keeps IInv.
LEMMA NextKeepsIInv == IInv /\ [Next]_vars => IInv'
<1> SUFFICES ASSUME IInv, [Next]_vars PROVE IInv'
  OBVIOUS
<1> USE DEF IInv
<1>0. \A w \in Workers : w # None /\ w \in Users
  BY ConstantsAssumption DEF Users
<1>1. ASSUME UNCHANGED << pending, worker, stopping, stopCall, pc, cancelled, batch, gate >>
      PROVE  IInv'
  BY <1>1 DEF ControlTypes, WorkerInv, Live, BatchInv, GateInv, Busy, FullQueueIsNoticed
<1>2. ASSUME NEW w \in Workers, StartWorker(w),
             UNCHANGED << stopCall, cancelled, batch, gate >>
      PROVE  IInv'
  <2> USE <1>2 DEF StartWorker
  <2>1. ControlTypes' /\ BatchInv' /\ GateInv'
    BY DEF ControlTypes, BatchInv, GateInv, Busy
  <2>2. WorkerInv' /\ FullQueueIsNoticed'
    BY <1>0 DEF WorkerInv, Live, ControlTypes, FullQueueIsNoticed
  <2> QED
    BY <2>1, <2>2
<1>3. ASSUME NEW w \in Workers, Start(w) PROVE IInv'
  BY <1>2, <1>3 DEF Start
<1>4. ASSUME pc' = Notified,
             UNCHANGED << worker, batch, gate >>,
             WorkerInv', cancelled' \in SUBSET Workers
      PROVE  IInv'
  BY <1>4 DEF ControlTypes, Notified, BatchInv, GateInv, Busy, FullQueueIsNoticed
<1>5. ASSUME NEW r \in Calls, NEW in \in Inputs, Embed(r, in) PROVE IInv'
  <2> USE <1>5 DEF Embed
  <2>1. CASE worker # None /\ pending' = pending /\ pc' = pc /\ UNCHANGED << worker, stopping >>
    BY <1>1, <2>1
  <2>2. CASE worker # None /\ pc' = Notified /\ UNCHANGED << worker, stopping >>
    <3>1. WorkerInv'
      BY <2>2 DEF WorkerInv, Live, Notified, ControlTypes
    <3> QED
      BY <1>4, <2>2, <3>1 DEF ControlTypes
  <2>3. CASE \E w \in Workers : StartWorker(w)
    BY <1>2, <2>3
  <2> QED
    BY <2>1, <2>2, <2>3
<1>6. CASE Stop
  <2> USE <1>6 DEF Stop
  <2>1. WorkerInv'
    BY <1>0 DEF WorkerInv, Live, Notified, ControlTypes
  <2>2. cancelled' \in SUBSET Workers
    BY DEF ControlTypes
  <2> QED
    BY <1>4, <2>1, <2>2
<1>7. CASE StopReturns
  <2> USE <1>7 DEF StopReturns
  <2>1. ControlTypes' /\ BatchInv' /\ GateInv'
    BY DEF ControlTypes, BatchInv, GateInv, Busy
  <2>2. WorkerInv'
    BY <1>0 DEF WorkerInv, Live, ControlTypes
  <2>3. FullQueueIsNoticed'
    BY ConstantsAssumption, EmptySeq DEF CancelPendingFutures, FullQueueIsNoticed
  <2> QED
    BY <2>1, <2>2, <2>3
<1>8. ASSUME NEW w \in Workers, Live(w), ~Busy(w)
      PROVE  /\ gate \in Seq(Users) /\ IsInjective(gate)
             /\ \A v \in Workers : ~InLine(gate, v)
             /\ \A v \in Workers : v # w => batch[v] = << >> /\ ~Busy(v)
  BY <1>8 DEF WorkerInv, Live, BatchInv, GateInv, Busy, ControlTypes
<1>9. ASSUME NEW w \in Workers, Run(w) PROVE IInv'
  <2>1. Live(w) /\ ~Busy(w)
    BY <1>9 DEF Run, Live, Busy
  <2>2. NextBatch(w, gate, active) /\ UNCHANGED << worker, stopping, stopCall, cancelled >>
    BY <1>9 DEF Run
  <2> QED
    BY <1>8, <2>1, <2>2, NextBatchKeepsIInv
<1>10. ASSUME NEW w \in Workers, Live(w), ~Busy(w), ServeBatch(w, gate, active),
              UNCHANGED << worker, stopping, stopCall, cancelled >>
       PROVE  IInv'
  BY <1>8, <1>10, ServeBatchKeepsIInv
<1>11. ASSUME NEW w \in Workers, Refilled(w) PROVE IInv'
  <2>1. Live(w) /\ ~Busy(w) /\ UNCHANGED << worker, stopping, stopCall, cancelled >>
    BY <1>11 DEF Refilled, Live, Busy
  <2>2. CASE ServeBatch(w, gate, active)
    BY <1>10, <2>1, <2>2
  <2>3. CASE /\ Len(pending) < MaxBatchSize
             /\ pc' = [pc EXCEPT ![w] = "filling"]
             /\ UNCHANGED << pending, batch, gate >>
    <3>1. ControlTypes' /\ WorkerInv'
      BY <2>1, <2>3 DEF ControlTypes, WorkerInv, Live
    <3>2. BatchInv' /\ GateInv' /\ FullQueueIsNoticed'
      BY <2>1, <2>3 DEF ControlTypes, BatchInv, GateInv, Busy, FullQueueIsNoticed
    <3> QED
      BY <3>1, <3>2
  <2> QED
    BY <1>11, <2>2, <2>3 DEF Refilled
<1>12. ASSUME NEW w \in Workers, Timeout(w) PROVE IInv'
  <2>1. Live(w) /\ ~Busy(w) /\ UNCHANGED << worker, stopping, stopCall, cancelled >>
    BY <1>12 DEF Timeout, Live, Busy
  <2> QED
    BY <1>10, <1>12, <2>1 DEF Timeout
<1>13. ASSUME NEW w \in Workers, EnterGate(w) PROVE IInv'
  <2> USE <1>13 DEF EnterGate
  <2>1. ControlTypes' /\ WorkerInv'
    BY DEF ControlTypes, WorkerInv, Live
  <2>2. BatchInv' /\ GateInv' /\ FullQueueIsNoticed'
    BY DEF ControlTypes, BatchInv, GateInv, Busy, FullQueueIsNoticed
  <2> QED
    BY <2>1, <2>2
<1>14. ASSUME NEW w \in Workers, Busy(w)
       PROVE  /\ Live(w)
              /\ \A v \in Workers : v # w => ~Live(v) /\ batch[v] = << >> /\ ~Busy(v)
              /\ Leave(gate, w) \in Seq(Users) /\ IsInjective(Leave(gate, w))
              /\ \A v : InLine(Leave(gate, w), v) <=> (v # w /\ InLine(gate, v))
              /\ \A v \in Workers : ~InLine(Leave(gate, w), v)
  <2>1. Live(w) /\ \A v \in Workers : v # w => ~Live(v) /\ batch[v] = << >> /\ ~Busy(v)
    BY <1>14 DEF WorkerInv, Live, BatchInv, Busy
  <2>2. gate \in Seq(Users) /\ IsInjective(gate) /\ InLine(gate, w)
    BY <1>14 DEF GateInv, ControlTypes
  <2>3. /\ Leave(gate, w) \in Seq(Users) /\ IsInjective(Leave(gate, w))
        /\ \A v : InLine(Leave(gate, w), v) <=> (v # w /\ InLine(gate, v))
    BY <2>2, LeaveLemma
  <2> QED
    BY <2>1, <2>3 DEF GateInv
<1>15. ASSUME NEW w \in Workers, FinishBatch(w) PROVE IInv'
  <2>1. Busy(w) /\ UNCHANGED << worker, stopping, stopCall, cancelled >>
    BY <1>15 DEF FinishBatch, Busy
  <2>2. NextBatch(w, Leave(gate, w), active - Len(batch[w]))
    BY <1>15 DEF FinishBatch
  <2> QED
    BY <1>14, <2>1, <2>2, NextBatchKeepsIInv
<1>16. ASSUME NEW w \in Workers, CancelIdleWorker(w) PROVE IInv'
  <2> USE <1>16 DEF CancelIdleWorker
  <2>1. ControlTypes' /\ WorkerInv'
    BY DEF ControlTypes, WorkerInv, Live
  <2>2. BatchInv' /\ GateInv' /\ FullQueueIsNoticed'
    BY DEF ControlTypes, BatchInv, GateInv, Busy, FullQueueIsNoticed
  <2> QED
    BY <2>1, <2>2
<1>17. ASSUME NEW w \in Workers, CancelBusyWorker(w) PROVE IInv'
  <2> USE <1>17 DEF CancelBusyWorker
  <2>1. Busy(w)
    BY DEF Busy
  <2>2. ControlTypes'
    BY <1>14, <2>1 DEF ControlTypes
  <2>3. WorkerInv'
    BY DEF ControlTypes, WorkerInv, Live
  <2>4. BatchInv'
    BY DEF ControlTypes, BatchInv, Busy
  <2>5. GateInv'
    BY <1>14, <2>1 DEF ControlTypes, GateInv, Busy
  <2>6. FullQueueIsNoticed'
    BY DEF ControlTypes, FullQueueIsNoticed
  <2> QED
    BY <2>2, <2>3, <2>4, <2>5, <2>6
<1>18. ASSUME NEW u \in Others, OtherAcquires(u) PROVE IInv'
  <2> USE <1>18 DEF OtherAcquires
  <2>1. u \in Users /\ u \notin Workers
    BY ConstantsAssumption DEF Users
  <2>2. gate \in Seq(Users) /\ IsInjective(gate) /\ ~InLine(gate, u)
    BY DEF GateInv, ControlTypes
  <2>3. /\ gate' \in Seq(Users) /\ IsInjective(gate')
        /\ \A v : InLine(gate', v) <=> (v = u \/ InLine(gate, v))
        /\ \A v : Holds(gate, v) => Holds(gate', v)
    BY <2>1, <2>2, AcquireLemma
  <2>4. ControlTypes' /\ WorkerInv' /\ BatchInv' /\ FullQueueIsNoticed'
    BY <2>3 DEF ControlTypes, WorkerInv, Live, BatchInv, Busy, FullQueueIsNoticed
  <2>5. GateInv'
    BY <2>1, <2>3 DEF GateInv, Busy
  <2> QED
    BY <2>4, <2>5
<1>19. ASSUME NEW u \in Others, OtherLeaves(u) PROVE IInv'
  <2> USE <1>19 DEF OtherLeaves
  <2>1. u \in Users /\ u \notin Workers
    BY ConstantsAssumption DEF Users
  <2>2. gate \in Seq(Users) /\ IsInjective(gate) /\ InLine(gate, u)
    BY DEF GateInv, ControlTypes
  <2>3. /\ gate' \in Seq(Users) /\ IsInjective(gate')
        /\ \A v : v # u => (InLine(gate', v) <=> InLine(gate, v))
        /\ \A v : v # u /\ Holds(gate, v) => Holds(gate', v)
    BY <2>1, <2>2, RejoinLemma
  <2>4. ControlTypes' /\ WorkerInv' /\ BatchInv' /\ FullQueueIsNoticed'
    BY <2>3 DEF ControlTypes, WorkerInv, Live, BatchInv, Busy, FullQueueIsNoticed
  <2>5. GateInv'
    BY <2>1, <2>3 DEF GateInv, Busy
  <2> QED
    BY <2>4, <2>5
<1> QED
  BY <1>1, <1>3, <1>5, <1>6, <1>7, <1>9, <1>11, <1>12, <1>13, <1>15, <1>16, <1>17, <1>18,
     <1>19 DEF Next, QueueStep, Work, WorkerStep, CallerCancelled, ThreadStarts, ThreadEnds, vars

\* IInv is an invariant.
LEMMA Invariance == Spec => []IInv
<1> QED
  BY InitIInv, NextKeepsIInv, PTL DEF Spec

\* A worker that waits for more texts has not enough of them: every step that makes
\* the queue long enough wakes it, and only the current worker waits at all
\* (batching.py:112, :131-139).
THEOREM NoFullQueueIsMissed == Spec => []FullQueueIsNoticed
<1>1. IInv => FullQueueIsNoticed
  BY DEF IInv
<1> QED
  BY <1>1, Invariance, PTL

\* However start(), stop() and embed() overlap, one worker at most has a batch, and
\* it stands in the line of the gate once exactly while it has it: it has left the
\* gate on every path that ends its work (batching.py:56-75, :173-199).
THEOREM OneBatchAtATime ==
  Spec => []( /\ \A v, w \in Workers : batch[v] # << >> /\ batch[w] # << >> => v = w
              /\ IsInjective(gate)
              /\ \A w \in Workers : batch[w] # << >> <=> InLine(gate, w) )
<1>1. IInv => /\ \A v, w \in Workers : batch[v] # << >> /\ batch[w] # << >> => v = w
              /\ IsInjective(gate)
              /\ \A w \in Workers : batch[w] # << >> <=> InLine(gate, w)
  BY DEF IInv, WorkerInv, Live, BatchInv, GateInv, Busy
<1> QED
  BY <1>1, Invariance, PTL

\* All that a step of the queue does to the gate: one of its workers, which is not in
\* the line, joins it, or one that is leaves it, or leaves and joins it anew
\* (batching.py:174-189).
UsesGate ==
  \/ gate' = gate
  \/ \E w \in Workers : ~InLine(gate, w) /\ gate' = Acquire(gate, w)
  \/ \E w \in Workers : /\ InLine(gate, w)
                       /\ gate' \in {Leave(gate, w), Acquire(Leave(gate, w), w)}

\* So another queue sees the steps of this one as those of other users of the gate.
LEMMA QueueUsesGate == IInv /\ QueueStep => UsesGate
<1> SUFFICES ASSUME IInv, QueueStep PROVE UsesGate
  OBVIOUS
<1>1. ASSUME NEW w \in Workers
      PROVE  ~Busy(w) <=> ~InLine(gate, w)
  BY <1>1 DEF IInv, GateInv
<1>2. ASSUME NEW w \in Workers, NEW atGate, NEW n, NextBatch(w, atGate, n)
      PROVE  gate' = atGate \/ gate' = Acquire(atGate, w)
  BY <1>2 DEF NextBatch, ServeBatch
<1>3. ASSUME NEW w \in Workers, Run(w) \/ Refilled(w) \/ Timeout(w) PROVE UsesGate
  BY <1>1, <1>2, <1>3 DEF Run, Refilled, Timeout, ServeBatch, Busy, UsesGate
<1>4. ASSUME NEW w \in Workers, FinishBatch(w) PROVE UsesGate
  BY <1>1, <1>2, <1>4 DEF FinishBatch, Busy, UsesGate
<1>5. ASSUME NEW w \in Workers, CancelBusyWorker(w) PROVE UsesGate
  BY <1>1, <1>5 DEF CancelBusyWorker, Busy, UsesGate
<1>6. CASE UNCHANGED gate
  BY <1>6 DEF UsesGate
<1> QED
  BY <1>3, <1>4, <1>5, <1>6
     DEF QueueStep, Work, WorkerStep, Start, Embed, CallerCancelled, Stop, StopReturns,
         EnterGate, CancelIdleWorker, ThreadStarts, ThreadEnds

-----------------------------------------------------------------------------
(* The futures *)

Outcomes == {"result", "error", "cancelled"}

IsRejected(r) == input[r] # None /\ \E i \in DOMAIN input[r].counts : Oversize(input[r], i)

\* Neither a call that was not made nor one that was rejected has futures.
FutureInv ==
  /\ input \in [Calls -> Inputs \cup {None}]
  /\ future \in [Ids -> {"none", "pending"} \cup Outcomes]
  /\ \A r \in Calls : input[r] = None \/ IsRejected(r)
                       => \A i \in 1..MaxTexts : future[<< r, i >>] = "none"

\* What happens to a future but its creation.
Settles == \A j \in Ids : future'[j] # future[j] => future[j] = "pending" /\ future'[j] \in Outcomes

\* Every step but a call of embed() only settles futures.
LEMMA StepsSettle ==
  ASSUME FutureInv, [Next]_vars, \A r \in Calls : \A in \in Inputs : ~Embed(r, in)
  PROVE  /\ input' = input
         /\ future' \in [Ids -> {"none", "pending"} \cup Outcomes]
         /\ Settles
<1> USE DEF FutureInv, Outcomes, Settles
<1>1. ASSUME NEW S, NEW o \in Outcomes, future' = Settled(S, o), input' = input
      PROVE  /\ input' = input
             /\ future' \in [Ids -> {"none", "pending"} \cup Outcomes]
             /\ Settles
  BY <1>1 DEF Settled
<1>2. CASE UNCHANGED << input, future >>
  BY <1>2
<1>3. CASE Stop
  BY <1>1, <1>2, <1>3 DEF Stop, CancelPendingFutures
<1>4. CASE StopReturns
  BY <1>1, <1>4 DEF StopReturns, CancelPendingFutures
<1>5. ASSUME NEW r \in Calls, CallerCancelled(r)
      PROVE  future' = Settled(JobsOf(r), "cancelled") /\ input' = input
  BY <1>5 DEF CallerCancelled
<1>6. ASSUME NEW w \in Workers, FinishBatch(w)
      PROVE  /\ future' = Settled(ToSet(batch[w]), thread[w]) /\ input' = input
             /\ thread[w] \in {"result", "error"}
  BY <1>6 DEF FinishBatch
<1>7. ASSUME NEW w \in Workers, WorkerStep(w), ~FinishBatch(w)
      PROVE  UNCHANGED << input, future >>
  BY <1>7 DEF WorkerStep, Run, Refilled, Timeout, EnterGate, CancelIdleWorker, CancelBusyWorker
<1> QED
  BY <1>1, <1>2, <1>3, <1>4, <1>5, <1>6, <1>7
     DEF Next, QueueStep, Work, Start, ThreadStarts, ThreadEnds, OtherAcquires, OtherLeaves, vars

\* embed() creates all futures of the call, or none.
LEMMA EmbedCreates ==
  ASSUME FutureInv, NEW r \in Calls, NEW in \in Inputs, Embed(r, in)
  PROVE  /\ FutureInv'
         /\ \A j \in Ids : future'[j] # future[j] => future[j] = "none"
<1> USE DEF FutureInv, Embed
<1>1. in # None /\ in.counts \in Seq(Nat) /\ DOMAIN in.counts \subseteq 1..MaxTexts
  <2>1. in.counts \in Seq(Nat) /\ Len(in.counts) \in 1..MaxTexts /\ in # None /\ MaxTexts \in Nat
    BY ConstantsAssumption
  <2> QED
    BY <2>1, LenProperties
<1>2. input' = [input EXCEPT ![r] = in] /\ input[r] = None
  OBVIOUS
<1>3. CASE \E i \in DOMAIN in.counts : Oversize(in, i)
  BY <1>1, <1>2, <1>3 DEF Accepted, IsRejected
<1>4. CASE ~\E i \in DOMAIN in.counts : Oversize(in, i)
  <2>1. future' = [j \in Ids |-> IF j[1] = r /\ j[2] \in DOMAIN in.counts
                                 THEN "pending" ELSE future[j]]
    BY <1>4 DEF Accepted
  <2>2. \A j \in Ids : j[1] = r => future[j] = "none"
    BY <1>2 DEF Ids
  <2>3. \A s \in Calls : s # r => \A i \in 1..MaxTexts : future'[<< s, i >>] = future[<< s, i >>]
    BY <2>1 DEF Ids
  <2>4. ~IsRejected(r)' /\ input'[r] # None
    BY <1>1, <1>2, <1>4 DEF IsRejected
  <2>5. \A s \in Calls : s # r => input'[s] = input[s]
    BY <1>2
  <2>6. \A s \in Calls : input'[s] = None \/ IsRejected(s)'
                        => \A i \in 1..MaxTexts : future'[<< s, i >>] = "none"
    BY <2>3, <2>4, <2>5 DEF IsRejected
  <2> QED
    BY <1>2, <2>1, <2>2, <2>6
<1> QED
  BY <1>3, <1>4

\* Every action keeps FutureInv.
LEMMA NextKeepsFutureInv == FutureInv /\ [Next]_vars => FutureInv'
<1> SUFFICES ASSUME FutureInv, [Next]_vars PROVE FutureInv'
  OBVIOUS
<1>1. CASE \E r \in Calls : \E in \in Inputs : Embed(r, in)
  BY <1>1, EmbedCreates
<1>2. CASE \A r \in Calls : \A in \in Inputs : ~Embed(r, in)
  <2>1. input' = input /\ future' \in [Ids -> {"none", "pending"} \cup Outcomes] /\ Settles
    BY <1>2, StepsSettle
  <2>2. \A r \in Calls : \A i \in 1..MaxTexts :
          future[<< r, i >>] = "none" => future'[<< r, i >>] = "none"
    BY <2>1 DEF Settles, Ids
  <2> QED
    BY <2>1, <2>2 DEF FutureInv, IsRejected
<1> QED
  BY <1>1, <1>2

\* There is no future at first.
LEMMA InitFutureInv == Init => FutureInv
BY ConstantsAssumption DEF Init, FutureInv, IsRejected, Ids

\* FutureInv is an invariant.
LEMMA FutureInvariance == Spec => []FutureInv
<1> QED
  BY InitFutureInv, NextKeepsFutureInv, PTL DEF Spec

\* A call with a text beyond max_batch_tokens leaves nothing behind, however many
\* texts of it fit (README.md:459-460; batching.py:91-97).
THEOREM RejectedCallLeavesNothing == Spec => []OversizeLeavesNothing
<1>1. FutureInv => OversizeLeavesNothing
  <2> SUFFICES ASSUME FutureInv, NEW r \in Calls, NEW j \in JobsOf(r), TokenCount(j) > MaxBatchTokens,
                      NEW k \in JobsOf(r)
               PROVE  future[k] = "none"
    BY DEF OversizeLeavesNothing
  <2>1. input[r] \in Inputs /\ input[r] # None
    BY DEF JobsOf, FutureInv
  <2>2. DOMAIN input[r].counts \subseteq 1..MaxTexts
    <3>1. /\ input[r].counts \in Seq(Nat) /\ Len(input[r].counts) \in 1..MaxTexts
          /\ MaxTexts \in Nat
      BY <2>1, ConstantsAssumption
    <3> QED
      BY <3>1, LenProperties
  <2>3. IsRejected(r)
    BY <2>1 DEF JobsOf, IsRejected, TokenCount, Oversize
  <2> QED
    BY <2>1, <2>2, <2>3 DEF FutureInv, JobsOf
<1> QED
  BY <1>1, FutureInvariance, PTL

-----------------------------------------------------------------------------
(* The texts *)

\* Every job of the list is a text that can be embedded, and a batch is made around
\* its first job; the worker that has it has counted it.
TextInv ==
  /\ input \in [Calls -> Inputs \cup {None}]
  /\ pending \in Seq(Ids) /\ \A i \in DOMAIN pending : IsText(pending[i])
  /\ \A w \in Workers : GoodBatch(batch[w][1], batch[w])

CountInv ==
  active = IF worker # None /\ batch[worker] # << >> THEN Len(batch[worker]) ELSE 0

TInv == IInv /\ FutureInv /\ TextInv /\ CountInv

\* What a call has asked for stays, and so do its texts.
LEMMA TextsStay ==
  ASSUME TextInv, [Next]_vars
  PROVE  /\ input' \in [Calls -> Inputs \cup {None}]
         /\ \A j : IsText(j) => IsText(j)' /\ Key(j)' = Key(j) /\ TokenCount(j)' = TokenCount(j)
         /\ \A j, k : IsText(j) /\ IsText(k) /\ Compatible(j, k) => Compatible(j, k)'
<1> USE DEF TextInv
<1>1. \/ input' = input
      \/ \E r \in Calls : \E in \in Inputs : input[r] = None /\ input' = [input EXCEPT ![r] = in]
  BY DEF Next, QueueStep, Work, WorkerStep, Start, Embed, CallerCancelled, Stop, StopReturns, Run,
         Refilled, Timeout, EnterGate, FinishBatch, CancelIdleWorker, CancelBusyWorker,
         ThreadStarts, ThreadEnds, OtherAcquires, OtherLeaves, vars
<1>2. \A r \in Calls : input[r] \in Inputs => input'[r] = input[r]
  BY <1>1, ConstantsAssumption
<1>3. ASSUME NEW j, IsText(j) PROVE input'[j[1]] = input[j[1]]
  BY <1>2, <1>3 DEF IsText, Ids
<1>4. ASSUME NEW j, IsText(j)
      PROVE  IsText(j)' /\ Key(j)' = Key(j) /\ TokenCount(j)' = TokenCount(j)
  BY <1>3, <1>4 DEF IsText, Key, TokenCount, Truncated
<1>5. ASSUME NEW j, NEW k, IsText(j), IsText(k), Compatible(j, k) PROVE Compatible(j, k)'
  <2>1. TokenCount(j)' = TokenCount(j) /\ TokenCount(k)' = TokenCount(k)
    BY <1>4, <1>5
  <2>2. LengthMatches(j, k)' <=> LengthMatches(j, k)
    BY <2>1 DEF LengthMatches, Distance
  <2> QED
    BY <1>4, <1>5, <2>2 DEF Compatible
<1> QED
  BY <1>1, <1>4, <1>5

\* ... and neither does a new call change what a batch in hand is.
LEMMA GoodBatchesStay ==
  ASSUME TextInv, [Next]_vars, NEW b, GoodBatch(b[1], b)
  PROVE  GoodBatch(b[1], b)'
<1>1. \A k \in DOMAIN b : IsText(b[1]) /\ IsText(b[k])
  <2>1. b \in Seq(Ids) /\ DOMAIN b = 1..Len(b) /\ Len(b) \in Nat
    BY LenProperties DEF GoodBatch
  <2>2. \A k \in DOMAIN b : 1 \in DOMAIN b
    BY <2>1
  <2> QED
    BY <2>2 DEF GoodBatch
<1>2. \A k \in DOMAIN b : /\ IsText(b[k])' /\ TokenCount(b[k])' = TokenCount(b[k])
                          /\ Compatible(b[1], b[k])'
  BY <1>1, TextsStay DEF GoodBatch
<1> QED
  BY <1>2 DEF GoodBatch

\* The texts of an accepted call join the end of the list.
LEMMA EmbedAppends ==
  ASSUME pending \in Seq(Ids), NEW r \in Calls, NEW in \in Inputs, Accepted(r, in),
         ~\E i \in DOMAIN in.counts : Oversize(in, i)
  PROVE  /\ pending' \in Seq(Ids) /\ ToSet(pending) \subseteq ToSet(pending')
         /\ \A i \in DOMAIN in.counts : << r, i >> \in ToSet(pending')
         /\ \A i \in DOMAIN pending' : \/ i \in DOMAIN pending /\ pending'[i] = pending[i]
                                      \/ \E k \in DOMAIN in.counts : pending'[i] = << r, k >>
<1> DEFINE k == Len(in.counts)
           m == Len(pending)
           new == [i \in DOMAIN in.counts |-> << r, i >>]
<1>1. /\ DOMAIN in.counts = 1..k /\ k \in Nat /\ \A i \in 1..k : << r, i >> \in Ids
  <2>1. in.counts \in Seq(Nat) /\ k \in 1..MaxTexts /\ MaxTexts \in Nat
    BY ConstantsAssumption
  <2>2. DOMAIN in.counts = 1..k
    BY <2>1, LenProperties
  <2> QED
    BY <2>1, <2>2 DEF Ids
<1>2. m \in Nat /\ DOMAIN pending = 1..m
  BY LenProperties
<1>3. pending' = pending \o new
  BY DEF Accepted
<1>4. new \in [1..k -> Ids] /\ \A i \in 1..k : new[i] = << r, i >>
  BY <1>1
<1> HIDE DEF new, k, m
<1>5. new \in Seq(Ids) /\ Len(new) = k
  <2>1. new \in UNION {[1..n -> Ids] : n \in Nat}
    BY <1>1, <1>4, Zenon
  <2>2. new \in Seq(Ids)
    BY <2>1, SeqDef, Zenon
  <2>3. 1..Len(new) = 1..k /\ Len(new) \in Nat
    BY <1>4, <2>2, LenProperties
  <2> QED
    BY <1>1, <2>2, <2>3
<1>6. /\ pending' \in Seq(Ids) /\ Len(pending') = m + k
      /\ \A i \in 1..m + k : pending'[i] = IF i <= m THEN pending[i] ELSE new[i - m]
  BY <1>3, <1>5, ConcatProperties DEF m
<1>7. DOMAIN pending' = 1..m + k
  BY <1>6, LenProperties
<1>8. \A i \in 1..m : i \in DOMAIN pending' /\ pending'[i] = pending[i]
  BY <1>1, <1>2, <1>6, <1>7
<1>9. \A i \in 1..k : m + i \in DOMAIN pending' /\ pending'[m + i] = << r, i >>
  <2> TAKE i \in 1..k
  <2>1. m + i \in 1..m + k /\ ~(m + i <= m) /\ (m + i) - m = i
    BY <1>1, <1>2
  <2> QED
    BY <1>4, <1>6, <1>7, <2>1
<1>10. \A i \in 1..m + k : i \in 1..m \/ (i - m \in 1..k /\ m + (i - m) = i)
  BY <1>1, <1>2
<1>11. \A i \in DOMAIN pending' : \/ i \in DOMAIN pending /\ pending'[i] = pending[i]
                                 \/ \E n \in DOMAIN in.counts : pending'[i] = << r, n >>
  BY <1>1, <1>2, <1>7, <1>8, <1>9, <1>10
<1> QED
  BY <1>1, <1>2, <1>6, <1>8, <1>9, <1>11 DEF ToSet

\* A batch taken from the list, whose oldest job comes first in it.
LEMMA ServeBatchTakesTexts ==
  ASSUME TextInv, NEW w \in Workers, NEW atGate, ServeBatch(w, atGate, 0), input' = input,
         \A v \in Workers : batch[v] \in Seq(Ids),
         batch = [v \in Workers |-> batch[v]]
  PROVE  /\ pending' \in Seq(Ids)
         /\ \A i \in DOMAIN pending' : IsText(pending'[i])
         /\ pending # << >> /\ batch'[w] # << >> /\ batch'[w][1] = pending[1]
         /\ GoodBatch(batch'[w][1], batch'[w])
         /\ \A v \in Workers : v # w => batch'[v] = batch[v]
         /\ active' = Len(batch'[w])
         /\ \A j \in ToSet(pending) : j \in ToSet(pending') \/ j \in ToSet(batch'[w])
<1> USE DEF TextInv
<1>1. PICK b : /\ b = SelectBatch(pending) /\ b # << >>
               /\ pending' = Remaining(pending, b)
               /\ batch' = [batch EXCEPT ![w] = b] /\ active' = 0 + Len(b)
  BY DEF ServeBatch
<1>2. batch'[w] = b /\ \A v \in Workers : v # w => batch'[v] = batch[v]
  BY <1>1
<1>3. pending # << >>
  BY <1>1, NothingSelected
<1>4. GoodBatch(pending[1], b)
  BY <1>1, <1>3, SelectedBatch
<1>5. b[1] = pending[1]
  BY <1>1, <1>4 DEF GoodBatch
<1>6. Len(b) \in Nat
  BY <1>4, LenProperties DEF GoodBatch
<1>7. /\ pending' \in Seq(Ids) /\ ToSet(pending') \subseteq ToSet(pending)
      /\ \A j \in ToSet(pending) : j \in ToSet(b) \/ j \in ToSet(pending')
  BY <1>1, RemainingJobs
<1>8. \A i \in DOMAIN pending' : IsText(pending'[i])
  BY <1>7 DEF ToSet
<1> QED
  BY <1>1, <1>2, <1>3, <1>4, <1>5, <1>6, <1>7, <1>8

\* Every action keeps TextInv and CountInv.
LEMMA NextKeepsTextInv == TInv /\ [Next]_vars => TextInv' /\ CountInv'
<1> SUFFICES ASSUME TInv, [Next]_vars PROVE TextInv' /\ CountInv'
  OBVIOUS
<1> USE DEF TInv
<1>0. /\ \A w \in Workers : w # None
      /\ worker \in Workers \cup {None} /\ batch = [w \in Workers |-> batch[w]]
      /\ \A w \in Workers : batch[w] \in Seq(Ids) /\ Len(batch[w]) \in Nat
  BY ConstantsAssumption, LenProperties DEF IInv, ControlTypes, TextInv, GoodBatch
<1>1. /\ input' \in [Calls -> Inputs \cup {None}]
      /\ \A j : IsText(j) => IsText(j)'
      /\ \A w \in Workers : batch'[w] = batch[w] => GoodBatch(batch[w][1], batch[w])'
  BY GoodBatchesStay, TextsStay DEF TextInv
<1>2. ASSUME UNCHANGED << pending, batch >> PROVE TextInv'
  BY <1>1, <1>2 DEF TextInv
<1>3. ASSUME UNCHANGED << worker, active, batch >> PROVE CountInv'
  BY <1>3 DEF CountInv
<1>4. ASSUME UNCHANGED << pending, worker, active, batch >> PROVE TextInv' /\ CountInv'
  BY <1>2, <1>3, <1>4
<1>5. ASSUME NEW w \in Workers, StartWorker(w), UNCHANGED << active, batch >> PROVE CountInv'
  BY <1>0, <1>5 DEF StartWorker, CountInv, IInv, BatchInv, Busy, ControlTypes
<1>6. ASSUME NEW w \in Workers, Start(w) PROVE TextInv' /\ CountInv'
  BY <1>2, <1>5, <1>6 DEF Start
<1>7. ASSUME NEW r \in Calls, NEW in \in Inputs, Embed(r, in) PROVE TextInv' /\ CountInv'
  <2> USE <1>7 DEF Embed
  <2>1. CountInv'
    BY <1>3, <1>5
  <2>2. CASE pending' = pending
    BY <1>2, <2>1, <2>2
  <2>3. CASE pending' # pending
    <3>1. ~(\E i \in DOMAIN in.counts : Oversize(in, i))
      BY <2>3 DEF Accepted
    <3>2. /\ pending' \in Seq(Ids)
          /\ \A i \in DOMAIN pending' : \/ i \in DOMAIN pending /\ pending'[i] = pending[i]
                                       \/ \E k \in DOMAIN in.counts : pending'[i] = << r, k >>
      BY <3>1, EmbedAppends DEF TextInv
    <3>3. input'[r] = in
      BY DEF TextInv
    <3>4. ASSUME NEW i \in DOMAIN in.counts
          PROVE  IsText(<< r, i >>)'
      <4>1. /\ in.counts \in Seq(Nat) /\ Len(in.counts) \in 1..MaxTexts /\ MaxTexts \in Nat
            /\ DOMAIN in.counts = 1..Len(in.counts) /\ in.maxLength \in Nat
        BY ConstantsAssumption, LenProperties
      <4>2. << r, i >> \in Ids
        BY <4>1 DEF Ids
      <4>3. Truncated(in, i) \in Nat
        <5>1. in.counts[i] \in Nat
          BY <4>1, ElementOfSeq
        <5>2. \E x \in {in.counts[i], in.maxLength} :
                \A y \in {in.counts[i], in.maxLength} : x <= y
          BY <4>1, <5>1
        <5> QED
          BY <4>1, <5>1, <5>2 DEF Truncated, Min
      <4>4. Truncated(in, i) <= MaxBatchTokens
        BY <3>1, <4>3, ConstantsAssumption DEF Oversize
      <4> QED
        BY <3>3, <4>2, <4>4 DEF IsText, TokenCount
    <3>5. ASSUME NEW i \in DOMAIN pending' PROVE IsText(pending[i])'
      <4>1. CASE i \in DOMAIN pending /\ pending'[i] = pending[i]
        BY <1>1, <4>1 DEF TextInv
      <4>2. CASE \E k \in DOMAIN in.counts : pending'[i] = << r, k >>
        BY <3>4, <4>2
      <4> QED
        BY <3>2, <4>1, <4>2
    <3> QED
      BY <1>1, <2>1, <3>2, <3>5 DEF TextInv
  <2> QED
    BY <2>2, <2>3
<1>8. CASE Stop
  <2>1. CASE worker # None
    BY <1>4, <1>8, <2>1 DEF Stop
  <2>2. CASE worker = None
    <3>1. pending' = << >> /\ << >> \in Seq(Ids) /\ DOMAIN << >> = {}
      BY <1>8, <2>2, EmptySeq, LenProperties DEF Stop, CancelPendingFutures
    <3>2. UNCHANGED << worker, active, batch >>
      BY <1>8 DEF Stop
    <3> QED
      BY <1>1, <1>3, <3>1, <3>2 DEF TextInv
  <2> QED
    BY <2>1, <2>2
<1>9. CASE StopReturns
  <2>1. pending' = << >> /\ << >> \in Seq(Ids) /\ DOMAIN << >> = {}
    BY <1>9, EmptySeq, LenProperties DEF StopReturns, CancelPendingFutures
  <2>2. batch' = batch /\ active' = active /\ worker' = None
    BY <1>9 DEF StopReturns
  <2>3. worker # None /\ batch[worker] = << >>
    BY <1>0, <1>9 DEF StopReturns, IInv, WorkerInv, BatchInv, Busy
  <2> QED
    BY <1>1, <2>1, <2>2, <2>3 DEF TextInv, CountInv
<1>10. ASSUME NEW w \in Workers, worker = w, worker' = worker, NEW atGate, ServeBatch(w, atGate, 0),
              input' = input
       PROVE  TextInv' /\ CountInv'
  <2>1. /\ pending' \in Seq(Ids)
        /\ \A i \in DOMAIN pending' : IsText(pending'[i])
        /\ batch'[w] # << >> /\ GoodBatch(batch'[w][1], batch'[w])
        /\ \A v \in Workers : v # w => batch'[v] = batch[v]
        /\ active' = Len(batch'[w])
    BY <1>0, <1>10, ServeBatchTakesTexts
  <2>2. \A i \in DOMAIN pending' : IsText(pending[i])'
    BY <1>10, <2>1 DEF IsText, TokenCount
  <2>3. GoodBatch(batch[w][1], batch[w])'
    BY <1>10, <2>1 DEF GoodBatch, IsText, Compatible, Key, LengthMatches, Distance, TokenCount
  <2>4. \A v \in Workers : GoodBatch(batch[v][1], batch[v])'
    BY <1>1, <2>1, <2>3
  <2> QED
    BY <1>0, <1>1, <1>10, <2>1, <2>2, <2>4 DEF TextInv, CountInv
<1>11. ASSUME NEW w \in Workers, worker = w, worker' = worker, NEW atGate, NextBatch(w, atGate, 0),
              input' = input
       PROVE  TextInv' /\ CountInv'
  <2>1. CASE ServeBatch(w, atGate, 0)
    BY <1>10, <1>11, <2>1
  <2>2. CASE batch' = [batch EXCEPT ![w] = << >>] /\ active' = 0 /\ pending' = pending
    <3>1. GoodBatch(<< >>[1], << >>)' /\ batch'[w] = << >>
      BY <1>0, <2>2, EmptySeq, LenProperties, ConstantsAssumption DEF GoodBatch
    <3>2. \A v \in Workers : GoodBatch(batch[v][1], batch[v])'
      BY <1>0, <1>1, <2>2, <3>1
    <3> QED
      BY <1>1, <1>11, <2>2, <3>1, <3>2 DEF TextInv, CountInv
  <2> QED
    BY <1>11, <2>1, <2>2 DEF NextBatch
<1>12. ASSUME NEW w \in Workers, Live(w), ~Busy(w) PROVE worker = w /\ active = 0
  BY <1>12 DEF IInv, WorkerInv, BatchInv, CountInv
<1>13. ASSUME NEW w \in Workers, Busy(w) PROVE worker = w /\ active = Len(batch[w])
  BY <1>0, <1>13 DEF IInv, WorkerInv, BatchInv, Live, Busy, CountInv
<1>14. ASSUME NEW w \in Workers, Run(w) PROVE TextInv' /\ CountInv'
  <2>1. worker = w /\ active = 0
    BY <1>12, <1>14 DEF Run, Live, Busy
  <2>2. NextBatch(w, gate, 0) /\ worker' = worker /\ input' = input
    BY <1>14, <2>1 DEF Run
  <2> QED
    BY <1>11, <2>1, <2>2
<1>15. ASSUME NEW w \in Workers, Refilled(w) PROVE TextInv' /\ CountInv'
  <2>1. worker = w /\ active = 0
    BY <1>12, <1>15 DEF Refilled, Live, Busy
  <2>2. worker' = worker /\ input' = input
    BY <1>15 DEF Refilled
  <2>3. CASE ServeBatch(w, gate, active)
    BY <1>10, <2>1, <2>2, <2>3
  <2>4. CASE UNCHANGED << pending, batch, active >>
    BY <1>4, <2>2, <2>4
  <2> QED
    BY <1>15, <2>3, <2>4 DEF Refilled
<1>16. ASSUME NEW w \in Workers, Timeout(w) PROVE TextInv' /\ CountInv'
  <2>1. worker = w /\ active = 0
    BY <1>12, <1>16 DEF Timeout, Live, Busy
  <2>2. ServeBatch(w, gate, 0) /\ worker' = worker /\ input' = input
    BY <1>16, <2>1 DEF Timeout
  <2> QED
    BY <1>10, <2>1, <2>2
<1>17. ASSUME NEW w \in Workers, FinishBatch(w) PROVE TextInv' /\ CountInv'
  <2>1. worker = w /\ active - Len(batch[w]) = 0
    BY <1>0, <1>13, <1>17 DEF FinishBatch, Busy
  <2>2. NextBatch(w, Leave(gate, w), 0) /\ worker' = worker /\ input' = input
    BY <1>17, <2>1 DEF FinishBatch
  <2> QED
    BY <1>11, <2>1, <2>2
<1>18. ASSUME NEW w \in Workers, CancelBusyWorker(w) PROVE TextInv' /\ CountInv'
  <2>1. worker = w /\ active - Len(batch[w]) = 0
    BY <1>0, <1>13, <1>18 DEF CancelBusyWorker, Busy
  <2>2. /\ batch' = [batch EXCEPT ![w] = << >>] /\ active' = 0
        /\ UNCHANGED << input, pending, worker >>
    BY <1>18, <2>1 DEF CancelBusyWorker
  <2>3. GoodBatch(<< >>[1], << >>)' /\ batch'[w] = << >>
    BY <1>0, <2>2, EmptySeq, LenProperties, ConstantsAssumption DEF GoodBatch
  <2>4. \A v \in Workers : GoodBatch(batch[v][1], batch[v])'
    BY <1>0, <1>1, <2>2, <2>3
  <2> QED
    BY <1>1, <2>1, <2>2, <2>3, <2>4 DEF TextInv, CountInv
<1> QED
  BY <1>4, <1>6, <1>7, <1>8, <1>9, <1>14, <1>15, <1>16, <1>17, <1>18
     DEF Next, QueueStep, Work, WorkerStep, CallerCancelled, EnterGate, CancelIdleWorker,
         ThreadStarts, ThreadEnds, OtherAcquires, OtherLeaves, vars

\* IInv, FutureInv, TextInv and CountInv hold together.
LEMMA TextInvariance == Spec => []TInv
<1>1. ASSUME Init PROVE TextInv /\ CountInv
  <2>1. << >> \in Seq(Ids) /\ DOMAIN << >> = {} /\ Len(<< >>) = 0
    BY EmptySeq, LenProperties
  <2> QED
    BY <1>1, <2>1, ConstantsAssumption DEF Init, TextInv, CountInv, GoodBatch
<1>2. Init => TInv
  BY <1>1, InitIInv, InitFutureInv DEF TInv
<1>3. TInv /\ [Next]_vars => TInv'
  BY NextKeepsIInv, NextKeepsFutureInv, NextKeepsTextInv DEF TInv
<1> QED
  BY <1>2, <1>3, PTL DEF Spec

\* A batch never exceeds its size, nor its tokens once padded to its longest text, and
\* its texts can share one model call with the first, the anchor: the loop of
\* _select_batch_locked keeps this at every offer, and what the calls have asked for
\* does not change behind it (README.md:453-458; batching.py:141-170).
THEOREM BatchesKeepTheirLimits == Spec => []BatchLimits
<1>1. ASSUME TInv, NEW w \in Workers, Busy(w), NEW j \in ToSet(batch[w])
      PROVE  /\ Len(batch[w]) \in 1..MaxBatchSize
             /\ TokenCount(j) * Len(batch[w]) <= MaxBatchTokens
             /\ Key(j) = Key(batch[w][1])
             /\ 100 * TokenCount(j) >= (100 - TolerancePercent) * TokenCount(batch[w][1])
             /\ 100 * TokenCount(j) <= (100 + TolerancePercent) * TokenCount(batch[w][1])
  <2> DEFINE b == batch[w]
             t == TokenCount(j)
             a == TokenCount(b[1])
  <2>1. GoodBatch(b[1], b) /\ b # << >>
    BY <1>1 DEF TInv, TextInv, IInv, BatchInv
  <2>2. Len(b) \in 1..MaxBatchSize /\ DOMAIN b = 1..Len(b)
    BY <2>1, EmptySeq, LenProperties, ConstantsAssumption DEF GoodBatch
  <2>3. IsText(b[1]) /\ IsText(j) /\ Compatible(b[1], j) /\ t * Len(b) <= MaxBatchTokens
    BY <1>1, <2>1, <2>2 DEF GoodBatch, ToSet
  <2>4. t \in Nat /\ a \in Nat
    BY <2>3, TextTokens
  <2>5. Key(j) = Key(b[1])
    BY <2>3 DEF Compatible
  <2>6. 100 * Distance(b[1], j) <= TolerancePercent * a
    <3>1. CASE j = b[1]
      <4>1. Distance(b[1], j) = 0
        BY <2>4, <3>1 DEF Distance
      <4>2. TolerancePercent * a \in Nat
        BY <2>4, ConstantsAssumption
      <4> QED
        BY <4>1, <4>2
    <3>2. CASE LengthMatches(b[1], j)
      BY <3>2 DEF LengthMatches
    <3> QED
      BY <2>3, <3>1, <3>2 DEF Compatible
  <2>7. Distance(b[1], j) = IF a < t THEN t - a ELSE a - t
    BY DEF Distance
  <2> HIDE DEF a, t
  <2>8. /\ 100 * t >= (100 - TolerancePercent) * a
        /\ 100 * t <= (100 + TolerancePercent) * a
    <3>1. TolerancePercent \in Nat
      BY ConstantsAssumption
    <3> DEFINE q == TolerancePercent * a
    <3>2. /\ (100 - TolerancePercent) * a = 100 * a - q
          /\ (100 + TolerancePercent) * a = 100 * a + q
          /\ q \in Nat
      BY <2>4, <3>1
    <3> HIDE DEF q
    <3>3. 100 * Distance(b[1], j) <= q
      BY <2>6 DEF q
    <3> QED
      BY <2>4, <2>7, <3>2, <3>3
  <2> QED
    BY <2>2, <2>3, <2>5, <2>8 DEF a, t
<1>2. ASSUME TInv, NEW w \in Workers, Busy(w) PROVE ToSet(batch[w]) # {}
  <2>1. batch[w] # << >> /\ batch[w] \in Seq(Ids)
    BY <1>2 DEF TInv, IInv, BatchInv, TextInv, GoodBatch
  <2>2. 1 \in DOMAIN batch[w]
    BY <2>1, EmptySeq, LenProperties
  <2> QED
    BY <2>2 DEF ToSet
<1>3. TInv => BatchLimits
  BY <1>1, <1>2 DEF BatchLimits
<1> QED
  BY <1>3, TextInvariance, PTL

\* "active" counts the texts in the hands of the one worker that has any, also when it
\* is stopped in the middle of them and another is started (batching.py:56-75, :173,
\* :190).
THEOREM ActiveCountsTexts == Spec => []ActiveIsExact
<1>1. TInv => ActiveIsExact
  <2> SUFFICES ASSUME TInv PROVE ActiveIsExact
    OBVIOUS
  <2>1. \A w \in Workers : batch[w] # << >> => worker = w
    BY DEF TInv, IInv, WorkerInv, BatchInv, Live, Busy
  <2>2. worker \in Workers \cup {None}
    BY DEF TInv, IInv, ControlTypes
  <2> QED
    BY <2>1, <2>2, ConstantsAssumption DEF TInv, CountInv, ActiveIsExact
<1> QED
  BY <1>1, TextInvariance, PTL

\* Whatever is near enough to be preferred, a batch starts with the oldest job of the
\* list: no job waits for ever while younger ones are served (batching.py:142).
THEOREM OldestJobIsServed == Spec => OldestJobInEveryBatch
<1> DEFINE A == \A w \in Workers : batch'[w] # batch[w] /\ batch'[w] # << >>
                                     => Head(pending) = Head(batch'[w])
<1>1. ASSUME TInv, [Next]_vars PROVE [A]_vars
  <2> USE <1>1 DEF TInv
  <2>0. /\ batch = [w \in Workers |-> batch[w]]
        /\ \A w \in Workers : batch[w] \in Seq(Ids) /\ Len(batch[w]) \in Nat
    BY LenProperties DEF IInv, ControlTypes, TextInv, GoodBatch
  <2>1. ASSUME NEW w \in Workers, NEW atGate, NEW n, n = 0, ServeBatch(w, atGate, n), input' = input
        PROVE  A
    <3>1. /\ batch'[w][1] = pending[1] /\ batch'[w] # << >> /\ pending # << >>
          /\ \A v \in Workers : v # w => batch'[v] = batch[v]
      BY <2>0, <2>1, ServeBatchTakesTexts
    <3> QED
      BY <3>1
  <2>2. ASSUME UNCHANGED batch PROVE A
    BY <2>2
  <2>3. ASSUME NEW w \in Workers, batch' = [batch EXCEPT ![w] = << >>] PROVE A
    BY <2>0, <2>3
  <2>4. ASSUME NEW w \in Workers, NEW atGate, NEW n, n = 0, NextBatch(w, atGate, n), input' = input
        PROVE  A
    BY <2>1, <2>3, <2>4 DEF NextBatch
  <2>5. ASSUME NEW w \in Workers, Live(w), ~Busy(w) PROVE active = 0
    BY <2>5 DEF IInv, WorkerInv, BatchInv, CountInv
  <2>6. ASSUME NEW w \in Workers, Run(w) PROVE A
    BY <2>4, <2>5, <2>6 DEF Run, Live, Busy
  <2>7. ASSUME NEW w \in Workers, Refilled(w) PROVE A
    BY <2>1, <2>2, <2>5, <2>7 DEF Refilled, Live, Busy
  <2>8. ASSUME NEW w \in Workers, Timeout(w) PROVE A
    BY <2>1, <2>5, <2>8 DEF Timeout, Live, Busy
  <2>9. ASSUME NEW w \in Workers, FinishBatch(w) PROVE A
    <3>1. Busy(w) /\ Live(w) /\ w # None
      BY <2>9, ConstantsAssumption DEF FinishBatch, Live, Busy
    <3>2. active = Len(batch[w])
      BY <3>1 DEF IInv, WorkerInv, BatchInv, CountInv
    <3>3. active - Len(batch[w]) = 0
      BY <2>0, <3>2
    <3> QED
      BY <2>4, <2>9, <3>3 DEF FinishBatch
  <2>10. ASSUME NEW w \in Workers, CancelBusyWorker(w) PROVE A
    BY <2>3, <2>10 DEF CancelBusyWorker
  <2> QED
    BY <2>2, <2>6, <2>7, <2>8, <2>9, <2>10
       DEF Next, QueueStep, Work, WorkerStep, Start, Embed, CallerCancelled, Stop, StopReturns,
           EnterGate, CancelIdleWorker, ThreadStarts, ThreadEnds, OtherAcquires, OtherLeaves, vars
<1> QED
  BY <1>1, TextInvariance, PTL DEF Spec, OldestJobInEveryBatch

-----------------------------------------------------------------------------
(* The answers *)

\* The types that TInv leaves open.
RestTypes ==
  /\ \A j \in Ids : embedding[j] = NoEmbedding \/ embedding[j].text \in Ids
  /\ embedding = [j \in Ids |-> embedding[j]]
  /\ stopping \in BOOLEAN /\ stopCall \in {"off", "awaiting"}
  /\ thread \in [Workers -> {"none", "queued", "running", "result", "error", "dropped"}]
  /\ cache \in {"clean", "dirty"}

\* The vectors that a batch brings back are those of its texts.
LEMMA VectorsAreOwn ==
  ASSUME TInv, NEW w \in Workers, NEW j \in ToSet(batch[w])
  PROVE  /\ j \in Ids /\ IsText(j)
         /\ Vectors(batch[w])[CHOOSE i \in DOMAIN batch[w] : batch[w][i] = j]
              = [text |-> j, key |-> Key(j)]
<1> DEFINE b == batch[w]
           i == CHOOSE k \in DOMAIN b : b[k] = j
<1>1. i \in DOMAIN b /\ b[i] = j
  BY DEF ToSet
<1>2. IsText(j) /\ Compatible(b[1], j)
  BY <1>1 DEF TInv, TextInv, GoodBatch
<1>3. Key(b[1]) = Key(j)
  BY <1>2 DEF Compatible
<1> QED
  BY <1>1, <1>2, <1>3 DEF Vectors, IsText

\* Every action keeps the remaining types.
LEMMA NextKeepsRestTypes == TInv /\ RestTypes /\ [Next]_vars => RestTypes'
<1> SUFFICES ASSUME TInv, RestTypes, [Next]_vars PROVE RestTypes'
  OBVIOUS
<1> USE DEF RestTypes
<1>1. ASSUME UNCHANGED << embedding, stopCall, thread, cache >>, stopping' \in BOOLEAN PROVE RestTypes'
  BY <1>1
<1>2. ASSUME NEW w \in Workers, StartWorker(w) PROVE stopping' \in BOOLEAN
  BY <1>2 DEF StartWorker
<1>3. CASE Stop
  BY <1>3 DEF Stop
<1>4. CASE StopReturns
  BY <1>4 DEF StopReturns
<1>5. ASSUME NEW w \in Workers, NEW atGate, NEW n, ServeBatch(w, atGate, n) PROVE
        thread' \in [Workers -> {"none", "queued", "running", "result", "error", "dropped"}]
  BY <1>5 DEF ServeBatch
<1>6. ASSUME NEW w \in Workers, NEW atGate, NEW n, NextBatch(w, atGate, n) PROVE
        thread' \in [Workers -> {"none", "queued", "running", "result", "error", "dropped"}]
  BY <1>5, <1>6 DEF NextBatch
<1>7. ASSUME NEW w \in Workers, Run(w) \/ Refilled(w) \/ Timeout(w) PROVE RestTypes'
  <2>1. thread' \in [Workers -> {"none", "queued", "running", "result", "error", "dropped"}]
    BY <1>5, <1>6, <1>7 DEF Run, Refilled, Timeout
  <2>2. UNCHANGED << embedding, stopping, stopCall, cache >>
    BY <1>7 DEF Run, Refilled, Timeout
  <2> QED
    BY <2>1, <2>2
<1>8. ASSUME NEW w \in Workers, FinishBatch(w) PROVE RestTypes'
  <2>1. thread' \in [Workers -> {"none", "queued", "running", "result", "error", "dropped"}]
    BY <1>6, <1>8 DEF FinishBatch
  <2>2. UNCHANGED << stopping, stopCall >> /\ cache' \in {"clean", "dirty"}
    BY <1>8 DEF FinishBatch, TrimCacheIfIdle
  <2>3. \A j \in Ids : \/ embedding'[j] = embedding[j]
                       \/ embedding'[j].text \in Ids
    <3> TAKE j \in Ids
    <3>1. CASE thread[w] = "result" /\ j \in ToSet(batch[w]) /\ future[j] = "pending"
      <4>1. embedding'[j] = Vectors(batch[w])[CHOOSE i \in DOMAIN batch[w] : batch[w][i] = j]
        BY <1>8, <3>1 DEF FinishBatch
      <4>2. embedding'[j] = [text |-> j, key |-> Key(j)]
        BY <3>1, <4>1, VectorsAreOwn
      <4> QED
        BY <4>2
    <3>2. CASE ~(thread[w] = "result" /\ j \in ToSet(batch[w]) /\ future[j] = "pending")
      BY <1>8, <3>2 DEF FinishBatch
    <3> QED
      BY <3>1, <3>2
  <2>4. embedding' = [j \in Ids |-> embedding'[j]]
    BY <1>8 DEF FinishBatch
  <2> QED
    BY <2>1, <2>2, <2>3, <2>4
<1>9. ASSUME NEW w \in Workers, EnterGate(w) \/ CancelIdleWorker(w) PROVE RestTypes'
  BY <1>9 DEF EnterGate, CancelIdleWorker
<1>10. ASSUME NEW w \in Workers, CancelBusyWorker(w) PROVE RestTypes'
  BY <1>10 DEF CancelBusyWorker, TrimCacheIfIdle
<1>11. ASSUME NEW w \in Workers, ThreadStarts(w) PROVE RestTypes'
  BY <1>11 DEF ThreadStarts
<1>12. ASSUME NEW w \in Workers, NEW o \in {"result", "error"}, ThreadEnds(w, o) PROVE RestTypes'
  BY <1>12 DEF ThreadEnds
<1> QED
  BY <1>1, <1>2, <1>3, <1>4, <1>7, <1>8, <1>9, <1>10, <1>11, <1>12
     DEF Next, QueueStep, Work, WorkerStep, Start, Embed, CallerCancelled, OtherAcquires,
         OtherLeaves, vars

\* The remaining types are kept throughout.
LEMMA RestTypesInvariance == Spec => []RestTypes
<1>1. Init => RestTypes
  BY ConstantsAssumption DEF Init, RestTypes
<1> QED
  BY <1>1, TextInvariance, NextKeepsRestTypes, PTL DEF Spec

\* Every variable of the batcher keeps its type (batching.py:29-54).
THEOREM TypeCorrect == Spec => []TypeOK
<1>1. ASSUME TInv, RestTypes PROVE TypeOK
  <2> USE <1>1 DEF TInv, TextInv, RestTypes
  <2>1. ToSet(pending) \subseteq Ids /\ \A w \in Workers : ToSet(batch[w]) \subseteq Ids
    <3>1. \A w \in Workers : \A k \in DOMAIN batch[w] : batch[w][k] \in Ids
      BY DEF GoodBatch, IsText
    <3> QED
      BY <3>1 DEF IsText, ToSet
  <2>2. ToSet(gate) \subseteq Users
    BY LenProperties, ElementOfSeq DEF IInv, ControlTypes, ToSet
  <2>3. active \in Nat
    <3>1. worker # None => batch[worker] \in Seq(Ids)
      BY DEF IInv, ControlTypes, GoodBatch
    <3> QED
      BY <3>1, LenProperties DEF CountInv
  <2> QED
    BY <2>1, <2>2, <2>3 DEF TypeOK, IInv, ControlTypes, FutureInv, Outcomes
<1> QED
  BY <1>1, TextInvariance, RestTypesInvariance, PTL

\* A future gets a result from the worker that has its batch, and from nobody else.
LEMMA OnlyBatchesGiveResults ==
  ASSUME TInv, [Next]_vars, NEW j \in Ids,
         \A r \in Calls : \A in \in Inputs : ~Embed(r, in),
         ~\E w \in Workers : FinishBatch(w),
         future'[j] # future[j]
  PROVE  future'[j] = "cancelled"
<1>1. ASSUME NEW S, future' = Settled(S, "cancelled") PROVE future'[j] = "cancelled"
  BY <1>1 DEF Settled, TInv, FutureInv
<1>2. \/ future' = future
      \/ \E S : future' = Settled(S, "cancelled")
  BY DEF Next, QueueStep, Work, WorkerStep, Start, CallerCancelled, Stop, StopReturns,
         CancelPendingFutures, Run, Refilled, Timeout, EnterGate, CancelIdleWorker,
         CancelBusyWorker, ThreadStarts, ThreadEnds, OtherAcquires, OtherLeaves, vars
<1> QED
  BY <1>1, <1>2

\* A vector is its text's own when it is handed out, and stays so.
LEMMA NextKeepsOwnEmbedding == TInv /\ OwnEmbedding /\ [Next]_vars => OwnEmbedding'
<1> SUFFICES ASSUME TInv, OwnEmbedding, [Next]_vars, NEW j \in Jobs', future'[j] = "result"
             PROVE  embedding'[j] = [text |-> j, key |-> Key(j)']
  BY DEF OwnEmbedding
<1> USE DEF TInv
<1>0. PICK r \in Calls : j \in JobsOf(r)'
  BY DEF Jobs
<1>1. PICK i \in DOMAIN input'[r].counts : j = << r, i >> /\ input'[r] # None
  BY <1>0 DEF JobsOf
<1>2. j \in Ids /\ i \in 1..MaxTexts
  <2>1. input'[r] \in Inputs
    BY <1>1, TextsStay DEF TextInv
  <2>2. /\ input'[r].counts \in Seq(Nat) /\ Len(input'[r].counts) \in 1..MaxTexts
        /\ MaxTexts \in Nat
    BY <2>1, ConstantsAssumption
  <2>3. DOMAIN input'[r].counts = 1..Len(input'[r].counts)
    BY <2>2, LenProperties
  <2>4. i \in 1..MaxTexts
    BY <1>1, <2>2, <2>3
  <2> QED
    BY <1>1, <2>4 DEF Ids
<1>3. CASE \E s \in Calls : \E in \in Inputs : Embed(s, in)
  <2>1. PICK s \in Calls, in \in Inputs : Embed(s, in)
    BY <1>3
  <2>2. future'[j] = future[j]
    BY <1>2, <2>1, EmbedCreates DEF Embed, Accepted
  <2>3. r # s
    BY <1>1, <1>2, <2>1, <2>2 DEF Embed, FutureInv
  <2>4. input'[r] = input[r] /\ embedding' = embedding
    BY <2>1, <2>3 DEF Embed, TextInv
  <2>5. j \in Jobs /\ Key(j)' = Key(j)
    BY <1>1, <2>4 DEF Jobs, JobsOf, Key
  <2> QED
    BY <2>2, <2>4, <2>5 DEF OwnEmbedding
<1>4. CASE \A s \in Calls : \A in \in Inputs : ~Embed(s, in)
  <2>1. input' = input /\ Settles
    BY <1>4, StepsSettle
  <2>2. j \in Jobs /\ Key(j)' = Key(j)
    BY <2>1 DEF Jobs, JobsOf, Key
  <2>3. CASE \E w \in Workers : FinishBatch(w)
    <3>1. PICK w \in Workers : FinishBatch(w)
      BY <2>3
    <3>2. CASE thread[w] = "result" /\ j \in ToSet(batch[w]) /\ future[j] = "pending"
      <4>1. embedding'[j] = Vectors(batch[w])[CHOOSE k \in DOMAIN batch[w] : batch[w][k] = j]
        BY <1>2, <3>1, <3>2 DEF FinishBatch
      <4> QED
        BY <2>2, <3>2, <4>1, VectorsAreOwn
    <3>3. CASE ~(thread[w] = "result" /\ j \in ToSet(batch[w]) /\ future[j] = "pending")
      <4>1. embedding'[j] = embedding[j] /\ future[j] = "result"
        BY <1>2, <3>1, <3>3 DEF FinishBatch, Settled
      <4> QED
        BY <2>2, <4>1 DEF OwnEmbedding
    <3> QED
      BY <3>2, <3>3
  <2>4. CASE ~\E w \in Workers : FinishBatch(w)
    <3>1. embedding' = embedding
      BY <1>4, <2>4
         DEF Next, QueueStep, Work, WorkerStep, Start, CallerCancelled, Stop, StopReturns, Run,
             Refilled, Timeout, EnterGate, CancelIdleWorker, CancelBusyWorker, ThreadStarts,
             ThreadEnds, OtherAcquires, OtherLeaves, vars
    <3>2. future[j] = "result"
      <4>1. CASE future'[j] = future[j]
        BY <4>1
      <4>2. CASE future'[j] # future[j]
        BY <1>2, <1>4, <2>4, <4>2, OnlyBatchesGiveResults
      <4> QED
        BY <4>1, <4>2
    <3> QED
      BY <2>2, <3>1, <3>2 DEF OwnEmbedding
  <2> QED
    BY <2>3, <2>4
<1> QED
  BY <1>3, <1>4

\* Whoever gets a vector gets that of its own text, under its own task and max_length,
\* whomever it shared a batch with, and no later call of the model replaces it
\* (batching.py:175-183, :193-195).
THEOREM EverybodyGetsHisOwn == Spec => []OwnEmbedding
<1>1. Init => OwnEmbedding
  BY DEF Init, OwnEmbedding, Jobs, JobsOf
<1> QED
  BY <1>1, TextInvariance, NextKeepsOwnEmbedding, PTL DEF Spec

-----------------------------------------------------------------------------
(* Who waits *)

Placed(j) == j \in ToSet(pending) \/ \E w \in Workers : j \in ToSet(batch[w])

\* When shutdowns are graceful nobody waits while the batcher stops.
DrainInv ==
  /\ stopping => \A r \in Calls : ~CallWaits(r)
  /\ \A r \in Calls : CallWaits(r) => \A j \in JobsOf(r) : future[j] = "pending" => Placed(j)

\* The jobs of a call are of the texts that it may have.
LEMMA JobsAreIds ==
  ASSUME FutureInv, NEW r \in Calls, NEW j \in JobsOf(r)
  PROVE  j \in Ids
<1>1. PICK i \in DOMAIN input[r].counts : j = << r, i >> /\ input[r] \in Inputs
  BY DEF JobsOf, FutureInv
<1>2. /\ input[r].counts \in Seq(Nat) /\ Len(input[r].counts) \in 1..MaxTexts
      /\ MaxTexts \in Nat
  BY <1>1, ConstantsAssumption
<1>3. DOMAIN input[r].counts = 1..Len(input[r].counts)
  BY <1>2, LenProperties
<1> QED
  BY <1>1, <1>2, <1>3 DEF Ids

\* A call that has its answer, or an exception, never waits again.
LEMMA WaitingIsOver ==
  ASSUME FutureInv, [Next]_vars, \A r \in Calls : \A in \in Inputs : ~Embed(r, in),
         NEW r \in Calls, CallWaits(r)'
  PROVE  /\ CallWaits(r) /\ JobsOf(r)' = JobsOf(r)
         /\ \A j \in JobsOf(r) : future'[j] = "pending" => future[j] = "pending"
<1>1. input' = input /\ Settles
  BY StepsSettle
<1>2. JobsOf(r)' = JobsOf(r)
  BY <1>1 DEF JobsOf
<1>3. \A j \in JobsOf(r) : \/ future'[j] = future[j]
                           \/ future[j] = "pending" /\ future'[j] \in Outcomes
  BY <1>1, JobsAreIds DEF Settles
<1>4. /\ \A j \in JobsOf(r) : future'[j] \in {"pending", "result"}
      /\ \E j \in JobsOf(r) : future'[j] = "pending"
  BY <1>2 DEF CallWaits
<1> QED
  BY <1>2, <1>3, <1>4 DEF CallWaits, Outcomes

\* With graceful shutdowns every action keeps DrainInv.
LEMMA NextKeepsDrainInv ==
  ASSUME Drained, TInv, DrainInv, [Next]_vars
  PROVE  DrainInv'
<1> USE DEF TInv, DrainInv
<1>0. /\ batch = [w \in Workers |-> batch[w]] /\ worker \in Workers \cup {None}
      /\ \A w \in Workers : batch[w] \in Seq(Ids) /\ Len(batch[w]) \in Nat /\ w # None
      /\ ToSet(<< >>) = {}
  <2>1. ToSet(<< >>) = {}
    BY EmptySeq, LenProperties DEF ToSet
  <2> QED
    BY <2>1, LenProperties, ConstantsAssumption DEF IInv, ControlTypes, TextInv, GoodBatch
<1>1. CASE \E r \in Calls : \E in \in Inputs : Embed(r, in)
  <2>1. PICK r \in Calls, in \in Inputs : Embed(r, in)
    BY <1>1
  <2> USE <2>1 DEF Embed
  <2>2. ~stopping'
    BY DEF StartWorker
  <2>3. in # None /\ input'[r] = in /\ \A s \in Calls : s # r => input'[s] = input[s]
    BY ConstantsAssumption DEF TextInv
  <2>4. ASSUME NEW s \in Calls, s # r, CallWaits(s)', NEW j \in JobsOf(s)', future'[j] = "pending"
        PROVE  Placed(j)'
    <3>1. JobsOf(s)' = JobsOf(s)
      BY <2>3, <2>4 DEF JobsOf
    <3>2. \A k \in JobsOf(s) : k \in Ids /\ k[1] = s
      BY JobsAreIds DEF JobsOf
    <3>3. \A k \in JobsOf(s) : future'[k] = future[k]
      BY <2>4, <3>2 DEF Accepted
    <3>4. CallWaits(s)
      BY <2>4, <3>1, <3>3 DEF CallWaits
    <3>5. Placed(j)
      BY <2>4, <3>1, <3>3, <3>4
    <3>6. ToSet(pending) \subseteq ToSet(pending')
      <4>1. CASE pending' = pending
        BY <4>1
      <4>2. CASE pending' # pending
        <5>1. ~(\E i \in DOMAIN in.counts : Oversize(in, i))
          BY <4>2 DEF Accepted
        <5> QED
          BY <5>1, EmbedAppends DEF TextInv
      <4> QED
        BY <4>1, <4>2
    <3> QED
      BY <3>5, <3>6 DEF Placed
  <2>5. ASSUME CallWaits(r)', NEW j \in JobsOf(r)', future'[j] = "pending"
        PROVE  Placed(j)'
    <3>1. PICK i \in DOMAIN in.counts : j = << r, i >>
      BY <2>3 DEF JobsOf
    <3>2. j \in Ids
      <4>1. /\ in.counts \in Seq(Nat) /\ Len(in.counts) \in 1..MaxTexts /\ MaxTexts \in Nat
            /\ DOMAIN in.counts = 1..Len(in.counts)
        BY ConstantsAssumption, LenProperties
      <4> QED
        BY <3>1, <4>1 DEF Ids
    <3>3. future[j] = "none"
      BY <3>1, <3>2 DEF FutureInv, Ids
    <3>4. ~(\E k \in DOMAIN in.counts : Oversize(in, k))
      BY <2>5, <3>3 DEF Accepted
    <3>5. j \in ToSet(pending')
      BY <3>1, <3>4, EmbedAppends DEF TextInv
    <3> QED
      BY <3>5 DEF Placed
  <2> QED
    BY <2>2, <2>4, <2>5
<1>2. CASE \A r \in Calls : \A in \in Inputs : ~Embed(r, in)
  <2>1. \A r \in Calls : CallWaits(r)' =>
          /\ CallWaits(r) /\ JobsOf(r)' = JobsOf(r)
          /\ \A j \in JobsOf(r) : future'[j] = "pending" => future[j] = "pending"
    BY <1>2, WaitingIsOver
  <2>2. stopping' => \A r \in Calls : ~CallWaits(r)'
    <3>1. stopping' = stopping \/ ~stopping' \/ \A r \in Calls : ~CallWaits(r)
      BY <1>2 DEF Next, QueueStep, Work, WorkerStep, Start, StartWorker, CallerCancelled, Stop,
         StopReturns, Run, Refilled, Timeout, EnterGate, FinishBatch, CancelIdleWorker,
         CancelBusyWorker, ThreadStarts, ThreadEnds, OtherAcquires, OtherLeaves, vars
    <3> QED
      BY <2>1, <3>1
  <2>3. ASSUME \A r \in Calls : CallWaits(r) =>
                 \A j \in JobsOf(r) : Placed(j) /\ future'[j] = "pending" => Placed(j)'
        PROVE  DrainInv'
    BY <2>1, <2>2, <2>3
  <2>4. ASSUME UNCHANGED << pending, batch >> PROVE DrainInv'
    BY <2>3, <2>4 DEF Placed
  <2>5. ASSUME pending' = << >>, future' = Settled(ToSet(pending), "cancelled"), batch' = batch
        PROVE  DrainInv'
    <3>1. \A j \in Ids : j \in ToSet(pending) => future'[j] # "pending"
      BY <2>5 DEF Settled
    <3> QED
      BY <2>3, <2>5, <3>1, JobsAreIds DEF Placed
  <2>6. CASE Stop
    BY <2>4, <2>5, <2>6 DEF Stop, CancelPendingFutures
  <2>7. CASE StopReturns
    BY <2>5, <2>7 DEF StopReturns, CancelPendingFutures
  <2>8. ASSUME NEW w \in Workers, NEW atGate, ServeBatch(w, atGate, 0), input' = input,
               \A j \in Ids : j \in ToSet(batch[w]) => future'[j] # "pending"
        PROVE  DrainInv'
    <3>1. /\ \A v \in Workers : v # w => batch'[v] = batch[v]
          /\ \A j \in ToSet(pending) : j \in ToSet(pending') \/ j \in ToSet(batch'[w])
      BY <1>0, <2>8, ServeBatchTakesTexts
    <3> QED
      BY <2>3, <2>8, <3>1, JobsAreIds DEF Placed
  <2>9. ASSUME NEW w \in Workers, NEW atGate, NextBatch(w, atGate, 0), input' = input,
               \A j \in Ids : j \in ToSet(batch[w]) => future'[j] # "pending"
        PROVE  DrainInv'
    <3>1. CASE ServeBatch(w, atGate, 0)
      BY <2>8, <2>9, <3>1
    <3>2. CASE batch' = [batch EXCEPT ![w] = << >>] /\ pending' = pending
      <4>1. \A v \in Workers : v # w => batch'[v] = batch[v]
        BY <1>0, <3>2
      <4> QED
        BY <2>3, <2>9, <3>2, <4>1, JobsAreIds DEF Placed
    <3> QED
      BY <2>9, <3>1, <3>2 DEF NextBatch
  <2>10. ASSUME NEW w \in Workers, Live(w), ~Busy(w)
         PROVE  active = 0 /\ \A j \in Ids : j \in ToSet(batch[w]) => future'[j] # "pending"
    BY <1>0, <2>10 DEF IInv, WorkerInv, BatchInv, CountInv
  <2>11. ASSUME NEW w \in Workers, Run(w) PROVE DrainInv'
    BY <2>9, <2>10, <2>11 DEF Run, Live, Busy
  <2>12. ASSUME NEW w \in Workers, Refilled(w) PROVE DrainInv'
    BY <2>4, <2>8, <2>10, <2>12 DEF Refilled, Live, Busy
  <2>13. ASSUME NEW w \in Workers, Timeout(w) PROVE DrainInv'
    BY <2>8, <2>10, <2>13 DEF Timeout, Live, Busy
  <2>14. ASSUME NEW w \in Workers, FinishBatch(w) PROVE DrainInv'
    <3>1. Busy(w) /\ Live(w)
      BY <2>14 DEF FinishBatch, Live, Busy
    <3>2. active = Len(batch[w])
      BY <1>0, <3>1 DEF IInv, WorkerInv, BatchInv, CountInv
    <3>3. active - Len(batch[w]) = 0
      BY <1>0, <3>2
    <3>4. \A j \in Ids : j \in ToSet(batch[w]) => future'[j] # "pending"
      BY <2>14 DEF FinishBatch, Settled
    <3> QED
      BY <2>9, <2>14, <3>3, <3>4 DEF FinishBatch
  <2>15. ASSUME NEW w \in Workers, CancelBusyWorker(w) PROVE DrainInv'
    <3>1. Live(w) /\ stopping
      BY <2>15 DEF CancelBusyWorker, Live, IInv, WorkerInv
    <3> QED
      BY <2>1, <3>1
  <2> QED
    BY <1>2, <2>4, <2>6, <2>7, <2>11, <2>12, <2>13, <2>14, <2>15
       DEF Next, QueueStep, Work, WorkerStep, Start, CallerCancelled, EnterGate, CancelIdleWorker,
           ThreadStarts, ThreadEnds, OtherAcquires, OtherLeaves, vars
<1> QED
  BY <1>1, <1>2

\* With graceful shutdowns a text that a call still waits for is in the list or in the
\* hands of a worker, whichever texts are preferred to it and whatever became of the
\* others of its call (batching.py:114, :158-160, :184-195).
THEOREM NoTextIsForgotten ==
  ASSUME Drained
  PROVE  Spec => []NoTextForgotten
<1>1. Init => DrainInv
  BY DEF Init, DrainInv, CallWaits, JobsOf
<1>2. TInv /\ DrainInv /\ [Next]_vars => DrainInv'
  BY NextKeepsDrainInv
<1>3. DrainInv => NoTextForgotten
  BY DEF DrainInv, Placed, NoTextForgotten
<1> QED
  BY <1>1, <1>2, <1>3, TextInvariance, PTL DEF Spec
=============================================================================
