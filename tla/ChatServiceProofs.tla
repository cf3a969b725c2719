-------------------------- MODULE ChatServiceProofs --------------------------
(***************************************************************************)
(* The chat service.  First its text: what it yields, for any stop         *)
(* sequences, any pieces that the model brings and texts of any length.    *)
(* The invariant TextInv relates what was yielded to the text, and says    *)
(* how much of the text's end is held back while the model generates: so   *)
(* much that every stop sequence which begins in what was yielded would    *)
(* have been completed, and found, already.                                *)
(*                                                                         *)
(* Then its locks (ChatLifecycle, here Life), for any number of generating *)
(* threads, evictors and streams.  Life!TypeOK says who holds _load_lock   *)
(* and _generate_lock and where: it is inductive as it stands.             *)
(***************************************************************************)
EXTENDS StopStream, SequenceTheorems, WellFoundedInduction, NaturalsInduction, TLAPS

\* The parameters and the state of ChatLifecycle.
CONSTANTS Calls, Streams, Evictors, Loop, None
VARIABLES model, load_lock, generate_lock, pc, local, client, loop,
          idle, evictor, thread, evictorStopping

Life == INSTANCE ChatLifecycle

-----------------------------------------------------------------------------
(* Minima and maxima *)

\* A set of positions has a first one.
LEMMA LeastElement ==
  ASSUME NEW T \in SUBSET Nat, T # {}
  PROVE  Min(T) \in T /\ \A y \in T : Min(T) <= y
<1>1. PICK x \in T : \A y \in T : << y, x >> \notin OpToRel(<, Nat)
  BY NatLessThanWellFounded, WFMin
<1>2. \A y \in T : ~(y < x)
  BY <1>1 DEF OpToRel
<1>3. \A y \in T : y \in Nat
  OBVIOUS
<1>4. \A y \in T : x <= y
  BY <1>2, <1>3
<1> QED
  BY <1>4 DEF Min

\* A bounded set of lengths has a greatest one: the least bound.
LEMMA GreatestElement ==
  ASSUME NEW T \in SUBSET Nat, T # {}, NEW m \in Nat, \A y \in T : y <= m
  PROVE  Max(T) \in T /\ \A y \in T : Max(T) >= y
<1> DEFINE B == {b \in Nat : \A y \in T : y <= b}
<1>1. B \in SUBSET Nat /\ B # {}
  OBVIOUS
<1>2. PICK x \in B : \A b \in B : x <= b
  <2> HIDE DEF B
  <2> QED
    BY <1>1, LeastElement
<1>3. x \in Nat /\ \A y \in T : y \in Nat /\ y <= x
  BY <1>2
<1>4. x \in T
  <2> SUFFICES ASSUME x \notin T PROVE FALSE
    OBVIOUS
  <2>1. PICK z \in T : TRUE
    OBVIOUS
  <2>2. z < x
    BY <1>3, <2>1
  <2>3. x - 1 \in Nat /\ \A y \in T : y <= x - 1
    BY <1>3, <2>2
  <2>4. x - 1 \in B
    BY <2>3
  <2>5. x <= x - 1
    BY <1>2, <2>4
  <2> QED
    BY <1>3, <2>5
<1>5. \A y \in T : x >= y
  BY <1>3
<1> QED
  BY <1>4, <1>5 DEF Max

-----------------------------------------------------------------------------
(* Slices *)

\* The length of a slice, and what it is made of.
LEMMA SliceLength ==
  ASSUME NEW t \in Seq(Letters), NEW a \in 0..Len(t), NEW b \in a..Len(t)
  PROVE  Slice(t, a, b) \in Seq(Letters) /\ Len(Slice(t, a, b)) = b - a
<1> DEFINE n == Len(t)
<1>1. n \in Nat /\ a \in 0..n /\ b \in a..n /\ \A i \in 1..n : t[i] \in Letters
  BY LenProperties, ElementOfSeq
<1> HIDE DEF n
<1>2. a + 1 \in Int /\ b \in Int /\ \A i \in (a + 1)..b : t[i] \in Letters
  BY <1>1
<1>3. /\ SubSeq(t, a + 1, b) \in Seq(Letters)
      /\ Len(SubSeq(t, a + 1, b)) = IF a + 1 <= b THEN b - (a + 1) + 1 ELSE 0
  BY <1>2, SubSeqProperties
<1>4. (IF a + 1 <= b THEN b - (a + 1) + 1 ELSE 0) = b - a
  BY <1>1
<1> QED
  BY <1>3, <1>4 DEF Slice

\* What comes behind a text does not change its slices.
LEMMA SliceOfLonger ==
  ASSUME NEW t \in Seq(Letters), NEW p \in Seq(Letters),
         NEW a \in 0..Len(t), NEW b \in a..Len(t)
  PROVE  Slice(t \o p, a, b) = Slice(t, a, b)
<1> DEFINE n == Len(t)
<1>1. n \in Nat /\ a \in 0..n /\ b \in a..n
  BY LenProperties
<1>2. CASE a = b
  <2>1. a + 1 \in Int /\ b \in Int /\ b < a + 1
    <3> HIDE DEF n
    <3> QED
      BY <1>1, <1>2
  <2> QED
    BY <2>1, SubSeqEmpty DEF Slice
<1>3. CASE a # b
  <2>1. a + 1 \in 1..n /\ b \in 1..n
    <3> HIDE DEF n
    <3> QED
      BY <1>1, <1>3
  <2> QED
    BY <2>1, SubSeqOfConcat1 DEF Slice
<1> QED
  BY <1>2, <1>3

\* Two slices that meet.
LEMMA SlicesMeet ==
  ASSUME NEW t \in Seq(Letters), NEW a \in 0..Len(t), NEW b \in a..Len(t)
  PROVE  Slice(t, 0, a) \o Slice(t, a, b) = Slice(t, 0, b)
<1> DEFINE n == Len(t)
<1>1. n \in Nat /\ a \in 0..n /\ b \in a..n
  BY LenProperties
<1>2. 1 \in 1..(n + 1) /\ a \in (1 - 1)..n /\ b \in a..n /\ 0 + 1 = 1
  <2> HIDE DEF n
  <2> QED
    BY <1>1
<1>3. SubSeq(t, 1, a) \o SubSeq(t, a + 1, b) = SubSeq(t, 1, b)
  BY <1>2, ConcatAdjacentSubSeq
<1> QED
  BY <1>2, <1>3 DEF Slice

\* All of it.
LEMMA SliceOfAll ==
  ASSUME NEW t \in Seq(Letters)
  PROVE  Slice(t, 0, Len(t)) = t
BY SubSeqFull DEF Slice

\* Where a stop sequence is found.
LEMMA IndexLemma ==
  ASSUME NEW t \in Seq(Letters)
  PROVE  StopIndices(t) \in SUBSET Nat /\ StopIndices(t) \subseteq 0..Len(t)
<1>1. Len(t) \in Nat
  BY LenProperties
<1>2. StopIndices(t) \subseteq 0..Len(t)
  BY DEF StopIndices
<1> QED
  BY <1>1, <1>2

\* An empty stop sequence is found everywhere.
LEMMA EmptyIsFound ==
  ASSUME NEW t \in Seq(Letters), StopIndices(t) = {},
         NEW v \in stop_values, v \in Seq(Letters)
  PROVE  Len(v) \in Nat \ {0}
<1>1. Len(t) \in Nat /\ Len(v) \in Nat
  BY LenProperties
<1>2. ASSUME Len(v) = 0 PROVE FALSE
  <2>1. v = << >>
    BY <1>2, EmptySeq
  <2>2. 0 \in 0..Len(t) /\ 0 + Len(v) <= Len(t)
    <3> DEFINE n == Len(t)
               k == Len(v)
    <3>1. n \in Nat /\ k = 0
      BY <1>1, <1>2
    <3> HIDE DEF n, k
    <3>2. 0 \in 0..n /\ 0 + k <= n
      BY <3>1
    <3> QED
      BY <3>2 DEF n, k
  <2>3. Slice(t, 0, 0 + Len(v)) = << >>
    BY <1>2, SubSeqEmpty DEF Slice
  <2>4. 0 \in StopIndices(t)
    BY <2>1, <2>2, <2>3 DEF StopIndices
  <2> QED
    BY <2>4
<1> QED
  BY <1>1, <1>2

-----------------------------------------------------------------------------
(* The invariant *)

StopsBounded == \E m \in Nat : \A v \in stop_values : Len(v) <= m

HeldBack ==
  phase = "generating" /\ emitted_until # 0 =>
    /\ StopIndices(text) = {}
    /\ \A v \in stop_values : emitted_until + Len(v) <= Len(text) + 1

OutputInv ==
  /\ phase # "done" => output = Slice(text, 0, emitted_until)
  /\ phase = "done" => output = text
  /\ phase = "stopped" => emitted_until = Min(StopIndices(text))

TextInv == TextTypeOK /\ StopsBounded /\ HeldBack /\ OutputInv

\* The values of a finite list have a longest one.
LEMMA ListIsBounded ==
  ASSUME NEW l \in Seq(Seq(Letters))
  PROVE  \E m \in Nat : \A i \in 1..Len(l) : Len(l[i]) <= m
<1>0. \A x, y, z \in Nat : x = z \/ x <= y => x <= y + z
  OBVIOUS
<1> DEFINE N == Len(l)
           B(k) == \E m \in Nat : \A i \in 1..k : Len(l[i]) <= m
           T == {k \in 0..N : ~B(k)}
<1>1. N \in Nat /\ \A i \in 1..N : Len(l[i]) \in Nat
  BY LenProperties, ElementOfSeq
<1> HIDE DEF N
<1>2. SUFFICES ASSUME T # {} PROVE FALSE
  <2>1. N \in 0..N
    BY <1>1
  <2>2. B(N)
    BY <1>2, <2>1
  <2> QED
    BY <2>2 DEF N
<1>3. T \in SUBSET Nat
  BY <1>1
<1>4. PICK k \in T : \A y \in T : k <= y
  <2> HIDE DEF T
  <2> QED
    BY <1>2, <1>3, LeastElement
<1>5. k \in 0..N /\ ~B(k)
  BY <1>4
<1>6. k # 0
  <2>1. \A i \in 1..0 : Len(l[i]) <= 0
    OBVIOUS
  <2>2. B(0)
    BY <2>1
  <2> QED
    BY <1>5, <2>2
<1>7. k \in Nat /\ k - 1 \in 0..N /\ ~(k <= k - 1) /\ k \in 1..N
  BY <1>1, <1>5, <1>6
<1>8. B(k - 1)
  <2>1. k - 1 \notin T
    <3> HIDE DEF T
    <3> QED
      BY <1>4, <1>7
  <2> QED
    BY <1>7, <2>1
<1>9. PICK m \in Nat : \A i \in 1..(k - 1) : Len(l[i]) <= m
  BY <1>8
<1>10. PICK c \in Nat : c = Len(l[k])
  BY <1>1, <1>7
<1>11. m + c \in Nat
  OBVIOUS
<1>12. \A i \in 1..k : Len(l[i]) <= m + c
  <2> SUFFICES ASSUME NEW i \in 1..k PROVE Len(l[i]) <= m + c
    OBVIOUS
  <2>1. i \in 1..N
    BY <1>1, <1>7
  <2>2. PICK d \in Nat : d = Len(l[i])
    BY <1>1, <2>1
  <2>3. i = k => d = c
    BY <1>10, <2>2
  <2>4. i # k => i \in 1..(k - 1)
    BY <1>7, <2>1
  <2>5. i # k => d <= m
    BY <1>9, <2>2, <2>4
  <2>6. d <= m + c
    BY <1>0, <2>3, <2>5
  <2> QED
    BY <2>2, <2>6
<1> QED
  BY <1>5, <1>11, <1>12

\* The greater of two numbers.
LEMMA MaxOfTwo ==
  ASSUME NEW x \in Int, NEW y \in Int
  PROVE  Max({x, y}) \in {x, y} /\ Max({x, y}) >= x /\ Max({x, y}) >= y
<1>1. \E z \in {x, y} : \A w \in {x, y} : z >= w
  OBVIOUS
<1> QED
  BY <1>1 DEF Max

\* Nothing is generated, and so nothing is found, at first.
LEMMA InitText == TextInit => TextInv
<1> SUFFICES ASSUME TextInit PROVE TextInv
  OBVIOUS
<1>1. PICK s \in Stops : stop_values = NormalizeStop(s)
  BY DEF TextInit
<1>2. s.values \in Seq(Seq(Letters))
  BY TextAssumption
<1> DEFINE l == s.values
<1>3. /\ DOMAIN l = 1..Len(l)
      /\ \A i \in 1..Len(l) : l[i] \in Seq(Letters)
  BY <1>2, LenProperties, ElementOfSeq
<1>4. \A v \in stop_values : \E i \in 1..Len(l) : v = l[i]
  BY <1>1, <1>3 DEF NormalizeStop
<1>5. PICK m \in Nat : \A i \in 1..Len(l) : Len(l[i]) <= m
  BY <1>2, ListIsBounded
<1>6. StopsBounded
  BY <1>4, <1>5 DEF StopsBounded
<1>7. text = << >> /\ output = << >> /\ emitted_until = 0 /\ phase = "generating"
  BY DEF TextInit
<1>8. text \in Seq(Letters) /\ Len(text) = 0
  BY <1>7, EmptySeq
<1>9. TextTypeOK
  <2>1. stop_values \subseteq Seq(Letters)
    BY <1>3, <1>4
  <2>2. 0 \in 0..0 /\ 0 <= 0
    OBVIOUS
  <2> QED
    BY <1>7, <1>8, <2>1, <2>2 DEF TextTypeOK
<1>10. OutputInv
  <2>1. Slice(text, 0, Len(text)) = text
    BY <1>8, SliceOfAll
  <2> QED
    BY <1>7, <1>8, <2>1 DEF OutputInv
<1>11. HeldBack
  BY <1>7 DEF HeldBack
<1> QED
  BY <1>6, <1>9, <1>10, <1>11 DEF TextInv

\* The new text, and the old one in it.
LEMMA LongerText ==
  ASSUME TextTypeOK, NEW p \in Pieces
  PROVE  /\ p \in Seq(Letters)
         /\ text \o p \in Seq(Letters)
         /\ Len(text) \in Nat /\ Len(text \o p) \in Nat
         /\ Len(text) <= Len(text \o p)
         /\ emitted_until \in Nat /\ emitted_until <= Len(text)
<1>1. p \in Seq(Letters) /\ text \in Seq(Letters)
  BY TextAssumption DEF TextTypeOK
<1>2. text \o p \in Seq(Letters) /\ Len(text \o p) = Len(text) + Len(p)
  BY <1>1, ConcatProperties
<1>3. Len(text) \in Nat /\ Len(p) \in Nat /\ Len(text \o p) \in Nat
  BY <1>1, <1>2, LenProperties
<1>4. emitted_until \in 0..Len(text)
  BY DEF TextTypeOK
<1> DEFINE n == Len(text)
           k == Len(p)
           m == Len(text \o p)
<1>5. n \in Nat /\ k \in Nat /\ m = n + k /\ emitted_until \in 0..n
  BY <1>2, <1>3, <1>4
<1> HIDE DEF n, k, m
<1>6. n <= m /\ emitted_until \in Nat /\ emitted_until <= n
  BY <1>5
<1> QED
  BY <1>1, <1>2, <1>3, <1>6 DEF n, m

\* A stop sequence that a response completes begins behind what has been yielded:
\* that is what holding back the end of the text is for (chat.py:260-264).
LEMMA FoundBehind ==
  ASSUME TextInv, NEW p \in Pieces, phase = "generating", StopIndices(text \o p) # {}
  PROVE  /\ FirstStopIndex(text \o p) \in 0..Len(text \o p)
         /\ emitted_until <= FirstStopIndex(text \o p)
<1> DEFINE t == text \o p
           i == FirstStopIndex(t)
           e == emitted_until
           n == Len(text)
           m == Len(t)
<1>1. /\ t \in Seq(Letters) /\ text \in Seq(Letters) /\ p \in Seq(Letters)
      /\ n \in Nat /\ m \in Nat /\ n <= m /\ e \in Nat /\ e <= n
  BY LongerText DEF TextInv, TextTypeOK
<1>2. i \in StopIndices(t)
  BY <1>1, IndexLemma, LeastElement DEF FirstStopIndex
<1>3. i \in 0..m
  BY <1>1, <1>2, IndexLemma
<1>4. ASSUME i < e PROVE FALSE
  <2>1. PICK v \in stop_values : i + Len(v) <= m /\ Slice(t, i, i + Len(v)) = v
    BY <1>2 DEF StopIndices
  <2>2. v \in Seq(Letters)
    BY DEF TextInv, TextTypeOK
  <2> DEFINE k == Len(v)
  <2>3. k \in Nat
    BY <2>2, LenProperties
  <2>4. e # 0
    <3> HIDE DEF i, m, e
    <3> QED
      BY <1>1, <1>3, <1>4
  <2>5. StopIndices(text) = {} /\ e + k <= n + 1
    BY <2>4 DEF TextInv, HeldBack
  <2>6. i \in 0..n /\ i + k \in i..n /\ i + k <= n
    <3> HIDE DEF i, m, e, k, n
    <3> QED
      BY <1>1, <1>3, <1>4, <2>3, <2>5
  <2>7. Slice(text, i, i + k) = v
    <3> HIDE DEF i
    <3>1. Slice(t, i, i + Len(v)) = Slice(text, i, i + Len(v))
      BY <1>1, <2>6, SliceOfLonger
    <3> QED
      BY <2>1, <3>1
  <2>8. i \in StopIndices(text)
    <3> HIDE DEF i
    <3> QED
      BY <2>6, <2>7 DEF StopIndices
  <2> QED
    BY <2>5, <2>8
<1>5. e <= i
  <2> HIDE DEF i, e
  <2> QED
    BY <1>1, <1>3, <1>4
<1> QED
  BY <1>3, <1>5

\* What is held back is never more than what has not been yielded, nor less than
\* the longest stop sequence without its last letter (chat.py:260-264).
LEMMA SafeEnd ==
  ASSUME TextInv, NEW p \in Pieces, phase = "generating", StopIndices(text \o p) = {}
  PROVE  /\ SafeStreamEnd(text \o p) \in 0..Len(text \o p)
         /\ emitted_until <= SafeStreamEnd(text \o p)
         /\ SafeStreamEnd(text \o p) # 0 =>
              \A v \in stop_values : SafeStreamEnd(text \o p) + Len(v) <= Len(text \o p) + 1
<1> DEFINE t == text \o p
           e == emitted_until
           n == Len(text)
           m == Len(t)
           s == SafeStreamEnd(t)
<1>1. /\ t \in Seq(Letters)
      /\ n \in Nat /\ m \in Nat /\ n <= m /\ e \in Nat /\ e <= n
  BY LongerText DEF TextInv
<1>2. CASE stop_values = {}
  <2>1. s = m
    BY <1>2 DEF SafeStreamEnd
  <2>2. s \in 0..m /\ e <= s
    <3> HIDE DEF s, m, e, n
    <3> QED
      BY <1>1, <2>1
  <2> QED
    BY <1>2, <2>2
<1>3. CASE stop_values # {}
  <2> DEFINE L == {Len(v) : v \in stop_values}
             g == Max(L)
  <2>1. \A v \in stop_values : Len(v) \in Nat \ {0}
    BY <1>1, EmptyIsFound DEF TextInv, TextTypeOK
  <2>2. PICK b \in Nat : \A v \in stop_values : Len(v) <= b
    BY DEF TextInv, StopsBounded
  <2>3. L \in SUBSET Nat /\ L # {} /\ \A x \in L : x <= b
    BY <1>3, <2>1, <2>2
  <2>4. g \in L /\ \A x \in L : g >= x
    <3> HIDE DEF L
    <3> QED
      BY <2>3, GreatestElement
  <2>5. g \in Nat \ {0} /\ \A v \in stop_values : Len(v) <= g
    <3>1. g \in Nat \ {0}
      BY <2>1, <2>4
    <3>2. \A v \in stop_values : g >= Len(v)
      BY <2>4
    <3> HIDE DEF L, g
    <3> QED
      BY <2>1, <3>1, <3>2
  <2> DEFINE r == m - (g - 1)
  <2>6. s = Max({e, r})
    BY <1>3 DEF SafeStreamEnd
  <2>7. r \in Int /\ e \in Int /\ r + g = m + 1 /\ r <= m
    <3> HIDE DEF L, g, m, e, n
    <3> QED
      BY <1>1, <2>5
  <2>8. s \in {e, r} /\ s >= e /\ s >= r
    <3> HIDE DEF r, e, s
    <3> QED
      BY <2>6, <2>7, MaxOfTwo
  <2>9. s \in 0..m /\ e <= s
    <3> HIDE DEF s, r, e, m, n, g
    <3> QED
      BY <1>1, <2>7, <2>8
  <2>10. ASSUME s # 0, NEW v \in stop_values PROVE s + Len(v) <= m + 1
    <3> DEFINE k == Len(v)
    <3>1. k \in Nat /\ k <= g
      BY <2>1, <2>5
    <3>2. CASE s = r
      <4> HIDE DEF s, r, e, m, n, g, k
      <4> QED
        BY <1>1, <2>5, <2>7, <3>1, <3>2
    <3>3. CASE s = e
      <4>1. e + k <= n + 1
        BY <2>10, <3>3 DEF TextInv, HeldBack
      <4>2. e + k <= m + 1
        <5> HIDE DEF s, r, e, m, n, g, k
        <5> QED
          BY <1>1, <3>1, <4>1
      <4> HIDE DEF s, e, m
      <4> QED
        BY <3>3, <4>2
    <3> QED
      BY <2>8, <3>2, <3>3
  <2> QED
    BY <2>9, <2>10
<1> QED
  BY <1>2, <1>3

\* What is yielded continues what was.
LEMMA OutputContinues ==
  ASSUME TextInv, NEW p \in Pieces, phase # "done",
         NEW i \in 0..Len(text \o p), emitted_until <= i
  PROVE  output \o Slice(text \o p, emitted_until, i) = Slice(text \o p, 0, i)
<1> DEFINE t == text \o p
           e == emitted_until
           n == Len(text)
           m == Len(t)
<1>1. /\ t \in Seq(Letters) /\ text \in Seq(Letters) /\ p \in Seq(Letters)
      /\ n \in Nat /\ m \in Nat /\ n <= m /\ e \in Nat /\ e <= n
      /\ i \in 0..m /\ e <= i
  BY LongerText DEF TextInv, TextTypeOK
<1>2. 0 \in 0..n /\ e \in 0..n /\ e \in 0..i /\ i \in e..m /\ e \in 0..m
  <2> HIDE DEF e, n, m
  <2> QED
    BY <1>1
<1>3. output = Slice(text, 0, e)
  BY DEF TextInv, OutputInv
<1>4. Slice(t, 0, e) = Slice(text, 0, e)
  BY <1>1, <1>2, SliceOfLonger
<1>5. Slice(t, 0, e) \o Slice(t, e, i) = Slice(t, 0, i)
  BY <1>1, <1>2, SlicesMeet
<1> QED
  BY <1>3, <1>4, <1>5

\* A response brings a stop sequence to its end.
LEMMA RespondStopKeeps ==
  ASSUME TextInv, NEW p \in Pieces, RespondStop(p)
  PROVE  TextInv'
<1> DEFINE t == text \o p
           i == FirstStopIndex(t)
<1>1. /\ phase = "generating" /\ phase' = "stopped"
      /\ StopIndices(t) # {}
      /\ text' = t /\ emitted_until' = i /\ stop_values' = stop_values
      /\ output' = output \o Slice(t, emitted_until, i)
  BY DEF RespondStop
<1>2. t \in Seq(Letters) /\ Len(t) \in Nat
  BY LongerText DEF TextInv
<1>3. i \in 0..Len(t) /\ emitted_until <= i
  BY <1>1, FoundBehind
<1>4. output' = Slice(t, 0, i)
  <2> HIDE DEF i
  <2> QED
    BY <1>1, <1>3, OutputContinues
<1>5. StopIndices(text)' = StopIndices(t)
  BY <1>1 DEF StopIndices
<1>6. OutputInv'
  BY <1>1, <1>4, <1>5 DEF OutputInv, FirstStopIndex
<1>7. TextTypeOK'
  <2> HIDE DEF i, t
  <2>1. 0 \in 0..Len(t) /\ i \in 0..Len(t) /\ i - 0 = i /\ i <= Len(t)
    BY <1>2, <1>3
  <2>2. Slice(t, 0, i) \in Seq(Letters) /\ Len(Slice(t, 0, i)) = i
    BY <1>2, <2>1, SliceLength
  <2>3. stop_values' \subseteq Seq(Letters)
    BY <1>1 DEF TextInv, TextTypeOK
  <2> QED
    BY <1>1, <1>2, <1>4, <2>1, <2>2, <2>3 DEF TextTypeOK
<1>8. StopsBounded'
  BY <1>1 DEF TextInv, StopsBounded
<1>9. HeldBack'
  BY <1>1 DEF HeldBack
<1> QED
  BY <1>6, <1>7, <1>8, <1>9 DEF TextInv

\* A response brings no stop sequence to its end.
LEMMA RespondKeeps ==
  ASSUME TextInv, NEW p \in Pieces, Respond(p)
  PROVE  TextInv'
<1> DEFINE t == text \o p
           i == SafeStreamEnd(t)
<1>1. /\ phase = "generating" /\ phase' = "generating"
      /\ StopIndices(t) = {}
      /\ text' = t /\ stop_values' = stop_values
  BY DEF Respond
<1>2. emitted_until' = i /\ output' = output \o Slice(t, emitted_until, i)
  BY <1>1 DEF Respond, SafeStreamEnd
<1>3. t \in Seq(Letters) /\ Len(t) \in Nat
  BY LongerText DEF TextInv
<1>4. /\ i \in 0..Len(t) /\ emitted_until <= i
      /\ i # 0 => \A v \in stop_values : i + Len(v) <= Len(t) + 1
  BY <1>1, SafeEnd
<1>5. output' = Slice(t, 0, i)
  <2> HIDE DEF i
  <2> QED
    BY <1>1, <1>2, <1>4, OutputContinues
<1>6. StopIndices(text)' = StopIndices(t)
  BY <1>1 DEF StopIndices
<1>7. OutputInv'
  BY <1>1, <1>2, <1>5 DEF OutputInv
<1>8. TextTypeOK'
  <2> HIDE DEF i, t
  <2>1. 0 \in 0..Len(t) /\ i \in 0..Len(t) /\ i - 0 = i /\ i <= Len(t)
    BY <1>3, <1>4
  <2>2. Slice(t, 0, i) \in Seq(Letters) /\ Len(Slice(t, 0, i)) = i
    BY <1>3, <2>1, SliceLength
  <2>3. stop_values' \subseteq Seq(Letters)
    BY <1>1 DEF TextInv, TextTypeOK
  <2> QED
    BY <1>1, <1>2, <1>3, <1>5, <2>1, <2>2, <2>3 DEF TextTypeOK
<1>9. StopsBounded'
  BY <1>1 DEF TextInv, StopsBounded
<1>10. HeldBack'
  <2> HIDE DEF i, t
  <2> QED
    BY <1>1, <1>2, <1>4, <1>6 DEF HeldBack
<1> QED
  BY <1>7, <1>8, <1>9, <1>10 DEF TextInv

\* Nothing more is generated.
LEMMA ExhaustKeeps ==
  ASSUME TextInv, ExhaustText
  PROVE  TextInv'
<1>1. /\ phase = "generating" /\ phase' = "exhausted"
      /\ text' = text /\ stop_values' = stop_values
      /\ emitted_until' = emitted_until /\ output' = output
  BY DEF ExhaustText
<1> QED
  BY <1>1 DEF TextInv, TextTypeOK, StopsBounded, HeldBack, OutputInv

\* The rest is yielded.
LEMMA FinishKeeps ==
  ASSUME TextInv, Finish
  PROVE  TextInv'
<1>1. /\ phase \in {"stopped", "exhausted"} /\ phase' = "done"
      /\ text' = text /\ stop_values' = stop_values /\ emitted_until' = emitted_until
      /\ output' = output \o Slice(text, emitted_until, Len(text))
  BY DEF Finish
<1>2. text \in Seq(Letters) /\ Len(text) \in Nat /\ emitted_until \in 0..Len(text)
  BY LenProperties DEF TextInv, TextTypeOK
<1>3. /\ emitted_until \in 0..Len(text)
      /\ Len(text) \in emitted_until..Len(text) /\ Len(text) <= Len(text)
  <2> DEFINE n == Len(text)
             e == emitted_until
  <2>1. n \in Nat /\ e \in 0..n
    BY <1>2
  <2> HIDE DEF n, e
  <2>2. e \in 0..n /\ n \in e..n /\ n <= n
    BY <2>1
  <2> QED
    BY <2>2 DEF n, e
<1>4. output' = text
  BY <1>1, <1>2, <1>3, SlicesMeet, SliceOfAll DEF TextInv, OutputInv
<1> QED
  BY <1>1, <1>2, <1>3, <1>4 DEF TextInv, TextTypeOK, StopsBounded, HeldBack, OutputInv

\* The invariant of the stream of text.
LEMMA TextIsInvariant == TextSpec => []TextInv
<1>1. TextInv /\ UNCHANGED textVars => TextInv'
  <2> SUFFICES ASSUME TextInv, UNCHANGED textVars PROVE TextInv'
    OBVIOUS
  <2>1. /\ phase' = phase /\ text' = text /\ stop_values' = stop_values
        /\ emitted_until' = emitted_until /\ output' = output
    BY DEF textVars
  <2>2. StopIndices(text)' = StopIndices(text)
    BY <2>1 DEF StopIndices
  <2> QED
    BY <2>1, <2>2 DEF TextInv, TextTypeOK, StopsBounded, HeldBack, OutputInv
<1>2. TextInv /\ TextNext => TextInv'
  BY RespondStopKeeps, RespondKeeps, ExhaustKeeps, FinishKeeps DEF TextNext
<1> QED
  BY InitText, <1>1, <1>2, PTL DEF TextSpec

\* No letter is yielded that may begin a stop sequence: what the text's end has in
\* common with one is held back, for any stop sequences, however the pieces cut
\* them (chat.py:149, :260-264).
THEOREM NothingBegunIsYielded == TextSpec => []NoStopSequenceBegun
<1>1. TextInv => NoStopSequenceBegun
  <2> SUFFICES ASSUME TextInv, phase = "generating",
                      NEW i \in 0..emitted_until - 1, NEW v \in stop_values,
                      NEW k \in 0..Len(v), Slice(text, i, Len(text)) = SubSeq(v, 1, k)
               PROVE  FALSE
    BY DEF NoStopSequenceBegun
  <2> DEFINE n == Len(text)
             e == emitted_until
             l == Len(v)
  <2>1. /\ text \in Seq(Letters) /\ v \in Seq(Letters)
        /\ n \in Nat /\ l \in Nat /\ e \in 0..n
        /\ i \in 0..e - 1 /\ k \in 0..l
    BY LenProperties DEF TextInv, TextTypeOK
  <2>2. /\ i \in 0..n /\ n \in i..n /\ e # 0 /\ n - i + 1 >= n - e + 2
        /\ k \in 0..l /\ 1 \in 1..(l + 1) /\ k \in (1 - 1)..l
    <3> HIDE DEF n, e, l
    <3> QED
      BY <2>1
  <2>3. StopIndices(text) = {} /\ e + l <= n + 1
    BY <2>2 DEF TextInv, HeldBack
  <2>4. Len(Slice(text, i, n)) = n - i
    BY <2>1, <2>2, SliceLength
  <2>5. Len(SubSeq(v, 1, k)) = k
    <3>1. \A j \in 1..k : v[j] \in Letters
      BY <2>1, <2>2, ElementOfSeq
    <3>2. Len(SubSeq(v, 1, k)) = IF 1 <= k THEN k - 1 + 1 ELSE 0
      BY <2>2, <3>1, SubSeqProperties
    <3> QED
      BY <2>2, <3>2
  <2>6. k = n - i
    BY <2>4, <2>5
  <2>7. k = l /\ i + l = n /\ i + l <= n
    <3> HIDE DEF n, e, l
    <3> QED
      BY <2>1, <2>2, <2>3, <2>6
  <2>8. Slice(text, i, i + l) = v
    <3>1. SubSeq(v, 1, l) = v
      BY <2>1, SubSeqFull
    <3> QED
      BY <2>7, <3>1
  <2>9. i \in StopIndices(text)
    BY <2>2, <2>7, <2>8 DEF StopIndices
  <2> QED
    BY <2>3, <2>9
<1> QED
  BY TextIsInvariant, <1>1, PTL

\* The text is cut where its first stop sequence begins, and one without any
\* arrives whole (chat.py:138-147, :166-170, :251-257).
THEOREM StreamIsCutExactly == TextSpec => []CutIsExact
<1>1. TextInv => CutIsExact
  BY DEF TextInv, OutputInv, CutIsExact
<1> QED
  BY TextIsInvariant, <1>1, PTL

-----------------------------------------------------------------------------
(* The locks *)

\* Nothing is loaded and nobody holds a lock at first.
LEMMA InitTypeOK ==
  ASSUME Life!ChatLifecycleAssumption
  PROVE  Life!Init => Life!TypeOK
<1> SUFFICES ASSUME Life!Init PROVE Life!TypeOK
  OBVIOUS
<1>1. /\ pc \in [Calls -> {"new"}] /\ local \in [Calls -> {None}]
      /\ client \in [Calls -> {"reading"}] /\ evictor \in [Evictors -> {"unborn"}]
  BY DEF Life!Init
<1>2. /\ load_lock = None /\ generate_lock = None /\ loop = "serving"
  BY DEF Life!Init
<1>3. \A c \in Calls : pc[c] = "new"
  BY <1>1
<1>4. \A e \in Evictors : evictor[e] = "unborn"
  BY <1>1
<1> QED
  BY <1>1, <1>2, <1>3, <1>4, Life!ChatLifecycleAssumption DEF Life!Init, Life!TypeOK

\* A generating thread finds, loads and uses the model.
LEMMA CallStepKeepsTypes ==
  ASSUME Life!ChatLifecycleAssumption, Life!TypeOK,
         NEW c \in Calls, Life!Begin(c) \/ Life!CallStep(c)
  PROVE  Life!TypeOK'
<1> USE Life!ChatLifecycleAssumption
    DEF Life!TypeOK, Life!Goto, Life!End, Life!Found, Life!callVars, Life!evictorVars
<1>1. CASE Life!Begin(c)
  BY <1>1 DEF Life!Begin
<1>2. CASE Life!Look(c)
  BY <1>2 DEF Life!Look
<1>3. CASE Life!ReturnSeen(c)
  BY <1>3 DEF Life!ReturnSeen
<1>4. CASE Life!LockLoad(c)
  <2>1. idle' \in BOOLEAN
    BY <1>4 DEF Life!LockLoad
  <2>2. evictorStopping' \in BOOLEAN
    BY <1>4 DEF Life!LockLoad
  <2>3. /\ model' = model /\ generate_lock' = generate_lock /\ loop' = loop
        /\ evictor' = evictor /\ thread' = thread
        /\ client' = client
    BY <1>4 DEF Life!LockLoad
  <2>4. local' \in [Calls -> Calls \cup {None}]
    BY <1>4 DEF Life!LockLoad
  <2>5. /\ pc[c] = "load" /\ load_lock = None
        /\ \/ pc' = [pc EXCEPT ![c] = "generate"] /\ load_lock' = None
           \/ pc' = [pc EXCEPT ![c] = "loading"] /\ load_lock' = c
    BY <1>4 DEF Life!LockLoad
  <2> QED
    BY <2>1, <2>2, <2>3, <2>4, <2>5
<1>5. CASE Life!Load(c)
  <2>1. idle' \in BOOLEAN
    BY <1>5 DEF Life!Load
  <2>2. evictorStopping' \in BOOLEAN
    BY <1>5 DEF Life!Load, Life!StartEvictor
  <2>3. /\ model' \in Calls \cup {None}
        /\ generate_lock' = generate_lock /\ loop' = loop /\ client' = client
        /\ load_lock = c /\ load_lock' = None
    BY <1>5 DEF Life!Load
  <2>4. local' \in [Calls -> Calls \cup {None}]
    BY <1>5 DEF Life!Load
  <2>5. /\ evictor' \in [Evictors -> {"unborn", "sleeping", "evict", "dropping", "ended"}]
        /\ thread' \in Evictors \cup {None}
        /\ \A e \in Evictors : evictor'[e] = "dropping" <=> evictor[e] = "dropping"
    BY <1>5 DEF Life!Load, Life!StartEvictor
  <2>6. pc[c] = "loading" /\ \E at \in {"generate", "ending", "done"} : pc' = [pc EXCEPT ![c] = at]
    BY <1>5 DEF Life!Load
  <2> QED
    BY <2>1, <2>2, <2>3, <2>4, <2>5, <2>6
<1>6. CASE Life!LockGenerate(c)
  BY <1>6 DEF Life!LockGenerate
<1>7. CASE Life!Check(c) \/ Life!HandOver(c)
  BY <1>7 DEF Life!Check, Life!HandOver
<1>8. CASE Life!Exhaust(c)
  BY <1>8 DEF Life!Exhaust
<1>9. CASE Life!Put(c)
  BY <1>9 DEF Life!Put, Life!LoopBusy
<1> QED
  BY <1>1, <1>2, <1>3, <1>4, <1>5, <1>6, <1>7, <1>8, <1>9 DEF Life!CallStep

\* An evictor wakes, and drops the model under both locks.
LEMMA EvictorStepKeepsTypes ==
  ASSUME Life!ChatLifecycleAssumption, Life!TypeOK,
         NEW e \in Evictors, Life!EvictorStep(e)
  PROVE  Life!TypeOK'
<1> USE Life!ChatLifecycleAssumption DEF Life!TypeOK, Life!callVars, Life!evictorVars
<1>1. CASE Life!Wake(e)
  BY <1>1 DEF Life!Wake
<1>2. CASE Life!EvictLock(e)
  BY <1>2 DEF Life!EvictLock
<1>3. CASE Life!Evict(e)
  BY <1>3 DEF Life!Evict, Life!DropModel
<1> QED
  BY <1>1, <1>2, <1>3 DEF Life!EvictorStep

\* The lifespan, its close(), the clients and time.
LEMMA OtherStepKeepsTypes ==
  ASSUME Life!ChatLifecycleAssumption, Life!TypeOK,
         Life!TimePasses \/ Life!Stop \/ Life!LifespanStep \/ \E s \in Streams : Life!Leave(s)
  PROVE  Life!TypeOK'
<1> USE Life!ChatLifecycleAssumption DEF Life!TypeOK, Life!callVars, Life!evictorVars
<1>1. CASE Life!TimePasses
  BY <1>1 DEF Life!TimePasses
<1>2. CASE Life!Stop
  BY <1>2 DEF Life!Stop
<1>3. CASE Life!Close
  BY <1>3 DEF Life!Close
<1>4. CASE Life!Joined
  BY <1>4 DEF Life!Joined
<1>5. CASE Life!CloseLock
  BY <1>5 DEF Life!CloseLock
<1>6. CASE Life!Closed
  BY <1>6 DEF Life!Closed, Life!DropModel
<1>7. CASE \E s \in Streams : Life!Leave(s)
  BY <1>7 DEF Life!Leave
<1> QED
  BY <1>1, <1>2, <1>3, <1>4, <1>5, <1>6, <1>7 DEF Life!LifespanStep

\* _load_lock and _generate_lock have one holder each, who is where the code holds
\* them, whichever thread loads, generates, evicts or closes (chat.py:112-128,
\* :187-189, :211-240).
THEOREM LocksHaveOneHolder ==
  ASSUME Life!ChatLifecycleAssumption
  PROVE  Life!Spec => []Life!TypeOK
<1>1. Life!TypeOK /\ UNCHANGED Life!vars => Life!TypeOK'
  BY DEF Life!TypeOK, Life!vars, Life!callVars, Life!evictorVars
<1>2. Life!TypeOK /\ Life!Next => Life!TypeOK'
  BY CallStepKeepsTypes, EvictorStepKeepsTypes, OtherStepKeepsTypes DEF Life!Next
<1> QED
  BY InitTypeOK, <1>1, <1>2, PTL DEF Life!Spec

\* Who loads the model has not found one, and nobody brings one before it does.
LoadInv == \A c \in Calls : pc[c] = "loading" => model = None

\* The second look under _load_lock makes this so (chat.py:187-191).
LEMMA LoadStep ==
  ASSUME Life!ChatLifecycleAssumption, Life!TypeOK, LoadInv, Life!Next
  PROVE  LoadInv'
<1> USE DEF LoadInv
<1>1. ASSUME NEW c \in Calls, Life!Begin(c) \/ Life!CallStep(c) PROVE LoadInv'
  <2> USE Life!ChatLifecycleAssumption DEF Life!TypeOK, Life!Goto, Life!End
  <2>1. CASE Life!Begin(c) \/ Life!Look(c) \/ Life!ReturnSeen(c)
    BY <2>1 DEF Life!Begin, Life!Look, Life!ReturnSeen
  <2>2. CASE Life!LockLoad(c)
    <3>1. model' = model /\ pc[c] = "load" /\ load_lock = None
      BY <2>2 DEF Life!LockLoad
    <3>2. \/ pc' = [pc EXCEPT ![c] = "generate"]
          \/ model = None /\ pc' = [pc EXCEPT ![c] = "loading"]
      BY <2>2 DEF Life!LockLoad
    <3> QED
      BY <3>1, <3>2
  <2>3. CASE Life!Load(c)
    <3>1. load_lock = c /\ \A d \in Calls \ {c} : pc[d] # "loading"
      BY <2>3 DEF Life!Load
    <3>2. \E at \in {"generate", "ending", "done"} : pc' = [pc EXCEPT ![c] = at]
      BY <2>3 DEF Life!Load
    <3> QED
      BY <3>1, <3>2
  <2>4. CASE Life!LockGenerate(c)
    BY <2>4 DEF Life!LockGenerate
  <2>5. CASE Life!Check(c) \/ Life!HandOver(c) \/ Life!Exhaust(c) \/ Life!Put(c)
    BY <2>5 DEF Life!Check, Life!HandOver, Life!Exhaust, Life!Put
  <2> QED
    BY <1>1, <2>1, <2>2, <2>3, <2>4, <2>5 DEF Life!CallStep
<1>2. ASSUME NEW e \in Evictors, Life!EvictorStep(e) PROVE LoadInv'
  BY <1>2 DEF Life!EvictorStep, Life!Wake, Life!EvictLock, Life!Evict, Life!DropModel, Life!callVars
<1>3. CASE Life!TimePasses \/ Life!Stop \/ Life!LifespanStep \/ \E s \in Streams : Life!Leave(s)
  BY <1>3 DEF Life!TimePasses, Life!Stop, Life!LifespanStep, Life!Close, Life!Joined,
              Life!CloseLock, Life!Closed, Life!DropModel, Life!Leave, Life!callVars
<1> QED
  BY <1>1, <1>2, <1>3 DEF Life!Next

\* A model is never dropped under a generation, nor replaced by another one: while
\* a thread generates, the model that is there stays, whatever evictors, loading
\* threads and the event loop's close() do (chat.py:112, :187-191, :213, :229-240).
THEOREM GenerationKeepsModel ==
  ASSUME Life!ChatLifecycleAssumption
  PROVE  Life!Spec => [][generate_lock # None /\ model # None => model' = model]_(Life!vars)
<1>1. Life!TypeOK /\ LoadInv /\ [Life!Next]_(Life!vars)
        => [generate_lock # None /\ model # None => model' = model]_(Life!vars)
  <2> SUFFICES ASSUME Life!TypeOK, LoadInv, Life!Next, generate_lock # None, model # None
               PROVE  model' = model
    OBVIOUS
  <2>1. ASSUME NEW c \in Calls, Life!Begin(c) \/ Life!CallStep(c) PROVE model' = model
    BY <2>1 DEF LoadInv, Life!Begin, Life!CallStep, Life!Look, Life!ReturnSeen, Life!LockLoad,
                Life!Load, Life!LockGenerate, Life!Check, Life!HandOver, Life!Exhaust, Life!Put
  <2>2. ASSUME NEW e \in Evictors, Life!EvictorStep(e) PROVE model' = model
    BY <2>2 DEF Life!EvictorStep, Life!Wake, Life!EvictLock, Life!Evict, Life!DropModel
  <2>3. CASE Life!TimePasses \/ Life!Stop \/ Life!LifespanStep \/ \E s \in Streams : Life!Leave(s)
    BY <2>3 DEF Life!TimePasses, Life!Stop, Life!LifespanStep, Life!Close, Life!Joined,
                Life!CloseLock, Life!Closed, Life!DropModel, Life!Leave
  <2> QED
    BY <2>1, <2>2, <2>3 DEF Life!Next
<1>2. Life!Init => LoadInv
  BY DEF Life!Init, LoadInv
<1>3. LoadInv /\ UNCHANGED Life!vars => LoadInv'
  BY DEF LoadInv, Life!vars, Life!callVars
<1>4. Life!TypeOK /\ LoadInv /\ Life!Next => LoadInv'
  BY LoadStep
<1> QED
  BY <1>1, <1>2, <1>3, <1>4, LocksHaveOneHolder, PTL DEF Life!Spec
=============================================================================
