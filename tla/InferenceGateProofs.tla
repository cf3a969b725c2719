------------------------- MODULE InferenceGateProofs -------------------------
(***************************************************************************)
(* Lemmas about the line of the inference gate, for the proofs of the      *)
(* queues that use it.                                                     *)
(***************************************************************************)
EXTENDS InferenceGate, SequenceTheorems, TLAPS

\* A task that joins the line stands in it, behind the others, and nobody else
\* moves (asyncio.Lock.acquire).
LEMMA AcquireLemma ==
  ASSUME NEW U, NEW g \in Seq(U), NEW u \in U
  PROVE  /\ Acquire(g, u) \in Seq(U)
         /\ \A v : InLine(Acquire(g, u), v) <=> (v = u \/ InLine(g, v))
         /\ IsInjective(g) /\ ~InLine(g, u) => IsInjective(Acquire(g, u))
         /\ Free(g) => Holds(Acquire(g, u), u)
         /\ \A v : Holds(g, v) => Holds(Acquire(g, u), v)
<1> DEFINE a == Acquire(g, u)
<1>1. /\ a \in Seq(U) /\ a # << >>
      /\ Len(a) = Len(g) + 1
      /\ \A i \in 1..Len(g) : a[i] = g[i]
      /\ a[Len(g) + 1] = u
  BY AppendProperties DEF Acquire
<1>2. /\ Len(g) \in Nat
      /\ DOMAIN g = 1..Len(g)
      /\ DOMAIN a = 1..(Len(g) + 1)
  BY <1>1, LenProperties
<1>3. ASSUME NEW v PROVE InLine(a, v) <=> (v = u \/ InLine(g, v))
  BY <1>1, <1>2 DEF InLine
<1>4. ASSUME IsInjective(g), ~InLine(g, u) PROVE IsInjective(a)
  BY <1>1, <1>2, <1>4 DEF IsInjective, InLine
<1>5. Free(g) => Holds(a, u)
  BY <1>1, <1>2 DEF Free, Holds
<1>6. ASSUME NEW v, Holds(g, v) PROVE Holds(a, v)
  <2>1. Len(g) > 0
    BY <1>6, EmptySeq DEF Holds
  <2> QED
    BY <1>1, <1>2, <1>6, <2>1 DEF Holds
<1> QED
  BY <1>1, <1>3, <1>4, <1>5, <1>6

\* The length of what stands behind place m of a line of length k, as SubSeq
\* gives it: nobody, when m is the last place (asyncio.Lock's waiters).
LEMMA SuffixLength ==
  ASSUME NEW k \in Nat, NEW m \in 1..k
  PROVE  (IF m + 1 <= k THEN k - (m + 1) + 1 ELSE 0) = k - m
<1>1. CASE m = k
  BY <1>1
<1>2. CASE m < k
  BY <1>2
<1> QED
  BY <1>1, <1>2

\* A task that leaves an injective line is gone from it, and the others stay
\* (asyncio.Lock.release, and the cancellation of a waiter).
LEMMA LeaveLemma ==
  ASSUME NEW U, NEW g \in Seq(U), NEW u, IsInjective(g), InLine(g, u)
  PROVE  /\ Leave(g, u) \in Seq(U)
         /\ IsInjective(Leave(g, u))
         /\ \A v : InLine(Leave(g, u), v) <=> (v # u /\ InLine(g, v))
         /\ \A v : v # u /\ Holds(g, v) => Holds(Leave(g, u), v)
<1> DEFINE n == CHOOSE i \in DOMAIN g : g[i] = u
           l == SubSeq(g, 1, n - 1)
           r == SubSeq(g, n + 1, Len(g))
           s == l \o r
<1>1. /\ n \in 1..Len(g) /\ g[n] = u
      /\ Len(g) \in Nat
      /\ DOMAIN g = 1..Len(g)
      /\ \A i \in 1..Len(g) : g[i] \in U
  BY LenProperties DEF InLine
<1> HIDE DEF n
<1>2. /\ l \in Seq(U)
      /\ Len(l) = n - 1
      /\ \A i \in 1..n - 1 : l[i] = g[i]
  <2>1. \A i \in 1..n - 1 : g[i] \in U
    BY <1>1
  <2>2. 1 \in Int /\ n - 1 \in Int
    BY <1>1
  <2> QED
    BY <1>1, <2>1, <2>2, SubSeqProperties
<1>3. /\ r \in Seq(U)
      /\ Len(r) = Len(g) - n
      /\ \A i \in 1..Len(g) - n : r[i] = g[n + i]
  <2>1. \A i \in n + 1..Len(g) : g[i] \in U
    BY <1>1
  <2>2. n + 1 \in Int /\ Len(g) \in Int
    BY <1>1
  <2>3. /\ r \in Seq(U)
        /\ Len(r) = IF n + 1 <= Len(g) THEN Len(g) - (n + 1) + 1 ELSE 0
        /\ \A i \in 1..Len(g) - (n + 1) + 1 : r[i] = g[(n + 1) + i - 1]
    BY <2>1, <2>2, SubSeqProperties
  <2> HIDE DEF l, r, s
  <2>4. Len(r) = Len(g) - n
    <3>1. Len(g) \in Nat /\ n \in 1..Len(g)
      BY <1>1
    <3>2. Len(r) = IF n + 1 <= Len(g) THEN Len(g) - (n + 1) + 1 ELSE 0
      BY <2>3
    <3>3. (IF n + 1 <= Len(g) THEN Len(g) - (n + 1) + 1 ELSE 0) = Len(g) - n
      BY <3>1, SuffixLength
    <3> QED
      BY <3>2, <3>3
  <2>5. ASSUME NEW i \in 1..Len(g) - n PROVE r[i] = g[n + i]
    <3>1. i \in 1..Len(g) - (n + 1) + 1 /\ (n + 1) + i - 1 = n + i
      BY <1>1
    <3>2. r[i] = g[(n + 1) + i - 1]
      BY <2>3, <3>1
    <3> QED
      BY <3>1, <3>2
  <2> QED
    BY <2>3, <2>4, <2>5
<1> HIDE DEF l, r
<1>4. /\ s \in Seq(U)
      /\ Len(s) = Len(g) - 1
      /\ DOMAIN s = 1..Len(g) - 1
      /\ \A i \in 1..Len(g) - 1 : s[i] = IF i < n THEN g[i] ELSE g[i + 1]
  <2>1. /\ s \in Seq(U)
        /\ Len(s) = Len(l) + Len(r)
        /\ \A i \in 1..Len(l) + Len(r) : s[i] = IF i <= Len(l) THEN l[i] ELSE r[i - Len(l)]
    BY <1>2, <1>3, ConcatProperties
  <2> HIDE DEF s
  <2>2. Len(s) = Len(g) - 1 /\ DOMAIN s = 1..Len(g) - 1
    <3>1. Len(l) + Len(r) = Len(g) - 1
      BY <1>1, <1>2, <1>3
    <3> QED
      BY <2>1, <3>1, LenProperties
  <2>3. ASSUME NEW i \in 1..Len(g) - 1 PROVE s[i] = IF i < n THEN g[i] ELSE g[i + 1]
    <3>1. CASE i < n
      <4>1. i \in 1..Len(l) + Len(r) /\ i <= Len(l) /\ i \in 1..n - 1
        BY <1>1, <1>2, <1>3, <3>1
      <4> QED
        BY <1>2, <2>1, <3>1, <4>1
    <3>2. CASE i >= n
      <4>1. /\ i - Len(l) \in 1..Len(g) - n
            /\ n + (i - Len(l)) = i + 1
            /\ i \in 1..Len(l) + Len(r) /\ ~(i <= Len(l))
        BY <1>1, <1>2, <1>3, <3>2
      <4>2. s[i] = r[i - Len(l)]
        BY <2>1, <4>1
      <4>3. r[i - Len(l)] = g[n + (i - Len(l))]
        BY <1>3, <4>1
      <4> QED
        BY <1>1, <3>2, <4>1, <4>2, <4>3
    <3> QED
      BY <1>1, <3>1, <3>2
  <2> QED
    BY <2>1, <2>2, <2>3
<1> HIDE DEF s
<1>5. Leave(g, u) = s
  BY DEF Leave, RemoveAt, n, l, r, s
<1>6. IsInjective(s)
  <2> DEFINE p(i) == IF i < n THEN i ELSE i + 1
  <2>1. ASSUME NEW i \in 1..Len(g) - 1
        PROVE  p(i) \in 1..Len(g) /\ s[i] = g[p(i)]
    BY <1>1, <1>4
  <2>2. ASSUME NEW i \in 1..Len(g) - 1, NEW k \in 1..Len(g) - 1, p(i) = p(k)
        PROVE  i = k
    BY <1>1, <2>2
  <2> HIDE DEF p
  <2>3. ASSUME NEW i \in 1..Len(g) - 1, NEW k \in 1..Len(g) - 1, s[i] = s[k]
        PROVE  i = k
    <3>1. p(i) = p(k)
      BY <1>1, <2>1, <2>3 DEF IsInjective
    <3> QED
      BY <2>2, <3>1
  <2> QED
    BY <1>4, <2>3 DEF IsInjective
<1>7. ASSUME NEW v PROVE InLine(s, v) <=> (v # u /\ InLine(g, v))
  <2>1. ASSUME InLine(s, v) PROVE v # u /\ InLine(g, v)
    BY <1>1, <1>4, <2>1 DEF InLine, IsInjective
  <2>2. ASSUME v # u, InLine(g, v) PROVE InLine(s, v)
    <3>1. PICK k \in 1..Len(g) : g[k] = v
      BY <1>1, <2>2 DEF InLine
    <3>2. k # n
      BY <1>1, <2>2, <3>1
    <3>3. CASE k < n
      BY <1>1, <1>4, <3>1, <3>3 DEF InLine
    <3>4. CASE k > n
      <4>1. k - 1 \in 1..Len(g) - 1 /\ ~(k - 1 < n) /\ (k - 1) + 1 = k
        BY <1>1, <3>1, <3>4
      <4> QED
        BY <1>4, <3>1, <4>1 DEF InLine
    <3> QED
      BY <1>1, <3>1, <3>2, <3>3, <3>4
  <2> QED
    BY <2>1, <2>2
<1>8. ASSUME NEW v, v # u, Holds(g, v) PROVE Holds(s, v)
  <2>1. g[1] = v /\ n # 1
    BY <1>1, <1>8 DEF Holds
  <2>2. 1 \in 1..Len(g) - 1 /\ s[1] = v
    BY <1>1, <1>4, <2>1
  <2> QED
    BY <1>4, <2>2 DEF Holds
<1> QED
  BY <1>4, <1>5, <1>6, <1>7, <1>8

\* A task that leaves the line, and may join it again before it suspends, moves none
\* of the others (the two `async with` of one round of a worker's loop).
LEMMA RejoinLemma ==
  ASSUME NEW U, NEW g \in Seq(U), NEW u \in U, IsInjective(g), InLine(g, u),
         NEW h \in {Leave(g, u), Acquire(Leave(g, u), u)}
  PROVE  /\ h \in Seq(U) /\ IsInjective(h)
         /\ \A v : v # u => (InLine(h, v) <=> InLine(g, v))
         /\ \A v : v # u /\ Holds(g, v) => Holds(h, v)
<1> DEFINE l == Leave(g, u)
<1>1. /\ l \in Seq(U) /\ IsInjective(l)
      /\ \A v : InLine(l, v) <=> (v # u /\ InLine(g, v))
      /\ \A v : v # u /\ Holds(g, v) => Holds(l, v)
  BY LeaveLemma
<1> HIDE DEF l
<1>2. /\ Acquire(l, u) \in Seq(U) /\ IsInjective(Acquire(l, u))
      /\ \A v : InLine(Acquire(l, u), v) <=> (v = u \/ InLine(l, v))
      /\ \A v : Holds(l, v) => Holds(Acquire(l, u), v)
  BY <1>1, AcquireLemma
<1>3. h = l \/ h = Acquire(l, u)
  BY DEF l
<1> QED
  BY <1>1, <1>2, <1>3
=============================================================================
