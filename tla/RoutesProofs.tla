---------------------------- MODULE RoutesProofs ----------------------------
(***************************************************************************)
(* What the stats report, what the batcher is asked, what a ranking has.   *)
(*                                                                         *)
(* That no proxied request is missing from the active count is proved of   *)
(* ChatProxy by itself, for any finite set of clients.  It is not          *)
(* inductive: that uncounting one request leaves the others counted needs  *)
(* that the count is made up of them and of the leaked ones, nothing else. *)
(* A step moves one request, which enters the set of those in progress,    *)
(* leaves it, or passes from it to the leaked ones, and the count moves as *)
(* the sizes of the sets do.  What the routes do with the proxy is what    *)
(* ChatProxy allows, so that it holds behind the routes.                   *)
(*                                                                         *)
(* The counts of the last hour and day follow from an invariant about      *)
(* every window that does not begin more than a day ago: its events are as *)
(* many as the requests that count, whatever was pruned.                   *)
(*                                                                         *)
(* A ranking is followed from the prompt on, for any number of documents:  *)
(* what stands where in the prompt, so that the markers are found at 3, 5  *)
(* and so on; that Sorted lists whatever is ordered, once; and so that the *)
(* first of a ranking are the best, each with its own score.               *)
(***************************************************************************)
EXTENDS Routes, FiniteSetTheorems, SequenceTheorems, WellFoundedInduction, NaturalsInduction, TLAPS

-----------------------------------------------------------------------------
(* The proxy *)

Leaked == {r \in Clients : upstream[r] = "leaked"}

\* What the count is made up of.
MadeUp == active = Cardinality(InProgress) + Cardinality(Leaked)

Inv == ProxyTypeOK /\ MadeUp

\* Every step of the proxy keeps the types.
LEMMA StepsKeepTypes == ProxyTypeOK /\ [ProxyNext]_proxyVars => ProxyTypeOK'
<1> SUFFICES ASSUME ProxyTypeOK, [ProxyNext]_proxyVars PROVE ProxyTypeOK'
  OBVIOUS
<1> USE DEF ProxyTypeOK
<1>1. CASE UNCHANGED proxyVars
  BY <1>1 DEF proxyVars
<1>2. CASE Close
  BY <1>2 DEF Close
<1>3. ASSUME NEW r \in Clients, NEW from, NEW to \in Stages, Goes(r, from, to)
      PROVE  upstream' \in [Clients -> Stages]
  BY <1>3 DEF Goes
<1>4. ASSUME NEW r \in Clients, Complete(r) \/ OpenStream(r) PROVE ProxyTypeOK'
  BY <1>3, <1>4 DEF Complete, OpenStream, Begins, Stages
<1>5. ASSUME NEW r \in Clients, UpstreamStep(r) PROVE ProxyTypeOK'
  BY <1>3, <1>5 DEF UpstreamStep, Posted, Connected, Unavailable, ConnectFails, Refused,
                    RefusalRead, RefusalLeaks, Moves, Ends, Stages
<1>6. ASSUME NEW r \in Clients, GeneratorStep(r) \/ ClientStep(r) PROVE ProxyTypeOK'
  BY <1>3, <1>6 DEF GeneratorStep, ClientStep, Chunk, StreamEnds, Finalize, Closed, CloseFails,
                    FirstNext, Sent, LeaveUnread, LeaveYielded, Moves, Ends, Stages
<1> QED
  BY <1>1, <1>2, <1>4, <1>5, <1>6 DEF ProxyNext

\* Both sets are finite, so that their sizes are numbers.
LEMMA Finite ==
  /\ IsFiniteSet(InProgress) /\ Cardinality(InProgress) \in Nat
  /\ IsFiniteSet(Leaked) /\ Cardinality(Leaked) \in Nat
<1>1. InProgress \subseteq Clients /\ Leaked \subseteq Clients
  BY DEF InProgress, Leaked
<1> QED
  BY <1>1, ClientsAssumption, FS_Subset, FS_CardinalityType

Idle == {"none", "leaked", "done"}

\* A request that is taken up.
LEMMA BeginningCounts ==
  ASSUME Inv, NEW r \in Clients, NEW to \in Stages \ Idle, Begins(r, to)
  PROVE  MadeUp'
<1>1. InProgress' = InProgress \cup {r} /\ r \notin InProgress
  BY DEF Inv, ProxyTypeOK, Begins, Goes, InProgress, Leaked, Idle, Stages
<1>2. Leaked' = Leaked
  BY DEF Inv, ProxyTypeOK, Begins, Goes, InProgress, Leaked, Idle, Stages
<1>3. Cardinality(InProgress') = Cardinality(InProgress) + 1
  BY <1>1, Finite, FS_AddElement
<1> QED
  BY <1>2, <1>3, Finite DEF Inv, MadeUp, Begins, ProxyTypeOK

\* One that is over.
LEMMA EndingCounts ==
  ASSUME Inv, NEW r \in Clients, NEW from \in Stages \ Idle, Ends(r, from)
  PROVE  MadeUp'
<1>1. InProgress' = InProgress \ {r} /\ r \in InProgress
  BY DEF Inv, ProxyTypeOK, Ends, Goes, InProgress, Leaked, Idle, Stages
<1>2. Leaked' = Leaked
  BY DEF Inv, ProxyTypeOK, Ends, Goes, InProgress, Leaked, Idle, Stages
<1>3. Cardinality(InProgress') = Cardinality(InProgress) - 1
  BY <1>1, Finite, FS_RemoveElement
<1> QED
  BY <1>2, <1>3, Finite DEF Inv, MadeUp, Ends, ProxyTypeOK

\* One that goes on.
LEMMA MovingCounts ==
  ASSUME Inv, NEW r \in Clients, NEW from \in Stages \ Idle, NEW to \in Stages \ Idle,
         Moves(r, from, to)
  PROVE  MadeUp'
<1>1. InProgress' = InProgress /\ Leaked' = Leaked
  BY DEF Inv, ProxyTypeOK, Moves, Goes, InProgress, Leaked, Idle, Stages
<1> QED
  BY <1>1 DEF Inv, MadeUp, Moves

\* One that is forgotten: both sizes change, and the count does not.
LEMMA LeakingCounts ==
  ASSUME Inv, NEW r \in Clients, NEW from \in Stages \ Idle, Moves(r, from, "leaked")
  PROVE  MadeUp'
<1>1. InProgress' = InProgress \ {r} /\ r \in InProgress
  BY DEF Inv, ProxyTypeOK, Moves, Goes, InProgress, Leaked, Idle, Stages
<1>2. Leaked' = Leaked \cup {r} /\ r \notin Leaked
  BY DEF Inv, ProxyTypeOK, Moves, Goes, InProgress, Leaked, Idle, Stages
<1>3. Cardinality(InProgress') = Cardinality(InProgress) - 1
  BY <1>1, Finite, FS_RemoveElement
<1>4. Cardinality(Leaked') = Cardinality(Leaked) + 1
  BY <1>2, Finite, FS_AddElement
<1> QED
  BY <1>3, <1>4, Finite DEF Inv, MadeUp, Moves, ProxyTypeOK

\* Every step of the proxy counts the request that it begins or ends.
LEMMA StepsKeepCount == Inv /\ [ProxyNext]_proxyVars => MadeUp'
<1> SUFFICES ASSUME Inv, [ProxyNext]_proxyVars PROVE MadeUp'
  OBVIOUS
<1> USE DEF Stages, Idle
<1>1. CASE UNCHANGED proxyVars
  BY <1>1 DEF proxyVars, Inv, MadeUp, InProgress, Leaked
<1>2. CASE Close
  BY <1>2 DEF Close, Inv, MadeUp, InProgress, Leaked
<1>3. ASSUME NEW r \in Clients, Complete(r) \/ OpenStream(r) PROVE MadeUp'
  BY <1>3, BeginningCounts DEF Complete, OpenStream
<1>4. ASSUME NEW r \in Clients, UpstreamStep(r) PROVE MadeUp'
  BY <1>4, EndingCounts, MovingCounts, LeakingCounts
     DEF UpstreamStep, Posted, Connected, Unavailable, ConnectFails, Refused, RefusalRead,
         RefusalLeaks
<1>5. ASSUME NEW r \in Clients, GeneratorStep(r) PROVE MadeUp'
  BY <1>5, EndingCounts, MovingCounts, LeakingCounts
     DEF GeneratorStep, Chunk, StreamEnds, Finalize, Closed, CloseFails
<1>6. ASSUME NEW r \in Clients, ClientStep(r) PROVE MadeUp'
  BY <1>6, MovingCounts, LeakingCounts DEF ClientStep, FirstNext, Sent, LeaveUnread, LeaveYielded
<1> QED
  BY <1>1, <1>2, <1>3, <1>4, <1>5, <1>6 DEF ProxyNext

\* There are no requests at first.
LEMMA InitInv == ProxyInit => Inv
<1> SUFFICES ASSUME ProxyInit PROVE Inv
  OBVIOUS
<1>1. InProgress = {} /\ Leaked = {}
  BY DEF ProxyInit, InProgress, Leaked
<1>2. Cardinality(InProgress) = 0 /\ Cardinality(Leaked) = 0
  BY <1>1, FS_EmptySet
<1>3. MadeUp
  BY <1>2 DEF ProxyInit, MadeUp
<1>4. upstream \in [Clients -> Stages]
  BY DEF ProxyInit, Stages
<1>5. active \in Int
  BY DEF ProxyInit
<1>6. closed \in BOOLEAN
  BY DEF ProxyInit
<1> QED
  BY <1>3, <1>4, <1>5, <1>6 DEF Inv, ProxyTypeOK

\* Inv is an invariant of the proxy.
LEMMA ProxyInvariance == ProxySpec => []Inv
<1>1. Inv /\ [ProxyNext]_proxyVars => Inv'
  BY StepsKeepTypes, StepsKeepCount DEF Inv
<1> QED
  BY InitInv, <1>1, PTL DEF ProxySpec

\* However requests succeed, fail, are refused, read to their end or abandoned, none in
\* progress is missing from the active count of the stats (chat_proxy.py:49-62, :66-84,
\* :111-121).
THEOREM ActiveIsNeverTooLow == ProxySpec => []ActiveCoversProgress
<1>1. Inv => ActiveCoversProgress
  BY Finite DEF Inv, MadeUp, ActiveCoversProgress
<1> QED
  BY <1>1, ProxyInvariance, PTL

\* A count of 0 says that nothing is in progress, and that nothing ever leaked: the
\* count does not come back to 0 behind a leak (chat_proxy.py:40-45, :138-140).
THEOREM ZeroMeansIdle == ProxySpec => [](active = 0 => InProgress = {} /\ Leaked = {})
<1>1. Inv => (active = 0 => InProgress = {} /\ Leaked = {})
  <2> SUFFICES ASSUME Inv, active = 0 PROVE InProgress = {} /\ Leaked = {}
    OBVIOUS
  <2>1. Cardinality(InProgress) = 0 /\ Cardinality(Leaked) = 0
    BY Finite DEF Inv, MadeUp
  <2> QED
    BY <2>1, Finite, FS_EmptySet
<1> QED
  BY <1>1, ProxyInvariance, PTL

-----------------------------------------------------------------------------
(* The routes *)

\* The proxy starts as its module says.
LEMMA InitIsProxyInit == Init => ProxyInit
BY DEF Init

\* A step of the routes is a step of the proxy, or none.
LEMMA StepIsProxyStep == [Next]_vars => [ProxyNext]_proxyVars
<1> SUFFICES ASSUME [Next]_vars PROVE [ProxyNext]_proxyVars
  OBVIOUS
<1>1. CASE UNCHANGED vars
  BY <1>1 DEF vars
<1>2. CASE TimePasses
  BY <1>2 DEF TimePasses
<1>3. CASE Shutdown
  BY <1>3 DEF Shutdown, ProxyNext
<1>4. ASSUME NEW c \in Clients, RequestStep(c) PROVE [ProxyNext]_proxyVars
  <2>1. CASE ProxyArrives(c)
    BY <2>1 DEF ProxyArrives, ProxyNext
  <2>2. CASE Reject(c) \/ Embeddings(c) \/ RerankRequested(c)
    BY <2>2 DEF Reject, Embeddings, RerankRequested
  <2>3. CASE LocalStream(c) \/ LocalFull(c) \/ LocalComplete(c)
    BY <2>3 DEF LocalStream, LocalFull, LocalComplete
  <2> QED
    BY <1>4, <2>1, <2>2, <2>3 DEF RequestStep
<1>5. ASSUME NEW c \in Clients, ServerStep(c) PROVE [ProxyNext]_proxyVars
  <2>1. CASE EmbeddingsReturn(c) \/ RerankReturns(c) \/ LocalReturns(c)
    BY <2>1 DEF EmbeddingsReturn, RerankReturns, LocalReturns
  <2>2. CASE ProxyAnswers(c)
    <3>1. UpstreamStep(c)
      BY <2>2 DEF ProxyAnswers, UpstreamStep
    <3> QED
      BY <3>1 DEF ProxyNext
  <2>3. CASE ProxyRefused(c) \/ ProxyGenerates(c)
    BY <2>3 DEF ProxyRefused, ProxyGenerates, ProxyNext, UpstreamStep
  <2> QED
    BY <1>5, <2>1, <2>2, <2>3 DEF ServerStep
<1>6. ASSUME NEW c \in Clients, ClientReads(c) PROVE [ProxyNext]_proxyVars
  BY <1>6 DEF ClientReads, ProxyNext
<1> QED
  BY <1>1, <1>2, <1>3, <1>4, <1>5, <1>6 DEF Next

\* The routes use the proxy as ChatProxy says (routes.py:205-228).
THEOREM RoutesUseProxy == Spec => ProxySpec
BY InitIsProxyInit, StepIsProxyStep, PTL DEF Spec, ProxySpec

\* Nor behind the routes, with whatever requests beside the proxied ones
\* (chat_proxy.py:40-45; server.py:119-127).
THEOREM RoutesNeverUndercount == Spec => []ActiveCoversProgress
BY RoutesUseProxy, ActiveIsNeverTooLow, PTL

-----------------------------------------------------------------------------
(* The lists of events *)

\* A set of natural numbers has a least element (the first event that _prune
\* keeps, metrics.py:40).
LEMMA LeastElement ==
  ASSUME NEW T \in SUBSET Nat, T # {}
  PROVE  Min(T) \in T /\ \A y \in T : Min(T) <= y
<1>1. PICK x \in T : \A y \in T : << y, x >> \notin OpToRel(<, Nat)
  BY NatLessThanWellFounded, WFMin
<1>2. \A y \in T : ~(y < x)
  BY <1>1 DEF OpToRel
<1>3. \A y \in T : y \in Nat
  OBVIOUS
<1>4. \A y \in T : x <= y
  BY <1>2, <1>3
<1> QED
  BY <1>4 DEF Min

\* The events from t on.
Kept(times, t) == {i \in DOMAIN times : times[i] >= t}

\* They are finitely many.
LEMMA KeptIsFinite ==
  ASSUME NEW s \in Seq(Int), NEW t \in Int
  PROVE  IsFiniteSet(Kept(s, t)) /\ Cardinality(Kept(s, t)) \in Nat
<1>1. Kept(s, t) \in SUBSET (1..Len(s)) /\ Len(s) \in Nat
  BY LenProperties DEF Kept
<1>2. IsFiniteSet(1..Len(s))
  BY <1>1, FS_Interval
<1> QED
  BY <1>1, <1>2, FS_Subset, FS_CardinalityType

\* A new event is one more, unless t is still to come.
LEMMA AppendingKeeps ==
  ASSUME NEW s \in Seq(Int), NEW now \in Int, NEW t \in Int
  PROVE  Cardinality(Kept(Append(s, now), t)) =
           Cardinality(Kept(s, t)) + (IF now >= t THEN 1 ELSE 0)
<1> DEFINE n == Len(s)
<1>1. /\ n \in Nat /\ DOMAIN s = 1..n /\ DOMAIN Append(s, now) = 1..(n + 1)
      /\ \A i \in 1..n : Append(s, now)[i] = s[i]
      /\ Append(s, now)[n + 1] = now
      /\ \A i \in 1..n : s[i] \in Int
  BY LenProperties, AppendProperties, ElementOfSeq
<1> HIDE DEF n
<1>2. CASE now >= t
  <2>1. Kept(Append(s, now), t) = Kept(s, t) \cup {n + 1} /\ n + 1 \notin Kept(s, t)
    BY <1>1, <1>2 DEF Kept
  <2> QED
    BY <1>2, <2>1, KeptIsFinite, FS_AddElement
<1>3. CASE ~(now >= t)
  <2>1. Kept(Append(s, now), t) = Kept(s, t)
    BY <1>1, <1>3 DEF Kept
  <2> QED
    BY <1>3, <2>1, KeptIsFinite
<1> QED
  BY <1>2, <1>3

\* Pruning drops no event of the last day: from the first that is not too old the
\* list is kept (metrics.py:37-41).
LEMMA PruningKeeps ==
  ASSUME NEW s \in Seq(Int), NEW now \in Int, NEW t \in Int, t >= now - DAY
  PROVE  /\ Pruned(s, now) \in Seq(Int)
         /\ Cardinality(Kept(Pruned(s, now), t)) = Cardinality(Kept(s, t))
<1> DEFINE n == Len(s)
           K == {i \in DOMAIN s : s[i] >= now - DAY} \cup {n + 1}
           k == Min(K)
           p == SubSeq(s, k, n)
<1>1. n \in Nat /\ DOMAIN s = 1..n /\ \A i \in 1..n : s[i] \in Int
  BY LenProperties, ElementOfSeq
<1>2. K \in SUBSET Nat /\ K # {}
  BY <1>1
<1>3. k \in K /\ \A i \in K : k <= i
  <2> HIDE DEF K
  <2> QED
    BY <1>2, LeastElement
<1>4. k \in 1..(n + 1)
  <2> HIDE DEF k
  <2> QED
    BY <1>1, <1>3
<1>5. \A i \in 1..n : i < k => ~(s[i] >= now - DAY)
  <2> HIDE DEF k
  <2> QED
    BY <1>1, <1>3, <1>4
<1>6. Pruned(s, now) = p
  BY DEF Pruned
<1> HIDE DEF K, k, n
<1>7. /\ p \in Seq(Int)
      /\ Len(p) = n - k + 1
      /\ \A i \in 1..(n - k + 1) : p[i] = s[k + i - 1]
  <2>1. \A i \in k..n : s[i] \in Int
    BY <1>1, <1>4
  <2>2. k \in Int /\ n \in Int
    BY <1>1, <1>4
  <2>3. /\ p \in Seq(Int)
        /\ Len(p) = IF k <= n THEN n - k + 1 ELSE 0
        /\ \A i \in 1..(n - k + 1) : p[i] = s[k + i - 1]
    <3> HIDE DEF p
    <3>1. p = SubSeq(s, k, n)
      BY DEF p
    <3> QED
      BY <2>1, <2>2, <3>1, SubSeqProperties
  <2> QED
    BY <1>1, <1>4, <2>3
<1> HIDE DEF p
<1>8. DOMAIN p = 1..(n - k + 1)
  BY <1>7, LenProperties
<1> DEFINE f == [i \in Kept(p, t) |-> i + k - 1]
<1>9. \A i \in Kept(p, t) : i \in 1..(n - k + 1) /\ s[i + k - 1] >= t
  <2> SUFFICES ASSUME NEW i \in Kept(p, t) PROVE i \in 1..(n - k + 1) /\ s[i + k - 1] >= t
    OBVIOUS
  <2>1. i \in 1..(n - k + 1) /\ p[i] >= t
    BY <1>8 DEF Kept
  <2>2. k + i - 1 = i + k - 1
    BY <2>1, <1>1, <1>4
  <2> QED
    BY <1>7, <2>1, <2>2
<1>10. f \in [Kept(p, t) -> Kept(s, t)]
  <2> SUFFICES ASSUME NEW i \in Kept(p, t) PROVE i + k - 1 \in Kept(s, t)
    OBVIOUS
  <2>1. i + k - 1 \in 1..n
    BY <1>1, <1>4, <1>9
  <2> QED
    BY <1>1, <1>9, <2>1 DEF Kept
<1>11. \A i, j \in Kept(p, t) : f[i] = f[j] => i = j
  BY <1>1, <1>4, <1>9
<1>12. ASSUME NEW j \in Kept(s, t) PROVE \E i \in Kept(p, t) : f[i] = j
  <2>1. j \in 1..n /\ s[j] >= t /\ s[j] \in Int
    BY <1>1 DEF Kept
  <2>2. s[j] >= now - DAY
    BY <2>1, MetricsAssumption
  <2>3. j >= k
    BY <1>4, <1>5, <2>1, <2>2
  <2>4. j - k + 1 \in 1..(n - k + 1) /\ k + (j - k + 1) - 1 = j /\ (j - k + 1) + k - 1 = j
    BY <1>1, <1>4, <2>1, <2>3
  <2>5. j - k + 1 \in Kept(p, t)
    BY <1>7, <1>8, <2>1, <2>4 DEF Kept
  <2> QED
    BY <2>4, <2>5
<1>13. f \in Bijection(Kept(p, t), Kept(s, t))
  BY <1>10, <1>11, <1>12 DEF Bijection, Injection, Surjection, IsInjective
<1>14. IsFiniteSet(Kept(p, t))
  BY <1>7, KeptIsFinite
<1>15. ExistsBijection(Kept(p, t), Kept(s, t))
  BY <1>13 DEF ExistsBijection
<1>16. Cardinality(Kept(s, t)) = Cardinality(Kept(p, t))
  BY <1>14, <1>15, FS_Bijection
<1> QED
  BY <1>6, <1>7, <1>16

\* What record() does to a list.
LEMMA RecordingKeeps ==
  ASSUME NEW s \in Seq(Int), NEW now \in Int, NEW t \in Int, t >= now - DAY
  PROVE  /\ Pruned(Append(s, now), now) \in Seq(Int)
         /\ Cardinality(Kept(Pruned(Append(s, now), now), t)) =
              Cardinality(Kept(s, t)) + (IF now >= t THEN 1 ELSE 0)
<1>1. Append(s, now) \in Seq(Int)
  BY AppendProperties
<1> DEFINE a == Append(s, now)
<1>2. Cardinality(Kept(a, t)) = Cardinality(Kept(s, t)) + (IF now >= t THEN 1 ELSE 0)
  BY AppendingKeeps
<1> HIDE DEF a
<1>3. Pruned(a, now) \in Seq(Int) /\ Cardinality(Kept(Pruned(a, now), t)) = Cardinality(Kept(a, t))
  <2>1. a \in Seq(Int)
    BY <1>1 DEF a
  <2> QED
    BY <2>1, PruningKeeps
<1> QED
  BY <1>2, <1>3 DEF a

\* A window that begins later shows no more than one that begins now.
LEMMA LaterWindow ==
  ASSUME NEW a \in Nat, NEW b \in Nat, b >= a, NEW t \in Int, t >= b - DAY
  PROVE  t >= a - DAY
BY MetricsAssumption

-----------------------------------------------------------------------------
(* The statistics *)

\* None is no time and no status ...
LEMMA NoneIsNoNumber == None \notin Nat
BY RoutesAssumption, Zenon

\* ... and no name.
LEMMA NoneIsNoName == None # "" /\ None # "retrieval.passage"
BY RoutesAssumption, Zenon

\* The requests that the counts of a workload are about.
Counted(w) == {c \in Clients : /\ request[c] # None /\ request[c].workload = w
                               /\ at[c] # None
                               /\ w = "chat" => status[c] = 200}
Since(w, t) == {c \in Counted(w) : at[c] >= t}

RouteTypes ==
  /\ clock \in Nat
  /\ events \in [Workloads -> Seq(Int)]
  /\ at \in [Clients -> Nat \cup {None}]
  /\ status \in [Clients -> Nat \cup {None}]

\* A request has no status while it is in the hands of a queue, or of httpx before
\* its answer: so it is not answered twice, and counts once.
PlaceInv ==
  \A c \in Clients :
    /\ c \in waiting => status[c] = None /\ upstream[c] = "none" /\ request[c] # None
    /\ upstream[c] \in {"posting", "connecting", "refusing"} => status[c] = None
    /\ upstream[c] # "none" => request[c] # None /\ request[c].workload = "chat"
    /\ at[c] # None => c \in waiting \/ status[c] # None

\* The list has the same events as the requests that count, from any time on that
\* a window may begin at.
EventsInv ==
  \A w \in Workloads : \A t \in Int :
    t >= clock - DAY => Cardinality(Kept(events[w], t)) = Cardinality(Since(w, t))

StatsInv == RouteTypes /\ PlaceInv /\ EventsInv

\* Finitely many, too.
LEMMA SinceIsFinite ==
  ASSUME NEW w, NEW t
  PROVE  IsFiniteSet(Since(w, t)) /\ Cardinality(Since(w, t)) \in Nat
<1>1. Since(w, t) \in SUBSET Clients
  BY DEF Since, Counted
<1> QED
  BY <1>1, ClientsAssumption, FS_Subset, FS_CardinalityType

\* The answers that a step may give.
Codes == {200, 400, 404, 429, 500, 502, 503}

\* One request more, at the time of the clock, is one event more.
LEMMA CountingOne ==
  ASSUME RouteTypes, RouteTypes', EventsInv, NEW w \in Workloads, Record(w),
         NEW c \in Clients, Counted(w)' = Counted(w) \cup {c}, c \notin Counted(w),
         at' = [at EXCEPT ![c] = clock],
         \A v \in Workloads \ {w} : Counted(v)' = Counted(v) /\ c \notin Counted(v)
  PROVE  EventsInv'
<1> SUFFICES ASSUME NEW v \in Workloads, NEW t \in Int, t >= clock' - DAY
             PROVE  Cardinality(Kept(events'[v], t)) = Cardinality(Since(v, t)')
  BY DEF EventsInv
<1>1. /\ clock' = clock /\ clock \in Nat /\ t >= clock - DAY /\ events[v] \in Seq(Int)
      /\ at'[c] = clock /\ \A d \in Clients \ {c} : at'[d] = at[d]
  BY DEF Record, RouteTypes
<1>2. Cardinality(Kept(events[v], t)) = Cardinality(Since(v, t))
  BY <1>1 DEF EventsInv
<1>3. CASE v # w
  <2>1. events'[v] = events[v]
    BY <1>3 DEF Record, RouteTypes
  <2>2. Counted(v)' = Counted(v) /\ c \notin Counted(v) /\ Counted(v) \subseteq Clients
    BY <1>3 DEF Counted
  <2>3. Since(v, t)' = Since(v, t)
    BY <1>1, <2>2 DEF Since
  <2> QED
    BY <1>2, <2>1, <2>3
<1>4. CASE v = w
  <2>1. events'[w] = Pruned(Append(events[w], clock), clock)
    BY DEF Record, RouteTypes
  <2>2. events[w] \in Seq(Int) /\ clock \in Int /\ t >= clock - DAY
    BY <1>1, <1>4
  <2>3. Cardinality(Kept(Pruned(Append(events[w], clock), clock), t)) =
          Cardinality(Kept(events[w], t)) + (IF clock >= t THEN 1 ELSE 0)
    BY <2>2, RecordingKeeps
  <2>4. Cardinality(Kept(events'[w], t)) =
          Cardinality(Since(w, t)) + (IF clock >= t THEN 1 ELSE 0)
    BY <1>2, <1>4, <2>1, <2>3
  <2>5. Counted(w) \subseteq Clients
    BY DEF Counted
  <2>6. CASE clock >= t
    <3>1. Since(w, t)' = Since(w, t) \cup {c} /\ c \notin Since(w, t)
      BY <1>1, <2>5, <2>6 DEF Since
    <3> QED
      BY <1>4, <2>4, <2>6, <3>1, SinceIsFinite, FS_AddElement
  <2>7. CASE ~(clock >= t)
    <3>1. Since(w, t)' = Since(w, t)
      BY <1>1, <2>5, <2>7 DEF Since
    <3> QED
      BY <1>4, <2>4, <2>7, <3>1, SinceIsFinite
  <2> QED
    BY <2>6, <2>7
<1> QED
  BY <1>3, <1>4

\* Where no list changes and the same requests count, nothing has to be counted.
LEMMA CountingNone ==
  ASSUME RouteTypes, EventsInv, UNCHANGED events, clock' \in Nat, clock' >= clock,
         \A w \in Workloads : /\ Counted(w)' = Counted(w)
                              /\ \A c \in Counted(w) : at'[c] = at[c]
  PROVE  EventsInv'
<1> SUFFICES ASSUME NEW w \in Workloads, NEW t \in Int, t >= clock' - DAY
             PROVE  Cardinality(Kept(events'[w], t)) = Cardinality(Since(w, t)')
  BY DEF EventsInv
<1>1. t >= clock - DAY
  <2>1. clock \in Nat
    BY DEF RouteTypes
  <2> QED
    BY <2>1, LaterWindow
<1>2. Since(w, t)' = Since(w, t)
  BY DEF Since
<1> QED
  BY <1>1, <1>2 DEF EventsInv

\* Before its answer a request does not count, for None is no status and no time.
LEMMA UnansweredAreUncounted ==
  ASSUME RouteTypes, PlaceInv, NEW c \in Clients, status[c] = None
  PROVE  /\ c \notin Counted("chat")
         /\ c \notin waiting => at[c] = None /\ \A w \in Workloads : c \notin Counted(w)
BY NoneIsNoNumber DEF PlaceInv, Counted

\* An answer to a chat request: it counts if it is 200, and is counted then.
LEMMA AnsweringCounts ==
  ASSUME RouteTypes, RouteTypes', PlaceInv, EventsInv, NEW c \in Clients, NEW code \in Codes,
         request[c] # None, request[c].workload = "chat", status[c] = None,
         AnswersChat(c, code), UNCHANGED request
  PROVE  EventsInv'
<1>1. /\ status' = [status EXCEPT ![c] = code] /\ at' = [at EXCEPT ![c] = clock]
      /\ clock \in Nat /\ clock # None
      /\ status'[c] = code /\ \A d \in Clients \ {c} : status'[d] = status[d]
      /\ at'[c] = clock /\ \A d \in Clients \ {c} : at'[d] = at[d]
  BY NoneIsNoNumber DEF AnswersChat, Responds, Timed, RouteTypes
<1>2. c \notin Counted("chat")
  BY UnansweredAreUncounted
<1>3. \A v \in Workloads \ {"chat"} : Counted(v)' = Counted(v) /\ c \notin Counted(v)
  <2> SUFFICES ASSUME NEW v \in Workloads \ {"chat"}
               PROVE  Counted(v)' = Counted(v) /\ c \notin Counted(v)
    OBVIOUS
  <2> QED
    BY <1>1 DEF Counted
<1>4. CASE code = 200
  <2>1. Counted("chat")' = Counted("chat") \cup {c}
    BY <1>1, <1>4 DEF Counted
  <2>2. Record("chat") /\ "chat" \in Workloads
    BY <1>4 DEF AnswersChat, Workloads
  <2> QED
    BY <1>1, <1>2, <1>3, <2>1, <2>2, CountingOne
<1>5. CASE code # 200
  <2>1. Counted("chat")' = Counted("chat")
    BY <1>1, <1>2, <1>5 DEF Counted
  <2>2. UNCHANGED << clock, events >>
    BY <1>5 DEF AnswersChat, metricsVars
  <2>3. ASSUME NEW w \in Workloads
        PROVE  Counted(w)' = Counted(w) /\ \A d \in Counted(w) : at'[d] = at[d]
    <3>1. Counted(w)' = Counted(w) /\ c \notin Counted(w) /\ Counted(w) \subseteq Clients
      <4>1. Counted(w) \subseteq Clients
        BY DEF Counted
      <4> QED
        BY <1>2, <1>3, <2>1, <4>1
    <3> QED
      BY <1>1, <3>1
  <2> QED
    BY <1>1, <2>2, <2>3, CountingNone
<1> QED
  BY <1>4, <1>5

\* An embedding or rerank request counts at once, be it rejected in the same step.
LEMMA EnteringCounts ==
  ASSUME RouteTypes, RouteTypes', PlaceInv, EventsInv,
         NEW c \in Clients, NEW w \in {"embedding", "rerank"},
         Arrives(c, w), Record(w), Timed(c), UNCHANGED request,
         \A d \in Clients \ {c} : status'[d] = status[d]
  PROVE  EventsInv'
<1>1. /\ at' = [at EXCEPT ![c] = clock] /\ clock \in Nat /\ clock # None
      /\ at'[c] = clock /\ \A d \in Clients \ {c} : at'[d] = at[d]
  BY NoneIsNoNumber DEF Timed, RouteTypes
<1>2. status[c] = None /\ c \notin waiting /\ request[c] # None /\ request[c].workload = w
  BY DEF Arrives
<1>3. \A v \in Workloads : c \notin Counted(v)
  BY <1>2, UnansweredAreUncounted
<1>4. ASSUME NEW v \in Workloads \ {w} PROVE Counted(v)' = Counted(v)
  BY <1>1, <1>2 DEF Counted
<1>5. Counted(w)' = Counted(w) \cup {c}
  BY <1>1, <1>2 DEF Counted
<1>6. w \in Workloads
  BY DEF Workloads
<1> QED
  BY <1>1, <1>3, <1>4, <1>5, <1>6, CountingOne

\* An answer that is not counted: an error, or one to a request counted before.
LEMMA AnsweringUncounted ==
  ASSUME RouteTypes, PlaceInv, EventsInv, NEW c \in Clients, NEW code \in Codes,
         status[c] = None, Responds(c, code), request[c].workload # "chat" \/ code # 200,
         UNCHANGED << request, at, clock, events >>
  PROVE  EventsInv'
<1>1. status'[c] = code /\ \A d \in Clients \ {c} : status'[d] = status[d]
  BY DEF Responds, RouteTypes
<1>2. ASSUME NEW w \in Workloads PROVE Counted(w)' = Counted(w)
  <2>1. CASE w # "chat"
    BY <2>1 DEF Counted
  <2>2. CASE w = "chat"
    <3>1. c \notin Counted("chat")
      BY UnansweredAreUncounted
    <3>2. c \notin Counted("chat")'
      BY <1>1 DEF Counted
    <3> QED
      BY <1>1, <2>2, <3>1, <3>2 DEF Counted
  <2> QED
    BY <2>1, <2>2
<1>3. clock' \in Nat /\ clock' >= clock
  BY DEF RouteTypes
<1> QED
  BY <1>2, <1>3, CountingNone

\* A step that does not answer.
LEMMA NotAnswering ==
  ASSUME RouteTypes, EventsInv, UNCHANGED << request, at, status, clock, events >>
  PROVE  EventsInv'
<1>1. \A w \in Workloads : Counted(w)' = Counted(w)
  BY DEF Counted
<1>2. clock' \in Nat /\ clock' >= clock
  BY DEF RouteTypes
<1> QED
  BY <1>1, <1>2, CountingNone

\* The types, first of the steps that count.
LEMMA RecordKeepsTypes ==
  ASSUME RouteTypes, NEW w \in Workloads, Record(w)
  PROVE  clock' \in Nat /\ events' \in [Workloads -> Seq(Int)]
<1>1. events[w] \in Seq(Int) /\ clock \in Int /\ clock >= clock - DAY
  BY MetricsAssumption DEF RouteTypes
<1>2. Pruned(Append(events[w], clock), clock) \in Seq(Int)
  BY <1>1, RecordingKeeps
<1> QED
  BY <1>2 DEF Record, RouteTypes

\* What a step may do to the status and the time of a request.
LEMMA AnswerKeepsTypes ==
  ASSUME RouteTypes, NEW c \in Clients, NEW code \in Codes,
         Responds(c, code) \/ UNCHANGED status, Timed(c) \/ UNCHANGED at
  PROVE  /\ at' \in [Clients -> Nat \cup {None}]
         /\ status' \in [Clients -> Nat \cup {None}]
BY DEF Responds, Timed, RouteTypes, Codes

\* An answer to a chat request, counted or not, keeps the types.
LEMMA AnswersChatKeepsTypes ==
  ASSUME RouteTypes, NEW c \in Clients, NEW code \in Codes, AnswersChat(c, code)
  PROVE  RouteTypes'
<1>1. clock' \in Nat /\ events' \in [Workloads -> Seq(Int)]
  BY RecordKeepsTypes DEF AnswersChat, metricsVars, RouteTypes, Workloads
<1> QED
  BY <1>1, AnswerKeepsTypes DEF AnswersChat, RouteTypes

\* A step that takes up a request, or rejects it.
LEMMA RequestStepKeepsStats ==
  ASSUME StatsInv, ProxyTypeOK, NEW c \in Clients, RequestStep(c)
  PROVE  StatsInv'
<1> USE DEF StatsInv
<1>1. CASE Reject(c)
  <2>1. PICK code \in {400, 404} : Responds(c, code)
    BY <1>1 DEF Reject
  <2>2. /\ UNCHANGED << request, upstream, waiting, at, clock, events >>
        /\ status[c] = None /\ request[c] # None /\ c \notin waiting /\ upstream[c] = "none"
    BY <1>1 DEF Reject, Arrives, setting, proxyVars, metricsVars
  <2>3. code \in Codes /\ code # 200
    BY DEF Codes
  <2>4. RouteTypes'
    BY <2>1, <2>2, <2>3, AnswerKeepsTypes DEF RouteTypes
  <2>5. PlaceInv'
    BY <2>1, <2>2, NoneIsNoNumber DEF PlaceInv, Responds, RouteTypes
  <2>6. EventsInv'
    BY <2>1, <2>2, <2>3, AnsweringUncounted
  <2> QED
    BY <2>4, <2>5, <2>6
<1>2. CASE Embeddings(c) \/ RerankRequested(c)
  <2>1. PICK w \in {"embedding", "rerank"} : Arrives(c, w) /\ Record(w)
    BY <1>2 DEF Embeddings, RerankRequested
  <2>2. /\ Timed(c) /\ UNCHANGED << request, upstream >>
        /\ status[c] = None /\ upstream[c] = "none" /\ request[c] # None /\ c \notin waiting
    BY <1>2 DEF Embeddings, RerankRequested, Arrives, setting, proxyVars
  <2>3. \/ UNCHANGED status /\ waiting' = waiting \cup {c}
        \/ (\E code \in {400, 500} : Responds(c, code)) /\ UNCHANGED waiting
    BY <1>2 DEF Embeddings, RerankRequested
  <2>4. PICK code \in Codes : UNCHANGED status \/ Responds(c, code)
    BY <2>3 DEF Codes
  <2>5. \A d \in Clients \ {c} : status'[d] = status[d]
    BY <2>4 DEF Responds, RouteTypes
  <2>6. RouteTypes'
    <3>1. w \in Workloads
      BY DEF Workloads
    <3>2. clock' \in Nat /\ events' \in [Workloads -> Seq(Int)]
      BY <2>1, <3>1, RecordKeepsTypes
    <3>3. at' \in [Clients -> Nat \cup {None}] /\ status' \in [Clients -> Nat \cup {None}]
      BY <2>2, <2>4, AnswerKeepsTypes
    <3> QED
      BY <3>2, <3>3 DEF RouteTypes
  <2>7. PlaceInv'
    <3>1. CASE UNCHANGED status /\ waiting' = waiting \cup {c}
      BY <2>2, <3>1 DEF PlaceInv, Timed, RouteTypes
    <3>2. CASE (\E answer \in {400, 500} : Responds(c, answer)) /\ UNCHANGED waiting
      BY <2>2, <3>2, NoneIsNoNumber DEF PlaceInv, Timed, Responds, RouteTypes
    <3> QED
      BY <2>3, <3>1, <3>2
  <2>8. EventsInv'
    BY <2>1, <2>2, <2>5, <2>6, EnteringCounts
  <2> QED
    BY <2>6, <2>7, <2>8
<1>3. CASE LocalStream(c) \/ LocalFull(c)
  <2>1. PICK code \in {200, 503} : AnswersChat(c, code)
    BY <1>3 DEF LocalStream, LocalFull
  <2>2. /\ UNCHANGED << request, upstream, waiting >>
        /\ status[c] = None /\ upstream[c] = "none" /\ request[c] # None
        /\ request[c].workload = "chat" /\ c \notin waiting
    BY <1>3 DEF LocalStream, LocalFull, ChatArrives, Arrives, setting, proxyVars
  <2>3. code \in Codes
    BY DEF Codes
  <2>4. RouteTypes'
    BY <2>1, <2>3, AnswersChatKeepsTypes
  <2>5. PlaceInv'
    BY <2>1, <2>2, NoneIsNoNumber DEF PlaceInv, AnswersChat, Responds, Timed, RouteTypes
  <2>6. EventsInv'
    BY <2>1, <2>2, <2>3, <2>4, AnsweringCounts
  <2> QED
    BY <2>4, <2>5, <2>6
<1>4. CASE LocalComplete(c) \/ ProxyArrives(c)
  <2>1. UNCHANGED << request, status, at, clock, events >>
    BY <1>4 DEF LocalComplete, ProxyArrives, setting, metricsVars
  <2>2. RouteTypes'
    BY <2>1 DEF RouteTypes
  <2>3. PlaceInv'
    <3>1. CASE LocalComplete(c)
      BY <3>1, <2>1 DEF LocalComplete, ChatArrives, Arrives, proxyVars, PlaceInv
    <3>2. CASE ProxyArrives(c)
      <4>1. /\ upstream' = [upstream EXCEPT ![c] = IF request[c].stream THEN "connecting" ELSE "posting"]
            /\ waiting' = waiting
            /\ request[c] # None /\ request[c].workload = "chat" /\ status[c] = None
            /\ c \notin waiting
        BY <3>2 DEF ProxyArrives, ChatArrives, Arrives, OpenStream, Complete, Begins, Goes
      <4> QED
        BY <4>1, <2>1 DEF PlaceInv, ProxyTypeOK
    <3> QED
      BY <1>4, <3>1, <3>2
  <2>4. EventsInv'
    BY <2>1, NotAnswering
  <2> QED
    BY <2>2, <2>3, <2>4
<1> QED
  BY <1>1, <1>2, <1>3, <1>4 DEF RequestStep

\* A queue returns, or the proxy goes on.
LEMMA ServerStepKeepsStats ==
  ASSUME StatsInv, ProxyTypeOK, NEW c \in Clients, ServerStep(c)
  PROVE  StatsInv'
<1> USE DEF StatsInv
<1>1. CASE EmbeddingsReturn(c) \/ RerankReturns(c)
  <2>1. PICK code \in {200, 400, 500} : Responds(c, code)
    BY <1>1 DEF EmbeddingsReturn, RerankReturns
  <2>2. /\ UNCHANGED << request, upstream, at, clock, events >>
        /\ c \in waiting /\ waiting' = waiting \ {c}
        /\ request[c] # None /\ request[c].workload # "chat"
    BY <1>1 DEF EmbeddingsReturn, RerankReturns, Returned, setting, proxyVars, metricsVars
  <2>3. status[c] = None /\ upstream[c] = "none"
    BY <2>2 DEF PlaceInv
  <2>4. code \in Codes
    BY DEF Codes
  <2>5. RouteTypes'
    BY <2>1, <2>2, <2>4, AnswerKeepsTypes DEF RouteTypes
  <2>6. PlaceInv'
    BY <2>1, <2>2, <2>3, NoneIsNoNumber DEF PlaceInv, Responds, RouteTypes
  <2>7. EventsInv'
    BY <2>1, <2>2, <2>3, <2>4, AnsweringUncounted
  <2> QED
    BY <2>5, <2>6, <2>7
<1>2. CASE LocalReturns(c)
  <2>1. PICK code \in {200, 400, 500} : AnswersChat(c, code)
    BY <1>2 DEF LocalReturns
  <2>2. /\ UNCHANGED << request, upstream >>
        /\ c \in waiting /\ waiting' = waiting \ {c}
        /\ request[c] # None /\ request[c].workload = "chat"
    BY <1>2 DEF LocalReturns, Returned, setting, proxyVars
  <2>3. status[c] = None /\ upstream[c] = "none"
    BY <2>2 DEF PlaceInv
  <2>4. code \in Codes
    BY DEF Codes
  <2>5. RouteTypes'
    BY <2>1, <2>4, AnswersChatKeepsTypes
  <2>6. PlaceInv'
    BY <2>1, <2>2, <2>3, NoneIsNoNumber DEF PlaceInv, AnswersChat, Responds, Timed, RouteTypes
  <2>7. EventsInv'
    BY <2>1, <2>2, <2>3, <2>4, <2>5, AnsweringCounts
  <2> QED
    BY <2>5, <2>6, <2>7
<1>3. CASE ProxyAnswers(c)
  <2>1. PICK code \in {200, 400, 429, 500, 502} : AnswersChat(c, code)
    BY <1>3 DEF ProxyAnswers, PostStatuses, RefusalStatuses
  <2>2. /\ UNCHANGED << request, waiting >>
        /\ upstream[c] \in {"posting", "connecting", "refusing"}
        /\ \E s \in {"done", "opened", "leaked"} : upstream' = [upstream EXCEPT ![c] = s]
    BY <1>3 DEF ProxyAnswers, setting, Posted, Connected, Unavailable, ConnectFails, RefusalRead,
                RefusalLeaks, Ends, Moves, Goes
  <2>3. /\ status[c] = None /\ c \notin waiting
        /\ request[c] # None /\ request[c].workload = "chat"
    BY <2>2 DEF PlaceInv
  <2>4. code \in Codes
    BY DEF Codes
  <2>5. RouteTypes'
    BY <2>1, <2>4, AnswersChatKeepsTypes
  <2>6. PlaceInv'
    BY <2>1, <2>2, <2>3, NoneIsNoNumber
       DEF PlaceInv, AnswersChat, Responds, Timed, RouteTypes, ProxyTypeOK
  <2>7. EventsInv'
    BY <2>1, <2>2, <2>3, <2>4, <2>5, AnsweringCounts
  <2> QED
    BY <2>5, <2>6, <2>7
<1>4. CASE ProxyRefused(c) \/ ProxyGenerates(c)
  <2>1. /\ UNCHANGED << request, waiting, status, at, clock, events >>
        /\ \/ upstream[c] = "connecting" /\ upstream' = [upstream EXCEPT ![c] = "refusing"]
           \/ /\ upstream[c] # "none"
              /\ \E s \in {"yielded", "closing", "leaked", "done"} :
                   upstream' = [upstream EXCEPT ![c] = s]
    BY <1>4 DEF ProxyRefused, ProxyGenerates, GeneratorStep, Refused, Chunk, StreamEnds, Finalize,
                Closed, CloseFails, Moves, Ends, Goes, setting, metricsVars
  <2>2. RouteTypes'
    BY <2>1 DEF RouteTypes
  <2>3. PlaceInv'
    BY <2>1 DEF PlaceInv, ProxyTypeOK
  <2>4. EventsInv'
    BY <2>1, NotAnswering
  <2> QED
    BY <2>2, <2>3, <2>4
<1> QED
  BY <1>1, <1>2, <1>3, <1>4 DEF ServerStep

\* Clients read, time passes, the gateway shuts down.
LEMMA OtherStepKeepsStats ==
  ASSUME StatsInv, ProxyTypeOK,
         \/ UNCHANGED vars \/ TimePasses \/ Shutdown \/ \E c \in Clients : ClientReads(c)
  PROVE  StatsInv'
<1> USE DEF StatsInv
<1>1. /\ UNCHANGED << request, waiting, status, at, events >>
      /\ clock' \in Nat /\ clock' >= clock
  BY DEF vars, TimePasses, Tick, Shutdown, ClientReads, setting, metricsVars, RouteTypes
<1>2. \/ UNCHANGED upstream
      \/ \E c \in Clients : /\ upstream[c] # "none"
                            /\ \E s \in {"reading", "leaked", "orphaned"} :
                                 upstream' = [upstream EXCEPT ![c] = s]
  BY DEF vars, TimePasses, Shutdown, Close, ClientReads, ClientStep, FirstNext, Sent, LeaveUnread,
         LeaveYielded, Moves, Goes, proxyVars
<1>3. RouteTypes'
  BY <1>1 DEF RouteTypes
<1>4. PlaceInv'
  BY <1>1, <1>2 DEF PlaceInv, ProxyTypeOK
<1>5. EventsInv'
  <2>1. \A w \in Workloads : Counted(w)' = Counted(w)
    BY <1>1 DEF Counted
  <2> QED
    BY <1>1, <2>1, CountingNone
<1> QED
  BY <1>3, <1>4, <1>5

\* There are no events and no requests at first.
LEMMA InitStats == Init => StatsInv
<1> SUFFICES ASSUME Init PROVE StatsInv
  OBVIOUS
<1>1. /\ clock = 0 /\ events = [w \in Workloads |-> << >>]
      /\ upstream = [r \in Clients |-> "none"] /\ waiting = {}
      /\ status = [c \in Clients |-> None] /\ at = [c \in Clients |-> None]
  BY DEF Init, MetricsInit, ProxyInit
<1>2. RouteTypes
  <2>1. << >> \in Seq(Int)
    OBVIOUS
  <2> QED
    BY <1>1, <2>1 DEF RouteTypes
<1>3. PlaceInv
  BY <1>1 DEF PlaceInv
<1>4. EventsInv
  <2> SUFFICES ASSUME NEW w \in Workloads, NEW t \in Int
               PROVE  Cardinality(Kept(events[w], t)) = Cardinality(Since(w, t))
    BY DEF EventsInv
  <2>1. Kept(events[w], t) = {} /\ Since(w, t) = {}
    BY <1>1 DEF Kept, Since, Counted
  <2> QED
    BY <2>1
<1> QED
  BY <1>2, <1>3, <1>4 DEF StatsInv

\* Every step counts what it has to.
LEMMA NextKeepsStats == StatsInv /\ ProxyTypeOK /\ [Next]_vars => StatsInv'
<1> SUFFICES ASSUME StatsInv, ProxyTypeOK, [Next]_vars PROVE StatsInv'
  OBVIOUS
<1>1. ASSUME NEW c \in Clients, RequestStep(c) PROVE StatsInv'
  BY <1>1, RequestStepKeepsStats
<1>2. ASSUME NEW c \in Clients, ServerStep(c) PROVE StatsInv'
  BY <1>2, ServerStepKeepsStats
<1> QED
  BY <1>1, <1>2, OtherStepKeepsStats DEF Next

\* The windows are two of the times that the invariant is about.
LEMMA StatsInvIsEnough == StatsInv => RecordsAreCountedOnce
<1> SUFFICES ASSUME StatsInv, NEW w \in Workloads
             PROVE  Snapshot(w) = [requests_1h |-> Cardinality(Since(w, clock - HOUR)),
                                   requests_1d |-> Cardinality(Since(w, clock - DAY))]
  BY DEF RecordsAreCountedOnce, Since, Counted
<1>1. /\ clock - HOUR \in Int /\ clock - HOUR >= clock - DAY
      /\ clock - DAY \in Int /\ clock - DAY >= clock - DAY
  BY MetricsAssumption DEF StatsInv, RouteTypes
<1>2. \A span : Within(w, span) = Cardinality(Kept(events[w], clock - span))
  BY DEF Within, Kept
<1>3. /\ Within(w, HOUR) = Cardinality(Since(w, clock - HOUR))
      /\ Within(w, DAY) = Cardinality(Since(w, clock - DAY))
  BY <1>1, <1>2 DEF StatsInv, EventsInv
<1> QED
  BY <1>3 DEF Snapshot

-----------------------------------------------------------------------------
(* What the batcher is asked *)

\* The requests do not change.
LEMMA NextKeepsRequests == [Next]_vars => UNCHANGED request
<1> SUFFICES ASSUME [Next]_vars PROVE UNCHANGED request
  OBVIOUS
<1>1. CASE UNCHANGED vars
  BY <1>1 DEF vars, setting
<1>2. CASE TimePasses \/ Shutdown
  BY <1>2 DEF TimePasses, Shutdown, setting
<1>3. ASSUME NEW c \in Clients, RequestStep(c) PROVE UNCHANGED request
  BY <1>3 DEF RequestStep, Reject, Embeddings, RerankRequested, LocalStream, LocalFull,
              LocalComplete, ProxyArrives, setting
<1>4. ASSUME NEW c \in Clients, ServerStep(c) PROVE UNCHANGED request
  BY <1>4 DEF ServerStep, EmbeddingsReturn, RerankReturns, LocalReturns, ProxyAnswers,
              ProxyRefused, ProxyGenerates, setting
<1>5. ASSUME NEW c \in Clients, ClientReads(c) PROVE UNCHANGED request
  BY <1>5 DEF ClientReads, setting
<1> QED
  BY <1>1, <1>2, <1>3, <1>4, <1>5 DEF Next

\* What an embedding request has as a result is what its handler made of it when it
\* had been validated (routes.py:24-31).
AskedInv ==
  \A c \in Clients :
    (request[c] # None /\ request[c].workload = "embedding" /\ result[c] # None) =>
      /\ ValidEmbedding(request[c])
      /\ result[c] = ParsedEmbedding(request[c], default_max_length)

\* Every client has a place for its result.
ResultIsFunction == result = [c \in Clients |-> result[c]]

\* A result is set once, when the request is taken up.
LEMMA NextKeepsAsked ==
  ASSUME AskedInv, ResultIsFunction, [Next]_vars
  PROVE  AskedInv' /\ ResultIsFunction'
<1>1. UNCHANGED request
  BY NextKeepsRequests
<1>2. \/ UNCHANGED result
      \/ \E c \in Clients : Embeddings(c) \/ RerankReturns(c)
  <2>1. CASE UNCHANGED vars
    BY <2>1 DEF vars
  <2>2. CASE TimePasses \/ Shutdown
    BY <2>2 DEF TimePasses, Shutdown
  <2>3. ASSUME NEW c \in Clients, RequestStep(c) PROVE UNCHANGED result \/ Embeddings(c)
    BY <2>3 DEF RequestStep, Reject, RerankRequested, LocalStream, LocalFull,
                LocalComplete, ProxyArrives
  <2>4. ASSUME NEW c \in Clients, ServerStep(c) PROVE UNCHANGED result \/ RerankReturns(c)
    BY <2>4 DEF ServerStep, EmbeddingsReturn, LocalReturns, ProxyAnswers,
                ProxyRefused, ProxyGenerates
  <2>5. ASSUME NEW c \in Clients, ClientReads(c) PROVE UNCHANGED result
    BY <2>5 DEF ClientReads
  <2> QED
    BY <2>1, <2>2, <2>3, <2>4, <2>5 DEF Next
<1>3. CASE UNCHANGED result
  BY <1>1, <1>3 DEF AskedInv, ResultIsFunction
<1>4. ASSUME NEW c \in Clients, Embeddings(c) PROVE AskedInv' /\ ResultIsFunction'
  <2>1. /\ \/ result' = [result EXCEPT ![c] = ParsedEmbedding(request[c], default_max_length)]
           \/ UNCHANGED result
        /\ ValidEmbedding(request[c])
    BY <1>4 DEF Embeddings
  <2> QED
    BY <1>1, <2>1 DEF AskedInv, ResultIsFunction
<1>5. ASSUME NEW c \in Clients, RerankReturns(c) PROVE AskedInv' /\ ResultIsFunction'
  <2>1. /\ \/ result' = [result EXCEPT ![c] = Rankings[request[c]]]
           \/ UNCHANGED result
        /\ request[c].workload = "rerank"
    BY <1>5 DEF RerankReturns
  <2> QED
    BY <1>1, <2>1 DEF AskedInv, ResultIsFunction
<1> QED
  BY <1>2, <1>3, <1>4, <1>5

\* The first of five hints.
LEMMA FirstOfFive ==
  ASSUME NEW h, h = << h[1], h[2], h[3], h[4], h[5] >>, NEW k \in 1..5, h[k] # None,
         \A i \in 1..5 : i < k => h[i] = None
  PROVE  h[Min({i \in DOMAIN h : h[i] # None})] = h[k]
<1> DEFINE S == {i \in DOMAIN h : h[i] # None}
<1>1. DOMAIN h = 1..5
  OBVIOUS
<1>2. S \in SUBSET Nat /\ S # {} /\ k \in S /\ \A i \in S : k <= i
  BY <1>1
<1>3. Min(S) \in S /\ \A y \in S : Min(S) <= y
  <2> HIDE DEF S
  <2> QED
    BY <1>2, LeastElement
<1>4. Min(S) = k
  <2> DEFINE m == Min(S)
  <2>1. m \in Nat /\ m <= k /\ k <= m
    BY <1>2, <1>3
  <2> HIDE DEF m, S
  <2> QED
    BY <2>1 DEF m
<1> QED
  BY <1>4

\* The chain of `or` and `is None` of parse_task_type takes the first hint there is,
\* with an empty task_type as the hint at a passage (schema.py:148-166).
LEMMA TaskIsFirstHint ==
  ASSUME NEW r
  PROVE  parse_task_type(r) = ResolveTask(FirstHint(r))
<1> DEFINE byInput == IF r.input_type = None THEN None ELSE TaskOfInputType(Lower(r.input_type))
           byModel == IF r.model = None THEN None ELSE TaskOfModel(Lower(r.model))
           h == << IF r.task = "" THEN None ELSE r.task,
                   IF r.task_type = "" THEN "retrieval.passage" ELSE r.task_type,
                   byInput, byModel, "retrieval.passage" >>
<1>1. None # "" /\ None # "retrieval.passage"
  BY NoneIsNoName, Zenon
<1>2. byInput # "" /\ byModel # ""
  BY <1>1 DEF TaskOfInputType, TaskOfModel
<1>3. FirstHint(r) = h[Min({i \in DOMAIN h : h[i] # None})]
  BY DEF FirstHint
<1>4. /\ h[1] = IF r.task = "" THEN None ELSE r.task
      /\ h[2] = IF r.task_type = "" THEN "retrieval.passage" ELSE r.task_type
      /\ h[3] = byInput /\ h[4] = byModel /\ h[5] = "retrieval.passage"
      /\ h = << h[1], h[2], h[3], h[4], h[5] >>
  OBVIOUS
<1>5. h[5] = "retrieval.passage" /\ 5 \in 1..5
  OBVIOUS
<1>6. parse_task_type(r) =
        LET direct == Or(r.task, r.task_type)
            one    == IF direct = None THEN byInput ELSE direct
            two    == IF one = None THEN byModel ELSE one
        IN  ResolveTask(Or(two, "retrieval.passage"))
  BY DEF parse_task_type
<1> HIDE DEF h, byInput, byModel
<1>7. \A k \in 1..5 : (h[k] # None /\ \A i \in 1..5 : i < k => h[i] = None)
                      => FirstHint(r) = h[k]
  BY <1>3, <1>4, FirstOfFive
<1>8. CASE h[1] # None
  <2>1. FirstHint(r) = h[1]
    BY <1>7, <1>8
  <2> QED
    BY <1>1, <1>4, <1>6, <1>8, <2>1 DEF Or
<1>9. CASE h[1] = None /\ h[2] # None
  <2>1. FirstHint(r) = h[2]
    BY <1>7, <1>9
  <2> QED
    BY <1>1, <1>4, <1>6, <1>9, <2>1 DEF Or
<1>10. CASE h[1] = None /\ h[2] = None /\ h[3] # None
  <2>1. FirstHint(r) = h[3]
    BY <1>7, <1>10
  <2> QED
    BY <1>1, <1>2, <1>4, <1>6, <1>10, <2>1 DEF Or
<1>11. CASE h[1] = None /\ h[2] = None /\ h[3] = None /\ h[4] # None
  <2>1. FirstHint(r) = h[4]
    BY <1>7, <1>11
  <2> QED
    BY <1>1, <1>2, <1>4, <1>6, <1>11, <2>1 DEF Or
<1>12. CASE h[1] = None /\ h[2] = None /\ h[3] = None /\ h[4] = None
  <2>1. \A i \in 1..5 : i < 5 => h[i] = None
    BY <1>12
  <2>2. h[5] # None
    BY <1>1, <1>5, Zenon
  <2>3. FirstHint(r) = h[5]
    BY <1>7, <1>5, <2>1, <2>2
  <2> QED
    BY <1>1, <1>4, <1>6, <1>12, <1>5, <2>3 DEF Or
<1> QED
  BY <1>8, <1>9, <1>10, <1>11, <1>12

\* Of a valid request the handler makes what was asked for.
LEMMA ParsedIsAsked ==
  ASSUME NEW r, ValidEmbedding(r), NEW q, q = ParsedEmbedding(r, default_max_length)
  PROVE  /\ q.texts = r.input /\ q.texts # << >>
         /\ q.dimensions = r.dimensions
         /\ q.max_length \in VALID_MAX_LENGTH_RANGE /\ r.max_length \in {None, q.max_length}
         /\ q.task_type # "separation"
         /\ q.task_type = FirstHint(r) \/ (q.task_type = "clustering" /\ FirstHint(r) = "separation")
<1>1. /\ q.texts = r.input /\ q.dimensions = r.dimensions
      /\ q.task_type = parse_task_type(r)
      /\ q.max_length = IF r.max_length = None THEN default_max_length ELSE r.max_length
  BY DEF ParsedEmbedding
<1>2. /\ r.input # << >> /\ parse_task_type(r) # Rejected
      /\ r.max_length # None => r.max_length \in VALID_MAX_LENGTH_RANGE
  BY DEF ValidEmbedding
<1>3. q.max_length \in VALID_MAX_LENGTH_RANGE /\ r.max_length \in {None, q.max_length}
  <2>1. CASE r.max_length = None
    BY <1>1, <2>1, RoutesAssumption, Zenon
  <2>2. CASE r.max_length # None
    BY <1>1, <1>2, <2>2, Zenon
  <2> QED
    BY <2>1, <2>2
<1>4. q.task_type = ResolveTask(FirstHint(r)) /\ q.task_type # Rejected
  BY <1>1, <1>2, TaskIsFirstHint
<1>5. /\ q.task_type # "separation"
      /\ q.task_type = FirstHint(r) \/ (q.task_type = "clustering" /\ FirstHint(r) = "separation")
  BY <1>4 DEF ResolveTask, Rejected
<1>6. q.texts # << >>
  BY <1>1, <1>2
<1>7. q.texts = r.input /\ q.dimensions = r.dimensions
  BY <1>1, Zenon
<1> QED
  BY <1>3, <1>5, <1>6, <1>7, Zenon

-----------------------------------------------------------------------------
(* Sorting, and joining sequences of pairs *)

\* What goes before what, when it is an order.
Orders(before, S) ==
  /\ before \in [S -> SUBSET S]
  /\ \A x \in S : x \notin before[x]
  /\ \A x, y \in S : x \in before[y] => before[x] \subseteq before[y]
  /\ \A x, y \in S : x = y \/ x \in before[y] \/ y \in before[x]

\* Whatever is sorted is there, once, in its order.
LEMMA SortedLemma ==
  ASSUME NEW S, IsFiniteSet(S), NEW before, Orders(before, S)
  PROVE  LET s == Sorted(before)
             N == Cardinality(S)
         IN  /\ N \in Nat /\ s \in [1..N -> S]
             /\ \A k, l \in 1..N : k < l => s[k] \in before[s[l]]
             /\ \A x \in S : \E k \in 1..N : s[k] = x
<1> DEFINE N == Cardinality(S)
           rank == [x \in S |-> Cardinality(before[x])]
           s == Sorted(before)
<1> USE DEF Orders
<1>1. N \in Nat
  BY FS_CardinalityType
<1>2. ASSUME NEW x \in S PROVE IsFiniteSet(before[x]) /\ rank[x] \in 0..N - 1
  <2>1. before[x] \in SUBSET (S \ {x})
    OBVIOUS
  <2>2. IsFiniteSet(S \ {x}) /\ Cardinality(S \ {x}) = N - 1
    BY FS_RemoveElement
  <2>3. IsFiniteSet(before[x]) /\ Cardinality(before[x]) <= N - 1
    BY <2>1, <2>2, FS_Subset
  <2>4. Cardinality(before[x]) \in Nat
    BY <2>3, FS_CardinalityType
  <2> QED
    BY <1>1, <2>3, <2>4
<1>3. ASSUME NEW x \in S, NEW y \in S, x \in before[y] PROVE rank[x] < rank[y]
  <2>1. before[x] \in SUBSET before[y] /\ before[x] # before[y]
    BY <1>3
  <2>2. Cardinality(before[x]) <= Cardinality(before[y]) /\ Cardinality(before[x]) # Cardinality(before[y])
    BY <1>2, <2>1, FS_Subset
  <2>3. rank[x] \in Int /\ rank[y] \in Int /\ rank[x] <= rank[y] /\ rank[x] # rank[y]
    BY <1>2, <2>2
  <2> HIDE DEF rank
  <2> QED
    BY <2>3
<1>4. rank \in Injection(S, 0..N - 1)
  <2>1. rank \in [S -> 0..N - 1]
    BY <1>2
  <2>2. ASSUME NEW x \in S, NEW y \in S, rank[x] = rank[y] PROVE x = y
    <3>1. rank[x] \in Int /\ ~(rank[x] < rank[y]) /\ ~(rank[y] < rank[x])
      BY <1>2, <2>2
    <3> QED
      BY <1>3, <3>1
  <2> HIDE DEF rank
  <2> QED
    BY <2>1, <2>2 DEF Injection, IsInjective
<1>5. rank \in Surjection(S, 0..N - 1)
  <2>1. IsFiniteSet(0..N - 1) /\ Cardinality(0..N - 1) = N
    BY <1>1, FS_Interval
  <2> HIDE DEF rank, N
  <2>2. Cardinality(S) = Cardinality(0..N - 1) <=> rank \in Surjection(S, 0..N - 1)
    BY <1>4, <2>1, FS_Injection
  <2> QED
    BY <2>1, <2>2 DEF N
<1>6. DOMAIN before = S
  OBVIOUS
<1>7. s = [k \in 1..N |-> CHOOSE x \in S : rank[x] = k - 1]
  BY <1>6 DEF Sorted
<1>8. ASSUME NEW k \in 1..N PROVE s[k] \in S /\ rank[s[k]] = k - 1
  <2>1. k - 1 \in 0..N - 1
    BY <1>1
  <2>2. \E x \in S : rank[x] = k - 1
    <3> HIDE DEF rank
    <3> QED
      BY <1>5, <2>1 DEF Surjection
  <2>3. s[k] = CHOOSE x \in S : rank[x] = k - 1
    <3> HIDE DEF rank
    <3> QED
      BY <1>7
  <2> HIDE DEF rank, s
  <2> QED
    BY <2>2, <2>3
<1>9. s \in [1..N -> S]
  <2> HIDE DEF rank
  <2> QED
    BY <1>7, <1>8
<1>10. ASSUME NEW k \in 1..N, NEW l \in 1..N, k < l PROVE s[k] \in before[s[l]]
  <2>1. k \in Int /\ l \in Int /\ k - 1 # l - 1 /\ ~(l - 1 < k - 1)
    BY <1>10
  <2>2. s[k] \in S /\ s[l] \in S /\ rank[s[k]] = k - 1 /\ rank[s[l]] = l - 1
    BY <1>8
  <2>3. s[k] # s[l] /\ ~(rank[s[l]] < rank[s[k]])
    <3> HIDE DEF rank, s
    <3> QED
      BY <2>1, <2>2
  <2>4. s[l] \notin before[s[k]]
    <3> HIDE DEF s, rank
    <3> QED
      BY <1>3, <2>2, <2>3
  <2> HIDE DEF s, rank
  <2> QED
    BY <2>2, <2>3, <2>4
<1>11. ASSUME NEW x \in S PROVE \E k \in 1..N : s[k] = x
  <2>1. PICK k \in 1..N : k - 1 = rank[x]
    <3>1. rank[x] \in 0..N - 1
      BY <1>2
    <3> HIDE DEF rank, N
    <3>2. rank[x] + 1 \in 1..N /\ (rank[x] + 1) - 1 = rank[x]
      BY <1>1, <3>1
    <3> QED
      BY <3>2
  <2>2. s[k] \in S /\ rank[s[k]] = rank[x]
    BY <1>8, <2>1
  <2> HIDE DEF rank, s
  <2>3. s[k] = x
    BY <1>4, <2>2 DEF Injection, IsInjective
  <2> QED
    BY <2>1, <2>3
<1> HIDE DEF s, N
<1> QED
  BY <1>1, <1>9, <1>10, <1>11 DEF s, N

\* Which place a pair has, and which of the two stands at p.
LEMMA Halves ==
  ASSUME NEW i \in Nat, i # 0
  PROVE  /\ (2 * i - 1) % 2 = 1 /\ (2 * i) % 2 = 0
         /\ ((2 * i - 1) + 1) \div 2 = i
OBVIOUS

\* Which pair stands at p.
LEMMA HalfOf ==
  ASSUME NEW i \in Nat, NEW p \in 1..2 * i, p % 2 = 1
  PROVE  (p + 1) \div 2 \in 1..i
OBVIOUS

\* What the first i pairs of elements of a, with m behind each, are when they are joined.
Joined(a, m, i) == [p \in 1..2 * i |-> IF p % 2 = 1 THEN a[(p + 1) \div 2] ELSE m]

IsJoined(F, T, a, m, i) ==
  F \in Seq(T) /\ Len(F) = 2 * i /\ \A k \in 1..i : F[2 * k - 1] = a[k] /\ F[2 * k] = m

\* It is a sequence.
LEMMA JoinedIsSeq ==
  ASSUME NEW T, NEW n \in Nat, NEW a \in [1..n -> T], NEW m \in T, NEW i \in 0..n
  PROVE  IsJoined(Joined(a, m, i), T, a, m, i)
<1> DEFINE G == Joined(a, m, i)
<1>1. i \in Nat /\ 2 * i \in Nat /\ 1..i \subseteq 1..n
  OBVIOUS
<1>2. ASSUME NEW p \in 1..2 * i, p % 2 = 1 PROVE a[(p + 1) \div 2] \in T
  <2>1. (p + 1) \div 2 \in 1..i
    BY <1>1, <1>2, HalfOf
  <2> QED
    BY <1>1, <2>1
<1>3. G \in [1..2 * i -> T]
  BY <1>2 DEF Joined
<1>4. G \in Seq(T)
  BY <1>1, <1>3, SeqDef
<1>5. Len(G) = 2 * i
  <2>1. DOMAIN G = 1..2 * i
    BY <1>3
  <2> HIDE DEF G
  <2> QED
    BY <1>1, <1>4, <2>1, LenProperties
<1>6. ASSUME NEW k \in 1..i PROVE G[2 * k - 1] = a[k] /\ G[2 * k] = m
  <2>1. k \in Nat /\ k # 0 /\ 2 * k - 1 \in 1..2 * i /\ 2 * k \in 1..2 * i
    OBVIOUS
  <2>2. (2 * k - 1) % 2 = 1 /\ (2 * k) % 2 = 0 /\ ((2 * k - 1) + 1) \div 2 = k
    BY <2>1, Halves
  <2> QED
    BY <2>1, <2>2 DEF Joined
<1> QED
  BY <1>4, <1>5, <1>6 DEF IsJoined

\* One more pair is joined.
LEMMA JoinedNext ==
  ASSUME NEW T, NEW n \in Nat, NEW a \in [1..n -> T], NEW m \in T, NEW i \in 1..n
  PROVE  Joined(a, m, i - 1) \o << a[i], m >> = Joined(a, m, i)
<1> DEFINE F == Joined(a, m, i - 1)
           G == Joined(a, m, i)
           h == << a[i], m >>
<1>0. \A j \in 0..n : IsJoined(Joined(a, m, j), T, a, m, j)
  BY JoinedIsSeq, Zenon
<1>1. i - 1 \in 0..n /\ i \in 0..n /\ 2 * (i - 1) = 2 * i - 2 /\ a[i] \in T
  OBVIOUS
<1>2. /\ F \in Seq(T) /\ Len(F) = 2 * i - 2
      /\ \A k \in 1..i - 1 : F[2 * k - 1] = a[k] /\ F[2 * k] = m
  BY <1>0, <1>1 DEF IsJoined
<1>3. /\ G \in Seq(T) /\ Len(G) = 2 * i
      /\ \A k \in 1..i : G[2 * k - 1] = a[k] /\ G[2 * k] = m
  BY <1>0, <1>1 DEF IsJoined
<1>4. h \in Seq(T) /\ Len(h) = 2 /\ h[1] = a[i] /\ h[2] = m
  BY <1>1
<1> HIDE DEF F, G, h
<1>5. /\ F \o h \in Seq(T) /\ Len(F \o h) = 2 * i
      /\ \A p \in 1..2 * i : (F \o h)[p] = IF p <= 2 * i - 2 THEN F[p] ELSE h[p - (2 * i - 2)]
  <2>1. /\ F \o h \in Seq(T) /\ Len(F \o h) = Len(F) + Len(h)
        /\ \A p \in 1..Len(F) + Len(h) : (F \o h)[p] = IF p <= Len(F) THEN F[p] ELSE h[p - Len(F)]
    BY <1>2, <1>4, ConcatProperties
  <2>2. Len(F) + Len(h) = 2 * i
    BY <1>2, <1>4
  <2> QED
    BY <1>2, <2>1, <2>2
<1>6. ASSUME NEW p \in 1..2 * i PROVE (F \o h)[p] = G[p]
  <2>1. PICK k \in 1..i : p = 2 * k - 1 \/ p = 2 * k
    <3>1. (p + 1) \div 2 \in 1..i /\ (p = 2 * ((p + 1) \div 2) - 1 \/ p = 2 * ((p + 1) \div 2))
      OBVIOUS
    <3> QED
      BY <3>1
  <2>2. CASE k \in 1..i - 1
    <3>1. p <= 2 * i - 2
      BY <2>1, <2>2
    <3>2. (F \o h)[p] = F[p]
      BY <1>5, <3>1
    <3> QED
      BY <1>2, <1>3, <2>1, <2>2, <3>2
  <2>3. CASE k = i
    <3>1. ~(p <= 2 * i - 2) /\ p - (2 * i - 2) \in 1..2
      BY <2>1, <2>3
    <3>2. (F \o h)[p] = h[p - (2 * i - 2)]
      BY <1>5, <3>1
    <3>3. (p = 2 * k - 1 => p - (2 * i - 2) = 1) /\ (p = 2 * k => p - (2 * i - 2) = 2)
      BY <2>3
    <3> QED
      BY <1>3, <1>4, <2>1, <2>3, <3>2, <3>3
  <2>4. k \in 1..i - 1 \/ k = i
    OBVIOUS
  <2> QED
    BY <2>2, <2>3, <2>4
<1>7. \A p \in 1..Len(F \o h) : (F \o h)[p] = G[p]
  BY <1>5, <1>6
<1>8. F \o h = G
  BY <1>3, <1>5, <1>7, SeqEqual
<1> QED
  BY <1>8 DEF F, G, h

\* FlattenSeq joins pairs (reranking.py:150-159: one document after the other).
LEMMA FlattenPairs ==
  ASSUME NEW T, NEW n \in Nat, NEW a \in [1..n -> T], NEW m \in T
  PROVE  IsJoined(FlattenSeq([i \in 1..n |-> << a[i], m >>]), T, a, m, n)
<1> DEFINE s == [i \in 1..n |-> << a[i], m >>]
           E(f) == f = [i \in 1..n |-> IF i = 1 THEN s[i] ELSE f[i - 1] \o s[i]]
           g == [i \in 1..n |-> Joined(a, m, i)]
<1>1. s \in Seq(Seq(T)) /\ Len(s) = n
  <2>1. s \in [1..n -> Seq(T)] /\ DOMAIN s = 1..n
    OBVIOUS
  <2> HIDE DEF s
  <2>2. s \in Seq(Seq(T))
    BY <2>1, SeqDef
  <2> QED
    BY <2>1, <2>2, LenProperties
<1>2. CASE n = 0
  <2>1. FlattenSeq(s) = s
    BY <1>1, <1>2 DEF FlattenSeq
  <2>2. s \in [1..0 -> T] /\ 0 \in Nat
    BY <1>2
  <2>3. s \in Seq(T)
    <3> HIDE DEF s
    <3> QED
      BY <2>2, SeqDef
  <2>4. Len(s) = 2 * n /\ 1..n = {}
    BY <1>1, <1>2
  <2> HIDE DEF s
  <2>5. IsJoined(s, T, a, m, n)
    BY <2>3, <2>4 DEF IsJoined
  <2> QED
    BY <2>1, <2>5 DEF s
<1>3. CASE n # 0
  <2> USE <1>3
  <2>1. ASSUME NEW i \in 1..n PROVE g[i] = IF i = 1 THEN s[i] ELSE g[i - 1] \o s[i]
    <3>1. Joined(a, m, i - 1) \o << a[i], m >> = Joined(a, m, i)
      BY JoinedNext
    <3>2. CASE i = 1
      <4>1. Joined(a, m, 0) \in Seq(T) /\ Len(Joined(a, m, 0)) = 2 * 0
        <5>1. 0 \in 0..n
          OBVIOUS
        <5>2. IsJoined(Joined(a, m, 0), T, a, m, 0)
          BY <5>1, JoinedIsSeq, Zenon
        <5> QED
          BY <5>2 DEF IsJoined
      <4>2. Joined(a, m, 0) = << >>
        BY <4>1, EmptySeq
      <4>3. << a[1], m >> \in Seq(T)
        BY <3>2
      <4>4. Joined(a, m, 1) = << a[1], m >>
        <5>1. << >> \o << a[1], m >> = << a[1], m >>
          BY <4>3, ConcatEmptySeq
        <5> QED
          BY <3>1, <3>2, <4>2, <5>1
      <4> QED
        BY <3>2, <4>4
    <3>3. CASE i # 1
      <4>1. i - 1 \in 1..n
        BY <3>3
      <4> QED
        BY <3>1, <3>3, <4>1
    <3> QED
      BY <3>2, <3>3
  <2>2. E(g)
    <3>1. g = [i \in 1..n |-> g[i]]
      OBVIOUS
    <3> HIDE DEF g, s
    <3> QED
      BY <2>1, <3>1
  <2>3. ASSUME NEW f, E(f) PROVE f[n] = Joined(a, m, n)
    <3> DEFINE C == {i \in 1..n : f[i] # Joined(a, m, i)}
    <3>1. ASSUME NEW i \in 1..n PROVE f[i] = IF i = 1 THEN s[i] ELSE f[i - 1] \o s[i]
      <4> HIDE DEF s
      <4> QED
        BY <2>3
    <3>2. SUFFICES ASSUME C # {} PROVE FALSE
      <4>1. n \in 1..n
        OBVIOUS
      <4> QED
        BY <3>2, <4>1
    <3>3. C \in SUBSET Nat
      OBVIOUS
    <3>4. PICK x \in C : \A y \in C : x <= y
      <4> HIDE DEF C
      <4> QED
        BY <3>2, <3>3, LeastElement
    <3>5. x \in 1..n /\ f[x] # Joined(a, m, x)
      BY <3>4
    <3>6. CASE x = 1
      <4>1. f[1] = s[1]
        BY <3>1
      <4>2. Joined(a, m, 1) = s[1]
        <5>1. 1 \in 1..n /\ g[1] = Joined(a, m, 1)
          OBVIOUS
        <5> HIDE DEF g, s
        <5> QED
          BY <2>1, <5>1
      <4> QED
        BY <3>5, <3>6, <4>1, <4>2
    <3>7. CASE x # 1
      <4>1. x - 1 \in 1..n /\ ~(x <= x - 1)
        BY <3>5, <3>7
      <4>2. f[x - 1] = Joined(a, m, x - 1)
        <5>1. x - 1 \notin C
          <6> HIDE DEF C
          <6> QED
            BY <3>4, <4>1
        <5> QED
          BY <4>1, <5>1
      <4>3. f[x] = f[x - 1] \o s[x]
        BY <3>1, <3>5, <3>7
      <4>4. s[x] = << a[x], m >>
        BY <3>5
      <4>5. Joined(a, m, x - 1) \o << a[x], m >> = Joined(a, m, x)
        BY <3>5, JoinedNext
      <4> HIDE DEF s
      <4> QED
        BY <3>5, <4>2, <4>3, <4>4, <4>5
    <3> QED
      BY <3>6, <3>7
  <2>4. FlattenSeq(s) = (CHOOSE f : E(f))[n]
    <3> HIDE DEF s
    <3> QED
      BY <1>1 DEF FlattenSeq
  <2>5. E(CHOOSE f : E(f))
    <3> HIDE DEF E
    <3> QED
      BY <2>2
  <2>6. FlattenSeq(s) = Joined(a, m, n)
    <3> HIDE DEF E, s
    <3> QED
      BY <2>3, <2>4, <2>5
  <2>7. IsJoined(Joined(a, m, n), T, a, m, n)
    BY JoinedIsSeq
  <2> HIDE DEF s
  <2> QED
    BY <2>6, <2>7 DEF s
<1> QED
  BY <1>2, <1>3

-----------------------------------------------------------------------------
(* The prompt of the reranker *)

Odds(n) == {2 * i + 1 : i \in 1..n}

\* The places of the markers are as many as the documents.
LEMMA OddsCount ==
  ASSUME NEW n \in Nat
  PROVE  IsFiniteSet(Odds(n)) /\ Cardinality(Odds(n)) = n
<1> DEFINE f == [i \in 1..n |-> 2 * i + 1]
<1>1. f \in Bijection(1..n, Odds(n))
  <2>1. f \in [1..n -> Odds(n)]
    BY DEF Odds
  <2>2. \A i, j \in 1..n : f[i] = f[j] => i = j
    OBVIOUS
  <2>3. \A x \in Odds(n) : \E i \in 1..n : f[i] = x
    BY DEF Odds
  <2> HIDE DEF f
  <2> QED
    BY <2>1, <2>2, <2>3 DEF Bijection, Injection, Surjection, IsInjective
<1>2. IsFiniteSet(1..n) /\ Cardinality(1..n) = n
  BY FS_Interval
<1>3. ExistsBijection(1..n, Odds(n))
  BY <1>1 DEF ExistsBijection
<1> QED
  BY <1>2, <1>3, FS_Bijection

\* In order they are 3, 5, and so on.
LEMMA OddsSorted ==
  ASSUME NEW n \in Nat
  PROVE  Sorted([p \in Odds(n) |-> {q \in Odds(n) : q < p}]) = [k \in 1..n |-> 2 * k + 1]
<1> DEFINE P == Odds(n)
           before == [p \in P |-> {q \in P : q < p}]
<1>1. Cardinality(P) = n /\ DOMAIN before = P
  BY OddsCount
<1>2. ASSUME NEW i \in 1..n PROVE Cardinality(before[2 * i + 1]) = i - 1
  <2>1. before[2 * i + 1] = Odds(i - 1)
    <3>1. 2 * i + 1 \in P
      BY DEF Odds
    <3>2. before[2 * i + 1] = {q \in P : q < 2 * i + 1}
      BY <3>1
    <3>3. ASSUME NEW q \in P, q < 2 * i + 1 PROVE q \in Odds(i - 1)
      <4>1. PICK j \in 1..n : q = 2 * j + 1
        BY DEF Odds
      <4>2. j \in 1..i - 1
        BY <3>3, <4>1
      <4> QED
        BY <4>1, <4>2 DEF Odds
    <3>4. ASSUME NEW q \in Odds(i - 1) PROVE q \in P /\ q < 2 * i + 1
      <4>1. PICK j \in 1..i - 1 : q = 2 * j + 1
        BY DEF Odds
      <4>2. j \in 1..n /\ q < 2 * i + 1
        BY <4>1
      <4> QED
        BY <4>1, <4>2 DEF Odds
    <3> HIDE DEF P, before
    <3> QED
      BY <3>2, <3>3, <3>4
  <2>2. i - 1 \in Nat
    OBVIOUS
  <2> HIDE DEF before
  <2> QED
    BY <2>1, <2>2, OddsCount
<1>3. ASSUME NEW k \in 1..n PROVE (CHOOSE x \in P : Cardinality(before[x]) = k - 1) = 2 * k + 1
  <2>1. 2 * k + 1 \in P /\ Cardinality(before[2 * k + 1]) = k - 1
    BY <1>2 DEF Odds
  <2>2. ASSUME NEW x \in P, Cardinality(before[x]) = k - 1 PROVE x = 2 * k + 1
    <3>1. PICK i \in 1..n : x = 2 * i + 1
      BY DEF Odds
    <3>2. i - 1 = k - 1
      <4> HIDE DEF before
      <4> QED
        BY <1>2, <2>2, <3>1
    <3> QED
      BY <3>1, <3>2
  <2> HIDE DEF P, before
  <2> QED
    BY <2>1, <2>2
<1>4. Sorted(before) = [k \in 1..n |-> CHOOSE x \in P : Cardinality(before[x]) = k - 1]
  <2> HIDE DEF P, before
  <2> QED
    BY <1>1 DEF Sorted
<1>5. Sorted(before) = [k \in 1..n |-> 2 * k + 1]
  <2> HIDE DEF P, before
  <2> QED
    BY <1>3, <1>4
<1> QED
  BY <1>5

\* One place is in order.
LEMMA OneSorted ==
  ASSUME NEW x \in Int
  PROVE  Sorted([p \in {x} |-> {q \in {x} : q < p}])[1] = x
<1> DEFINE before == [p \in {x} |-> {q \in {x} : q < p}]
<1>1. DOMAIN before = {x} /\ before[x] = {}
  OBVIOUS
<1>2. Cardinality({x}) = 1 /\ Cardinality({}) = 0
  BY FS_EmptySet, FS_Singleton
<1> HIDE DEF before
<1>3. Sorted(before)[1] = CHOOSE y \in {x} : Cardinality(before[y]) = 1 - 1
  BY <1>1, <1>2 DEF Sorted
<1>4. \E y \in {x} : Cardinality(before[y]) = 1 - 1
  BY <1>1, <1>2
<1>5. Sorted(before)[1] = x
  BY <1>3, <1>4
<1> QED
  BY <1>5 DEF before

Tokens == {Text(t) : t \in Int} \cup {_DOC_EMBED_TOKEN, _QUERY_EMBED_TOKEN}

\* The texts and the two markers differ.
LEMMA TokensDiffer ==
  /\ \A t \in Int : /\ Text(t) \in Tokens /\ Text(t).says = t
                    /\ Text(t) # _DOC_EMBED_TOKEN /\ Text(t) # _QUERY_EMBED_TOKEN
  /\ _DOC_EMBED_TOKEN \in Tokens /\ _QUERY_EMBED_TOKEN \in Tokens
  /\ _DOC_EMBED_TOKEN # _QUERY_EMBED_TOKEN
<1>1. ASSUME NEW t \in Int
      PROVE  /\ Text(t) \in Tokens /\ Text(t).says = t
             /\ Text(t) # _DOC_EMBED_TOKEN /\ Text(t) # _QUERY_EMBED_TOKEN
  <2>1. Text(t).token = "text" /\ Text(t).says = t
    BY DEF Text
  <2>2. _DOC_EMBED_TOKEN.token # "text" /\ _QUERY_EMBED_TOKEN.token # "text"
    BY DEF _DOC_EMBED_TOKEN, _QUERY_EMBED_TOKEN
  <2>3. Text(t) \in Tokens
    BY DEF Tokens
  <2> QED
    BY <2>1, <2>2, <2>3
<1>2. _DOC_EMBED_TOKEN.token # _QUERY_EMBED_TOKEN.token
  BY DEF _DOC_EMBED_TOKEN, _QUERY_EMBED_TOKEN
<1> QED
  BY <1>1, <1>2 DEF Tokens

\* What stands where in the prompt of n documents.
IsPrompt(prompt, q, d, n) ==
  /\ DOMAIN prompt = 1..2 * n + 3
  /\ \A i \in 1..n : prompt[2 * i] = Text(d[i]) /\ prompt[2 * i + 1] = _DOC_EMBED_TOKEN
  /\ prompt[1] = Text(q) /\ prompt[2 * n + 2] = Text(q)
  /\ prompt[2 * n + 3] = _QUERY_EMBED_TOKEN

\* The query, the documents with a marker behind each, and the query again
\* (reranking.py:125-161).
LEMMA PromptLemma ==
  ASSUME NEW n \in Nat, NEW d \in [1..n -> Int], NEW q \in Int
  PROVE  IsPrompt(_format_listwise_prompt(q, d), q, d, n)
<1> DEFINE a == [i \in 1..n |-> Text(d[i])]
           D == _DOC_EMBED_TOKEN
           Q == _QUERY_EMBED_TOKEN
           M == FlattenSeq([i \in 1..n |-> << a[i], D >>])
           h == << Text(q) >>
           t == << Text(q), Q >>
           p == (h \o M) \o t
<1>1. _format_listwise_prompt(q, d) = p
  <2>1. [i \in DOMAIN d |-> << Text(d[i]), D >>] = [i \in 1..n |-> << a[i], D >>]
    OBVIOUS
  <2> QED
    BY <2>1 DEF _format_listwise_prompt
<1>2. a \in [1..n -> Tokens] /\ D \in Tokens /\ Q \in Tokens /\ Text(q) \in Tokens
  BY TokensDiffer
<1>3. M \in Seq(Tokens) /\ Len(M) = 2 * n /\ \A k \in 1..n : M[2 * k - 1] = a[k] /\ M[2 * k] = D
  <2> HIDE DEF a, D
  <2>1. IsJoined(M, Tokens, a, D, n)
    BY <1>2, FlattenPairs
  <2> HIDE DEF M
  <2> QED
    BY <2>1 DEF IsJoined
<1>4. /\ h \in Seq(Tokens) /\ Len(h) = 1 /\ h[1] = Text(q)
      /\ t \in Seq(Tokens) /\ Len(t) = 2 /\ t[1] = Text(q) /\ t[2] = Q
  BY <1>2
<1> HIDE DEF M, h, t, D, Q
<1> DEFINE u == h \o M
<1>5. /\ u \in Seq(Tokens) /\ Len(u) = 2 * n + 1
      /\ \A i \in 1..2 * n + 1 : u[i] = IF i <= 1 THEN h[i] ELSE M[i - 1]
  <2>1. /\ u \in Seq(Tokens) /\ Len(u) = Len(h) + Len(M)
        /\ \A i \in 1..Len(h) + Len(M) : u[i] = IF i <= Len(h) THEN h[i] ELSE M[i - Len(h)]
    <3>1. h \in Seq(Tokens) /\ M \in Seq(Tokens)
      BY <1>3, <1>4
    <3> QED
      BY <3>1, ConcatProperties
  <2>2. Len(h) + Len(M) = 2 * n + 1
    BY <1>3, <1>4
  <2> HIDE DEF u
  <2> QED
    BY <1>4, <2>1, <2>2
<1>6. /\ p \in Seq(Tokens) /\ Len(p) = 2 * n + 3
      /\ \A i \in 1..2 * n + 3 : p[i] = IF i <= 2 * n + 1 THEN u[i] ELSE t[i - (2 * n + 1)]
  <2> HIDE DEF u
  <2>1. /\ u \o t \in Seq(Tokens) /\ Len(u \o t) = Len(u) + Len(t)
        /\ \A i \in 1..Len(u) + Len(t) : (u \o t)[i] = IF i <= Len(u) THEN u[i] ELSE t[i - Len(u)]
    BY <1>4, <1>5, ConcatProperties
  <2>2. Len(u) + Len(t) = 2 * n + 3
    BY <1>4, <1>5
  <2>3. p = u \o t
    BY DEF u
  <2> HIDE DEF p
  <2> QED
    BY <1>5, <2>1, <2>2, <2>3
<1> HIDE DEF u, p
<1>7. DOMAIN p = 1..2 * n + 3
  BY <1>6, LenProperties
<1>8. ASSUME NEW i \in 1..n PROVE p[2 * i] = Text(d[i]) /\ p[2 * i + 1] = D
  <2>1. /\ 2 * i \in 1..2 * n + 3 /\ 2 * i + 1 \in 1..2 * n + 3
        /\ 2 * i \in 1..2 * n + 1 /\ 2 * i + 1 \in 1..2 * n + 1
        /\ 2 * i <= 2 * n + 1 /\ 2 * i + 1 <= 2 * n + 1
        /\ ~(2 * i <= 1) /\ ~(2 * i + 1 <= 1) /\ (2 * i + 1) - 1 = 2 * i
    OBVIOUS
  <2>2. p[2 * i] = u[2 * i] /\ p[2 * i + 1] = u[2 * i + 1]
    BY <1>6, <2>1
  <2>3. u[2 * i] = M[2 * i - 1] /\ u[2 * i + 1] = M[2 * i]
    <3>1. u[2 * i] = M[2 * i - 1]
      BY <1>5, <2>1
    <3>2. u[2 * i + 1] = M[(2 * i + 1) - 1]
      BY <1>5, <2>1
    <3> QED
      BY <2>1, <3>1, <3>2
  <2>4. M[2 * i - 1] = a[i] /\ M[2 * i] = D
    BY <1>3
  <2> QED
    BY <2>2, <2>3, <2>4
<1>9. p[1] = Text(q)
  <2>1. 1 \in 1..2 * n + 3 /\ 1 <= 2 * n + 1 /\ 1 \in 1..2 * n + 1
    OBVIOUS
  <2>2. p[1] = u[1]
    BY <1>6, <2>1
  <2>3. u[1] = h[1]
    BY <1>5, <2>1
  <2> QED
    BY <1>4, <2>2, <2>3
<1>10. p[2 * n + 2] = Text(q) /\ p[2 * n + 3] = Q
  <2>1. /\ 2 * n + 2 \in 1..2 * n + 3 /\ ~(2 * n + 2 <= 2 * n + 1) /\ (2 * n + 2) - (2 * n + 1) = 1
        /\ 2 * n + 3 \in 1..2 * n + 3 /\ ~(2 * n + 3 <= 2 * n + 1) /\ (2 * n + 3) - (2 * n + 1) = 2
    OBVIOUS
  <2>2. p[2 * n + 2] = t[(2 * n + 2) - (2 * n + 1)] /\ p[2 * n + 3] = t[(2 * n + 3) - (2 * n + 1)]
    BY <1>6, <2>1
  <2> QED
    BY <1>4, <2>1, <2>2
<1>11. IsPrompt(p, q, d, n)
  BY <1>7, <1>8, <1>9, <1>10 DEF IsPrompt, D, Q
<1> QED
  BY <1>1, <1>11 DEF p, u

\* What stands at a place of a prompt.
LEMMA PlaceOf ==
  ASSUME NEW n \in Nat, NEW p \in 1..2 * n + 3
  PROVE  \/ p = 1 \/ p = 2 * n + 2 \/ p = 2 * n + 3
         \/ \E i \in 1..n : p = 2 * i \/ p = 2 * i + 1
<1>1. CASE p \in 2..2 * n + 1
  <2>1. p \div 2 \in 1..n /\ (p = 2 * (p \div 2) \/ p = 2 * (p \div 2) + 1)
    BY <1>1
  <2> QED
    BY <2>1
<1>2. p \in 2..2 * n + 1 \/ p = 1 \/ p = 2 * n + 2 \/ p = 2 * n + 3
  OBVIOUS
<1> QED
  BY <1>1, <1>2

\* The hidden states at the markers of the documents are those of the documents, in
\* their order, and the one at the query's marker is that of the query
\* (reranking.py:164-175, :223-228).
LEMMA HiddenStates ==
  ASSUME NEW n \in Nat, NEW d \in [1..n -> Int], NEW q \in Int,
         NEW prompt, IsPrompt(prompt, q, d, n)
  PROVE  /\ _gather_doc_hiddens(prompt) = [i \in 1..n |-> d[i]]
         /\ _gather_query_hidden(prompt) = q
<1> DEFINE D == _DOC_EMBED_TOKEN
           Q == _QUERY_EMBED_TOKEN
           PD == {p \in DOMAIN prompt : prompt[p] = D}
           PQ == {p \in DOMAIN prompt : prompt[p] = Q}
<1>1. /\ DOMAIN prompt = 1..2 * n + 3
      /\ \A i \in 1..n : prompt[2 * i] = Text(d[i]) /\ prompt[2 * i + 1] = D
      /\ prompt[1] = Text(q) /\ prompt[2 * n + 2] = Text(q)
      /\ prompt[2 * n + 3] = Q
  BY DEF IsPrompt
<1>2. /\ \A t \in Int : Text(t).says = t /\ Text(t) # D /\ Text(t) # Q
      /\ D # Q
  BY TokensDiffer
<1> HIDE DEF D, Q
<1>3. ASSUME NEW p \in PD PROVE p \in Odds(n)
  <2>1. p \in 1..2 * n + 3 /\ prompt[p] = D
    BY <1>1
  <2>2. PICK i \in 1..n : p = 2 * i \/ p = 2 * i + 1
    BY <2>1, PlaceOf, <1>1, <1>2
  <2>3. p # 2 * i
    BY <2>1, <1>1, <1>2
  <2> QED
    BY <2>2, <2>3 DEF Odds
<1>4. ASSUME NEW p \in Odds(n) PROVE p \in PD
  <2>1. PICK i \in 1..n : p = 2 * i + 1
    BY DEF Odds
  <2>2. p \in 1..2 * n + 3
    BY <2>1
  <2> QED
    BY <1>1, <2>1, <2>2
<1>5. PD = Odds(n)
  BY <1>3, <1>4
<1>6. ASSUME NEW p \in PQ PROVE p = 2 * n + 3
  <2>1. p \in 1..2 * n + 3 /\ prompt[p] = Q
    BY <1>1
  <2>2. ASSUME NEW i \in 1..n PROVE p # 2 * i /\ p # 2 * i + 1
    BY <2>1, <1>1, <1>2
  <2>3. p # 1 /\ p # 2 * n + 2
    BY <2>1, <1>1, <1>2
  <2> QED
    BY <2>1, <2>2, <2>3, PlaceOf
<1>7. PQ = {2 * n + 3}
  <2>1. 2 * n + 3 \in DOMAIN prompt
    BY <1>1
  <2> QED
    BY <1>1, <1>6, <2>1
<1>8. Positions(prompt, D) = [k \in 1..n |-> 2 * k + 1]
  <2>1. Positions(prompt, D) = Sorted([p \in PD |-> {x \in PD : x < p}])
    BY DEF Positions
  <2> HIDE DEF PD
  <2> QED
    BY <2>1, <1>5, OddsSorted
<1>9. Positions(prompt, Q)[1] = 2 * n + 3
  <2>1. Positions(prompt, Q) = Sorted([p \in PQ |-> {x \in PQ : x < p}])
    BY DEF Positions
  <2>2. 2 * n + 3 \in Int
    OBVIOUS
  <2> HIDE DEF PQ
  <2> QED
    BY <2>1, <2>2, <1>7, OneSorted
<1>10. _gather_doc_hiddens(prompt) = [i \in 1..n |-> d[i]]
  <2> DEFINE positions == [k \in 1..n |-> 2 * k + 1]
  <2>1. _gather_doc_hiddens(prompt) = [i \in 1..n |-> Hidden(prompt, positions[i])]
    <3>1. Positions(prompt, _DOC_EMBED_TOKEN) = positions
      BY <1>8 DEF D
    <3>2. DOMAIN positions = 1..n
      OBVIOUS
    <3> HIDE DEF positions
    <3> QED
      BY <3>1, <3>2 DEF _gather_doc_hiddens
  <2>2. ASSUME NEW i \in 1..n PROVE Hidden(prompt, positions[i]) = d[i]
    <3>1. positions[i] - 1 = 2 * i /\ d[i] \in Int
      OBVIOUS
    <3>2. Hidden(prompt, positions[i]) = prompt[2 * i].says
      BY <3>1 DEF Hidden
    <3> QED
      BY <3>1, <3>2, <1>1, <1>2
  <2> HIDE DEF positions
  <2> QED
    BY <2>1, <2>2
<1>11. _gather_query_hidden(prompt) = q
  <2>1. _gather_query_hidden(prompt) = prompt[(2 * n + 3) - 1].says
    BY <1>9 DEF _gather_query_hidden, Hidden, D, Q
  <2>2. (2 * n + 3) - 1 = 2 * n + 2
    OBVIOUS
  <2> QED
    BY <2>1, <2>2, <1>1, <1>2
<1> QED
  BY <1>10, <1>11

-----------------------------------------------------------------------------
(* The ranking *)

Best(scores, i, j) == scores[i] > scores[j] \/ (scores[i] = scores[j] /\ i < j)

IsRanking(ranking, scores, n) ==
  /\ ranking \in [1..n -> 1..n] /\ Len(ranking) = n
  /\ \A k, l \in 1..n : k < l => Best(scores, ranking[k], ranking[l])
  /\ \A i \in 1..n : \E k \in 1..n : ranking[k] = i

\* A ranking names every document once, the best first and the earlier first among
\* equals (reranking.py:232-241).
LEMMA RankingLemma ==
  ASSUME NEW n \in Nat, NEW scores \in [1..n -> Int]
  PROVE  IsRanking(Ranking(scores), scores, n)
<1> DEFINE before == [i \in 1..n |-> {j \in 1..n : scores[j] > scores[i] \/ (scores[j] = scores[i] /\ j < i)}]
           ranking == Sorted(before)
<1>1. Ranking(scores) = ranking
  <2>1. DOMAIN scores = 1..n
    OBVIOUS
  <2> QED
    BY <2>1 DEF Ranking
<1>2. ASSUME NEW i \in 1..n, NEW j \in 1..n PROVE j \in before[i] <=> Best(scores, j, i)
  BY DEF Best
<1>3. before \in [1..n -> SUBSET (1..n)]
  OBVIOUS
<1>4. \A i \in 1..n : scores[i] \in Int /\ i \in Int
  OBVIOUS
<1> HIDE DEF before
<1>5. Orders(before, 1..n)
  <2>1. \A i \in 1..n : i \notin before[i]
    BY <1>2, <1>4 DEF Best
  <2>2. ASSUME NEW i \in 1..n, NEW j \in 1..n, i \in before[j], NEW x \in before[i]
        PROVE  x \in before[j]
    <3>1. x \in 1..n
      BY <1>3
    <3>2. Best(scores, i, j) /\ Best(scores, x, i)
      BY <1>2, <2>2, <3>1
    <3>3. Best(scores, x, j)
      BY <1>4, <3>1, <3>2 DEF Best
    <3> QED
      BY <1>2, <3>1, <3>3
  <2>3. \A i, j \in 1..n : i = j \/ i \in before[j] \/ j \in before[i]
    <3> SUFFICES ASSUME NEW i \in 1..n, NEW j \in 1..n PROVE i = j \/ i \in before[j] \/ j \in before[i]
      OBVIOUS
    <3>1. i = j \/ Best(scores, i, j) \/ Best(scores, j, i)
      BY <1>4 DEF Best
    <3> QED
      BY <1>2, <3>1
  <2> QED
    BY <1>3, <2>1, <2>2, <2>3 DEF Orders
<1>6. IsFiniteSet(1..n) /\ Cardinality(1..n) = n
  BY FS_Interval
<1>7. /\ ranking \in [1..n -> 1..n]
      /\ \A k, l \in 1..n : k < l => ranking[k] \in before[ranking[l]]
      /\ \A i \in 1..n : \E k \in 1..n : ranking[k] = i
  <2> HIDE DEF ranking
  <2>1. LET s == Sorted(before)
            N == Cardinality(1..n)
        IN  /\ N \in Nat /\ s \in [1..N -> 1..n]
            /\ \A k, l \in 1..N : k < l => s[k] \in before[s[l]]
            /\ \A x \in 1..n : \E k \in 1..N : s[k] = x
    BY <1>5, <1>6, SortedLemma
  <2> QED
    BY <1>6, <2>1 DEF ranking
<1> HIDE DEF ranking
<1>8. \A k, l \in 1..n : k < l => Best(scores, ranking[k], ranking[l])
  <2> SUFFICES ASSUME NEW k \in 1..n, NEW l \in 1..n, k < l PROVE Best(scores, ranking[k], ranking[l])
    OBVIOUS
  <2>1. ranking[k] \in 1..n /\ ranking[l] \in 1..n /\ ranking[k] \in before[ranking[l]]
    BY <1>7
  <2> QED
    BY <1>2, <2>1
<1>9. Len(ranking) = n
  <2>1. ranking \in [1..n -> 1..n]
    BY <1>7
  <2>2. ranking \in Seq(1..n)
    BY <2>1, SeqDef
  <2>3. DOMAIN ranking = 1..n
    BY <2>1
  <2> QED
    BY <2>2, <2>3, LenProperties
<1>10. IsRanking(ranking, scores, n)
  BY <1>7, <1>8, <1>9 DEF IsRanking
<1> QED
  BY <1>1, <1>10 DEF ranking

\* How many are returned (reranking.py:242).
LEMMA Limit ==
  ASSUME NEW n \in Nat, NEW m \in Nat
  PROVE  Min({m, n}) = IF m <= n THEN m ELSE n
<1> DEFINE T == {m, n}
           x == Min(T)
<1>1. x \in T /\ \A y \in T : x <= y
  <2>1. T \in SUBSET Nat /\ T # {}
    OBVIOUS
  <2> HIDE DEF T
  <2> QED
    BY <2>1, LeastElement
<1> HIDE DEF x
<1>2. x \in Nat /\ x <= m /\ x <= n /\ (x = m \/ x = n)
  BY <1>1
<1>3. x = IF m <= n THEN m ELSE n
  BY <1>2
<1> QED
  BY <1>3 DEF x

\* What the clients get is what the property of rankings says.
IsAnswer(ranking, r) ==
  LET Named   == {ranking[k].index : k \in DOMAIN ranking}
      Score(i) == Cosine(r.documents[i + 1], r.query)
      Before(i, j) == Score(i) > Score(j) \/ (Score(i) = Score(j) /\ i < j)
      All     == 0..Len(r.documents) - 1
  IN  /\ Named \subseteq All /\ Cardinality(Named) = Len(ranking)
      /\ IF r.top_n \in 1..Len(r.documents) THEN Len(ranking) = r.top_n ELSE Named = All
      /\ \A k \in DOMAIN ranking :
           /\ ranking[k].relevance_score = Score(ranking[k].index)
           /\ ranking[k].document \in {None, r.documents[ranking[k].index + 1]}
           /\ \A l \in 1..k - 1 : Before(ranking[l].index, ranking[k].index)
      /\ \A i \in Named, j \in All \ Named : Before(i, j)

\* The first m of n.
AreBest(Named, scores, rk, m, n) ==
  /\ Named \subseteq 0..n - 1 /\ Cardinality(Named) = m
  /\ m = n => Named = 0..n - 1
  /\ \A k \in 1..m : \A l \in 1..k - 1 : Best(scores, rk[l], rk[k])
  /\ \A i \in Named, j \in (0..n - 1) \ Named : Best(scores, i + 1, j + 1)

\* The best of n, as they are returned.
LEMMA BestOfRanking ==
  ASSUME NEW n \in Nat, NEW scores \in [1..n -> Int], NEW rk, IsRanking(rk, scores, n),
         NEW m \in 0..n
  PROVE  AreBest({rk[k] - 1 : k \in 1..m}, scores, rk, m, n)
<1> DEFINE f == [k \in 1..m |-> rk[k] - 1]
           Named == {rk[k] - 1 : k \in 1..m}
<1>1. /\ \A k \in 1..n : rk[k] \in 1..n
      /\ \A k, l \in 1..n : k < l => Best(scores, rk[k], rk[l])
      /\ \A i \in 1..n : \E k \in 1..n : rk[k] = i
  BY DEF IsRanking
<1>2. \A i \in 1..n : scores[i] \in Int /\ i \in Int
  OBVIOUS
<1>3. m \in Nat /\ \A k \in 1..m : k \in 1..n
  OBVIOUS
<1>4. \A k, l \in 1..n : k < l => rk[k] # rk[l]
  <2> SUFFICES ASSUME NEW k \in 1..n, NEW l \in 1..n, k < l, rk[k] = rk[l] PROVE FALSE
    OBVIOUS
  <2>1. PICK i \in 1..n : i = rk[k]
    BY <1>1
  <2>2. Best(scores, i, i)
    BY <1>1, <2>1
  <2> QED
    BY <1>2, <2>2 DEF Best
<1>5. f \in Bijection(1..m, Named)
  <2>1. f \in [1..m -> Named]
    OBVIOUS
  <2>2. ASSUME NEW k \in 1..m, NEW l \in 1..m, f[k] = f[l] PROVE k = l
    <3>1. rk[k] \in Int /\ rk[l] \in Int /\ rk[k] - 1 = rk[l] - 1
      <4>1. rk[k] \in 1..n /\ rk[l] \in 1..n
        BY <1>1, <1>3
      <4> QED
        BY <2>2, <4>1
    <3>2. rk[k] = rk[l]
      BY <3>1
    <3>3. k \in 1..n /\ l \in 1..n /\ ~(k < l) /\ ~(l < k)
      BY <1>3, <1>4, <3>2
    <3> QED
      BY <3>3
  <2>3. \A x \in Named : \E k \in 1..m : f[k] = x
    OBVIOUS
  <2> HIDE DEF f, Named
  <2> QED
    BY <2>1, <2>2, <2>3 DEF Bijection, Injection, Surjection, IsInjective
<1>6. Cardinality(Named) = m
  <2>1. IsFiniteSet(1..m) /\ Cardinality(1..m) = m
    BY <1>3, FS_Interval
  <2>2. ExistsBijection(1..m, Named)
    BY <1>5 DEF ExistsBijection
  <2> HIDE DEF Named
  <2> QED
    BY <2>1, <2>2, FS_Bijection
<1>7. Named \subseteq 0..n - 1
  <2> SUFFICES ASSUME NEW k \in 1..m PROVE rk[k] - 1 \in 0..n - 1
    OBVIOUS
  <2>1. rk[k] \in 1..n
    BY <1>1, <1>3
  <2> QED
    BY <2>1
<1>8. ASSUME m = n, NEW i \in 0..n - 1 PROVE i \in Named
  <2>1. i + 1 \in 1..n /\ (i + 1) - 1 = i
    OBVIOUS
  <2>2. PICK k \in 1..n : rk[k] = i + 1
    BY <1>1, <2>1
  <2> QED
    BY <1>8, <2>1, <2>2
<1>9. ASSUME NEW k \in 1..m, NEW l \in 1..k - 1 PROVE Best(scores, rk[l], rk[k])
  BY <1>1
<1>10. ASSUME NEW i \in Named, NEW j \in (0..n - 1) \ Named PROVE Best(scores, i + 1, j + 1)
  <2>1. PICK k \in 1..m : rk[k] - 1 = i
    OBVIOUS
  <2>2. j + 1 \in 1..n /\ (j + 1) - 1 = j
    OBVIOUS
  <2>3. PICK l \in 1..n : rk[l] = j + 1
    BY <1>1, <2>2
  <2>4. l \notin 1..m
    BY <2>2, <2>3
  <2>5. k \in 1..n /\ k < l
    BY <2>4
  <2>6. rk[k] = i + 1
    <3>1. rk[k] \in 1..n
      BY <1>1, <2>5
    <3> QED
      BY <2>1, <3>1
  <2> QED
    BY <1>1, <2>3, <2>5, <2>6
<1> HIDE DEF Named
<1>11. m = n => Named = 0..n - 1
  BY <1>7, <1>8
<1>12. AreBest(Named, scores, rk, m, n)
  BY <1>6, <1>7, <1>9, <1>10, <1>11 DEF AreBest
<1> QED
  BY <1>12 DEF Named

\* How many documents come back: top_n of them, or all (reranking.py:242).
LEMMA LimitOf ==
  ASSUME NEW n \in Nat, NEW wanted, wanted # None => wanted \in Nat \ {0}, None \notin Nat
  PROVE  LET limit == IF wanted = None THEN n ELSE Min({wanted, n})
         IN  limit \in 0..n /\ IF wanted \in 1..n THEN limit = wanted ELSE limit = n
<1>1. CASE wanted = None
  <2>1. wanted \notin 1..n
    BY <1>1
  <2> QED
    BY <1>1, <2>1
<1>2. CASE wanted # None
  <2>1. Min({wanted, n}) = IF wanted <= n THEN wanted ELSE n
    BY <1>2, Limit
  <2> QED
    BY <1>2, <2>1
<1> QED
  BY <1>1, <1>2

\* A valid request is answered with such a ranking (reranking.py:205-243).
LEMMA RerankAnswers ==
  ASSUME NEW r, NEW n \in Nat, Len(r.documents) = n, r.documents \in [1..n -> Int],
         r.query \in Int, r.top_n # None => r.top_n \in Nat \ {0}, None \notin Nat
  PROVE  IsAnswer(Rerank(r), r)
<1> DEFINE d == r.documents
           q == r.query
           prompt == _format_listwise_prompt(q, d)
           scores == [i \in 1..n |-> Cosine(d[i], q)]
           rk == Ranking(scores)
           limit == IF r.top_n = None THEN n ELSE Min({r.top_n, n})
           res == [k \in 1..limit |->
                     [ index           |-> rk[k] - 1,
                       relevance_score |-> scores[rk[k]],
                       document        |-> IF r.return_documents THEN d[rk[k]] ELSE None ]]
<1>1. d \in [1..n -> Int] /\ q \in Int
  OBVIOUS
<1>2. _cosine_scores(_gather_query_hidden(prompt), _gather_doc_hiddens(prompt)) = scores
  <2> HIDE DEF d, q
  <2>1. IsPrompt(prompt, q, d, n)
    BY <1>1, PromptLemma
  <2> HIDE DEF prompt
  <2>2. _gather_doc_hiddens(prompt) = [i \in 1..n |-> d[i]] /\ _gather_query_hidden(prompt) = q
    BY <1>1, <2>1, HiddenStates
  <2> QED
    BY <2>2 DEF _cosine_scores
<1>3. scores \in [1..n -> Int]
  <2>1. ASSUME NEW i \in 1..n PROVE Cosine(d[i], q) \in Int
    <3>1. d[i] \in Int
      BY <1>1
    <3> HIDE DEF d, q
    <3> QED
      BY <1>1, <3>1 DEF Cosine
  <2> HIDE DEF d, q
  <2> QED
    BY <2>1
<1>4. IsRanking(rk, scores, n)
  <2> HIDE DEF scores
  <2> QED
    BY <1>3, RankingLemma
<1>5. limit \in 0..n /\ IF r.top_n \in 1..n THEN limit = r.top_n ELSE limit = n
  <2> DEFINE wanted == r.top_n
  <2>1. wanted # None => wanted \in Nat \ {0}
    OBVIOUS
  <2> HIDE DEF wanted
  <2>2. LET l == IF wanted = None THEN n ELSE Min({wanted, n})
        IN  l \in 0..n /\ IF wanted \in 1..n THEN l = wanted ELSE l = n
    BY <2>1, LimitOf
  <2> QED
    BY <2>2 DEF wanted
<1>6. Len(rk) = n
  BY <1>4 DEF IsRanking
<1>7. Rerank(r) = res
  <2> HIDE DEF prompt, scores
  <2>1. Rerank(r) =
          LET ranking == Ranking(scores)
              l == IF r.top_n = None THEN Len(ranking) ELSE Min({r.top_n, Len(ranking)})
          IN  [k \in 1..l |-> [ index           |-> ranking[k] - 1,
                                relevance_score |-> scores[ranking[k]],
                                document        |-> IF r.return_documents THEN r.documents[ranking[k]] ELSE None ]]
    BY <1>2 DEF Rerank, prompt
  <2> HIDE DEF rk
  <2>2. Ranking(scores) = rk
    BY DEF rk
  <2> QED
    BY <1>6, <2>1, <2>2
<1> HIDE DEF rk, limit
<1> DEFINE Named == {rk[k] - 1 : k \in 1..limit}
<1>8. /\ Named \subseteq 0..n - 1 /\ Cardinality(Named) = limit
      /\ limit = n => Named = 0..n - 1
      /\ \A k \in 1..limit : \A l \in 1..k - 1 : Best(scores, rk[l], rk[k])
      /\ \A i \in Named, j \in (0..n - 1) \ Named : Best(scores, i + 1, j + 1)
  <2>1. limit \in 0..n
    BY <1>5
  <2> HIDE DEF scores
  <2>2. AreBest(Named, scores, rk, limit, n)
    BY <1>3, <1>4, <2>1, BestOfRanking, Zenon
  <2> HIDE DEF Named
  <2> QED
    BY <2>2 DEF AreBest
<1>9. DOMAIN res = 1..limit /\ Len(res) = limit
  <2> DEFINE X == {res[k] : k \in 1..limit}
  <2>1. res = [k \in 1..limit |-> res[k]]
    OBVIOUS
  <2>2. DOMAIN res = 1..limit
    OBVIOUS
  <2>3. limit \in Nat
    BY <1>5
  <2> HIDE DEF res, X
  <2>4. \A k \in 1..limit : res[k] \in X
    BY DEF X
  <2>5. res \in [1..limit -> X]
    BY <2>1, <2>4
  <2>6. res \in Seq(X)
    BY <2>3, <2>5, SeqDef
  <2> QED
    BY <2>2, <2>3, <2>6, LenProperties
<1>10. ASSUME NEW k \in 1..limit
       PROVE  rk[k] \in 1..n /\ res[k].index + 1 = rk[k] /\ res[k].index \in 0..n - 1
  <2>1. k \in 1..n
    BY <1>5
  <2>2. rk[k] \in 1..n
    BY <1>4, <2>1 DEF IsRanking
  <2>3. res[k].index = rk[k] - 1
    OBVIOUS
  <2>4. rk[k] - 1 + 1 = rk[k] /\ rk[k] - 1 \in 0..n - 1
    BY <2>2
  <2> QED
    BY <2>2, <2>3, <2>4
<1>11. {res[k].index : k \in DOMAIN res} = Named
  BY <1>9
<1> DEFINE Score(i) == Cosine(r.documents[i + 1], r.query)
           Before(i, j) == Score(i) > Score(j) \/ (Score(i) = Score(j) /\ i < j)
<1>12. ASSUME NEW i \in 0..n - 1 PROVE Score(i) = scores[i + 1]
  <2>1. i + 1 \in 1..n
    OBVIOUS
  <2> QED
    BY <2>1
<1>13. ASSUME NEW i \in 0..n - 1, NEW j \in 0..n - 1, Best(scores, i + 1, j + 1) PROVE Before(i, j)
  <2>1. Score(i) = scores[i + 1] /\ Score(j) = scores[j + 1]
    BY <1>12
  <2>2. i + 1 < j + 1 => i < j
    OBVIOUS
  <2> HIDE DEF Score, scores
  <2> QED
    BY <1>13, <2>1, <2>2 DEF Best
<1>14. ASSUME NEW k \in 1..limit
       PROVE  /\ res[k].relevance_score = Score(res[k].index)
              /\ res[k].document \in {None, r.documents[res[k].index + 1]}
              /\ \A l \in 1..k - 1 : Before(res[l].index, res[k].index)
  <2>1. res[k].relevance_score = scores[rk[k]] /\ scores[rk[k]] = Cosine(d[rk[k]], q)
    BY <1>10
  <2>2. res[k].relevance_score = Score(res[k].index)
    BY <1>10, <2>1
  <2>3. res[k].document = IF r.return_documents THEN d[rk[k]] ELSE None
    OBVIOUS
  <2>4. res[k].document \in {None, r.documents[res[k].index + 1]}
    BY <1>10, <2>3
  <2>5. ASSUME NEW l \in 1..k - 1 PROVE Before(res[l].index, res[k].index)
    <3>1. l \in 1..limit
      BY <1>5
    <3>2. Best(scores, rk[l], rk[k])
      BY <1>8
    <3>3. /\ res[l].index + 1 = rk[l] /\ res[k].index + 1 = rk[k]
          /\ res[l].index \in 0..n - 1 /\ res[k].index \in 0..n - 1
      BY <1>10, <3>1
    <3> HIDE DEF Before, res, scores
    <3> QED
      BY <1>13, <3>2, <3>3
  <2> QED
    BY <2>2, <2>4, <2>5
<1>15. ASSUME NEW i \in Named, NEW j \in (0..n - 1) \ Named PROVE Before(i, j)
  <2> HIDE DEF Named, Before, scores
  <2> QED
    BY <1>8, <1>13
<1> HIDE DEF res, Named, Before, Score
<1>16. /\ Named \subseteq 0..n - 1 /\ Cardinality(Named) = Len(res)
       /\ IF r.top_n \in 1..n THEN Len(res) = r.top_n ELSE Named = 0..n - 1
  BY <1>5, <1>8, <1>9
<1>17. IsAnswer(res, r)
  <2>1. Len(r.documents) = n
    OBVIOUS
  <2> QED
    BY <2>1, <1>9, <1>11, <1>14, <1>15, <1>16 DEF IsAnswer, Before, Score
<1> QED
  BY <1>7, <1>17

-----------------------------------------------------------------------------
(* What rerank clients get *)

\* Only valid requests are in the hands of the queue, and what is answered with 200
\* is the ranking of the request (routes.py:45-64).
RankInv ==
  /\ request \in Loads
  /\ \A c \in Clients :
       (request[c] # None /\ request[c].workload = "rerank") =>
         /\ c \in waiting => ValidRerank(request[c])
         /\ status[c] = 200 => ValidRerank(request[c]) /\ result[c] = Rerank(request[c])

\* The ranking that the handler finds ready is that of its request.
LEMMA RankingIsReady ==
  ASSUME RankInv, NEW c \in Clients, request[c] # None, request[c].workload = "rerank",
         ValidRerank(request[c])
  PROVE  Rankings[request[c]] = Rerank(request[c])
<1> DEFINE requests == {load[d] : load \in Loads, d \in Clients} \ {None}
           S == {r \in requests : r.workload = "rerank" /\ ValidRerank(r)}
<1>1. Rankings = [r \in S |-> Rerank(r)]
  BY DEF Rankings
<1>2. request[c] \in S
  BY DEF RankInv
<1> HIDE DEF S
<1> QED
  BY <1>1, <1>2

\* The steps that touch neither a rerank request nor its answer.
LEMMA RerankUntouched ==
  ASSUME RankInv, UNCHANGED request, NEW c \in Clients, request[c].workload # "rerank",
         \A d \in Clients \ {c} : /\ status'[d] = status[d] /\ result'[d] = result[d]
                                  /\ d \in waiting' => d \in waiting
  PROVE  RankInv'
BY DEF RankInv

\* Every step keeps the rankings.
LEMMA NextKeepsRankings ==
  RankInv /\ PlaceInv /\ RouteTypes /\ ResultIsFunction /\ [Next]_vars => RankInv'
<1> SUFFICES ASSUME RankInv, PlaceInv, RouteTypes, ResultIsFunction, [Next]_vars PROVE RankInv'
  OBVIOUS
<1>1. UNCHANGED request
  BY NextKeepsRequests
<1>2. status = [c \in Clients |-> status[c]]
  BY DEF RouteTypes
<1>3. CASE UNCHANGED << waiting, status, result >>
  BY <1>1, <1>3 DEF RankInv
<1>4. CASE UNCHANGED vars \/ TimePasses \/ Shutdown
  BY <1>3, <1>4 DEF vars, TimePasses, Shutdown
<1>5. ASSUME NEW c \in Clients, Reject(c) PROVE RankInv'
  <2>1. UNCHANGED << waiting, result >>
    BY <1>5 DEF Reject
  <2>2. Responds(c, 400) \/ Responds(c, 404)
    BY <1>5 DEF Reject
  <2>3. status'[c] # 200 /\ \A d \in Clients \ {c} : status'[d] = status[d]
    BY <1>2, <2>2 DEF Responds
  <2> QED
    BY <1>1, <2>1, <2>3 DEF RankInv
<1>6. ASSUME NEW c \in Clients, Embeddings(c) PROVE RankInv'
  <2>1. /\ request[c].workload = "embedding" /\ waiting' \subseteq waiting \cup {c}
        /\ \A d \in Clients \ {c} : result'[d] = result[d]
    BY <1>6 DEF Embeddings, Arrives, ResultIsFunction
  <2>2. UNCHANGED status \/ \E code : Responds(c, code)
    BY <1>6 DEF Embeddings
  <2>3. \A d \in Clients \ {c} : status'[d] = status[d]
    BY <1>2, <2>2 DEF Responds
  <2> QED
    BY <1>1, <2>1, <2>3, RerankUntouched
<1>7. ASSUME NEW c \in Clients, RerankRequested(c) PROVE RankInv'
  <2>1. ValidRerank(request[c]) /\ waiting' = waiting \cup {c} /\ UNCHANGED << status, result >>
    BY <1>7 DEF RerankRequested
  <2> QED
    BY <1>1, <2>1 DEF RankInv
<1>8. ASSUME NEW c \in Clients, LocalStream(c) \/ LocalFull(c) \/ LocalComplete(c) \/ ProxyArrives(c)
      PROVE  RankInv'
  <2>1. request[c].workload = "chat" /\ UNCHANGED result /\ waiting' \subseteq waiting \cup {c}
    BY <1>8 DEF LocalStream, LocalFull, LocalComplete, ProxyArrives, ChatArrives, Arrives
  <2>2. UNCHANGED status \/ \E code : Responds(c, code)
    BY <1>8 DEF LocalStream, LocalFull, LocalComplete, ProxyArrives, AnswersChat
  <2>3. \A d \in Clients \ {c} : status'[d] = status[d]
    BY <1>2, <2>2 DEF Responds
  <2> QED
    BY <1>1, <2>1, <2>3, RerankUntouched
<1>9. ASSUME NEW c \in Clients, EmbeddingsReturn(c) \/ LocalReturns(c) PROVE RankInv'
  <2>1. request[c].workload # "rerank" /\ UNCHANGED result /\ waiting' \subseteq waiting
    BY <1>9 DEF EmbeddingsReturn, LocalReturns, Returned
  <2>2. \E code : Responds(c, code)
    BY <1>9 DEF EmbeddingsReturn, LocalReturns, AnswersChat
  <2>3. \A d \in Clients \ {c} : status'[d] = status[d]
    BY <1>2, <2>2 DEF Responds
  <2> QED
    BY <1>1, <2>1, <2>3, RerankUntouched
<1>10. ASSUME NEW c \in Clients, RerankReturns(c) PROVE RankInv'
  <2>1. /\ request[c] # None /\ request[c].workload = "rerank"
        /\ c \in waiting /\ waiting' = waiting \ {c}
    BY <1>10 DEF RerankReturns, Returned
  <2>2. ValidRerank(request[c]) /\ Rankings[request[c]] = Rerank(request[c])
    BY <2>1, RankingIsReady DEF RankInv
  <2>3. CASE Responds(c, 200) /\ result' = [result EXCEPT ![c] = Rankings[request[c]]]
    <3>1. /\ result'[c] = Rerank(request[c])
          /\ \A d \in Clients \ {c} : status'[d] = status[d] /\ result'[d] = result[d]
      BY <1>2, <2>2, <2>3 DEF Responds, ResultIsFunction
    <3> QED
      BY <1>1, <2>1, <2>2, <3>1 DEF RankInv
  <2>4. CASE (\E code \in {400, 500} : Responds(c, code)) /\ UNCHANGED result
    <3>1. status'[c] # 200 /\ \A d \in Clients \ {c} : status'[d] = status[d]
      BY <1>2, <2>4 DEF Responds
    <3> QED
      BY <1>1, <2>1, <2>4, <3>1 DEF RankInv
  <2> QED
    BY <1>10, <2>3, <2>4 DEF RerankReturns
<1>11. ASSUME NEW c \in Clients, ProxyAnswers(c) PROVE RankInv'
  <2>1. /\ UNCHANGED << waiting, result >>
        /\ \E code : Responds(c, code)
        /\ upstream[c] \in {"posting", "connecting", "refusing"}
    BY <1>11 DEF ProxyAnswers, AnswersChat, Posted, Connected, Unavailable, ConnectFails,
                 RefusalRead, RefusalLeaks, Ends, Moves, Goes
  <2>2. request[c].workload # "rerank"
    BY <2>1 DEF PlaceInv
  <2>3. \A d \in Clients \ {c} : status'[d] = status[d]
    BY <1>2, <2>1 DEF Responds
  <2> QED
    BY <1>1, <2>1, <2>2, <2>3, RerankUntouched
<1>12. ASSUME NEW c \in Clients, ProxyRefused(c) \/ ProxyGenerates(c) \/ ClientReads(c)
       PROVE  RankInv'
  BY <1>3, <1>12 DEF ProxyRefused, ProxyGenerates, ClientReads
<1> QED
  BY <1>4, <1>5, <1>6, <1>7, <1>8, <1>9, <1>10, <1>11, <1>12 DEF Next, RequestStep, ServerStep

\* What is answered is as the clients may expect.
LEMMA RankInvIsEnough == RankInv => RankingIsComplete
<1> SUFFICES ASSUME RankInv, NEW c \in Clients, request[c] # None,
                    request[c].workload = "rerank", status[c] = 200
             PROVE  IsAnswer(result[c], request[c])
  BY DEF RankingIsComplete, IsAnswer
<1> DEFINE r == request[c]
           n == Len(r.documents)
<1>1. ValidRerank(r) /\ result[c] = Rerank(r) /\ request \in Loads
  BY DEF RankInv
<1>2. /\ r.query \in Int \cup {None} /\ r.documents \in Seq(Int)
      /\ r.top_n \in Int \cup {None}
  BY <1>1, TextAssumption
<1>3. r.query # None /\ (r.top_n # None => r.top_n >= 1)
  BY <1>1 DEF ValidRerank
<1>4. n \in Nat /\ r.documents \in [1..n -> Int]
  BY <1>2, LenProperties
<1>5. r.query \in Int
  BY <1>2, <1>3
<1>6. r.top_n # None => r.top_n \in Nat \ {0}
  BY <1>2, <1>3
<1> HIDE DEF r
<1>7. IsAnswer(Rerank(r), r)
  BY <1>4, <1>5, <1>6, NoneIsNoNumber, RerankAnswers
<1> QED
  BY <1>1, <1>7 DEF r

-----------------------------------------------------------------------------
(* The theorems *)

\* However requests come, succeed and fail, and whatever lists others prune, the
\* stats count each request of the last hour and day that is to be counted, once
\* (metrics.py:18-55; routes.py:30, :51, :99, :118, :216, :227).
THEOREM StatsCountOnce == Spec => []RecordsAreCountedOnce
<1>1. Inv => ProxyTypeOK
  BY DEF Inv
<1> QED
  BY <1>1, InitStats, NextKeepsStats, StatsInvIsEnough, RoutesUseProxy, ProxyInvariance, PTL DEF Spec

\* Whatever its four fields say, an embedding request is passed on as what it asked
\* for first, within the limits (schema.py:24-37, :126-175; routes.py:24-31).
THEOREM EmbeddingsAreAsAsked == Spec => []EmbeddingIsAsAsked
<1>1. Init => AskedInv /\ ResultIsFunction
  BY DEF Init, AskedInv, ResultIsFunction
<1>2. AskedInv /\ ResultIsFunction /\ [Next]_vars => (AskedInv /\ ResultIsFunction)'
  BY NextKeepsAsked
<1>3. AskedInv => EmbeddingIsAsAsked
  <2> SUFFICES ASSUME AskedInv, NEW c \in Clients,
                      request[c] # None /\ request[c].workload = "embedding" /\ result[c] # None
               PROVE  LET r == request[c]
                          q == result[c]
                      IN  /\ q.texts = r.input /\ q.texts # << >>
                          /\ q.dimensions = r.dimensions
                          /\ q.max_length \in VALID_MAX_LENGTH_RANGE
                          /\ r.max_length \in {None, q.max_length}
                          /\ q.task_type # "separation"
                          /\ \/ q.task_type = FirstHint(r)
                             \/ q.task_type = "clustering" /\ FirstHint(r) = "separation"
    BY DEF EmbeddingIsAsAsked
  <2>1. ValidEmbedding(request[c]) /\ result[c] = ParsedEmbedding(request[c], default_max_length)
    BY DEF AskedInv
  <2> QED
    BY <2>1, ParsedIsAsked
<1> QED
  BY <1>1, <1>2, <1>3, PTL DEF Spec

\* However many documents there are and whatever their scores, a ranking has the
\* top_n best of them, each once, with its own score and under its own index
\* (reranking.py:125-184, :205-243; routes.py:66-80).
THEOREM RankingsAreComplete == Spec => []RankingIsComplete
<1>1. Init => RankInv /\ AskedInv /\ ResultIsFunction
  BY NoneIsNoNumber DEF Init, RankInv, AskedInv, ResultIsFunction
<1>2. AskedInv /\ ResultIsFunction /\ [Next]_vars => (AskedInv /\ ResultIsFunction)'
  BY NextKeepsAsked
<1>3. StatsInv => PlaceInv /\ RouteTypes
  BY DEF StatsInv
<1>4. Inv => ProxyTypeOK
  BY DEF Inv
<1> QED
  BY <1>1, <1>2, <1>3, <1>4, NextKeepsRankings, RankInvIsEnough, InitStats, NextKeepsStats,
     RoutesUseProxy, ProxyInvariance, PTL DEF Spec
=============================================================================
