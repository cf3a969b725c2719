--------------------------- MODULE RequestMetrics ---------------------------
(***************************************************************************)
(* metrics.py: the times of the requests of each workload, oldest first,   *)
(* and how many of them lie within the last hour and the last day.         *)
(* time.time() is a clock of coarse ticks that is never set back.          *)
(***************************************************************************)
EXTENDS Integers, Sequences, FiniteSets, FiniteSetsExt

CONSTANTS
  HOUR, DAY,   \* in ticks of the clock
  MaxTime      \* bound of the clock

ASSUME MetricsAssumption == HOUR \in Nat /\ DAY \in Nat /\ HOUR <= DAY /\ MaxTime \in Nat

VARIABLES
  clock,
  events       \* _events

metricsVars == << clock, events >>

Workloads == {"embedding", "rerank", "chat"}

MetricsInit == clock = 0 /\ events = [w \in Workloads |-> << >>]

\* Mutant: an event of exactly a day ago is dropped.
PrunedEarly(times, now) ==
  SubSeq(times, Min({i \in DOMAIN times : times[i] > now - DAY} \cup {Len(times) + 1}), Len(times))

\* The loop of _prune stops at the first event that is not too old.
Pruned(times, now) ==
  SubSeq(times, Min({i \in DOMAIN times : times[i] >= now - DAY} \cup {Len(times) + 1}), Len(times))

Record(w) == /\ events' = [events EXCEPT ![w] = Pruned(Append(@, clock), clock)]
             /\ UNCHANGED clock

Within(w, span) == Cardinality({i \in DOMAIN events[w] : events[w][i] >= clock - span})

Snapshot(w) == [requests_1h |-> Within(w, HOUR), requests_1d |-> Within(w, DAY)]

Tick == clock < MaxTime /\ clock' = clock + 1 /\ UNCHANGED events
=============================================================================
