--------------------------- MODULE InferenceGate ---------------------------
(***************************************************************************)
(* The asyncio.Lock that server.py creates once (inference_gate) and hands *)
(* to the DynamicBatcher and to the RerankQueue.  asyncio.Lock is not part *)
(* of the repository: it is modelled from how the queues use it.           *)
(*                                                                         *)
(* The gate is the sequence of the tasks inside `async with gate`, in the  *)
(* order in which they reached it: its head holds the lock, the others     *)
(* wait.  asyncio.Lock wakes its waiters first come, first served, and a   *)
(* task that arrives between a release and the resumption of the chosen    *)
(* waiter queues behind it; so a release hands the lock to the next in     *)
(* line.  A waiter whose task is cancelled leaves the line from wherever   *)
(* it stands.                                                              *)
(***************************************************************************)
EXTENDS Naturals, Sequences, SequencesExt

InLine(gate, u) == \E i \in DOMAIN gate : gate[i] = u

\* Mutant: everybody has a lock of his own.
AlwaysFree(gate) == TRUE

Free(gate) == gate = << >>

Holds(gate, u) == gate # << >> /\ Head(gate) = u

Acquire(gate, u) == Append(gate, u)

\* Mutant: a cancelled waiter releases the lock of whoever holds it.
ReleaseHolder(gate, u) == Tail(gate)

\* Mutant: a release with waiters behind it wakes nobody.
ReleaseForgotten(gate, u) == IF Len(gate) > 1 THEN gate ELSE << >>

\* `async with` exits, by release or by the cancellation of a waiter.
Leave(gate, u) == RemoveAt(gate, CHOOSE i \in DOMAIN gate : gate[i] = u)
=============================================================================
