------------------------------ MODULE ChatProxy ------------------------------
(***************************************************************************)
(* chat_proxy.py: chat requests forwarded to the vllm-mlx server, and the  *)
(* count of those in progress that the stats report.                       *)
(*                                                                         *)
(* A request is in the hands of httpx, of its generator _iter_stream, or   *)
(* of whoever iterates that: Starlette's StreamingResponse, which drops it *)
(* when the client goes.  An action is what happens between two            *)
(* suspensions; _active_lock is never held across one, so that raising and *)
(* lowering the count suspend nobody.  Payloads, headers and URLs are data *)
(* that no step here depends on.                                           *)
(***************************************************************************)
EXTENDS Integers, FiniteSets

CONSTANT Clients   \* each has one request

ASSUME ClientsAssumption == IsFiniteSet(Clients)

VARIABLES
  active,     \* _active
  upstream,   \* where each request is
  closed      \* the httpx client is closed

proxyVars == << active, upstream, closed >>

\* posting: complete() awaits the response.  connecting: open_stream() does.
\* refusing: its error is being read.  opened: the generator exists, and nobody
\* has iterated it.  reading: it awaits a chunk.  yielded: it waits for whoever
\* iterates it.  orphaned: nobody does any more.  closing: it is in its `finally`.
\* leaked: it is gone, and was never uncounted.
Stages == {"none", "posting", "connecting", "refusing", "opened", "reading", "yielded",
           "orphaned", "closing", "leaked", "done"}

ProxyTypeOK == /\ active \in Int
               /\ upstream \in [Clients -> Stages]
               /\ closed \in BOOLEAN

ProxyInit == /\ active = 0
             /\ upstream = [r \in Clients |-> "none"]
             /\ closed = FALSE

Goes(r, from, to) == upstream[r] = from /\ upstream' = [upstream EXCEPT ![r] = to]

Begins(r, to) == Goes(r, "none", to) /\ active' = active + 1 /\ UNCHANGED closed
Moves(r, from, to) == Goes(r, from, to) /\ UNCHANGED << active, closed >>
Ends(r, from) == Goes(r, from, "done") /\ active' = active - 1 /\ UNCHANGED closed

-----------------------------------------------------------------------------
(* complete *)

Complete(r) == ~closed /\ Begins(r, "posting")

\* The answer, an error status of the server, no connection (502), a body that is
\* not JSON, a ValueError that the gateway answers with 400, or any other
\* exception (500): `finally`, in every case.
PostStatuses == {200, 400, 429, 500, 502}
Posted(r, status) == status \in PostStatuses /\ Ends(r, "posting")

-----------------------------------------------------------------------------
(* open_stream *)

OpenStream(r) == ~closed /\ Begins(r, "connecting")

\* Mutant: `finally` instead of `except` lowers the count of what goes on as well.
ConnectedUncounted(r) ==
  Goes(r, "connecting", "opened") /\ active' = active - 1 /\ UNCHANGED closed

\* The generator is returned before its first line has run.
Connected(r) == Moves(r, "connecting", "opened")

\* httpx.RequestError.
Unavailable(r) == Ends(r, "connecting")

\* Any other exception out of __aenter__() passes the one `except` by.
ConnectFails(r) == Moves(r, "connecting", "leaked")

\* An error status, whose body is still to be read ...
Refused(r) == Moves(r, "connecting", "refusing")

\* Mutant: a busy upstream is asked again, the old response having been closed.
RefusalRetried(r, status) == \/ status = 429 /\ Moves(r, "refusing", "connecting")
                             \/ status \in {400, 500} /\ Ends(r, "refusing")

\* ... as the error to pass on, as no JSON (400), or to no end (500).
RefusalStatuses == {400, 429, 500}
RefusalRead(r, status) == status \in RefusalStatuses /\ Ends(r, "refusing")

\* __aexit__() raises in the `finally`, in front of the uncounting.
RefusalLeaks(r) == Moves(r, "refusing", "leaked")

-----------------------------------------------------------------------------
(* _iter_stream *)

\* The response has been started, and its body is asked for.
FirstNext(r) == Moves(r, "opened", "reading")

\* The client goes before: a generator that has not begun has no `finally`.
LeaveUnread(r) == Moves(r, "opened", "leaked")

Chunk(r) == Moves(r, "reading", "yielded")
Sent(r) == Moves(r, "yielded", "reading")

\* The stream is over, or broken, or the task that awaits its next chunk is
\* cancelled because the client has gone.
StreamEnds(r) == Moves(r, "reading", "closing")

\* Cancelled while it sends a chunk, the task drops the generator as it stands ...
LeaveYielded(r) == Moves(r, "yielded", "orphaned")

\* ... and the event loop's hook for such generators closes it.
Finalize(r) == Moves(r, "orphaned", "closing")

\* __aexit__() has returned ...
Closed(r) == Ends(r, "closing")

\* ... or raised, or its task was cancelled in it, in front of the uncounting.
CloseFails(r) == Moves(r, "closing", "leaked")

\* close(), at the end of the lifespan, when every response is over.
Close == /\ ~closed
         /\ \A r \in Clients : upstream[r] \in {"none", "orphaned", "closing", "leaked", "done"}
         /\ closed' = TRUE
         /\ UNCHANGED << active, upstream >>

-----------------------------------------------------------------------------
\* What the server sent, or httpx's timeouts bring about.
UpstreamStep(r) ==
  \/ \E status \in PostStatuses : Posted(r, status)
  \/ Connected(r) \/ Unavailable(r) \/ ConnectFails(r) \/ Refused(r)
  \/ \E status \in RefusalStatuses : RefusalRead(r, status)
  \/ RefusalLeaks(r)

GeneratorStep(r) == Chunk(r) \/ StreamEnds(r) \/ Finalize(r) \/ Closed(r) \/ CloseFails(r)

ClientStep(r) == FirstNext(r) \/ Sent(r) \/ LeaveUnread(r) \/ LeaveYielded(r)

ProxyNext == \/ Close
             \/ \E r \in Clients : \/ Complete(r) \/ OpenStream(r)
                                   \/ UpstreamStep(r) \/ GeneratorStep(r) \/ ClientStep(r)

ProxySpec == ProxyInit /\ [][ProxyNext]_proxyVars

-----------------------------------------------------------------------------
(* Properties *)

InProgress == {r \in Clients : upstream[r] \notin {"none", "leaked", "done"}}

\* The stats' active count is never below the number of requests in progress, however
\* others are refused, end, break or are dropped meanwhile: a stream stays counted
\* from open_stream() until its generator has closed it, and is uncounted once
\* (chat_proxy.py:64-84, :111-121).
ActiveCoversProgress == active >= Cardinality(InProgress)

\* What README.md:444 says of it: "`active`: items currently being processed."  The
\* code violates it (chat_proxy.py:74, :82-83, :106-121): nobody uncounts a stream
\* that fails to open with no RequestError, is never iterated, or fails to close.
ActiveIsInProgress == active = Cardinality(InProgress)
=============================================================================
