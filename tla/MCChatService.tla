---------------------------- MODULE MCChatService ----------------------------
(* The chat service for TLC: its locks, and the text of a generation.  A text *)
(* belongs to the one generator that makes it, so that the two modules share  *)
(* no variable, and interleaving their steps would show nothing: in each      *)
(* behaviour one of the two moves, as `moving` says from the beginning.       *)
EXTENDS MCChatLifecycle, MCStopStream

VARIABLE moving

ServiceInit ==
  /\ Init /\ TextInit
  /\ moving \in {"locks", "text"}
  /\ moving = "locks" => stop_values = {}

ServiceNext ==
  \/ moving = "locks" /\ Next /\ UNCHANGED << textVars, moving >>
  \/ moving = "text" /\ TextNext /\ UNCHANGED << vars, moving >>

\* No step of the locks can be taken from their initial state but by a call that
\* begins, which nothing forces: Fairness asks nothing of a text.
ServiceSpec == ServiceInit /\ [][ServiceNext]_<< vars, textVars, moving >> /\ Fairness
=============================================================================
