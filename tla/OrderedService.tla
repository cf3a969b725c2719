--------------------------- MODULE OrderedService ---------------------------
(***************************************************************************)
(* What a single-worker inference queue promises to its callers, with no   *)
(* worker, task, lock or thread in sight: calls wait in one line, only the *)
(* call at its head is answered, an answer is final, and a call leaves the *)
(* line unanswered only while the service is closing.                      *)
(***************************************************************************)
EXTENDS Naturals, Sequences

CONSTANTS Jobs,
          Drained   \* TRUE: the service closes only when nobody waits for it

VARIABLES line,     \* the calls not served yet, oldest first
          outcome,  \* what each call's caller has seen
          closing

vars == << line, outcome, closing >>

Init == /\ line = << >>
        /\ outcome = [j \in Jobs |-> "none"]
        /\ closing = FALSE

Settle(j, o) ==
  outcome' = [outcome EXCEPT ![j] = IF @ = "pending" THEN o ELSE @]

Open == closing' = FALSE /\ UNCHANGED << line, outcome >>

Close == closing' = TRUE /\ UNCHANGED << line, outcome >>

Submit(j) ==
  /\ outcome[j] = "none"
  /\ outcome' = [outcome EXCEPT ![j] = "pending"]
  /\ line' = Append(line, j)
  /\ closing' \in {closing, FALSE}

Withdraw(j) ==
  /\ outcome[j] = "pending"
  /\ outcome' = [outcome EXCEPT ![j] = "cancelled"]
  /\ UNCHANGED << line, closing >>

Answer(o) ==
  /\ line # << >>
  /\ Settle(Head(line), o)
  /\ line' = Tail(line)
  /\ UNCHANGED closing

\* The call being served is dropped, and its caller never hears of it.
Abandon ==
  /\ closing
  /\ line # << >>
  /\ Drained => outcome[Head(line)] # "pending"
  /\ line' = Tail(line)
  /\ UNCHANGED << outcome, closing >>

\* The calls that were never started are cancelled, and their callers told.
Flush ==
  /\ closing
  /\ outcome' = [j \in Jobs |->
                   IF outcome[j] = "pending" /\ \E i \in DOMAIN line : line[i] = j
                   THEN "cancelled" ELSE outcome[j]]
  /\ line' = << >>
  /\ UNCHANGED closing

Next == \/ Open \/ Close \/ Abandon \/ Flush
        \/ \E j \in Jobs : Submit(j) \/ Withdraw(j)
        \/ \E o \in {"result", "error"} : Answer(o)

Spec == Init /\ [][Next]_vars
=============================================================================
