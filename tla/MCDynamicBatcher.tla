-------------------------- MODULE MCDynamicBatcher --------------------------
(* Instances of DynamicBatcher for TLC. *)
EXTENDS DynamicBatcher

CONSTANTS r1, r2, r3, w1, w2, reranker

Calls3 == {r1, r2, r3}
Workers2 == {w1, w2}
Reranker == {reranker}

In(task, maxLength, counts) == [task |-> task, maxLength |-> maxLength, counts |-> counts]

\* With a batch of 24 padded tokens and a tolerance of 30%: 13 is near the anchor
\* 10 but does not fit, 7 does; the 13 is a 20 truncated; 25 is too long.
MixedInputs == { In("query", 13, << 10, 20, 7 >>), In("query", 30, << 9, 25 >>),
                 In("passage", 13, << 10 >>) }

Symmetry == Permutations(Calls3) \cup Permutations(Workers2)
=============================================================================
