------------------------------ MODULE MCGateway ------------------------------
(* Instances of Gateway for TLC. *)
EXTENDS Gateway

CONSTANTS j1, j2, r1, r2, w1, b1

Reranks1 == {j1}
Reranks2 == {j1, j2}
Embeds1 == {r1}
Embeds2 == {r1, r2}
RerankWorkers1 == {w1}
BatchWorkers1 == {b1}

\* Two tasks, which cannot share a batch; the pair of texts fills one.
TwoInputs == { [task |-> "query", maxLength |-> 13, counts |-> << 10, 8 >>],
               [task |-> "passage", maxLength |-> 13, counts |-> << 10 >>] }
=============================================================================
