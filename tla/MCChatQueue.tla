---------------------------- MODULE MCChatQueue ----------------------------
(* An instance of ChatQueue for TLC. *)
EXTENDS ChatQueue

CONSTANTS c1, s1, w1, w2, batcher

OneComplete == {c1}
OneStream == {s1}
TwoWorkers == {w1, w2}
Batcher == {batcher}
=============================================================================
