--------------------------- MODULE MCChatLifecycle ---------------------------
(* Instances of ChatLifecycle for TLC. *)
EXTENDS ChatLifecycle

CONSTANTS s1, c1, c2, e1, e2

OneStream == {s1}
ThreeCalls == {s1, c1, c2}
TwoEvictors == {e1, e2}
=============================================================================
