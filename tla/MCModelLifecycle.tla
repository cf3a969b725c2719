-------------------------- MODULE MCModelLifecycle --------------------------
(* Instances of ModelLifecycle for TLC. *)
EXTENDS ModelLifecycle

CONSTANTS t1, t2, t3

Calls2 == {t1, t2}
Calls3 == {t1, t2, t3}
=============================================================================
