------------------------------ MODULE MCBridge ------------------------------
(* Instances of Bridge for TLC: one or two client threads. *)
EXTENDS Bridge

CONSTANTS t1, t2
OneThread == {t1}
TwoThreads == {t1, t2}
=============================================================================
