------------------------ MODULE MCInstanceLifecycle ------------------------
(* Two users' requests on one instance, for TLC.                           *)
EXTENDS InstanceLifecycle

CONSTANTS u1, u2
MCUsers == {u1, u2}
=============================================================================
