------------------------------ MODULE MCBridge ------------------------------
(* Instances of Bridge for TLC. *)
EXTENDS Bridge

CONSTANTS c1, c2, c3
=============================================================================
