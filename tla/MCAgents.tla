------------------------------ MODULE MCAgents ------------------------------
(* Small families of sessions for TLC.                                     *)
EXTENDS Agents

CONSTANTS k1, k2, worker, helper, m1, m2
=============================================================================
