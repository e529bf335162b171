---------------------------- MODULE MCKernelHost ----------------------------
(* An instance of KernelHost for TLC. *)
EXTENDS KernelHost

CONSTANTS e1, e2, e3

(* The first cell asks the host, the second waits to be interrupted.       *)
CellMixed == [e \in Execs |-> CASE e = e1 -> "asks"
                                [] e = e2 -> "blocks"
                                [] OTHER  -> "quick"]
=============================================================================
