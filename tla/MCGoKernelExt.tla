--------------------------- MODULE MCGoKernelExt ---------------------------
(* Two tool calls at a time, one that only an interrupt ends.              *)
EXTENDS GoKernelExt, TLC

CONSTANTS t1, t2

CellPair == (t1 :> "blocking") @@ (t2 :> "brief")
=============================================================================
