------------------------------ MODULE MCKernel ------------------------------
(* Instances of Kernel for TLC: how three requests behave.                 *)
EXTENDS KernelInv, TLC

CONSTANTS r1, r2, r3

WorkMixed    == (r1 :> "blocking") @@ (r2 :> "hostcall") @@ (r3 :> "shutdown")
WorkEndless  == (r1 :> "blocking") @@ (r2 :> "endless") @@ (r3 :> "quick")

(* The order in which the host sends them: any, or r3 last.                *)
AnyOrder == [r \in Reqs |-> {}]
LastR3   == (r1 :> {}) @@ (r2 :> {}) @@ (r3 :> {r1, r2})
=============================================================================
