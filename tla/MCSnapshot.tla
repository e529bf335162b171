----------------------------- MODULE MCSnapshot -----------------------------
(* A small instance of Snapshot: two names, values of one and two bytes    *)
(* and one that cannot be marshalled.                                      *)
EXTENDS Snapshot

CONSTANTS small, mid, func

SizeOfValue == [v \in Values |-> IF v = small THEN 1 ELSE 2]

(* Oversized values with and without pruning, a maxVar of zero, values     *)
(* that fit alone and not together, and one that never fits before one     *)
(* that does.                                                              *)
SmallLimits == {[maxVar |-> 0, maxTotal |-> 2, prune |-> TRUE],
                [maxVar |-> 1, maxTotal |-> 2, prune |-> TRUE],
                [maxVar |-> 2, maxTotal |-> 2, prune |-> FALSE],
                [maxVar |-> 2, maxTotal |-> 1, prune |-> FALSE]}
=============================================================================
