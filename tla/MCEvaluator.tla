---------------------------- MODULE MCEvaluator ----------------------------
(* Small instances of the evaluator: what the cells' chunks do.            *)
EXTENDS Evaluator

CONSTANTS c1, c2, c3, g1, x, y, fmt, nosuch

Import(ps) == [kind |-> "import", paths |-> ps]
Lookalike(n, ps) == [kind |-> "lookalike", name |-> n, paths |-> ps]
Decl(n)    == [kind |-> "decl", name |-> n]
Start      == [kind |-> "go", go |-> g1]
Call       == [kind |-> "call"]
Fail       == [kind |-> "fail"]

(* A background goroutine, helper calls, imports that work and fail, and   *)
(* a look-alike that is passed over (c1) or evaluated (c3, when first).    *)
CodeCalls ==
  [c \in Cells |->
     CASE c = c1 -> <<Import({fmt}), Start, Call, Lookalike(x, {fmt})>>
       [] c = c2 -> <<Decl(y), Import({fmt, nosuch})>>
       [] OTHER  -> <<Lookalike(x, {fmt}), Call, Fail, Decl(y)>>]

(* Helper calls nobody answers.                                            *)
CodeBlocks ==
  [c \in Cells |->
     CASE c = c1 -> <<Start, Call, Decl(x), Call>>
       [] OTHER  -> <<Call, Fail>>]
=============================================================================
