---------------------------- MODULE MCEditSkill ----------------------------
(* Edits of one file: two under the same key that depend on each other,    *)
(* one through another spelling or from another session, and an empty one. *)
EXTENDS EditSkill, TLC

CONSTANTS e1, e2, e3, e4, here, there, a, b, c

EditKeys == (e1 :> here) @@ (e2 :> here) @@ (e3 :> there) @@ (e4 :> here)
EditOld  == (e1 :> a) @@ (e2 :> b) @@ (e3 :> a) @@ (e4 :> Empty)
EditNew  == (e1 :> b) @@ (e2 :> c) @@ (e3 :> c) @@ (e4 :> c)

FirstText    == <<a, b>>
ForeignTexts == {<<a, a>>, Missing}
=============================================================================
