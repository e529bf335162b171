------------------------------ MODULE MCChunk ------------------------------
(* Every source of a few lines, with matching braces or not; of the lines  *)
(* whose braces mislead the loop, the first one of a grouped declaration.  *)
EXTENDS Chunk, SequencesExt

CONSTANTS MaxLines,  \* bound: lines of a source
          MaxOpen    \* bound: braces open at a time

Shapes == {l \in [blank : BOOLEAN, decl : BOOLEAN, open : -1..MaxOpen,
                  misread : BOOLEAN] :
             /\ ~(l.blank /\ l.decl)
             /\ l.misread => l.decl /\ l.open = 0}

SmallSources ==
  {s \in SeqOf(Shapes, MaxLines) :
     \A i \in DOMAIN s : s[i].blank => s[i].open = OpenBefore(s, i)}
=============================================================================
