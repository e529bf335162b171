------------------------------- MODULE Chunk -------------------------------
(***************************************************************************)
(* The source chunker (rlm/chunk.go): the loop that cuts a cell's source   *)
(* into the units the interpreter evaluates one after another.  One action *)
(* is one turn of the loop.                                                *)
(*                                                                         *)
(* Of a line the model keeps what the loop looks at: whether it is blank,  *)
(* whether it begins with var, type, const, func or import, and how many   *)
(* braces are open after it (the code counts those in strings too); and    *)
(* what the loop does not look at, whether those braces mislead it.  Lines *)
(* are added one by one, so a chunk is the interval of its line numbers.   *)
(***************************************************************************)
EXTENDS Integers, Sequences

CONSTANT Sources  \* the sources a cell may have

(* misread: the open braces do not say whether what the line belongs to is *)
(* complete after it.  `import (` and `var (` leave a parenthesis open,    *)
(* another line an expression or a raw string, or a brace stands in a      *)
(* string.                                                                 *)
Lines == [blank : BOOLEAN, decl : BOOLEAN, open : Int, misread : BOOLEAN]

(* Braces open before line i, for every i up to the line after the last.   *)
OpenBefore(s, i) == IF i = 1 THEN 0 ELSE s[i - 1].open

ASSUME ChunkAssumption ==
  \A s \in Sources :
    /\ s \in Seq(Lines)
    /\ \A i \in DOMAIN s : s[i].blank => /\ ~s[i].decl
                                         /\ s[i].open = OpenBefore(s, i)

VARIABLES
  src,     \* the source
  next,    \* the line the loop is at
  start,   \* the first line of cur, 0 when cur is nil
  depth,
  inDecl,
  chunks,  \* the chunks cut so far
  done     \* chunk has returned

vars == <<src, next, start, depth, inDecl, chunks, done>>

Line     == src[next]
Braces   == Line.open - OpenBefore(src, next)
NewDepth == depth + Braces

(* Mutant: the keyword counts at any depth.                                *)
IsDeclAnywhere == ~inDecl /\ Line.decl

IsDecl == depth = 0 /\ ~inDecl /\ Line.decl

(* flush: cur begins with a line that is not blank, so it is a chunk.      *)
Flush(last) == IF start = 0 THEN chunks
                            ELSE Append(chunks, [from |-> start, to |-> last])

SkipsBlank ==
  /\ ~done /\ next <= Len(src)
  /\ Line.blank /\ start = 0
  /\ next' = next + 1
  /\ UNCHANGED <<src, start, depth, inDecl, chunks, done>>

(* A declaration begins: what came before it is flushed, and so is the     *)
(* declaration when its braces match on its own line.                      *)
OpensDecl ==
  /\ ~done /\ next <= Len(src)
  /\ IsDecl
  /\ next' = next + 1 /\ depth' = NewDepth
  /\ IF NewDepth <= 0
     THEN /\ chunks' = Append(Flush(next - 1), [from |-> next, to |-> next])
          /\ start' = 0 /\ inDecl' = FALSE
     ELSE /\ chunks' = Flush(next - 1)
          /\ start' = next /\ inDecl' = TRUE
  /\ UNCHANGED <<src, done>>

(* Any other line joins the open chunk; the one that closes a declaration  *)
(* flushes it.                                                             *)
AddsLine ==
  /\ ~done /\ next <= Len(src)
  /\ ~IsDecl /\ ~(Line.blank /\ start = 0)
  /\ next' = next + 1 /\ depth' = NewDepth
  /\ LET first == IF start = 0 THEN next ELSE start IN
     IF inDecl /\ NewDepth <= 0
     THEN /\ chunks' = Append(chunks, [from |-> first, to |-> next])
          /\ start' = 0 /\ inDecl' = FALSE
     ELSE start' = first /\ UNCHANGED <<chunks, inDecl>>
  /\ UNCHANGED <<src, done>>

(* Mutant: nothing is flushed after the loop.                              *)
FinishesEarly ==
  /\ ~done /\ next > Len(src)
  /\ done' = TRUE /\ start' = 0
  /\ UNCHANGED <<src, next, depth, inDecl, chunks>>

Finishes ==
  /\ ~done /\ next > Len(src)
  /\ chunks' = Flush(Len(src))
  /\ done' = TRUE /\ start' = 0
  /\ UNCHANGED <<src, next, depth, inDecl>>

Init == /\ src \in Sources /\ next = 1 /\ start = 0
        /\ depth = 0 /\ inDecl = FALSE /\ chunks = <<>> /\ done = FALSE

Next == SkipsBlank \/ OpensDecl \/ AddsLine \/ Finishes

Spec == Init /\ [][Next]_vars

-----------------------------------------------------------------------------
(* Properties.                                                             *)

Intervals == [from : 1..Len(src), to : 1..Len(src)]

TypeOK ==
  /\ src \in Seq(Lines)
  /\ next \in 1..Len(src) + 1
  /\ start \in 0..next - 1
  /\ depth \in Int /\ inDecl \in BOOLEAN
  /\ chunks \in Seq(Intervals)
  /\ done \in BOOLEAN

In(i, chunk) == chunk.from <= i /\ i <= chunk.to
Together(i, j) == \E c \in DOMAIN chunks : In(i, chunks[c]) /\ In(j, chunks[c])
CodeLines == {i \in DOMAIN src : ~src[i].blank}

(* Whatever its braces do, no line of code is lost, repeated or moved, and *)
(* no chunk begins with a blank line: the interpreter sees the cell.       *)
KeepsCode ==
  done =>
    /\ \A i \in CodeLines : Together(i, i)
    /\ \A a \in DOMAIN chunks :
         /\ chunks[a].from <= chunks[a].to /\ chunks[a].from \in CodeLines
         /\ \A b \in DOMAIN chunks : a < b => chunks[a].to < chunks[b].from

(* Braces match: none is closed that was not opened before it.             *)
WellBraced == \A i \in DOMAIN src : src[i].open >= 0

(* The braces tell where declarations and statements end.                  *)
Readable == \A i \in DOMAIN src : ~src[i].misread

Top(i) == OpenBefore(src, i) = 0
TopDecl(i) == Top(i) /\ src[i].decl

(* A chunk has to end before line i: a declaration begins there, or one    *)
(* that began above line i is complete.                                    *)
Cut(i) ==
  /\ Top(i)
  /\ \/ src[i].decl
     \/ /\ \E k \in 1..i - 1 : TopDecl(k) /\ \A j \in k + 1..i - 1 : ~Top(j)
        /\ ~src[i - 1].misread

(* "Each top-level declaration (brace-balanced) is its own chunk; runs of  *)
(* statements share one": two lines of code share a chunk exactly when     *)
(* neither a declaration begins nor one ends between them.  It is said of  *)
(* sources whose braces match and tell where things end; a grouped import  *)
(* or var block, which the loop cuts after its first line, is not one.     *)
CutsAtDeclarations ==
  done /\ WellBraced /\ Readable =>
    \A i, j \in CodeLines :
      i < j => (Together(i, j) <=> \A k \in i + 1..j : ~Cut(k))
=============================================================================
