---------------------------- MODULE ChunkProofs ----------------------------
(***************************************************************************)
(* What the chunker's loop guarantees for every source, of any length.     *)
(*                                                                         *)
(* Edge is the line up to which the chunks have to account for the source: *)
(* the first line of the open chunk, or the line the loop is at.  KeepInv  *)
(* says that the chunks below it are in order and hold all its code;       *)
(* CutInv adds, for sources whose braces match and tell where things end,  *)
(* that they are cut where a declaration begins or ends and nowhere else.  *)
(***************************************************************************)
EXTENDS Chunk, SequenceTheorems, TLAPS

Edge == IF done THEN Len(src) + 1 ELSE IF start = 0 THEN next ELSE start

Holds(cs, i) == \E c \in DOMAIN cs : In(i, cs[c])

(* The chunks cs are in order, below edge, and hold the code below edge.   *)
Accounts(cs, edge) ==
  /\ cs \in Seq(Intervals)
  /\ \A a \in DOMAIN cs : /\ cs[a].from <= cs[a].to /\ cs[a].to < edge
                          /\ ~src[cs[a].from].blank
  /\ \A a, b \in DOMAIN cs : a < b => cs[a].to < cs[b].from
  /\ \A i \in CodeLines : i < edge => Holds(cs, i)

KeepInv ==
  /\ TypeOK /\ src \in Sources
  /\ done => start = 0
  /\ start # 0 => ~src[start].blank
  /\ Accounts(chunks, Edge)

-----------------------------------------------------------------------------
(* A source is a sequence of lines, and its blank lines do nothing.        *)
LEMMA SourceType ==
  ASSUME src \in Sources
  PROVE  /\ src \in Seq(Lines) /\ Len(src) \in Nat /\ DOMAIN src = 1..Len(src)
         /\ \A i \in DOMAIN src :
              /\ src[i].blank \in BOOLEAN /\ src[i].decl \in BOOLEAN
              /\ src[i].open \in Int /\ OpenBefore(src, i) \in Int
              /\ src[i].blank => ~src[i].decl /\ src[i].open = OpenBefore(src, i)
         /\ OpenBefore(src, Len(src) + 1) \in Int
  <1>1. src \in Seq(Lines)
    BY ChunkAssumption
  <1>2. Len(src) \in Nat /\ DOMAIN src = 1..Len(src)
    BY <1>1
  <1>3. \A i \in DOMAIN src : src[i] \in Lines
    BY <1>1
  <1>4. \A i \in DOMAIN src : /\ src[i].blank \in BOOLEAN
                              /\ src[i].decl \in BOOLEAN /\ src[i].open \in Int
    BY <1>3 DEF Lines
  <1>5. \A i \in 1..Len(src) + 1 : OpenBefore(src, i) \in Int
    BY <1>2, <1>4 DEF OpenBefore
  <1> QED
    BY <1>1, <1>2, <1>4, <1>5, ChunkAssumption

(* Every chunk of a sequence of chunks has its bounds within the source.   *)
LEMMA ChunkBounds ==
  ASSUME NEW cs \in Seq(Intervals), NEW a \in DOMAIN cs
  PROVE  cs[a].from \in 1..Len(src) /\ cs[a].to \in 1..Len(src)
  <1>1. cs[a] \in Intervals
    OBVIOUS
  <1> QED
    BY <1>1 DEF Intervals

(* A chunk that begins at the edge moves the edge behind it.               *)
LEMMA AddChunk ==
  ASSUME src \in Sources,
         NEW cs, NEW from \in 1..Len(src), NEW to \in 1..Len(src),
         Accounts(cs, from), from <= to, ~src[from].blank
  PROVE  Accounts(Append(cs, [from |-> from, to |-> to]), to + 1)
  <1> DEFINE x == [from |-> from, to |-> to]
             t == Append(cs, x)
             n == Len(cs) + 1
  <1>0. Len(src) \in Nat /\ CodeLines \subseteq 1..Len(src)
    BY SourceType DEF CodeLines
  <1>1. cs \in Seq(Intervals) /\ x \in Intervals /\ Len(cs) \in Nat
    BY DEF Accounts, Intervals
  <1>2. t \in Seq(Intervals)
    BY <1>1, AppendProperties
  <1>3. /\ DOMAIN t = DOMAIN cs \union {n} /\ n \notin DOMAIN cs
        /\ t[n] = x /\ \A a \in DOMAIN cs : t[a] = cs[a]
    BY <1>1, AppendProperties, LenProperties
  <1>4. DOMAIN cs = 1..n - 1 /\ n \in Nat
    BY <1>1
  <1>5. \A a \in DOMAIN cs : cs[a].from \in 1..Len(src) /\ cs[a].to \in 1..Len(src)
    BY <1>1, ChunkBounds
  <1>6. x.from = from /\ x.to = to
    OBVIOUS
  <1> HIDE DEF x, t, n
  <1>7. \A a \in DOMAIN t : /\ t[a].from <= t[a].to /\ t[a].to < to + 1
                            /\ ~src[t[a].from].blank
    BY <1>0, <1>3, <1>5, <1>6 DEF Accounts
  <1>8. \A a, b \in DOMAIN t : a < b => t[a].to < t[b].from
    BY <1>0, <1>3, <1>4, <1>5, <1>6 DEF Accounts
  <1>9. ASSUME NEW i \in CodeLines, i < to + 1 PROVE Holds(t, i)
    <2>1. CASE i < from
      <3>1. PICK c \in DOMAIN cs : In(i, cs[c])
        BY <2>1 DEF Accounts, Holds
      <3> QED
        BY <3>1, <1>3 DEF Holds
    <2>2. CASE from <= i
      BY <2>2, <1>0, <1>3, <1>6, <1>9 DEF Holds, In
    <2> QED
      BY <2>1, <2>2, <1>0
  <1> QED
    BY <1>2, <1>7, <1>8, <1>9 DEF Accounts, t, x

(* The edge moves over a blank line.                                       *)
LEMMA SkipBlankLine ==
  ASSUME src \in Sources, NEW cs, NEW i \in 1..Len(src),
         Accounts(cs, i), src[i].blank
  PROVE  Accounts(cs, i + 1)
  <1>1. Len(src) \in Nat /\ CodeLines \subseteq 1..Len(src)
    BY SourceType DEF CodeLines
  <1>2. cs \in Seq(Intervals)
    BY DEF Accounts
  <1>3. \A a \in DOMAIN cs : cs[a].from \in 1..Len(src) /\ cs[a].to \in 1..Len(src)
    BY <1>2, ChunkBounds
  <1>4. \A k \in CodeLines : k < i + 1 => k < i
    BY <1>1 DEF CodeLines
  <1> QED
    BY <1>1, <1>3, <1>4 DEF Accounts

(* Init establishes the invariant.                                         *)
LEMMA KeepInit == Init => KeepInv
  <1> SUFFICES ASSUME Init PROVE KeepInv
    OBVIOUS
  <1>1. src \in Sources /\ src \in Seq(Lines) /\ Len(src) \in Nat
    BY SourceType DEF Init
  <1>2. TypeOK
    <2>1. chunks \in Seq(Intervals)
      BY DEF Init
    <2>2. inDecl \in BOOLEAN /\ done \in BOOLEAN
      BY Zenon DEF Init
    <2>3. next = 1 /\ start = 0 /\ depth = 0
      BY DEF Init
    <2> QED
      BY <1>1, <2>1, <2>2, <2>3 DEF TypeOK
  <1>3. Accounts(chunks, 1)
    BY <1>1 DEF Init, Accounts, CodeLines
  <1> QED
    BY <1>1, <1>2, <1>3 DEF Init, KeepInv, Edge

(* Every turn of the loop keeps it.                                        *)
LEMMA KeepStep == KeepInv /\ [Next]_vars => KeepInv'
  <1> SUFFICES ASSUME KeepInv, [Next]_vars PROVE KeepInv'
    OBVIOUS
  <1> USE DEF KeepInv
  <1>0. /\ src \in Sources /\ src \in Seq(Lines) /\ Len(src) \in Nat
        /\ DOMAIN src = 1..Len(src)
        /\ \A i \in DOMAIN src : src[i].blank \in BOOLEAN /\ src[i].decl \in BOOLEAN
    BY SourceType
  <1>1. /\ next \in 1..Len(src) + 1 /\ start \in 0..next - 1
        /\ depth \in Int /\ inDecl \in BOOLEAN /\ done \in BOOLEAN
        /\ Accounts(chunks, Edge)
    BY DEF TypeOK
  <1>2. src' = src => /\ Intervals' = Intervals
                      /\ \A cs, e : Accounts(cs, e) <=> Accounts(cs, e)'
    BY DEF Accounts, Intervals, CodeLines, Holds, In
  <1>3. ASSUME next <= Len(src)
        PROVE  NewDepth \in Int /\ next \in DOMAIN src
    BY <1>0, <1>1, <1>3, SourceType DEF Braces, Line, NewDepth
  <1>4. CASE SkipsBlank
    <2>1. Accounts(chunks, next + 1)
      BY <1>0, <1>1, <1>4, SkipBlankLine DEF SkipsBlank, Line, Edge
    <2> QED
      BY <2>1, <1>0, <1>1, <1>2, <1>4 DEF SkipsBlank, TypeOK, Edge
  <1>5. CASE OpensDecl
    <2>0. next \in 1..Len(src) /\ ~done /\ ~src[next].blank /\ src' = src
      BY <1>0, <1>1, <1>5, SourceType DEF OpensDecl, IsDecl, Line
    <2>1. Accounts(Flush(next - 1), next)
      <3>1. CASE start = 0
        BY <3>1, <2>0, <1>1 DEF Flush, Edge
      <3>2. CASE start # 0
        <4>1. /\ start \in 1..Len(src) /\ next - 1 \in 1..Len(src)
              /\ start <= next - 1 /\ Accounts(chunks, start)
          BY <3>2, <2>0, <1>0, <1>1 DEF Edge
        <4>2. Accounts(Append(chunks, [from |-> start, to |-> next - 1]), next - 1 + 1)
          BY <4>1, <1>0, AddChunk
        <4> QED
          BY <3>2, <4>2, <2>0 DEF Flush
      <3> QED
        BY <3>1, <3>2
    <2>2. CASE NewDepth <= 0
      <3>1. Accounts(Append(Flush(next - 1), [from |-> next, to |-> next]), next + 1)
        BY <2>0, <2>1, <1>0, AddChunk
      <3>2. Accounts(chunks', Edge')
        BY <3>1, <2>0, <2>2, <1>1, <1>5 DEF OpensDecl, Edge
      <3>3. chunks' \in Seq(Intervals)
        BY <3>2, <2>0, <1>2 DEF Accounts
      <3>4. /\ next' = next + 1 /\ depth' = NewDepth /\ done' = done
            /\ start' = 0
        BY <2>2, <1>5 DEF OpensDecl
      <3>5. inDecl' \in BOOLEAN
        BY <2>2, <1>5, Zenon DEF OpensDecl
      <3>6. TypeOK'
        BY <3>3, <3>4, <3>5, <2>0, <1>0, <1>1, <1>2, <1>3 DEF TypeOK
      <3> QED
        BY <3>2, <3>4, <3>6, <2>0, <1>0, <1>1, <1>2
    <2>3. CASE ~(NewDepth <= 0)
      <3>1. Accounts(chunks', Edge')
        BY <2>0, <2>1, <2>3, <1>1, <1>5 DEF OpensDecl, Edge
      <3>2. chunks' \in Seq(Intervals)
        BY <3>1, <2>0, <1>2 DEF Accounts
      <3>3. /\ next' = next + 1 /\ depth' = NewDepth /\ done' = done
            /\ start' = next /\ inDecl' = TRUE
        BY <2>3, <1>5 DEF OpensDecl
      <3>4. TypeOK'
        BY <3>2, <3>3, <2>0, <1>0, <1>1, <1>2, <1>3 DEF TypeOK
      <3> QED
        BY <3>1, <3>3, <3>4, <2>0, <1>0, <1>1, <1>2
    <2> QED
      BY <2>2, <2>3
  <1>6. CASE AddsLine
    <2> DEFINE first == IF start = 0 THEN next ELSE start
    <2>0. /\ next \in 1..Len(src) /\ ~done /\ src' = src
          /\ first \in 1..Len(src) /\ first <= next /\ ~src[first].blank
          /\ Accounts(chunks, first)
      BY <1>0, <1>1, <1>6 DEF AddsLine, Line, Edge
    <2>1. CASE inDecl /\ NewDepth <= 0
      <3>1. Accounts(Append(chunks, [from |-> first, to |-> next]), next + 1)
        BY <2>0, <1>0, AddChunk
      <3>2. Accounts(chunks', Edge')
        BY <3>1, <2>0, <2>1, <1>1, <1>6 DEF AddsLine, Edge
      <3>3. chunks' \in Seq(Intervals)
        BY <3>2, <2>0, <1>2 DEF Accounts
      <3>4. /\ next' = next + 1 /\ depth' = NewDepth /\ done' = done
            /\ start' = 0
        BY <2>1, <1>6 DEF AddsLine
      <3>5. inDecl' \in BOOLEAN
        BY <2>1, <1>6, Zenon DEF AddsLine
      <3>6. TypeOK'
        BY <3>3, <3>4, <3>5, <2>0, <1>0, <1>1, <1>2, <1>3 DEF TypeOK
      <3> QED
        BY <3>2, <3>4, <3>6, <2>0, <1>0, <1>1, <1>2
    <2>2. CASE ~(inDecl /\ NewDepth <= 0)
      <3>1. /\ next' = next + 1 /\ depth' = NewDepth /\ done' = done
            /\ start' = first /\ chunks' = chunks /\ inDecl' = inDecl
        BY <2>2, <1>6 DEF AddsLine
      <3>2. Accounts(chunks', Edge')
        BY <3>1, <2>0, <1>6 DEF AddsLine, Edge
      <3>3. chunks' \in Seq(Intervals)
        BY <3>2, <2>0, <1>2 DEF Accounts
      <3>4. TypeOK'
        BY <3>1, <3>3, <2>0, <1>0, <1>1, <1>2, <1>3 DEF TypeOK
      <3> QED
        BY <3>1, <3>2, <3>4, <2>0, <1>0, <1>1, <1>2
    <2> QED
      BY <2>1, <2>2
  <1>7. CASE Finishes
    <2>0. next = Len(src) + 1 /\ ~done /\ src' = src /\ done' /\ start' = 0
      BY <1>0, <1>1, <1>7 DEF Finishes
    <2>1. Accounts(Flush(Len(src)), Len(src) + 1)
      <3>1. CASE start = 0
        BY <3>1, <2>0 DEF Flush, Edge
      <3>2. CASE start # 0
        <4>1. /\ start \in 1..Len(src) /\ Len(src) \in 1..Len(src)
              /\ start <= Len(src) /\ Accounts(chunks, start)
          BY <3>2, <2>0, <1>0, <1>1 DEF Edge
        <4> QED
          BY <3>2, <4>1, <1>0, AddChunk DEF Flush
      <3> QED
        BY <3>1, <3>2
    <2>2. Accounts(chunks', Edge')
      BY <2>0, <2>1, <1>7 DEF Finishes, Edge
    <2>3. chunks' \in Seq(Intervals)
      BY <2>2, <2>0, <1>2 DEF Accounts
    <2>4. TypeOK'
      BY <2>0, <2>3, <1>0, <1>1, <1>2, <1>7 DEF Finishes, TypeOK
    <2> QED
      BY <2>0, <2>2, <2>4, <1>0, <1>2
  <1>8. CASE UNCHANGED vars
    BY <1>2, <1>8 DEF vars, TypeOK, Edge
  <1> QED
    BY <1>4, <1>5, <1>6, <1>7, <1>8 DEF Next

(* The loop's variables keep their types, whatever the source.             *)
THEOREM ChunkTypes == Spec => []TypeOK
  <1>1. KeepInv => TypeOK
    BY DEF KeepInv
  <1> QED
    BY <1>1, KeepInit, KeepStep, PTL DEF Spec

(* No source, however its braces are nested or broken, loses, repeats or   *)
(* reorders a line of code.                                                *)
THEOREM ChunkKeepsCode == Spec => []KeepsCode
  <1>1. KeepInv => KeepsCode
    <2> SUFFICES ASSUME KeepInv, done PROVE KeepsCode
      BY DEF KeepsCode
    <2>0. /\ Accounts(chunks, Len(src) + 1) /\ Len(src) \in Nat
          /\ DOMAIN src = 1..Len(src)
      BY SourceType DEF KeepInv, Edge
    <2>1. \A i \in CodeLines : i < Len(src) + 1
      BY <2>0 DEF CodeLines
    <2>2. \A i \in CodeLines : Together(i, i)
      BY <2>0, <2>1 DEF Accounts, Holds, Together
    <2>3. chunks \in Seq(Intervals)
      BY <2>0 DEF Accounts
    <2>4. \A a \in DOMAIN chunks : chunks[a].from \in 1..Len(src)
      BY <2>3, ChunkBounds
    <2> QED
      BY <2>0, <2>2, <2>4 DEF KeepsCode, Accounts, CodeLines
  <1> QED
    BY <1>1, KeepInit, KeepStep, PTL DEF Spec

-----------------------------------------------------------------------------
(* Where the chunks are cut.                                               *)

Uncut(from, to) == \A k \in from + 1..to : ~Cut(k)

Apart(cs) == \A a, b \in DOMAIN cs :
               a < b => \E k \in cs[a].to + 1..cs[b].from : Cut(k)
ApartFrom(cs, edge) == \A a \in DOMAIN cs : \E k \in cs[a].to + 1..edge : Cut(k)
Whole(cs) == \A a \in DOMAIN cs : Uncut(cs[a].from, cs[a].to)

(* The open chunk is a declaration whose braces have not matched yet, or a *)
(* run of statements from a line outside all braces.                       *)
OpenChunk ==
  /\ depth = OpenBefore(src, next)
  /\ start = 0 => Top(next) /\ ~inDecl
  /\ start # 0 => Top(start)
  /\ inDecl => src[start].decl /\ \A j \in start + 1..next : ~Top(j)
  /\ ~inDecl /\ start # 0 => \A k \in start..next - 1 : ~TopDecl(k)
  /\ ApartFrom(chunks, Edge)

CutInv == WellBraced /\ Readable => /\ ~done => OpenChunk
                                    /\ Apart(chunks) /\ Whole(chunks)

(* A run of statements from outside all braces has no cut in it.           *)
LEMMA RunUncut ==
  ASSUME NEW from \in Nat \ {0}, NEW to \in Nat, Top(from),
         \A k \in from..to : ~TopDecl(k)
  PROVE  Uncut(from, to)
  <1> SUFFICES ASSUME NEW k \in from + 1..to, Cut(k) PROVE FALSE
    BY DEF Uncut
  <1>1. ~src[k].decl
    BY DEF Cut, TopDecl
  <1>2. PICK d \in 1..k - 1 : TopDecl(d) /\ \A j \in d + 1..k - 1 : ~Top(j)
    BY <1>1 DEF Cut
  <1>3. CASE from <= d
    BY <1>2, <1>3
  <1>4. CASE d < from
    BY <1>2, <1>4
  <1> QED
    BY <1>3, <1>4

(* Where a declaration's braces match again the source is cut.             *)
LEMMA CutAfterDecl ==
  ASSUME NEW from \in Nat \ {0}, NEW to \in Nat, from <= to,
         TopDecl(from), \A j \in from + 1..to : ~Top(j), Top(to + 1),
         ~src[to].misread
  PROVE  Cut(to + 1) /\ Uncut(from, to)
  <1>1. Uncut(from, to)
    BY DEF Uncut, Cut
  <1>2. /\ from \in 1..(to + 1) - 1 /\ \A j \in from + 1..(to + 1) - 1 : ~Top(j)
        /\ ~src[(to + 1) - 1].misread
    <2>1. (to + 1) - 1 = to
      OBVIOUS
    <2> QED
      BY <2>1
  <1> QED
    BY <1>1, <1>2 DEF Cut

(* A whole chunk at the edge, and a cut behind it, move the edge.          *)
LEMMA AddWhole ==
  ASSUME src \in Sources,
         NEW cs, NEW from \in 1..Len(src), NEW to \in 1..Len(src),
         Accounts(cs, from), from <= to,
         Apart(cs), Whole(cs), ApartFrom(cs, from), Uncut(from, to)
  PROVE  LET t == Append(cs, [from |-> from, to |-> to])
         IN  Apart(t) /\ Whole(t) /\ (Cut(to + 1) => ApartFrom(t, to + 1))
  <1> DEFINE x == [from |-> from, to |-> to]
             t == Append(cs, x)
             n == Len(cs) + 1
  <1>0. Len(src) \in Nat
    BY SourceType
  <1>1. cs \in Seq(Intervals) /\ x \in Intervals /\ Len(cs) \in Nat
    BY DEF Accounts, Intervals
  <1>2. /\ DOMAIN t = DOMAIN cs \union {n} /\ n \notin DOMAIN cs
        /\ t[n] = x /\ \A a \in DOMAIN cs : t[a] = cs[a]
    BY <1>1, AppendProperties, LenProperties
  <1>3. DOMAIN cs = 1..n - 1 /\ n \in Nat
    BY <1>1
  <1>4. \A a \in DOMAIN cs : cs[a].from \in 1..Len(src) /\ cs[a].to \in 1..Len(src)
    BY <1>1, ChunkBounds
  <1>5. x.from = from /\ x.to = to
    OBVIOUS
  <1> HIDE DEF x, t, n
  <1>6. Apart(t)
    <2> SUFFICES ASSUME NEW a \in DOMAIN t, NEW b \in DOMAIN t, a < b
                 PROVE  \E k \in t[a].to + 1..t[b].from : Cut(k)
      BY DEF Apart
    <2>1. a \in DOMAIN cs
      BY <1>2, <1>3
    <2>2. CASE b \in DOMAIN cs
      BY <2>1, <2>2, <1>2 DEF Apart
    <2>3. CASE b = n
      BY <2>1, <2>3, <1>2, <1>5 DEF ApartFrom
    <2> QED
      BY <2>2, <2>3, <1>2
  <1>7. Whole(t)
    BY <1>2, <1>5 DEF Whole
  <1>8. ASSUME Cut(to + 1) PROVE ApartFrom(t, to + 1)
    <2> SUFFICES ASSUME NEW a \in DOMAIN t
                 PROVE  \E k \in t[a].to + 1..to + 1 : Cut(k)
      BY DEF ApartFrom
    <2>1. CASE a \in DOMAIN cs
      <3>1. PICK k \in cs[a].to + 1..from : Cut(k)
        BY <2>1 DEF ApartFrom
      <3>2. k \in cs[a].to + 1..to + 1
        BY <3>1, <2>1, <1>0, <1>4
      <3> QED
        BY <3>1, <3>2, <2>1, <1>2
    <2>2. CASE a = n
      BY <2>2, <1>2, <1>5, <1>8
    <2> QED
      BY <2>1, <2>2, <1>2
  <1> QED
    BY <1>6, <1>7, <1>8 DEF t, x

(* Init establishes the invariant.                                         *)
LEMMA CutInit == Init => CutInv
  BY DEF Init, CutInv, OpenChunk, OpenBefore, Top, ApartFrom, Apart, Whole

(* Every turn of the loop keeps it.                                        *)
LEMMA CutStep == KeepInv /\ KeepInv' /\ CutInv /\ [Next]_vars => CutInv'
  <1> SUFFICES ASSUME KeepInv, KeepInv', CutInv, [Next]_vars, WellBraced', Readable'
               PROVE  /\ ~done' => OpenChunk'
                      /\ Apart(chunks)' /\ Whole(chunks)'
    BY DEF CutInv
  <1>0. /\ src' = src /\ Len(src) \in Nat /\ DOMAIN src = 1..Len(src)
        /\ \A i \in DOMAIN src :
             /\ src[i].open \in Int /\ OpenBefore(src, i) \in Int
             /\ src[i].blank => ~src[i].decl /\ src[i].open = OpenBefore(src, i)
    BY SourceType DEF KeepInv, Next, SkipsBlank, OpensDecl, AddsLine, Finishes, vars
  <1>1. WellBraced /\ Readable
    BY <1>0 DEF WellBraced, Readable
  <1>2. /\ ~done => OpenChunk
        /\ Apart(chunks) /\ Whole(chunks)
    BY <1>1 DEF CutInv
  <1>3. /\ \A i : Top(i)' <=> Top(i)
        /\ \A i : TopDecl(i)' <=> TopDecl(i)
        /\ \A i : Cut(i)' <=> Cut(i)
    BY <1>0 DEF Top, TopDecl, Cut
  <1>4. \A cs, e : /\ Apart(cs) <=> Apart(cs)'
                   /\ ApartFrom(cs, e) <=> ApartFrom(cs, e)'
                   /\ Whole(cs) <=> Whole(cs)'
    BY <1>3 DEF Apart, ApartFrom, Whole, Uncut
  <1>5. next \in 1..Len(src) + 1 /\ start \in 0..next - 1
    BY DEF KeepInv, TypeOK
  <1>6. Accounts(chunks, Edge) /\ src \in Sources
    BY DEF KeepInv
  <1>7. ASSUME ~done, next <= Len(src)
        PROVE  /\ next \in DOMAIN src /\ OpenBefore(src, next + 1) = src[next].open
               /\ src[next].open >= 0 /\ NewDepth = src[next].open
    BY <1>0, <1>1, <1>2, <1>5, <1>7
       DEF OpenBefore, WellBraced, NewDepth, Braces, Line, OpenChunk
  <1>8. CASE SkipsBlank
    <2>1. /\ ~done /\ done' = done /\ next \in DOMAIN src /\ start = 0 /\ start' = 0
          /\ next' = next + 1 /\ depth' = depth /\ inDecl' = inDecl
          /\ chunks' = chunks /\ src[next].blank
      BY <1>0, <1>5, <1>8 DEF SkipsBlank, Line
    <2>2. Top(next) /\ ~inDecl /\ depth = OpenBefore(src, next) /\ ApartFrom(chunks, next)
      BY <2>1, <1>2 DEF OpenChunk, Edge
    <2>3. Top(next + 1) /\ depth = OpenBefore(src, next + 1)
      BY <2>1, <2>2, <1>0, <1>7 DEF Top
    <2>4. ApartFrom(chunks, next + 1)
      <3>1. \A a \in DOMAIN chunks : chunks[a].to \in 1..Len(src)
        BY <1>6, ChunkBounds DEF Accounts
      <3> QED
        BY <3>1, <2>2, <1>5 DEF ApartFrom
    <2> QED
      BY <2>1, <2>2, <2>3, <2>4, <1>0, <1>2, <1>3, <1>4 DEF OpenChunk, Edge
  <1>9. CASE OpensDecl
    <2>1. /\ ~done /\ done' = done /\ next \in DOMAIN src /\ next' = next + 1
          /\ depth' = NewDepth /\ depth = 0 /\ ~inDecl /\ src[next].decl
          /\ ~src[next].blank
      BY <1>0, <1>5, <1>9 DEF OpensDecl, IsDecl, Line
    <2>2. Top(next) /\ TopDecl(next) /\ Cut(next) /\ depth' = OpenBefore(src, next + 1)
      BY <2>1, <1>0, <1>2, <1>7 DEF OpenChunk, Top, TopDecl, Cut
    <2> DEFINE cs == Flush(next - 1)
    <2>3. Apart(cs) /\ Whole(cs) /\ ApartFrom(cs, next) /\ Accounts(cs, next)
      <3>1. CASE start = 0
        BY <3>1, <2>1, <1>2, <1>6 DEF Flush, OpenChunk, Edge
      <3>2. CASE start # 0
        <4>1. /\ start \in 1..Len(src) /\ next - 1 \in 1..Len(src)
              /\ start <= next - 1 /\ Accounts(chunks, start)
              /\ ApartFrom(chunks, start) /\ (next - 1) + 1 = next
              /\ ~src[start].blank
          BY <3>2, <2>1, <1>0, <1>2, <1>5, <1>6 DEF Edge, OpenChunk, KeepInv
        <4>2. Uncut(start, next - 1)
          BY <4>1, <3>2, <2>1, <1>2, RunUncut DEF OpenChunk
        <4>3. cs = Append(chunks, [from |-> start, to |-> next - 1])
          BY <3>2 DEF Flush
        <4>4. Accounts(Append(chunks, [from |-> start, to |-> next - 1]), next)
          BY <4>1, <1>6, AddChunk
        <4> QED
          BY <4>1, <4>2, <4>3, <4>4, <2>2, <1>2, <1>6, AddWhole
      <3> QED
        BY <3>1, <3>2
    <2> HIDE DEF cs
    <2>4. CASE NewDepth <= 0
      <3>1. /\ chunks' = Append(cs, [from |-> next, to |-> next])
            /\ start' = 0 /\ ~inDecl'
        BY <2>4, <1>9 DEF OpensDecl, cs
      <3>2. Top(next + 1)
        BY <2>1, <2>4, <1>0, <1>7 DEF Top
      <3>3. Cut(next + 1) /\ Uncut(next, next)
        BY <3>2, <2>1, <2>2, <1>0, <1>1, CutAfterDecl DEF Readable
      <3>4. Apart(chunks') /\ Whole(chunks') /\ ApartFrom(chunks', next + 1)
        BY <3>1, <3>3, <2>1, <2>3, <1>0, <1>6, AddWhole
      <3>5. Edge' = next + 1
        BY <3>1, <2>1 DEF Edge
      <3> QED
        BY <3>1, <3>2, <3>4, <3>5, <2>1, <2>2, <1>0, <1>3, <1>4 DEF OpenChunk
    <2>5. CASE ~(NewDepth <= 0)
      <3>1. chunks' = cs /\ start' = next /\ inDecl'
        BY <2>5, <1>9 DEF OpensDecl, cs
      <3>2. ~Top(next + 1)
        BY <2>1, <2>5, <1>0, <1>7 DEF Top
      <3>3. Edge' = next /\ \A j \in next + 1..next + 1 : ~Top(j)
        BY <3>1, <3>2, <2>1, <1>0 DEF Edge
      <3>4. start' # 0
        BY <3>1, <1>5
      <3> QED
        BY <3>1, <3>3, <3>4, <2>1, <2>2, <2>3, <1>0, <1>3, <1>4 DEF OpenChunk
    <2> QED
      BY <2>4, <2>5
  <1>10. CASE AddsLine
    <2> DEFINE first == IF start = 0 THEN next ELSE start
    <2>1. /\ ~done /\ done' = done /\ next \in DOMAIN src /\ next' = next + 1
          /\ depth' = NewDepth
          /\ first \in 1..Len(src) /\ first <= next /\ first # 0
          /\ Edge = first
      BY <1>0, <1>5, <1>10 DEF AddsLine, Edge
    <2>2. /\ Top(first) /\ ApartFrom(chunks, first) /\ depth' = OpenBefore(src, next + 1)
          /\ Accounts(chunks, first)
      BY <2>1, <1>2, <1>6, <1>7 DEF OpenChunk
    <2>3. inDecl => TopDecl(first) /\ \A j \in first + 1..next : ~Top(j)
      BY <2>2, <2>1, <1>2 DEF OpenChunk, TopDecl
    <2>4. CASE inDecl /\ NewDepth <= 0
      <3>1. /\ chunks' = Append(chunks, [from |-> first, to |-> next])
            /\ start' = 0 /\ ~inDecl'
        BY <2>4, <1>10 DEF AddsLine
      <3>2. Top(next + 1)
        BY <2>1, <2>4, <1>0, <1>7 DEF Top
      <3>3. Cut(next + 1) /\ Uncut(first, next)
        <4>1. /\ first \in Nat \ {0} /\ next \in Nat /\ first <= next
              /\ TopDecl(first) /\ \A j \in first + 1..next : ~Top(j)
              /\ ~src[next].misread
          BY <2>1, <2>3, <2>4, <1>0, <1>1 DEF Readable
        <4> HIDE DEF first
        <4> QED
          BY <4>1, <3>2, CutAfterDecl
      <3>4. Apart(chunks') /\ Whole(chunks') /\ ApartFrom(chunks', next + 1)
        BY <3>1, <3>3, <2>1, <2>2, <1>0, <1>2, <1>6, AddWhole
      <3>5. Edge' = next + 1
        BY <3>1, <2>1 DEF Edge
      <3> QED
        BY <3>1, <3>2, <3>4, <3>5, <2>1, <2>2, <1>0, <1>3, <1>4 DEF OpenChunk
    <2>5. CASE ~(inDecl /\ NewDepth <= 0)
      <3>1. chunks' = chunks /\ start' = first /\ inDecl' = inDecl
        BY <2>5, <1>10 DEF AddsLine
      <3>2. Edge' = first
        BY <3>1, <2>1 DEF Edge
      <3>3. inDecl => src[first].decl /\ \A j \in first + 1..next + 1 : ~Top(j)
        <4>1. inDecl => ~Top(next + 1)
          BY <2>1, <2>5, <1>0, <1>7 DEF Top
        <4> QED
          BY <4>1, <2>1, <2>3, <1>0 DEF TopDecl
      <3>4. ~inDecl => \A k \in first..next : ~TopDecl(k)
        <4>1. ~inDecl => ~TopDecl(next)
          BY <2>1, <1>0, <1>2, <1>10
             DEF AddsLine, IsDecl, Line, TopDecl, Top, OpenChunk
        <4> QED
          BY <4>1, <2>1, <1>0, <1>2 DEF OpenChunk
      <3>5. (next + 1) - 1 = next
        BY <1>5
      <3> QED
        BY <3>1, <3>2, <3>3, <3>4, <3>5, <2>1, <2>2, <1>0, <1>2, <1>3, <1>4
           DEF OpenChunk
    <2> QED
      BY <2>4, <2>5
  <1>11. CASE Finishes
    <2>1. /\ ~done /\ done' /\ next = Len(src) + 1 /\ chunks' = Flush(Len(src))
      BY <1>0, <1>5, <1>11 DEF Finishes
    <2>2. Apart(chunks') /\ Whole(chunks')
      <3>1. CASE start = 0
        BY <3>1, <2>1, <1>2 DEF Flush
      <3>2. CASE start # 0
        <4>1. /\ start \in 1..Len(src) /\ Len(src) \in 1..Len(src)
              /\ start <= Len(src) /\ Accounts(chunks, start)
              /\ ApartFrom(chunks, start)
          BY <3>2, <2>1, <1>0, <1>2, <1>5, <1>6 DEF Edge, OpenChunk
        <4>2. CASE inDecl
          <5>1. Uncut(start, Len(src))
            BY <4>1, <4>2, <2>1, <1>0, <1>2 DEF Uncut, Cut, OpenChunk
          <5> QED
            BY <5>1, <4>1, <3>2, <2>1, <1>2, <1>6, AddWhole DEF Flush
        <4>3. CASE ~inDecl
          <5>1. Uncut(start, Len(src))
            BY <4>1, <4>3, <3>2, <2>1, <1>0, <1>2, RunUncut DEF OpenChunk
          <5> QED
            BY <5>1, <4>1, <3>2, <2>1, <1>2, <1>6, AddWhole DEF Flush
        <4> QED
          BY <4>2, <4>3
      <3> QED
        BY <3>1, <3>2
    <2> QED
      BY <2>1, <2>2, <1>4
  <1>12. CASE UNCHANGED vars
    BY <1>2, <1>3, <1>4, <1>12 DEF vars, OpenChunk, Edge
  <1> QED
    BY <1>8, <1>9, <1>10, <1>11, <1>12 DEF Next

(* In every source whose braces match and tell where each declaration      *)
(* ends (no grouped import or var block), each top-level declaration is a  *)
(* chunk of its own and the statements between two of them share one.      *)
THEOREM ChunkCutsAtDeclarations == Spec => []CutsAtDeclarations
  <1>1. KeepInv /\ CutInv => CutsAtDeclarations
    <2> SUFFICES ASSUME KeepInv, CutInv, done, WellBraced, Readable,
                        NEW i \in CodeLines, NEW j \in CodeLines, i < j
                 PROVE  Together(i, j) <=> \A k \in i + 1..j : ~Cut(k)
      BY DEF CutsAtDeclarations
    <2>1. /\ Apart(chunks) /\ Whole(chunks) /\ Accounts(chunks, Len(src) + 1)
          /\ src \in Sources
      BY DEF CutInv, KeepInv, Edge
    <2>2. Len(src) \in Nat /\ i \in 1..Len(src) /\ j \in 1..Len(src)
      BY <2>1, SourceType DEF CodeLines
    <2>3. /\ \A c \in DOMAIN chunks : /\ chunks[c].from \in 1..Len(src)
                                      /\ chunks[c].to \in 1..Len(src)
          /\ \A c \in DOMAIN chunks : c \in Nat
      <3>1. chunks \in Seq(Intervals)
        BY <2>1 DEF Accounts
      <3> QED
        BY <3>1, ChunkBounds
    <2>4. ASSUME Together(i, j) PROVE \A k \in i + 1..j : ~Cut(k)
      <3>1. PICK c \in DOMAIN chunks : In(i, chunks[c]) /\ In(j, chunks[c])
        BY <2>4 DEF Together
      <3>2. \A k \in i + 1..j : k \in chunks[c].from + 1..chunks[c].to
        BY <3>1, <2>2, <2>3 DEF In
      <3> QED
        BY <3>2, <2>1 DEF Whole, Uncut
    <2>5. ASSUME \A k \in i + 1..j : ~Cut(k) PROVE Together(i, j)
      <3>1. PICK c \in DOMAIN chunks : In(i, chunks[c])
        BY <2>1, <2>2 DEF Accounts, Holds
      <3>2. PICK d \in DOMAIN chunks : In(j, chunks[d])
        BY <2>1, <2>2 DEF Accounts, Holds
      <3>3. CASE c = d
        BY <3>1, <3>2, <3>3 DEF Together
      <3>4. CASE c < d
        <4>1. PICK k \in chunks[c].to + 1..chunks[d].from : Cut(k)
          BY <3>4, <2>1 DEF Apart
        <4>2. k \in i + 1..j
          BY <4>1, <3>1, <3>2, <2>2, <2>3 DEF In
        <4> QED
          BY <4>1, <4>2, <2>5
      <3>5. CASE d < c
        <4>1. chunks[d].to < chunks[c].from
          BY <3>5, <2>1 DEF Accounts
        <4> QED
          BY <4>1, <3>1, <3>2, <2>2, <2>3 DEF In
      <3> QED
        BY <3>3, <3>4, <3>5, <2>3
    <2> QED
      BY <2>4, <2>5
  <1> QED
    BY <1>1, KeepInit, KeepStep, CutInit, CutStep, PTL DEF Spec
=============================================================================
