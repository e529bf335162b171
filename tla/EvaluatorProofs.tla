-------------------------- MODULE EvaluatorProofs --------------------------
(***************************************************************************)
(* The Go evaluator, for any cells, code, goroutines, names and packages:  *)
(* what a cell leaves to the goroutines and cells after it.                *)
(***************************************************************************)
EXTENDS Evaluator, SequenceTheorems, TLAPS

(* The slots follow the cell in Run; a cell that runs has no outcome yet.  *)
Place ==
  /\ running = NoCell <=> pc = "idle"
  /\ pc \in {"idle", "ended"} => slotCtx = NoCell
  /\ pc # "idle" => latest = running
  /\ slotOut = latest
  /\ pc \in {"eval", "calling", "error"} => outcome[running] = "none"
  /\ pc = "calling" => rest # <<>> /\ Head(rest).kind = "call"

(* What is still to evaluate is code of the cell in Run.                   *)
RestOfCode == pc # "idle" => Range(rest) \subseteq Range(Code[running])

(* A goroutine that exists was started by a cell.                          *)
Started ==
  \A g \in Goroutines :
    go[g] # "unborn" => latest \in Cells /\ \E c \in Cells : Starts(c, g)

PlaceInv == Place /\ RestOfCode /\ Started

(* A call a goroutine began between cells holds the root context.          *)
HoldsRoot ==
  \A g \in Goroutines : g \in between /\ go[g] = "calling" => goCtx[g] = NoCell

(* What is behind a cell is done: names exist, packages are bound.         *)
Done(k) ==
  /\ k.kind = "decl" => k.name \in globals
  /\ k.kind = "import" => k.paths \subseteq bound \union poisoned

BehindDone ==
  pc \in {"eval", "calling"} =>
    \A k \in Range(Code[running]) : k \in Range(rest) \/ Done(k)

MarkedBound == imported \subseteq bound \union poisoned

NameInv == BehindDone /\ MarkedBound /\ MirrorSound /\ ImportsBound

-----------------------------------------------------------------------------
(* What a chunk carries.                                                   *)
LEMMA ChunkShape ==
  ASSUME NEW k \in Chunks
  PROVE  /\ k.kind \in {"import", "lookalike"} => k.paths \in SUBSET Packages
         /\ k.kind \in {"lookalike", "decl"} => k.name \in Names
         /\ k.kind = "go" => k.go \in Goroutines /\ k = [kind |-> "go", go |-> k.go]
  BY DEF Chunks

(* The chunk in front, and what is left behind it.                         *)
LEMMA HeadChunk ==
  ASSUME TypeOK, rest # <<>>
  PROVE  /\ Head(rest) \in Chunks /\ Tail(rest) \in Seq(Chunks)
         /\ Range(rest) = Range(Tail(rest)) \union {Head(rest)}
  <1> DEFINE t == Tail(rest)
             h == Head(rest)
  <1>1. h \in Chunks /\ t \in Seq(Chunks)
    BY HeadTailProperties DEF TypeOK
  <1>2. /\ 1 \in DOMAIN rest /\ h = rest[1]
        /\ \A i \in DOMAIN t : i + 1 \in DOMAIN rest /\ t[i] = rest[i + 1]
        /\ \A i \in DOMAIN rest : i # 1 => i - 1 \in DOMAIN t /\ t[i - 1] = rest[i]
    BY DEF TypeOK
  <1> HIDE DEF t, h
  <1>3. Range(rest) = Range(t) \union {h}
    BY <1>2 DEF Range
  <1> QED
    BY <1>1, <1>3 DEF t, h

(* The steps that go on to the next chunk.                                 *)
Consumes == \/ SkipsMarked \/ EvalImport \/ EvalLookalike \/ EvalDecl \/ EvalGo
            \/ EvalFail \/ CallEnds \/ CallAborts

(* A chunk that is gone over leaves the cell, its slots and its goroutines *)
(* but one as they were.                                                   *)
LEMMA ConsumeStep ==
  ASSUME TypeOK, PlaceInv, Consumes
  PROVE  /\ pc \in {"eval", "calling"} /\ running \in Cells
         /\ pc' \in {"eval", "error"}
         /\ UNCHANGED <<running, slotVars, outcome, ctxVars, scope, revived, latest, prints,
                        between, goCtx>>
  <1>1. /\ pc \in {"eval", "calling"} /\ pc' \in {"eval", "error"}
        /\ UNCHANGED <<running, slotVars, outcome, ctxVars, scope, revived, latest, prints,
                       between, goCtx>>
    BY DEF Consumes, SkipsMarked, EvalImport, EvalLookalike, EvalDecl, EvalGo, EvalFail,
           CallEnds, CallAborts, Evaluates, Breaks, nameVars, goVars, ctxVars, slotVars
  <1> QED
    BY <1>1 DEF TypeOK, PlaceInv, Place

(* The types are kept, and so is where the evaluator is.                   *)
LEMMA TypeStep == TypeOK /\ PlaceInv /\ [Next]_vars => TypeOK'
  <1> SUFFICES ASSUME TypeOK, PlaceInv, [Next]_vars PROVE TypeOK'
    OBVIOUS
  <1> USE EvaluatorAssumption
  <1> USE DEF TypeOK, runVars, slotVars, nameVars, ctxVars, goVars
  <1>1. CASE SkipsMarked
    BY <1>1, HeadChunk DEF SkipsMarked
  <1>2. CASE EvalImport
    <2>1. Head(rest).paths \in SUBSET Packages
      BY <1>2, HeadChunk, ChunkShape DEF EvalImport, Evaluates
    <2>2. bound' \in SUBSET Packages /\ poisoned' \in SUBSET Packages /\ imported' \in SUBSET Packages
      BY <1>2, <2>1 DEF EvalImport, Marks
    <2>3. pc' \in {"eval", "error"} /\ rest' \in Seq(Chunks)
      BY <1>2, HeadChunk DEF EvalImport, Evaluates, Breaks
    <2> QED
      BY <1>2, <2>2, <2>3 DEF EvalImport, Evaluates
  <1>3. CASE EvalLookalike
    <2>1. Head(rest).paths \in SUBSET Packages /\ Head(rest).name \in Names
      BY <1>3, HeadChunk, ChunkShape DEF EvalLookalike, Evaluates
    <2> QED
      BY <1>3, <2>1, HeadChunk DEF EvalLookalike, Evaluates, Marks
  <1>4. CASE EvalDecl
    <2>1. Head(rest).name \in Names
      BY <1>4, HeadChunk, ChunkShape DEF EvalDecl, Evaluates
    <2> QED
      BY <1>4, <2>1, HeadChunk DEF EvalDecl, Evaluates
  <1>5. CASE EvalGo \/ EvalFail
    BY <1>5, HeadChunk DEF EvalGo, EvalFail, Evaluates, Breaks
  <1>12. CASE CallBegins
    BY <1>12 DEF CallBegins
  <1>13. CASE CallAborts \/ CallEnds
    BY <1>13, HeadChunk DEF CallAborts, CallEnds, PlaceInv, Place
  <1>6. CASE RunFails \/ RunInterrupted \/ RunSucceeds \/ CellCleanup
    <2>1. running \in Cells
      BY <1>6 DEF RunFails, RunInterrupted, RunSucceeds, CellCleanup, PlaceInv, Place
    <2>2. Declared(running) \in SUBSET Names
      <3>1. \A k \in Range(Code[running]) : k \in Chunks
        BY <2>1 DEF Range
      <3> QED
        BY <3>1, ChunkShape DEF Declared, Disguised, ChunksOf
    <2>3. \A o \in {"ok", "error", "interrupted"} :
            [outcome EXCEPT ![running] = o] \in [Cells -> {"none", "ok", "error", "interrupted"}]
      BY <2>1
    <2>4. CASE RunFails \/ RunInterrupted
      BY <2>3, <2>4 DEF RunFails, RunInterrupted, RunEnds
    <2>5. CASE RunSucceeds
      BY <2>2, <2>3, <2>5 DEF RunSucceeds, RunEnds
    <2>6. CASE CellCleanup
      BY <2>1, <2>6 DEF CellCleanup
    <2> QED
      BY <1>6, <2>4, <2>5, <2>6
  <1>7. ASSUME NEW c \in Cells, RunBegins(c) \/ Interrupt(c) PROVE TypeOK'
    BY <1>7 DEF RunBegins, Interrupt
  <1>8. ASSUME NEW g \in Goroutines, GoCalls(g) \/ GoReturns(g) \/ GoAborts(g)
        PROVE  TypeOK'
    BY <1>8 DEF GoCalls, GoReturns, GoAborts, GoKeeps
  <1>9. ASSUME NEW g \in Goroutines, GoPrints(g) PROVE TypeOK'
    <2>1. latest \in Cells /\ slotOut \in Cells
      BY <1>9 DEF GoPrints, PlaceInv, Place, Started
    <2>2. SpawnerOf(g) \in Cells
      BY <1>9 DEF GoPrints, PlaceInv, Started, SpawnerOf
    <2> QED
      BY <1>9, <2>1, <2>2 DEF GoPrints, GoKeeps
  <1>10. ASSUME NEW n \in Names, Revive(n) PROVE TypeOK'
    BY <1>10 DEF Revive
  <1>11. CASE RootStops \/ UNCHANGED vars
    BY <1>11 DEF RootStops, vars
  <1> QED
    BY <1>1, <1>2, <1>3, <1>4, <1>5, <1>6, <1>7, <1>8, <1>9, <1>10, <1>11,
       <1>12, <1>13
       DEF Next, Run, Proceeds

(* Where the evaluator is stays known.                                     *)
LEMMA PlaceStep == TypeOK /\ TypeOK' /\ PlaceInv /\ [Next]_vars => PlaceInv'
  <1> SUFFICES ASSUME TypeOK, TypeOK', PlaceInv, [Next]_vars PROVE PlaceInv'
    OBVIOUS
  <1> USE EvaluatorAssumption
  <1>1. ASSUME UNCHANGED <<running, pc, rest, slotCtx, slotOut, outcome, latest>>,
               \A g \in Goroutines : go[g] = "unborn" => go'[g] = "unborn"
        PROVE  PlaceInv'
    BY <1>1 DEF PlaceInv, Place, RestOfCode, Started
  <1>2. CASE Consumes
    <2>1. /\ pc \in {"eval", "calling"} /\ running \in Cells
          /\ pc' \in {"eval", "error"}
          /\ UNCHANGED <<running, slotCtx, slotOut, outcome, latest>>
      BY <1>2, ConsumeStep DEF slotVars
    <2>2. Place'
      BY <2>1 DEF PlaceInv, Place
    <2>3. CASE rest # <<>> /\ rest' = Tail(rest)
      <3>1. RestOfCode'
        BY <2>1, <2>3, HeadChunk DEF PlaceInv, RestOfCode
      <3>2. CASE EvalGo
        <4> DEFINE h == Head(rest).go
        <4>1. /\ Head(rest) \in Range(Code[running]) /\ h \in Goroutines
              /\ Head(rest) = [kind |-> "go", go |-> h]
          BY <2>1, <2>3, <3>2, HeadChunk, ChunkShape
             DEF EvalGo, Evaluates, PlaceInv, RestOfCode
        <4>2. Starts(running, h)
          BY <4>1 DEF Starts, Range
        <4>3. go' = [go EXCEPT ![h] = "alive"] /\ latest \in Cells
          BY <2>1, <3>2 DEF EvalGo, PlaceInv, Place
        <4> HIDE DEF h
        <4>4. Started'
          BY <2>1, <4>2, <4>3 DEF PlaceInv, Started, TypeOK
        <4> QED
          BY <2>2, <3>1, <4>4 DEF PlaceInv
      <3>3. CASE go' = go
        BY <2>1, <2>2, <3>1, <3>3 DEF PlaceInv, Started
      <3> QED
        BY <1>2, <3>2, <3>3
           DEF Consumes, SkipsMarked, EvalImport, EvalLookalike, EvalDecl, EvalFail, CallEnds,
               CallAborts, goVars
    <2> QED
      BY <1>2, <2>3
         DEF Consumes, SkipsMarked, EvalImport, EvalLookalike, EvalDecl, EvalGo, EvalFail,
             CallEnds, CallAborts, Evaluates, PlaceInv, Place
  <1>3. CASE CallBegins
    BY <1>3 DEF CallBegins, slotVars, goVars, PlaceInv, Place, RestOfCode, Started
  <1>4. CASE RunFails \/ RunInterrupted \/ RunSucceeds
    BY <1>4 DEF RunFails, RunInterrupted, RunSucceeds, RunEnds, goVars, PlaceInv, Place,
                RestOfCode, Started
  <1>5. CASE CellCleanup
    BY <1>5 DEF CellCleanup, slotVars, goVars, PlaceInv, Place, RestOfCode, Started
  <1>6. ASSUME NEW c \in Cells, RunBegins(c) PROVE PlaceInv'
    BY <1>6 DEF RunBegins, PlaceInv, Place, RestOfCode, Started
  <1>7. ASSUME NEW g \in Goroutines, GoCalls(g) \/ GoReturns(g) \/ GoAborts(g) \/ GoPrints(g)
        PROVE  PlaceInv'
    BY <1>1, <1>7 DEF GoCalls, GoReturns, GoAborts, GoPrints, GoKeeps, runVars, slotVars, TypeOK
  <1>8. CASE \/ \E c \in Cells : Interrupt(c)
             \/ \E n \in Names : Revive(n)
             \/ RootStops \/ UNCHANGED vars
    BY <1>1, <1>8 DEF Interrupt, Revive, RootStops, vars, runVars, slotVars, goVars
  <1> QED
    BY <1>2, <1>3, <1>4, <1>5, <1>6, <1>7, <1>8 DEF Next, Run, Proceeds, Consumes

(* The evaluator's variables keep their types.                             *)
LEMMA TypesKept == Spec => [](TypeOK /\ PlaceInv)
  <1>1. ASSUME Init PROVE TypeOK /\ PlaceInv
    <2>1. Range(<<>>) = {} /\ <<>> \in Seq(Chunks)
      BY DEF Range
    <2> QED
      BY <1>1, <2>1 DEF Init, TypeOK, PlaceInv, Place, RestOfCode, Started
  <1> QED
    BY <1>1, TypeStep, PlaceStep, PTL DEF Spec

(* The evaluator's variables keep their types, for any code.               *)
THEOREM EvaluatorTypes == Spec => []TypeOK
  BY TypesKept, PTL

-----------------------------------------------------------------------------
(* Goroutines.                                                             *)

(* A call that began between cells is only stopped by the root context.    *)
LEMMA RootedStep ==
  TypeOK /\ PlaceInv /\ HoldsRoot /\ RootedCallSurvives /\ [Next]_vars
    => (HoldsRoot /\ RootedCallSurvives)'
  <1> SUFFICES ASSUME TypeOK, PlaceInv, HoldsRoot, RootedCallSurvives, [Next]_vars
               PROVE  HoldsRoot' /\ RootedCallSurvives'
    OBVIOUS
  <1>1. ASSUME NEW g \in Goroutines, GoCalls(g) PROVE HoldsRoot' /\ RootedCallSurvives'
    <2>1. g \in between' => slotCtx = NoCell
      BY <1>1 DEF GoCalls, PlaceInv, Place
    <2>2. /\ go' = [go EXCEPT ![g] = "calling"] /\ goCtx' = [goCtx EXCEPT ![g] = slotCtx]
          /\ \A h \in Goroutines : h # g => (h \in between' <=> h \in between)
          /\ rootDone' = rootDone
      BY <1>1 DEF GoCalls, GoKeeps, ctxVars
    <2> QED
      BY <2>1, <2>2 DEF TypeOK, HoldsRoot, RootedCallSurvives
  <1>2. ASSUME NEW g \in Goroutines, GoAborts(g) PROVE HoldsRoot' /\ RootedCallSurvives'
    <2>1. go[g] = "calling" /\ (goCtx[g] = NoCell => rootDone)
      BY <1>2, EvaluatorAssumption DEF GoAborts, CtxDone, TypeOK
    <2> QED
      BY <1>2, <2>1 DEF GoAborts, GoKeeps, ctxVars, TypeOK, HoldsRoot, RootedCallSurvives
  <1>3. ASSUME NEW g \in Goroutines, GoReturns(g) PROVE HoldsRoot' /\ RootedCallSurvives'
    BY <1>3 DEF GoReturns, GoKeeps, ctxVars, TypeOK, HoldsRoot, RootedCallSurvives
  <1>4. CASE EvalGo
    <2>1. PICK h : go' = [go EXCEPT ![h] = "alive"] /\ UNCHANGED <<goCtx, between, rootDone>>
      BY <1>4 DEF EvalGo, Evaluates, ctxVars
    <2> QED
      BY <2>1 DEF TypeOK, HoldsRoot, RootedCallSurvives
  <1>5. ASSUME UNCHANGED <<go, goCtx, between>>, rootDone => rootDone'
        PROVE  HoldsRoot' /\ RootedCallSurvives'
    BY <1>5 DEF HoldsRoot, RootedCallSurvives
  <1>6. CASE Run /\ ~EvalGo
    BY <1>5, <1>6
       DEF Run, Proceeds, SkipsMarked, EvalImport, EvalLookalike, EvalDecl, EvalFail,
           CallBegins, CallAborts, RunFails, RunInterrupted, RunSucceeds, RunEnds, CellCleanup,
           CallEnds, RunBegins, Evaluates, goVars, ctxVars
  <1>7. CASE \/ \E g \in Goroutines : GoPrints(g)
             \/ \E c \in Cells : Interrupt(c)
             \/ \E n \in Names : Revive(n)
             \/ RootStops \/ UNCHANGED vars
    BY <1>5, <1>7
       DEF GoPrints, GoKeeps, Interrupt, Revive, RootStops, vars, goVars, ctxVars
  <1> QED
    BY <1>1, <1>2, <1>3, <1>4, <1>6, <1>7 DEF Next

(* A helper a goroutine calls between cells is stopped by no interrupt and *)
(* by no cell's end, whatever cells run while it waits.                    *)
THEOREM EvaluatorSparesRooted == Spec => []RootedCallSurvives
  <1>1. ASSUME Init PROVE HoldsRoot /\ RootedCallSurvives
    BY <1>1 DEF Init, HoldsRoot, RootedCallSurvives
  <1> QED
    BY <1>1, TypesKept, RootedStep, PTL DEF Spec

Attributed == \A p \in prints : p.tag = p.latest

(* Output is attributed to the cell that began last, which is the one that *)
(* started the goroutine as long as no other has begun.                    *)
THEOREM EvaluatorAttributes == Spec => []OutputAttributed
  <1>1. ASSUME Init PROVE Attributed
    BY <1>1 DEF Init, Attributed
  <1>2. ASSUME TypeOK, PlaceInv, Attributed, [Next]_vars PROVE Attributed'
    <2>1. ASSUME NEW g \in Goroutines, GoPrints(g) PROVE Attributed'
      BY <1>2, <2>1 DEF GoPrints, PlaceInv, Place, Attributed
    <2>2. ASSUME UNCHANGED prints PROVE Attributed'
      BY <1>2, <2>2 DEF Attributed
    <2>3. CASE Run
      BY <2>2, <2>3
         DEF Run, Proceeds, SkipsMarked, EvalImport, EvalLookalike, EvalDecl, EvalGo, EvalFail,
             CallBegins, CallAborts, RunFails, RunInterrupted, RunSucceeds, RunEnds,
             CellCleanup, CallEnds, RunBegins, goVars
    <2>4. CASE \/ \E g \in Goroutines : GoCalls(g) \/ GoReturns(g) \/ GoAborts(g)
               \/ \E c \in Cells : Interrupt(c)
               \/ \E n \in Names : Revive(n)
               \/ RootStops \/ UNCHANGED vars
      BY <2>2, <2>4
         DEF GoCalls, GoReturns, GoAborts, Interrupt, Revive, RootStops, vars, goVars
    <2> QED
      BY <1>2, <2>1, <2>3, <2>4 DEF Next
  <1>3. Attributed => OutputAttributed
    BY DEF Attributed, OutputAttributed
  <1> QED
    BY <1>1, <1>2, <1>3, TypesKept, PTL DEF Spec

-----------------------------------------------------------------------------
(* Names and packages.                                                     *)

(* Whatever grows stays done.                                              *)
LEMMA DoneStays ==
  ASSUME globals \subseteq globals', bound \union poisoned \subseteq bound' \union poisoned'
  PROVE  \A k : Done(k) => Done(k)'
  BY DEF Done

(* A chunk that is evaluated is done, and so is what was behind it.        *)
LEMMA ConsumeNames ==
  ASSUME TypeOK, PlaceInv, NameInv, Consumes
  PROVE  NameInv'
  <1>1. /\ pc \in {"eval", "calling"} /\ running \in Cells
        /\ UNCHANGED <<running, outcome, scope, revived>>
    BY ConsumeStep
  <1>2. rest # <<>> /\ rest' = Tail(rest)
    BY DEF Consumes, SkipsMarked, EvalImport, EvalLookalike, EvalDecl, EvalGo, EvalFail,
           CallEnds, CallAborts, Evaluates, PlaceInv, Place
  <1> DEFINE h == Head(rest)
  <1>3. /\ globals \subseteq globals' /\ bound \subseteq bound' /\ poisoned \subseteq poisoned'
    BY DEF Consumes, SkipsMarked, EvalImport, EvalLookalike, EvalDecl, EvalGo, EvalFail,
           CallEnds, CallAborts, Evaluates, nameVars
  <1>4. MarkedBound'
    <2>1. CASE EvalImport
      BY <2>1 DEF EvalImport, Marks, NameInv, MarkedBound
    <2>2. CASE EvalLookalike
      BY <2>2 DEF EvalLookalike, Marks, NameInv, MarkedBound
    <2>3. CASE imported' = imported
      BY <1>3, <2>3 DEF NameInv, MarkedBound
    <2> QED
      BY <2>1, <2>2, <2>3
         DEF Consumes, SkipsMarked, EvalDecl, EvalGo, EvalFail, CallEnds, CallAborts, nameVars
  <1>5. pc' = "eval" => \A k : k = h => Done(k)'
    <2>1. CASE SkipsMarked
      BY <2>1 DEF SkipsMarked, NameInv, MarkedBound, Done, nameVars
    <2>2. CASE EvalImport
      BY <2>2 DEF EvalImport, Evaluates, Done, Breaks
    <2>3. CASE EvalDecl
      BY <2>3 DEF EvalDecl, Evaluates, Done
    <2>4. CASE EvalLookalike \/ EvalGo \/ EvalFail
      BY <2>4 DEF EvalLookalike, EvalGo, EvalFail, Evaluates, Done
    <2>5. CASE CallEnds \/ CallAborts
      BY <2>5 DEF CallEnds, CallAborts, Done, PlaceInv, Place
    <2> QED
      BY <2>1, <2>2, <2>3, <2>4, <2>5 DEF Consumes
  <1> HIDE DEF h
  <1>6. Range(rest) = Range(rest') \union {h}
    BY <1>2, HeadChunk DEF h
  <1>7. \A k : Done(k) => Done(k)'
    BY <1>3, DoneStays
  <1>8. BehindDone'
    BY <1>1, <1>5, <1>6, <1>7, ConsumeStep DEF NameInv, BehindDone
  <1>9. MirrorSound' /\ ImportsBound'
    BY <1>1, <1>3 DEF NameInv, MirrorSound, ImportsBound
  <1> QED
    BY <1>4, <1>8, <1>9 DEF NameInv

(* What a cell whose chunks are all behind it has declared and imported.   *)
LEMMA AllDone ==
  ASSUME TypeOK, PlaceInv, NameInv, pc = "eval", rest = <<>>
  PROVE  /\ Declared(running) \subseteq globals \union Disguised(running)
         /\ Imports(running) \subseteq bound \union poisoned
  <1>1. Range(rest) = {}
    BY DEF Range
  <1>2. \A k \in Range(Code[running]) : Done(k)
    BY <1>1 DEF NameInv, BehindDone
  <1> QED
    BY <1>2 DEF Declared, Imports, ChunksOf, Done

(* A cell ends: it mirrors its names only when it succeeds.                *)
LEMMA EndNames ==
  ASSUME TypeOK, TypeOK', PlaceInv, NameInv, RunFails \/ RunInterrupted \/ RunSucceeds
  PROVE  NameInv'
  <1>1. /\ pc' = "ended" /\ UNCHANGED <<imported, bound, globals, revived, poisoned>>
        /\ pc \in {"eval", "error"}
    BY DEF RunFails, RunInterrupted, RunSucceeds, RunEnds
  <1>2. running \in Cells /\ outcome[running] = "none"
    BY <1>1 DEF PlaceInv, Place, TypeOK
  <1>3. BehindDone' /\ MarkedBound'
    BY <1>1 DEF NameInv, BehindDone, MarkedBound
  <1>4. \A c \in Cells : c # running => outcome'[c] = outcome[c]
    BY DEF RunFails, RunInterrupted, RunSucceeds, RunEnds, TypeOK
  <1>5. \A c \in Cells : outcome[c] = "ok" => outcome'[c] = "ok"
    BY <1>2, <1>4
  <1>6. CASE RunFails \/ RunInterrupted
    <2>1. outcome'[running] # "ok" /\ scope' = scope
      BY <1>2, <1>6 DEF RunFails, RunInterrupted, RunEnds, TypeOK
    <2>2. ImportsBound'
      BY <1>1, <1>4, <2>1 DEF NameInv, ImportsBound
    <2>3. MirrorSound'
      BY <1>1, <1>5, <2>1 DEF NameInv, MirrorSound
    <2> QED
      BY <1>3, <2>2, <2>3 DEF NameInv
  <1>7. CASE RunSucceeds
    <2>1. /\ scope' = scope \union Declared(running) /\ outcome'[running] = "ok"
      BY <1>2, <1>7 DEF RunSucceeds, RunEnds, TypeOK
    <2>2. /\ Declared(running) \subseteq globals \union Disguised(running)
          /\ Imports(running) \subseteq bound \union poisoned
      BY <1>7, AllDone DEF RunSucceeds
    <2>3. ImportsBound'
      BY <1>1, <1>4, <2>2 DEF NameInv, ImportsBound
    <2>4. MirrorSound'
      <3>1. \A n \in scope : n \in globals' \union revived'
              \/ \E c \in Cells : outcome'[c] = "ok" /\ n \in Disguised(c)
        BY <1>1, <1>5 DEF NameInv, MirrorSound
      <3>2. \A n \in Declared(running) : n \in globals' \union revived'
              \/ \E c \in Cells : outcome'[c] = "ok" /\ n \in Disguised(c)
        BY <1>1, <1>2, <2>1, <2>2
      <3>3. \A n \in scope' : n \in globals' \union revived'
              \/ \E c \in Cells : outcome'[c] = "ok" /\ n \in Disguised(c)
        BY <2>1, <3>1, <3>2
      <3> QED
        BY <3>3 DEF MirrorSound
    <2> QED
      BY <1>3, <2>3, <2>4 DEF NameInv
  <1> QED
    BY <1>6, <1>7

(* No other step touches code, names or packages.                          *)
LEMMA OtherNames ==
  ASSUME TypeOK, PlaceInv, NameInv,
         \/ CallBegins \/ CellCleanup \/ RootStops \/ UNCHANGED vars
         \/ \E c \in Cells : RunBegins(c) \/ Interrupt(c)
         \/ \E n \in Names : Revive(n)
         \/ \E g \in Goroutines : GoCalls(g) \/ GoReturns(g) \/ GoAborts(g) \/ GoPrints(g)
  PROVE  NameInv'
  <1>1. /\ UNCHANGED <<outcome, imported, bound, globals, poisoned>>
        /\ \/ UNCHANGED <<scope, revived>>
           \/ \E n : scope' = scope \union {n} /\ revived' = revived \union {n}
    BY DEF CallBegins, CellCleanup, RootStops, vars, RunBegins, Interrupt, Revive, GoCalls,
           GoReturns, GoAborts, GoPrints, GoKeeps, nameVars
  <1>2. /\ MarkedBound' /\ ImportsBound'
    BY <1>1 DEF NameInv, MarkedBound, ImportsBound
  <1>3. MirrorSound'
    BY <1>1 DEF NameInv, MirrorSound
  <1>4. \A k : Done(k) => Done(k)'
    BY <1>1 DEF Done
  <1>5. BehindDone'
    <2>1. CASE CellCleanup
      BY <2>1 DEF CellCleanup, BehindDone
    <2>2. ASSUME NEW c \in Cells, RunBegins(c) PROVE BehindDone'
      BY <2>2 DEF RunBegins, BehindDone
    <2>3. CASE CallBegins
      BY <1>4, <2>3 DEF CallBegins, NameInv, BehindDone
    <2>4. ASSUME UNCHANGED <<running, pc, rest>> PROVE BehindDone'
      BY <1>4, <2>4 DEF NameInv, BehindDone
    <2> QED
      BY <2>1, <2>2, <2>3, <2>4
         DEF RootStops, vars, Interrupt, Revive, GoCalls, GoReturns, GoAborts, GoPrints,
             GoKeeps, runVars
  <1> QED
    BY <1>2, <1>3, <1>5 DEF NameInv

(* Names and packages are as the chunks behind each cell left them.        *)
LEMMA NamesKept == Spec => []NameInv
  <1>1. ASSUME Init PROVE NameInv
    BY <1>1 DEF Init, NameInv, BehindDone, MarkedBound, MirrorSound, ImportsBound
  <1>2. TypeOK /\ TypeOK' /\ PlaceInv /\ NameInv /\ [Next]_vars => NameInv'
    BY ConsumeNames, EndNames, OtherNames DEF Next, Run, Proceeds, Consumes
  <1> QED
    BY <1>1, <1>2, TypesKept, PTL DEF Spec

(* The scope holds no name that a cell failed to bring into being.         *)
THEOREM EvaluatorMirrors == Spec => []MirrorSound
  <1>1. NameInv => MirrorSound
    BY DEF NameInv
  <1> QED
    BY <1>1, NamesKept, PTL

(* A cell that succeeds has its packages, but for the paths that were      *)
(* marked by a chunk that did not import them.                             *)
THEOREM EvaluatorImports == Spec => []ImportsBound
  <1>1. NameInv => ImportsBound
    BY DEF NameInv
  <1> QED
    BY <1>1, NamesKept, PTL
=============================================================================
