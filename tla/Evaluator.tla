----------------------------- MODULE Evaluator -----------------------------
(***************************************************************************)
(* The Go evaluator (rlm/goeval.go): cells evaluated chunk by chunk in one *)
(* persistent interpreter, the slots through which helpers find the        *)
(* context and the output, the goroutines that outlive their cell, and the *)
(* mirroring of declared names into the kernel's scope.                    *)
(*                                                                         *)
(* A cell's code is the sequence of its chunks; a context is named after   *)
(* its cell, and NoCell names the root context.  Values are left out.      *)
(***************************************************************************)
EXTENDS Naturals, Sequences, FiniteSets, Functions

CONSTANTS
  Cells,       \* the cells, each run at most once
  NoCell,
  Goroutines,  \* goroutines cells start
  Names,       \* global names cells declare
  Packages,    \* import paths cells use
  Available,   \* the ones the interpreter can import
  Code,        \* Code[c]: the chunks of cell c
  HostAnswers  \* whether helper calls may end by themselves

(***************************************************************************)
(* Chunks, by what they do to the interpreter: import a set of paths,      *)
(* declare a name, start a goroutine, call a context-aware helper (Sleep,  *)
(* HostCall), or fail.  A look-alike declares a name, but its text begins  *)
(* with "import" and quotes paths: imports := []string{"fmt"}.             *)
(***************************************************************************)
Chunks == [kind : {"import"}, paths : SUBSET Packages]
          \union [kind : {"lookalike"}, name : Names, paths : SUBSET Packages]
          \union [kind : {"decl"}, name : Names]
          \union [kind : {"go"}, go : Goroutines]
          \union [kind : {"call", "fail"}]

ASSUME EvaluatorAssumption ==
  /\ NoCell \notin Cells
  /\ Available \subseteq Packages
  /\ Code \in [Cells -> Seq(Chunks)]
  /\ HostAnswers \in BOOLEAN

VARIABLES
  running,    \* the cell in Run, or NoCell
  pc,         \* where Run is
  rest,       \* the chunks still to evaluate
  slotCtx,    \* slots.ctx: the cell whose context it is, NoCell for the root
  slotOut,    \* slots.out: the cell it attributes output to
  held,       \* the context the cell's own helper call loaded
  outcome,    \* outcome[c]: how cell c ended
  imported,   \* GoEvaluator.imported
  bound,      \* the packages the interpreter has imported
  globals,    \* the names the interpreter knows
  scope,      \* the names mirrored into the kernel's scope
  cancelled,  \* cells whose context is cancelled
  rootDone,   \* the root context is cancelled
  go,         \* go[g]: the state of goroutine g
  goCtx,      \* goCtx[g]: the context its helper call loaded
  between,    \* history: goroutines whose call began between cells
  revived,    \* history: names a restore put into the scope
  poisoned,   \* history: paths marked by a chunk that did not import them
  latest,     \* history: the cell that began last
  prints      \* history: output of cell by's goroutine, tagged, after latest

runVars   == <<running, pc, rest, held>>
slotVars  == <<slotCtx, slotOut>>
nameVars  == <<imported, bound, globals, scope, revived, poisoned>>
ctxVars   == <<cancelled, rootDone>>
goVars    == <<go, goCtx, between, latest, prints>>
vars == <<runVars, slotVars, outcome, nameVars, ctxVars, goVars>>

CtxDone(c) == rootDone \/ c \in cancelled

(* The cell that starts goroutine g.                                       *)
Starts(c, g) == \E i \in DOMAIN Code[c] : Code[c][i] = [kind |-> "go", go |-> g]
SpawnerOf(g) == CHOOSE c \in Cells : Starts(c, g)

ChunksOf(c, kind) == {k \in Range(Code[c]) : k.kind = kind}

Disguised(c) == {k.name : k \in ChunksOf(c, "lookalike")}
Declared(c)  == {k.name : k \in ChunksOf(c, "decl")} \union Disguised(c)
Imports(c)   == UNION {k.paths : k \in ChunksOf(c, "import")}

-----------------------------------------------------------------------------
(* GoEvaluator.Run.                                                        *)

(* Mutant: the store at the start of the cell changes the output only.     *)
RunBeginsUnderRoot(c) ==
  /\ running = NoCell /\ outcome[c] = "none"
  /\ running' = c /\ pc' = "eval" /\ rest' = Code[c]
  /\ slotOut' = c /\ latest' = c
  /\ UNCHANGED <<held, outcome, slotCtx, nameVars, ctxVars,
                 go, goCtx, between, prints>>

(* A parked interrupt may have cancelled the context already.              *)
RunBegins(c) ==
  /\ running = NoCell /\ outcome[c] = "none"
  /\ running' = c /\ pc' = "eval" /\ rest' = Code[c]
  /\ slotCtx' = c /\ slotOut' = c /\ latest' = c
  /\ UNCHANGED <<held, outcome, nameVars, ctxVars, go, goCtx, between, prints>>

(* The head chunk is of this kind; evaluating it consumes it.              *)
Evaluates(kind) ==
  /\ pc = "eval" /\ rest # <<>>
  /\ Head(rest).kind = kind
  /\ rest' = Tail(rest)
  /\ UNCHANGED <<running, held, slotVars, outcome, ctxVars>>

(* The loop breaks at the first error.                                     *)
Breaks == pc' = "error"

(* Mutant: one path of the group that is marked is enough.                 *)
SkipsMarkedAny ==
  /\ pc = "eval" /\ rest # <<>> /\ Head(rest).kind \in {"import", "lookalike"}
  /\ Head(rest).paths \intersect imported # {}
  /\ rest' = Tail(rest)
  /\ UNCHANGED <<running, pc, held, slotVars, outcome, ctxVars, nameVars, goVars>>

(* A chunk whose paths are all marked is passed over, whatever it does.    *)
SkipsMarked ==
  /\ pc = "eval" /\ rest # <<>> /\ Head(rest).kind \in {"import", "lookalike"}
  /\ Head(rest).paths \subseteq imported
  /\ rest' = Tail(rest)
  /\ UNCHANGED <<running, pc, held, slotVars, outcome, ctxVars, nameVars, goVars>>

(* markImported notes the paths before the interpreter has seen them.      *)
Marks ==
  /\ ~(Head(rest).paths \subseteq imported)
  /\ imported' = imported \union Head(rest).paths

(* A grouped import that fails may have bound some of its paths.           *)
EvalImport ==
  LET paths == Head(rest).paths IN
  /\ Evaluates("import")
  /\ Marks
  /\ \/ /\ paths \subseteq Available
        /\ bound' = bound \union paths
        /\ UNCHANGED <<pc, poisoned>>
     \/ /\ ~(paths \subseteq Available)
        /\ \E some \in SUBSET (paths \intersect Available) :
             bound' = bound \union some
        /\ poisoned' = poisoned \union paths
        /\ Breaks
  /\ UNCHANGED <<globals, scope, revived, goVars>>

EvalLookalike ==
  /\ Evaluates("lookalike")
  /\ Marks
  /\ poisoned' = poisoned \union Head(rest).paths
  /\ globals' = globals \union {Head(rest).name}
  /\ UNCHANGED <<pc, bound, scope, revived, goVars>>

EvalDecl ==
  /\ Evaluates("decl")
  /\ globals' = globals \union {Head(rest).name}
  /\ UNCHANGED <<pc, imported, bound, scope, revived, poisoned, goVars>>

EvalGo ==
  /\ Evaluates("go")
  /\ go' = [go EXCEPT ![Head(rest).go] = "alive"]
  /\ UNCHANGED <<pc, nameVars, goCtx, between, latest, prints>>

EvalFail ==
  /\ Evaluates("fail")
  /\ Breaks
  /\ UNCHANGED <<nameVars, goVars>>

(* A helper loads the slots once, when it is called.                       *)
CallBegins ==
  /\ pc = "eval" /\ rest # <<>> /\ Head(rest).kind = "call"
  /\ held' = slotCtx
  /\ pc' = "calling"
  /\ UNCHANGED <<running, rest, slotVars, outcome, nameVars, ctxVars, goVars>>

CallEnds ==
  /\ pc = "calling" /\ HostAnswers
  /\ held' = NoCell /\ rest' = Tail(rest) /\ pc' = "eval"
  /\ UNCHANGED <<running, slotVars, outcome, nameVars, ctxVars, goVars>>

(* The context ends the call: HostCall panics, Sleep returns an error the  *)
(* code may ignore.                                                        *)
CallAborts ==
  /\ pc = "calling" /\ CtxDone(held)
  /\ held' = NoCell /\ rest' = Tail(rest)
  /\ pc' \in {"eval", "error"}
  /\ UNCHANGED <<running, slotVars, outcome, nameVars, ctxVars, goVars>>

(* Mutant: the deferred store is forgotten.                                *)
RunEndsKeepsSlot(o) ==
  /\ outcome' = [outcome EXCEPT ![running] = o]
  /\ pc' = "ended"
  /\ UNCHANGED <<running, rest, held, slotVars, imported, bound, globals,
                 revived, poisoned, ctxVars, goVars>>

(* Mutant: the deferred store drops the output with the context.           *)
RunEndsDropsOut(o) ==
  /\ outcome' = [outcome EXCEPT ![running] = o]
  /\ slotCtx' = NoCell /\ slotOut' = NoCell
  /\ pc' = "ended"
  /\ UNCHANGED <<running, rest, held, imported, bound, globals,
                 revived, poisoned, ctxVars, goVars>>

(* The deferred store puts the root context back; out keeps its value.     *)
RunEnds(o) ==
  /\ outcome' = [outcome EXCEPT ![running] = o]
  /\ slotCtx' = NoCell
  /\ pc' = "ended"
  /\ UNCHANGED <<running, rest, held, slotOut, imported, bound, globals,
                 revived, poisoned, ctxVars, goVars>>

(* Mutant: names are mirrored before the error is looked at.               *)
RunFailsMirrors ==
  /\ pc = "error"
  /\ \/ RunEnds("error")
     \/ CtxDone(running) /\ RunEnds("interrupted")
  /\ scope' = scope \union Declared(running)

(* An error that is not the context's own keeps its name.                  *)
RunFails ==
  /\ pc = "error"
  /\ \/ RunEnds("error")
     \/ CtxDone(running) /\ RunEnds("interrupted")
  /\ UNCHANGED scope

(* An interrupt the code swallowed still counts; no name is mirrored.      *)
RunInterrupted ==
  /\ pc = "eval" /\ rest = <<>>
  /\ CtxDone(running)
  /\ RunEnds("interrupted")
  /\ UNCHANGED scope

RunSucceeds ==
  /\ pc = "eval" /\ rest = <<>>
  /\ ~CtxDone(running)
  /\ scope' = scope \union Declared(running)
  /\ RunEnds("ok")

(* runRequest's deferred cancel, after the done event.                     *)
CellCleanup ==
  /\ pc = "ended"
  /\ cancelled' = cancelled \union {running}
  /\ running' = NoCell /\ pc' = "idle" /\ rest' = <<>>
  /\ UNCHANGED <<held, slotVars, outcome, nameVars, rootDone, goVars>>

(* What the executor's goroutine does by itself once a cell has begun.     *)
Proceeds == \/ SkipsMarked \/ EvalImport \/ EvalLookalike \/ EvalDecl \/ EvalGo \/ EvalFail
            \/ CallBegins \/ CallAborts
            \/ RunFails \/ RunInterrupted \/ RunSucceeds \/ CellCleanup

Run == Proceeds \/ CallEnds \/ \E c \in Cells : RunBegins(c)

-----------------------------------------------------------------------------
(* Background goroutines: native helper calls and print only.              *)

GoKeeps == UNCHANGED <<runVars, slotVars, outcome, nameVars, ctxVars>>

GoCalls(g) ==
  /\ go[g] = "alive"
  /\ go' = [go EXCEPT ![g] = "calling"]
  /\ goCtx' = [goCtx EXCEPT ![g] = slotCtx]
  /\ between' = IF pc \in {"idle", "ended"} THEN between \union {g}
                                           ELSE between \ {g}
  /\ GoKeeps /\ UNCHANGED <<latest, prints>>

GoReturns(g) ==
  /\ go[g] = "calling" /\ HostAnswers
  /\ go' = [go EXCEPT ![g] = "alive"]
  /\ goCtx' = [goCtx EXCEPT ![g] = NoCell]
  /\ GoKeeps /\ UNCHANGED <<between, latest, prints>>

GoAborts(g) ==
  /\ go[g] = "calling" /\ CtxDone(goCtx[g])
  /\ go' = [go EXCEPT ![g] = "aborted"]
  /\ GoKeeps /\ UNCHANGED <<goCtx, between, latest, prints>>

GoPrints(g) ==
  /\ go[g] = "alive"
  /\ prints' = prints \union
               {[by |-> SpawnerOf(g), tag |-> slotOut, latest |-> latest]}
  /\ GoKeeps /\ UNCHANGED <<go, goCtx, between, latest>>

-----------------------------------------------------------------------------
(* The kernel around the evaluator.                                        *)

Interrupt(c) ==
  /\ outcome[c] = "none"
  /\ cancelled' = cancelled \union {c}
  /\ UNCHANGED <<runVars, slotVars, outcome, nameVars, rootDone, goVars>>

(* A restore request, which the executor serves between cells, brings back *)
(* the names of a snapshot taken by this kernel or an earlier one.         *)
Revive(n) ==
  /\ running = NoCell
  /\ scope' = scope \union {n}
  /\ revived' = revived \union {n}
  /\ UNCHANGED <<runVars, slotVars, outcome, imported, bound, globals, poisoned,
                 ctxVars, goVars>>

RootStops ==
  /\ rootDone' = TRUE
  /\ UNCHANGED <<runVars, slotVars, outcome, nameVars, cancelled, goVars>>

Init ==
  /\ running = NoCell /\ pc = "idle" /\ rest = <<>> /\ held = NoCell
  /\ slotCtx = NoCell /\ slotOut = NoCell
  /\ outcome = [c \in Cells |-> "none"]
  /\ imported = {} /\ bound = {} /\ globals = {} /\ scope = {}
  /\ revived = {} /\ poisoned = {}
  /\ cancelled = {} /\ rootDone = FALSE
  /\ go = [g \in Goroutines |-> "unborn"]
  /\ goCtx = [g \in Goroutines |-> NoCell]
  /\ between = {} /\ latest = NoCell /\ prints = {}

Next == \/ Run
        \/ \E g \in Goroutines :
             GoCalls(g) \/ GoReturns(g) \/ GoAborts(g) \/ GoPrints(g)
        \/ \E c \in Cells : Interrupt(c)
        \/ \E n \in Names : Revive(n)
        \/ RootStops

Spec == Init /\ [][Next]_vars

(* The executor goes on with the cell it is in; it owes no cell its start, *)
(* and nobody owes a helper call its end.                                  *)
FairSpec == Spec /\ WF_vars(Proceeds)

-----------------------------------------------------------------------------
(* Properties.                                                             *)

TypeOK ==
  /\ running \in Cells \union {NoCell}
  /\ pc \in {"idle", "eval", "calling", "error", "ended"}
  /\ rest \in Seq(Chunks)
  /\ slotCtx \in Cells \union {NoCell} /\ slotOut \in Cells \union {NoCell}
  /\ held \in Cells \union {NoCell}
  /\ outcome \in [Cells -> {"none", "ok", "error", "interrupted"}]
  /\ imported \in SUBSET Packages /\ bound \in SUBSET Packages
  /\ globals \in SUBSET Names /\ scope \in SUBSET Names
  /\ revived \in SUBSET Names /\ poisoned \in SUBSET Packages
  /\ cancelled \in SUBSET Cells /\ rootDone \in BOOLEAN
  /\ go \in [Goroutines -> {"unborn", "alive", "calling", "aborted"}]
  /\ goCtx \in [Goroutines -> Cells \union {NoCell}]
  /\ between \in SUBSET Goroutines
  /\ latest \in Cells \union {NoCell}
  /\ prints \in SUBSET [by : Cells, tag : Cells, latest : Cells]

(* list_names and snapshot show no name a cell failed to bring into being: *)
(* a name the interpreter lacks came from a restored snapshot, or from a   *)
(* look-alike of a cell that succeeded, which may have been passed over.   *)
MirrorSound ==
  scope \subseteq globals \union revived
                  \union UNION {Disguised(c) : c \in {d \in Cells : outcome[d] = "ok"}}

(* A cell that succeeds has every package it imports, whichever cells      *)
(* failed or were interrupted before it, unless the path was marked by a   *)
(* chunk that did not import it.                                           *)
ImportsBound ==
  \A c \in Cells : outcome[c] = "ok" => Imports(c) \subseteq bound \union poisoned

(* A helper a goroutine calls between cells is stopped by no interrupt and *)
(* by no cell's end, whichever cells run while it waits.                   *)
RootedCallSurvives ==
  \A g \in Goroutines : go[g] = "aborted" /\ g \in between => rootDone

(* "print output stays attributed to the spawning cell", during it and     *)
(* after its end, as long as no later cell has begun.                      *)
OutputAttributed == \A p \in prints : p.latest = p.by => p.tag = p.by

(* An interrupted cell ends even though nobody answers its helper calls:   *)
(* they hold the context of the cell that is interrupted.                  *)
InterruptEndsCell ==
  \A c \in Cells : (running = c /\ c \in cancelled) ~> (outcome[c] # "none")

(* "Goroutines a cell spawns keep running between cells and are governed   *)
(* by the kernel root, not the cell."                                      *)
BackgroundSurvives ==
  \A g \in Goroutines : go[g] = "aborted" => rootDone
=============================================================================
