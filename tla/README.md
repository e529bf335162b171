# A TLA+ verification of go-prime-agent

This directory specifies the concurrent core of go-prime-agent in TLA+: the RLM
kernel that runs cells (`rlm/`), the host that drives it (`host/`,
`cmd/goprime`), and the pieces around them. Every module is translated from the
Go (or TypeScript) source, model-checked with TLC on small instances, and, where
it matters most, proved with TLAPS for every value of its constants.

## 1. Inventory of the system

A *host* sends newline-delimited JSON frames to a *kernel* (requests, replies,
interrupts) and reads event frames back. The kernel executes cells serially in a
persistent interpreter; a cell may call back to the host while it runs.

| component | source | state it keeps | operations | talks to |
|---|---|---|---|---|
| kernel lifecycle | `rlm/repl.go` | `drainCh`, `execDone`, `rootCtx`, `wg` | `Run`, `beginShutdown`, the grace timer | reader, executor |
| reader | `rlm/dispatch.go` 9-73 | the frame in hand | `readAll`, `dispatch`, `enqueue` | table, queue, bridge, writer |
| request table | `rlm/dispatch.go` 75-158 | `activeID`, `cancels`, `parked`, `parkNext` | register, activate, deactivate, interrupt (an actor behind a channel) | reader, executor |
| executor | `rlm/executor.go`, `rlm/cell.go` | the running request and its cancel function | take, activate, evaluate, done, cancel, deactivate | queue, table, evaluator, writer |
| event writer | `rlm/frames.go` 122-174 | frame channel (1024), sticky error | `Write`, `Close`, the actor `run` | everyone who emits events |
| host bridge | `rlm/harness.go` | `pending` map in an actor | `Call`, `Resolve`, drop | cells, reader, writer |
| subagent client | `rlm/agents_doc.go` | none | `Spawn`, `Send`, `ListAgents` over `Bridge.Call` | bridge |
| Go evaluator | `rlm/goeval.go` | interpreter globals, the `slots` pointer, `imported` | `Run`, the bound helpers, `markImported` | bridge, scope, writer |
| source chunker | `rlm/chunk.go` | none (pure) | `chunk`, `declaredNames` | evaluator |
| op-DSL evaluator | `rlm/ops.go` | none | a stub language for the conformance tests | bridge, scope |
| scope | `rlm/scope.go` | the namespace map in an actor | set, get, delete, names, entries | evaluator, snapshot |
| snapshot | `rlm/snapshot.go` | payload and manifest files | plan, write payload, write manifest, prune, restore | scope, file system |
| skill loader | `rlm/skill.go`, `host/skills.go` | private GoPath | scan, copy | file system |
| kernel host | `host/kernel.go` | `send`, `reg`, the `pendings` map | `Execute`, the writer, reader and line-pump goroutines, `Shutdown` | kernel pipes, host service |
| subagent manager | `host/manager.go` | `children` roster, `inbox` (64) | spawn, deliver, list | kernel host, child runner |
| harness main loop | `cmd/goprime/main.go` | `messages`, four rounds | agent loop, inbox drain, child sessions | manager, kernel host |
| edit skill | `skills/edit/skill.go` | `locks` map, the files | `Run`: read, replace, write temp, rename | file system |
| go-kernel extension | `.prime/agent/extensions/go-kernel.ts` | `pending`, `ready`, `exitInfo` | `start`, `onEvent`, `execute`, `stop` | a gorlm process |

`cmd/gorlm`, the stand-alone kernel process the docs name, is not in the
repository's tree; `rlm.Kernel` is reached through `host.NewKernelHost` only.

### Which behaviours are hard, and what makes each component correct

| component | what is hard | what makes it correct |
|---|---|---|
| kernel lifecycle | a drain, its grace timer, a cancelled context and the end of stdin may meet in any order | `Run` returns after EOF or cancellation; a drain leaves no accepted request unanswered |
| reader | it is the only goroutine that reads frames, and it blocks in `enqueue` and on the table and bridge channels | each request gets one answer, from the reader or from the executor; interrupts are not held up |
| request table | an interrupt may come before its request is registered, while it is queued, between activation and the cell's start, as the cell ends, or name nobody | an interrupt hits the request it is for, and only that one |
| executor | two `select`s that choose at random; deferred `cancel` and `deactivate` after the done event | requests run one at a time, in the order sent |
| writer, bridge | calls of many goroutines; late, duplicated and unknown replies; cancellation racing with a reply; the output breaking under a call | each call gets its own reply or an error, nothing leaks, the registry never blocks |
| Go evaluator | goroutines that outlive their cell share the slots of whichever cell runs | a cell's context and output do not leak into another's; the scope mirrors what exists |
| snapshot | a process that dies or a write that fails between any two system calls | what was answered can be restored; names are pruned only once they are on disk or reported |
| kernel host | registrations and events reach the reader by two channels; the reader itself sends host replies | a result is complete; no goroutines wait for each other in a circle |
| manager, main loop | children finish at any time; the inbox is drained without waiting | no message of a child is lost; the roster names the children that run |
| edit skill | concurrent edits of one file, under one spelling of its path or two; system calls that fail; a process that dies | edits under one key do not overwrite each other, and nothing is left locked or lying about |
| source chunker | braces decide, and they may not match | no line is lost or moved; a declaration is a unit of its own |
| go-kernel extension | done, exit, abort and two timers race for one call | a call returns, and its result says what happened |

## 2. Modules

| module | models | composed with |
|---|---|---|
| `KernelService` | abstract: what a host may rely on about its requests | — |
| `Kernel` | reader, request table, executor, `Run` and the drain goroutine, and a host that sends any frames | implements `KernelService` |
| `KernelInv` | the inductive invariant of `Kernel` | extends `Kernel` |
| `RemoteCall` | abstract: what a cell may rely on about its host calls | — |
| `Bridge` | `Bridge.Call`, the registry, `Writer`, `Resolve`, and a host that answers any number of times | implements `RemoteCall` |
| `Evaluator` | `GoEvaluator.Run`, the slots, background goroutines, imports, name mirroring | — |
| `Chunk` | the loop of `chunk`, line by line | cuts what `Evaluator` runs (its `Chunks`) |
| `Snapshot` | `planSnapshot`, the two atomic writes, pruning, restore, crashes | — |
| `KernelHost` | `host/kernel.go`: `Execute`, the writer, pump and reader goroutines, `Shutdown` | a kernel reduced to what `KernelService` and `RemoteCall` promise |
| `Agents` | the managers of the root session and its descendants, child sessions, the root's main loop | each session's kernel and kernel host are reduced to one host request at a time |
| `EditSkill` | `lockFor` and `Run` of the edit skill, in several interpreters, and somebody else who writes the file | — |
| `GoKernelExt` | class `GoKernel` of the TypeScript extension | a kernel process that may hang or die |
| `KernelProofs`, `BridgeProofs`, `EvaluatorProofs`, `ChunkProofs`, `SnapshotProofs`, `KernelHostProofs`, `AgentsProofs` | the theorems about each | extend the module they are named after |
| `ToolProofs` | the theorems about the two tools an agent holds, the extension and the edit skill | extends `GoKernelExt` and `EditSkill` |
| `MC*` | values for the constants, for TLC | extend the module they are named after |

**How state and actions correspond to the code.** A variable is a field, a
channel, a local of a goroutine or a file; a variable's comment says which. A
program counter stands for a goroutine's place between two communications, and
an action for what the goroutine does from one communication to the next, so
that whatever else may happen in between can. A channel is a sequence with a
capacity; a send is guarded by room in it. A mutex-free actor ("the registry
goroutine") is a set of actions, one per command. A `select` is a disjunction.
Ids (of requests, calls and executes) are the elements of a constant set: they are
random or chosen by the host, and unique.

* `Kernel`: `enqueue` is `EnqueueRefuse`, or `EnqueueAdmit` (the look at `drainCh`),
  `EnqueueRegister` and `EnqueuePush` or `EnqueueGiveUp`; `runRequest` is
  `ExecActivate` (the command), `ExecStart` (its answer), `ExecEvaluate`, `ExecDone`,
  and its deferred calls `ExecCancel` and `ExecDeactivate`.
* `Bridge`: `Call` is one action per blocking point, and the check of the writer's
  sticky error (`CallPassesCheck`) is apart from the channel send.
* `Evaluator`: an action is the evaluation of one chunk, or one end of a helper call;
  `GoCalls` is where a goroutine loads the slot, `GoReturns` and `GoAborts` where what it
  loaded matters.
* `Chunk`: an action is one turn of the loop. A line is blank or not, begins with one
  of the five keywords or not, and leaves a number of braces open; a chunk is the
  interval of its lines. Whether those braces tell where the declaration ends
  (`misread`) is something the code does not look at, and the properties do.
* `Snapshot`: `atomicWrite` is `Stage` (create, write, sync, close) and the rename, each
  of which may fail.
* `KernelHost`: the frame a goroutine holds between its receive and its hand-over is a
  variable, since the pipes and `lines` have no buffer.
* `Agents`: a cell's host request waits in `ask[s]`, and each answer of
  `HandleHostRequest` is one action, since the manager's mutex and the single event
  reader of its kernel host make it one step. A child is `running` from the roster entry
  to the end of its agent loop, `ended` until the deferred deletion, then `gone`. The main
  loop is `LoopEnds`, `RootDrains` (one receive), `RootAnswers` and `RootGoesOn`.
* `EditSkill`: an action is one system call, with its failure beside it. `Key[e]` is an
  interpreter together with a spelling of the path, because the map of locks lives in
  the interpreter and is indexed by the path as it was written.
* `GoKernelExt`: an action is one callback of the event loop. What an `await` resumes runs
  before the next callback: `Settled` says that nothing is left to resume.

**Abstractions.** The text of frames, code and events; ids as opaque values; the
values of a namespace (only their encoded size matters, and they are values JSON
gives back unchanged: strings, or what an earlier restore decoded); and what a cell
computes, which each module reduces to the kinds of behaviour its properties tell
apart (`Work`, `Chunks`, `Cell`). A language model is a loop that ends some day or not.

## 3. Runs

| run | question | bounds, and why they are enough |
|---|---|---|
| `kernel_safety` | one answer each, in order; interrupts hit their cell and no other; a drain that nobody cuts short loses nothing; refines `KernelService` | three requests (a cell that blocks, one that calls the host, a shutdown frame with an id), one interrupt with or without id, queue of 2, table channel of 1, two frames in flight, a context that may be cancelled and a timer that may fire: an interrupt can meet each stage of a request while another is queued, running or refused, and every channel can be full |
| `kernel_liveness` | every request is answered, interrupts reach the table and end their cell, `Run` returns | a blocking cell and a compute loop that nothing ends, sent in either order, then a cell that ends (`SentAfter`), a queue of 1: one runs, one is queued, one is in the reader's hand and does not fit; an interrupt, cancellation, EOF and the timer at any moment |
| `bridge` | each call gets its own reply; no leak; the registry never blocks; calls return; refines `RemoteCall` | three calls, one of which cannot be marshalled, two replies for each, channels of 1, an output that may break |
| `evaluator` | mirroring, output attribution, rooted calls, imports, interrupts | three cells with imports, one that fails and is tried again, a statement that only looks like an import, a helper call, one goroutine that outlives them |
| `evaluator_background` | (violation) does a goroutine survive its cell? | two cells, one goroutine |
| `chunk` | is every line kept, and cut where the documents say? | every source of up to five lines (`MaxLines`) with -1 to 2 braces open (`MaxOpen`): a declaration of three lines between two statements, nested braces, braces that do not match, and first lines of grouped declarations |
| `snapshot` | the plan; failures and restarts between any two steps | two names, three values (small, larger, unmarshalable), limits that include 0, oversized with and without pruning, and a first name that does not fit before a second that does; two snapshots, so that a later one can fail over an earlier one |
| `kernel_host` | complete results; no circular wait; every `Execute` returns | two executes, one that calls the host and one that only an interrupt ends: one more than the kernel's queue of 1 holds, the most `NoCircularWait` allows; the other channels of 1, an event channel of 2; contexts cancelled and a shutdown at any moment; each cell may print once, while it runs or from a goroutine after it has ended, and may fall into a compute loop |
| `agents` | do rosters tell the truth, do messages arrive, are requests answered? | a root and two children, which may share a name, be siblings or parent and child; two messages and an inbox of 1, so that one may be refused; two rounds, so that the last differs from the others |
| `agents_replies` | (violation) does a child's message to its parent reach its parent? | the same family |
| `edit` | are edits under one key serial, are temp files removed, does every edit return? | two edits under one key where one needs what the other writes, a third under another key, an empty one; every system call may fail, a process may die, somebody else writes an ambiguous text or removes the file |
| `extension` | one process, truthful results, every call settles | two calls, one that blocks and one that asks the host; a process that may never greet, or die at any moment; either cell may fall into a compute loop |

`CHECK_DEADLOCK FALSE` is set where the system really stops: the kernel once `Run`
has returned and nothing more arrives, the calls of `Bridge`, `KernelHost`,
`EditSkill` and `GoKernelExt` once all have returned, the chunker at the end of its
source, and the harness once it has exited. The evaluator and the snapshot runs
check deadlock.

Bounds in guards or constants: `StdinCap`, `MaxInterrupts`, `SentAfter` (`Kernel`),
`MaxReplies` (`Bridge`), `MaxSnapshots` (`Snapshot`), `MaxText` (`KernelHost`), `MaxLines`,
`MaxOpen` (`MCChunk`). Each request, call, cell, execute, child, message and edit
happens once. Real channel capacities (64, 256, 1024) are replaced by 1 or 2: the
code behaves differently only when a channel is empty or full, and a small one is
full sooner.

**Properties.** Each is stated beside the module's specification with the code
behaviour it is about; `PROJECT.json` gives for each a plausible bug (a mutant,
defined beside the action it mutates) that breaks it. Every component has a `TypeOK`
that is a theorem; those of `Snapshot` and `GoKernelExt`, which say more than types
(what may be in a file, that there is one process), are checked by a run as well.

## 4. Fairness, and why the code justifies it

* `Kernel`: weak fairness of each goroutine (the Go scheduler), of the grace timer
  (when it may fire at all), and of the host's answers to host calls. The host is
  owed nothing else: it need not send, interrupt, close or cancel. A blocking cell
  has no fairness: only its context ends it. A compute loop (`"endless"`) is ended by
  nothing: `Eval` is given no context, and `goeval.go:12`, `ARCHITECTURE.md:117` and
  `contract/go.md:14` say so. `EveryRequestAnswered`, `RunTerminates` and
  `InterruptsReachTable` therefore name the exceptions: a compute loop (`Endless`), or a
  cell that blocks and that nobody has interrupted (`Blocked`), either of which may hold
  up the reader behind a full queue (`ReaderStuck`). `InterruptEnds` excepts the loop.
* `Bridge`: `KernelFairness` for the kernel's goroutines. That the host reads and
  answers (`HostFairness`) is a premise of `EveryCallReturns`, not an assumption of
  the run: `WaitingCallEnds` holds without it.
* `Evaluator`: the cell under way proceeds, that is, chunks terminate; helper calls
  are owed no answer, and no cell its start.
* `KernelHost`: weak fairness of the goroutines; strong fairness of the sends to
  `send` and to the kernel's event channel (which background goroutines fill as
  well) and of the reader's registrations, since a Go channel serves its waiting
  senders in order and a `select` chooses at random. Nobody's context is owed an
  end: that the contexts of cells only an interrupt ends are done some day is a
  premise of `EveryExecuteReturns`. No cell has to print or to loop; if the running one
  loops (`CellLoops`), `EveryExecuteReturns` and `NoCircularWait` except it, since an
  `Execute` waits for done after its interrupt unconditionally (`host/kernel.go:210`).
* `Agents`: weak fairness of each manager's answers only. No agent loop is owed an
  end, no child its deletion, and the root may stay in one round for ever.
* `EditSkill`: a call that has begun goes on; system calls return.
* `GoKernelExt`: the event loop runs each callback that is due, and its timers fire; a
  process that has greeted goes on working while it lives. It is not owed its greeting
  nor the end of a blocking cell; nobody is owed an abort. A cell that loops in a process
  that stays up keeps its call, and `ExecuteSettles` names it: after its timer the
  extension only writes an interrupt (`go-kernel.ts:182`).

## 5. What is proved

For any value of the constants that satisfies the module's named assumption:

| theorem | statement |
|---|---|
| `KernelInvariant` | `Spec => []IInv`, the inductive invariant of `Kernel` |
| `KernelTypes`, `BridgeTypes`, `EvaluatorTypes`, `ChunkTypes`, `SnapshotTypes`, `HostTypes`, `AgentsTypes`, `EditTypes`, `ExtTypes` | `Spec => []TypeOK` of each module |
| `KernelAnswersOnce` | `Spec => []AtMostOneDone` |
| `KernelDeliversInterrupts` | `Spec => []InterruptDelivered` |
| `KernelDrains` | `Spec => []DrainCompletes` |
| `KernelKeepsOrder` | `Spec => []DoneOrder` |
| `KernelBlamesInterrupts` | `Spec => []NoSpuriousInterrupt` |
| `KernelImplementsService` | `Spec => ImplementsService` |
| `BridgeNeverBlocks` | `Spec => []RegistryNeverBlocks` |
| `BridgeForgets` | `Spec => []NoLeak` |
| `BridgeLosesNoReply` | `Spec => []NoReplyLost` |
| `BridgeImplementsRemoteCall` | `Spec => ImplementsRemoteCall` |
| `EvaluatorSparesRooted` | `Spec => []RootedCallSurvives` |
| `EvaluatorAttributes` | `Spec => []OutputAttributed` |
| `EvaluatorMirrors` | `Spec => []MirrorSound` |
| `EvaluatorImports` | `Spec => []ImportsBound` |
| `ChunkKeepsCode` | `Spec => []KeepsCode` |
| `ChunkCutsAtDeclarations` | `Spec => []CutsAtDeclarations` |
| `SnapshotKeepsPromise` | `Spec => []PromiseKept` |
| `SnapshotPrunesWritten` | `Spec => PrunedOnlyOnceWritten` |
| `SnapshotPlansSoundly` | `Spec => []PlanSound` |
| `HostInvariant` | `Spec => []HostInv`, the inductive invariant of `KernelHost` |
| `HostResults` | `Spec => []ResultComplete` |
| `HostNeverStuck` | `Spec => []NoCircularWait` |
| `AgentsMessages` | `Spec => []MessagesReachRoot` |
| `AgentsRoster` | `Spec => []RosterAgrees` |
| `EditsAreSerial` | `Spec => []EditsSerialize` |
| `EditsCleanUp` | `Spec => []NoStrayTemps` |
| `ExtResults` | `Spec => []ResultTrue` |

Of the edit skill the specification is `EditSpec` and the type invariant `EditTypeOK`:
`ToolProofs` extends it beside `GoKernelExt`, so their names have to differ. With these
theorems every safety property of a passing run, invariant, action property or
refinement, is proved.

Hardly any of the properties is inductive by itself. What each needs:

* **`Kernel`** (`IInv`). That no request is answered twice needs to know where each
  request is: `OnePlace` (unread, in the reader's hand, queued, running or finished, and
  only one of them, counted once), with `OnlySent` so that the host's next request is
  none of these, and `PcsAgree` to tie the program counters to the hand and to the
  executor's request. That interrupts are delivered needs what the table knows: a
  request's `register` command is in the channel ahead of its `activate`
  (`WaitingRegistered`, `ActivationInOrder`), and only an answered request is
  deregistered (`DeactivationAfterDone`), so the table can cancel the request that runs
  (`ActiveRegistered`); then an interrupt that named a request is parked, or on its way
  to the executor in the activation's answer, or has cancelled the request's context
  (`InterruptKept`). `KernelDrains` adds that, as long as neither the context of `Run` nor
  the root context is done, the drain begins on the reader's own goroutine or after it
  has ended, so the reader holds no request by the time the executor may exit. Where the
  context is cancelled, that is not so, and `DrainCompletes` says nothing.
  The refinement follows from `IInv` one action at a time: in each at most one request
  changes its phase (`PhaseMoves`), and that is a step of `KernelService` or a stutter
  (`ServiceStep`). `KernelKeepsOrder` rests on `LineInv`: frames, hand, queue, the
  request that runs and the executor's answers stand in the order in which the host sent
  them. `KernelBlamesInterrupts` rests on `SpendInv`: every interrupt without an id is
  accounted for at most once, parked for the next request, handed over with an
  activation, spent on the running request, or told by one answer.
* **`Bridge`**. `RegistryInv`: where a call's registration, its replies and its drop are
  (in the registry's map, its command channel, or not sent yet) for each of the call's
  program counters; a
  registration is its call's first command and a drop comes after its return, a call that
  has not ended is known or has its reply (`Known`), and one that has is forgotten or
  about to be (`Forgotten`); the channel of a registered call is empty, so its reply fits. `OrderInv`: a call's
  replies keep their order from the host through `Resolve` to the registry, the first one
  is the one it gets, and what it returned is final; hence the refinement, where a
  call's status is read off its program counter and its result.
* **`Evaluator`**. `PlaceInv`: which cell runs, what of its code is left and what it has
  gone over already. A goroutine's rooted call holds no cell's context (`HoldsRoot`),
  output carries the slot it was printed under (`Attributed`), and `NameInv` says that what
  lies behind the cell's place has been declared, bound or marked, and that a marked path
  is bound or was marked in vain.
* **`Chunk`**. `KeepInv`: the chunks cut so far and the open one cover the lines gone over,
  in order. `CutInv`: where braces match and tell where things end, `depth` and `inDecl` say whether a declaration is
  open, and cuts so far are at the lines the reference definition names.
* **`Snapshot`**. `PromiseInv`: the files a request has behind it are written
  (`Written`), the request under way is among those that were tried (`Trying`), and the
  promise is kept. `PlanSound` is about what a loop computes. The loop and the sum of
  sizes are recursive functions, so their properties need an induction, which is made
  from a least counterexample (`LeastNumber`, `LeastSet`: the library's well-founded orders
  on numbers and on the subsets of a finite set). A sum exists, and does not depend on the
  order in which sizes are added (`SumsExist`, `SumsAgree`, `SumsAdd`), so the bytes
  counted so far are the size of what is saved so far; then the plan for the names up to
  `n` is what the limits say (`Planned`, kept by one turn of the loop in `TakePlans`).
  Afterwards the plan stays true because nothing it rests on, scope and limits,
  changes before the request is answered.
* **`KernelHost`** (`HostInv`). Channels and pipes lie between `Execute` and the
  kernel, and registrations take another way than requests. `OnePlace`: the
  execute frame is on `send`, in the writer's hand, queued in the kernel, run or
  ended, and in one of these only. `Registered`: an execute is pending before its frame is
  sent and until its done event has been handled, so that no event finds it unknown.
  `Told`: the events of an execute on their way to the reader, taken one by one, turn what its pending
  has (`got`) into what the kernel emitted before its done event (`Tally`); what its
  goroutines print behind that event finds it no longer pending, and changes nothing. So,
  once the done event is handled, the two are equal and stay so.
  `Kept` is what `NoCircularWait` needs beyond that: what an execute waits for (its
  acknowledgement, its request, the answer to its cell's question, its interrupt) is on a
  channel, in a hand or has arrived (`RidesOn` and `ComesOn`: what is under way stays so
  until it is taken). Then, if nobody could go on, the kernel's reader would hold an
  execute that finds the queue full; but that one, the queued ones and the running one
  are different executes in flight (`QueueBound`), more than there are. So the reader holds
  nothing, and one after the other `send`, the host's reader, the event pipe and the calls have
  nothing to wait for but the running cell, which waits for its context alone or
  loops (`SomebodyMoves`). That somebody can go on is stated with the guards of the actions
  (`ExecuteMoves`, `ReaderMoves` and so on), because the prover has no `ENABLED`.
* **`Agents`**. `LoopInv`: what the inbox accepted is, in order, what the conversation has,
  what this round has drained and what still waits, and the loop under way has been shown
  the conversation. `RosterInv`: a child is asked for by
  one request, listed only under its own name by the session that spawned it, and not
  once it is gone.
* **`EditSkill`**. `LockInv`: the edits of a key share one mutex and keep it, and the one
  between lock and unlock holds it; so nobody else under the key renames the file between
  the one's read and its rename.
* **`GoKernelExt`** (`ExtInv`). `Known`: the process is started once and has ended by the time
  the exit callback runs, and each pipe carries lines its reader knows. `CallInv`: before a call is
  registered nobody speaks of it (`Speaks`: no line of it on either pipe, not queued, not
  running); it is woken once, by its done event while the exit callback has not run, or
  else by that callback; and of a call that is registered after it, nothing will ever be
  heard. That the call goes on with the answer it was woken for, although the other
  callback may be next, is what `Settled` gives: what an `await` waited for goes on first.

**Only model-checked:** the liveness properties (`EveryRequestAnswered`,
`InterruptsReachTable`, `InterruptEnds`, `RunTerminates`, `EveryCallReturns`,
`WaitingCallEnds`, `InterruptEndsCell`, `EveryExecuteReturns`, `HostAnswers`,
`EveryEditReturns`, `StartSettles`, `ExecuteSettles`): weak and strong fairness speak of
`ENABLED`, which the prover does not reason about.

## 6. Where code and documents disagree

Shown by a run (each quoted in `PROJECT.json` "findings"):

* `evaluator_background`: "goroutines a cell spawns keep running between cells"
  (`eval.go:22`); a helper call begun during the cell is aborted as it ends.
  `TestGoBackgroundGoroutine` passes because the aborted `Sleep` just returns early.
* `agents_replies`: "replies flow via the parent manager's inbox" (`main.go:140`); a
  child's kernel asks a manager of its own, which puts the message into an inbox nobody
  reads and answers that it was delivered.

Seen while modelling. The behaviour is in the model, and the properties name it as an
exception or say nothing of it:

* "They must reach a busy kernel instantly" (`dispatch.go:32`): with a full queue the
  reader waits in `enqueue` and reads no interrupt, and neither does `Run` learn of EOF
  (`repl.go:105`), until the cell ends (`ReaderStuck`).
* "Lets the executor finish queued requests" (`repl.go:116`): a request that is in
  `enqueue` when the context of `Run` is cancelled may be neither run nor refused
  (the premise of `DrainCompletes`).
* `Run` "serves until shutdown" (`repl.go:90`), but a shutdown frame ends only the
  executor: `Run` waits on for EOF or its context (`RunBeginsShutdown`).
* "... or the writer fails" (`harness.go:62`): a call that was already waiting when the
  output breaks is never told.
* `Writer.Write` sends on its channel whatever the caller's context says
  (`frames.go:165`), so with a host that stops reading, a call that is still sending is
  not ended by its context (`CallSend`; `WaitingCallEnds` starts after it).
* "Already bound in the interpreter" (`goeval.go:223`): an import is marked before it is
  evaluated, so one that failed is passed over the next time; and a statement such as
  `imports := ...` counts as an import of the paths it quotes (`goeval.go:228`).
  `ImportsBound` excepts these paths (`poisoned`).
* "Imports work ... / grouped" (`README.md:77`, `contract/go.md:3`), and "each top-level
  declaration ... is its own chunk" (`chunk.go:8`, with a "grouped var block" at `:69`):
  only braces count towards the depth, so the lines `import (` and `var (` are chunks of
  their own, apart from the body of their declaration (`chunk.go:39`, `OpensDecl`).
  `CutsAtDeclarations` leaves such sources out (`Readable`); without that premise the
  same run finds it violated, by a source of two lines.
* `contract/go.md:10` and `README.md:79` say that print output stays attributed to the
  spawning cell. A goroutine that outlives its cell prints into whichever cell began last
  (`GoPrints`); and while no later one has begun, its output does carry the id of its
  cell, but after that cell's done event the kernel host knows no execute of this id and
  drops it (`host/kernel.go:131`, `ReaderNotes`). `ResultComplete` is about what was said
  up to the done event.
* "Run replaces ... serialized behind a per-path lock, so concurrent cells cannot
  interleave read-modify-write cycles on one file" (`skills/edit/SKILL.md:15-17`): the lock is
  per spelling of the path and per interpreter (`skill.go:18`), so two spellings, or two
  kernels, do interleave on one file (`Key`; `EditsSerialize` excepts them by `crossed`).
* `ARCHITECTURE.md:120` mirrors every declared name; a cell that fails or is
  interrupted mirrors none (`RunFails`, `RunInterrupted`).
* `snapshot.go:70` speaks of one atomic write; payload and manifest are two renames,
  and a crash between them leaves a new payload beside an old manifest. A failed
  rename leaves its temp file (`snapshot.go:172`).
* After `KernelHost.Shutdown` an `Execute` in flight may wait for ever: the kernel may
  drop its request, and nobody closes the event pipe that would end the reader
  (`host/kernel.go:62`, `:111`).
* With two executes more in flight than the kernel's queue holds (66 in the code), the
  frame that does not fit holds up the host reply the running cell waits for, and neither
  side goes on. `NoCircularWait` is about up to one more, and that bound is sharp;
  `EveryExecuteReturns` is checked at it.
* A child's session is run with `context.Background()` (`host/kernel.go:162`): nothing
  cancels it, and the root exits while children run. A root cell that sends to "parent"
  finds its message in its own inbox. Messages drained in the last round are added to a
  conversation nobody reads again.
* The edit skill answers one replacement together with the error when its rename fails,
  and leaves the temp file (`skill.go:30`, `:66`; `RenameFails`).
* The extension: a call registered after the exit callback waits for ever
  (`go-kernel.ts:174`), a failed start is kept and fails every later call (`:56`), and an
  abort before the listener is added is not seen (`:181`).

## 7. Assumptions, and what is not modelled

* Ids are unique. The table's `parked` set keeps an id that never comes for ever
  (`dispatch.go:127`).
* A crash is the end of the process: completed system calls last, and a rename is atomic.
* The host's line pump hands out its scanner's buffer while it scans on
  (`host/kernel.go:100`). A line is overwritten while it is parsed only when the two
  together exceed half of the megabyte buffer; frames are assumed to be smaller.
* A background goroutine that panics in a helper would end the kernel's process; cells'
  goroutines are assumed not to panic.
* The names a chunk declares are given, not computed: `declaredNames` matches patterns
  in its text, of a run of statements only in the first line (`chunk.go:76`).
* No line is longer than the 16 MB its scanner allows (`dispatch.go:14`,
  `host/kernel.go:98`). A longer one ends the scan with an error nobody looks at: the
  kernel's reader then goes on as at EOF while the host may still be writing, and the
  host's pump closes `lines`, so that every pending `Execute` returns with what it has.
* The extension's process can be started (its binary exists); a `spawn` that fails
  raises an error event the code has no handler for. `stop` is called by nobody.
* Not modelled: the op-DSL (a test stub; its effect on the kernel is one kind of
  `Work`), the skill loader (straight-line file access at start-up), the go tool and
  the prompts (wording and one `Execute`), the greet skill (one formatting function),
  the test harness, the start-up of `goprime` (flags, models, configuration), and the
  agent loop itself, which is a library.
* Partly modelled: `frames.go` by kind and id, without encoding and validation; the
  writer without `Close`, which nobody calls; the evaluator without its construction,
  the values of expressions and the conversion of panics; the subagent client without
  the decoding of replies.

## 8. What is left

* Models: `declaredNames` over classes of statements; the composition of `Agents` with
  `KernelHost`, so that a child's shutdown is the host's.
