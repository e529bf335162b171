------------------------------- MODULE Kernel -------------------------------
(***************************************************************************)
(* The RLM kernel: the reader goroutine that parses frames and routes      *)
(* them, the request-table actor that owns every cancel function, the      *)
(* executor that runs queued requests one at a time, Run, and the          *)
(* goroutine beginShutdown starts (rlm/repl.go, dispatch.go, executor.go,  *)
(* cell.go).  One action is one step of one goroutine between two          *)
(* communications.                                                         *)
(*                                                                         *)
(* A request stands for its own id ("per-request ids"): NoReq is the empty *)
(* id.  What a cell computes is not modelled; Work says how it behaves.    *)
(* The bridge that matches host replies to calls is module Bridge: here a  *)
(* reply only unblocks the cell that waits for it.                         *)
(***************************************************************************)
EXTENDS Naturals, Sequences, FiniteSets, Functions

CONSTANTS
  Reqs,           \* the requests the host may send, each at most once
  NoReq,          \* the empty id
  Work,           \* Work[r]: how request r behaves (see WorkKinds)
  QueueCap,       \* capacity of Kernel.queue (1024 in the code)
  TableCap,       \* capacity of requestTable.cmds (256)
  StdinCap,       \* bound: frames in flight from host to reader
  SentAfter,      \* bound: SentAfter[r]: requests the host sends before r
  MaxInterrupts,  \* bound: interrupt frames the host sends
  HostCancels,    \* whether the context passed to Run may be cancelled
  GraceExpires    \* whether a drain may outlast shutdownGrace

(***************************************************************************)
(* "control": list_names, snapshot, restore, an unknown type or the        *)
(* acknowledged bootstrap cell, none of which reads the context;           *)
(* "quick": a cell that ends by itself, soon or late (time.Sleep);         *)
(* "blocking": a cell that only its context ends, like a long rlm.Sleep;   *)
(* "hostcall": a cell that waits for a host_reply; "endless": a compute    *)
(* loop that neither ends nor looks at its context, since Eval is not      *)
(* given one; "shutdown": a shutdown frame that carries an id.             *)
(***************************************************************************)
WorkKinds == {"control", "quick", "blocking", "hostcall", "endless", "shutdown"}

ASSUME KernelAssumption ==
  /\ NoReq \notin Reqs
  /\ Work \in [Reqs -> WorkKinds]
  /\ QueueCap \in Nat \ {0}
  /\ TableCap \in Nat \ {0}
  /\ StdinCap \in Nat \ {0}
  /\ SentAfter \in [Reqs -> SUBSET Reqs]
  /\ MaxInterrupts \in Nat
  /\ HostCancels \in BOOLEAN
  /\ GraceExpires \in BOOLEAN

VARIABLES
  \* the host
  sent,        \* the requests sent so far, in order
  stdin,       \* frames on their way to the reader
  eof,         \* the host has closed stdin
  runCtxDone,  \* the context passed to Run is cancelled
  \* the reader goroutine
  readerPc, hand,
  \* the request table: its command channel and the actor's locals
  cmds, activeID, cancels, parked, parkNext,
  \* the executor goroutine
  queue, execPc, cur, curCancel, outcome, reply,
  \* contexts and lifecycle
  cancelled,   \* requests whose own context has been cancelled
  rootDone,    \* rootCtx is cancelled
  draining,    \* drainCh is closed
  runPc,
  \* what the host can observe, and history
  events,      \* the done events emitted, in order
  replied,     \* requests whose host call has been answered
  dropped,     \* requests enqueue gave up on
  targeted,    \* ids the table has handled an interrupt for
  nInterrupts, \* interrupt frames sent
  nIdless      \* interrupts without id the table has handled

hostVars   == <<sent, stdin, eof, runCtxDone, nInterrupts>>
readerVars == <<readerPc, hand>>
tableVars  == <<activeID, cancels, parked, parkNext, targeted, nIdless>>
execVars   == <<execPc, cur, curCancel, outcome>>
lifeVars   == <<rootDone, draining, runPc>>
obsVars    == <<events, replied, dropped>>
vars == <<hostVars, readerVars, cmds, tableVars, queue, execVars, reply,
          cancelled, lifeVars, obsVars>>

-----------------------------------------------------------------------------
(* Frames, commands, events.                                               *)

Frame(k, r) == [kind |-> k, id |-> r]
FrameKinds  == {"request", "interrupt", "host_reply", "shutdown", "malformed"}
Frames      == [kind : FrameKinds, id : Reqs \union {NoReq}]

Cmd(op, r) == [op |-> op, id |-> r]
CmdOps     == {"register", "activate", "deactivate", "interrupt"}
Cmds       == [op : CmdOps, id : Reqs \union {NoReq}]

Done(r, s) == [req |-> r, status |-> s]
Statuses   == {"ok", "error", "interrupted", "refused"}
DoneEvents == [req : Reqs, status : Statuses]

NoReply   == [full |-> FALSE, cancel |-> NoReq, parked |-> FALSE]

Answered  == {events[i].req : i \in DOMAIN events}

(* A request's context is a child of the root context.                     *)
CtxDone(r) == r \in cancelled \/ rootDone

(* context.CancelFunc of request c, where NoReq is the nil function.       *)
Cancel(c) == cancelled \union ({c} \ {NoReq})

-----------------------------------------------------------------------------
(* The host.                                                               *)

HostSends(f) ==
  /\ ~eof
  /\ Len(stdin) < StdinCap
  /\ stdin' = Append(stdin, f)

HostKeeps == UNCHANGED <<readerVars, cmds, tableVars, queue, execVars, reply,
                         cancelled, lifeVars, obsVars>>

SendRequest(r) ==
  /\ r \notin Range(sent) /\ SentAfter[r] \subseteq Range(sent)
  /\ HostSends(Frame("request", r))
  /\ sent' = Append(sent, r)
  /\ HostKeeps /\ UNCHANGED <<eof, runCtxDone, nInterrupts>>

SendInterrupt(r) ==
  /\ nInterrupts < MaxInterrupts
  /\ nInterrupts' = nInterrupts + 1
  /\ HostSends(Frame("interrupt", r))
  /\ HostKeeps /\ UNCHANGED <<sent, eof, runCtxDone>>

(* The cell's host_request frame is out once the cell runs; the host       *)
(* answers it once.                                                        *)
SendReply ==
  /\ execPc = "run" /\ Work[cur] = "hostcall"
  /\ cur \notin replied
  /\ Frame("host_reply", cur) \notin Range(stdin)
  /\ HostSends(Frame("host_reply", cur))
  /\ HostKeeps /\ UNCHANGED <<sent, eof, runCtxDone, nInterrupts>>

SendShutdown ==
  /\ ~draining
  /\ Frame("shutdown", NoReq) \notin Range(stdin)
  /\ HostSends(Frame("shutdown", NoReq))
  /\ HostKeeps /\ UNCHANGED <<sent, eof, runCtxDone, nInterrupts>>

SendMalformed ==
  /\ stdin = <<>>
  /\ HostSends(Frame("malformed", NoReq))
  /\ HostKeeps /\ UNCHANGED <<sent, eof, runCtxDone, nInterrupts>>

CloseStdin ==
  /\ ~eof
  /\ eof' = TRUE
  /\ HostKeeps /\ UNCHANGED <<sent, stdin, runCtxDone, nInterrupts>>

CancelRun ==
  /\ HostCancels /\ ~runCtxDone
  /\ runCtxDone' = TRUE
  /\ HostKeeps /\ UNCHANGED <<sent, stdin, eof, nInterrupts>>

-----------------------------------------------------------------------------
(* The reader goroutine: readAll, dispatch, enqueue.                       *)

TableHasRoom == Len(cmds) < TableCap

Reads(kind) ==
  /\ readerPc = "scan"
  /\ stdin # <<>>
  /\ Head(stdin).kind = kind
  /\ stdin' = Tail(stdin)
  /\ UNCHANGED <<sent, eof, runCtxDone, nInterrupts>>

(* A malformed line costs a ProtocolError event without an id.             *)
ReadMalformed ==
  /\ Reads("malformed")
  /\ UNCHANGED <<readerVars, cmds, tableVars, queue, execVars, reply,
                 cancelled, lifeVars, obsVars>>

(* Mutant: an interrupt is read only while no cell runs.                   *)
ReadInterruptIdle ==
  /\ Reads("interrupt")
  /\ TableHasRoom /\ activeID = NoReq
  /\ cmds' = Append(cmds, Cmd("interrupt", Head(stdin).id))
  /\ UNCHANGED <<readerVars, tableVars, queue, execVars, reply, cancelled,
                 lifeVars, obsVars>>

ReadInterrupt ==
  /\ Reads("interrupt")
  /\ TableHasRoom
  /\ cmds' = Append(cmds, Cmd("interrupt", Head(stdin).id))
  /\ UNCHANGED <<readerVars, tableVars, queue, execVars, reply, cancelled,
                 lifeVars, obsVars>>

ReadReply ==
  /\ Reads("host_reply")
  /\ replied' = replied \union {Head(stdin).id}
  /\ UNCHANGED <<readerVars, cmds, tableVars, queue, execVars, reply,
                 cancelled, lifeVars, events, dropped>>

(* shutdown answers at once, whatever is still queued, and starts the      *)
(* drain.  It may come without an id.                                      *)
Closes(f) == \/ f.kind = "shutdown"
             \/ f.kind = "request" /\ Work[f.id] = "shutdown"

ReadShutdown ==
  LET f == Head(stdin) IN
  /\ \/ Reads("shutdown") /\ UNCHANGED events
     \/ /\ Reads("request")
        /\ Closes(f)
        /\ events' = Append(events, Done(f.id, "ok"))
  /\ draining' = TRUE
  /\ UNCHANGED <<readerVars, cmds, tableVars, queue, execVars, reply,
                 cancelled, rootDone, runPc, replied, dropped>>

(* Mutants of EnqueueRefuse: no return after the refusal, no done event.   *)
EnqueueRefuseGoesOn ==
  /\ Reads("request") /\ ~Closes(Head(stdin))
  /\ draining
  /\ events' = Append(events, Done(Head(stdin).id, "refused"))
  /\ hand' = Head(stdin).id
  /\ readerPc' = "register"
  /\ UNCHANGED <<cmds, tableVars, queue, execVars, reply, cancelled,
                 lifeVars, replied, dropped>>

EnqueueRefuseSilent ==
  /\ Reads("request") /\ ~Closes(Head(stdin))
  /\ draining
  /\ UNCHANGED <<readerVars, cmds, tableVars, queue, execVars, reply,
                 cancelled, lifeVars, obsVars>>

(* enqueue, first select: refuse once draining has begun.                  *)
EnqueueRefuse ==
  /\ Reads("request") /\ ~Closes(Head(stdin))
  /\ draining
  /\ events' = Append(events, Done(Head(stdin).id, "refused"))
  /\ UNCHANGED <<readerVars, cmds, tableVars, queue, execVars, reply,
                 cancelled, lifeVars, replied, dropped>>

EnqueueAdmit ==
  /\ Reads("request") /\ ~Closes(Head(stdin))
  /\ ~draining
  /\ hand' = Head(stdin).id
  /\ readerPc' = "register"
  /\ UNCHANGED <<cmds, tableVars, queue, execVars, reply, cancelled,
                 lifeVars, obsVars>>

EnqueueRegister ==
  /\ readerPc = "register"
  /\ TableHasRoom
  /\ cmds' = Append(cmds, Cmd("register", hand))
  /\ readerPc' = "push"
  /\ UNCHANGED <<hostVars, hand, tableVars, queue, execVars, reply,
                 cancelled, lifeVars, obsVars>>

(* Mutant of EnqueuePush: last in, first out.                              *)
EnqueuePushFront ==
  /\ readerPc = "push"
  /\ Len(queue) < QueueCap
  /\ queue' = <<hand>> \o queue
  /\ readerPc' = "scan" /\ hand' = NoReq
  /\ UNCHANGED <<hostVars, cmds, tableVars, execVars, reply, cancelled,
                 lifeVars, obsVars>>

(* enqueue, second select: the reader waits here while the queue is full.  *)
EnqueuePush ==
  /\ readerPc = "push"
  /\ Len(queue) < QueueCap
  /\ queue' = Append(queue, hand)
  /\ readerPc' = "scan" /\ hand' = NoReq
  /\ UNCHANGED <<hostVars, cmds, tableVars, execVars, reply, cancelled,
                 lifeVars, obsVars>>

(* Mutant of EnqueueGiveUp: a default branch instead of rootCtx.Done().    *)
EnqueueGiveUpEarly ==
  /\ readerPc = "push"
  /\ cancelled' = Cancel(hand)
  /\ dropped' = dropped \union {hand}
  /\ readerPc' = "scan" /\ hand' = NoReq
  /\ UNCHANGED <<hostVars, cmds, tableVars, queue, execVars, reply, lifeVars,
                 events, replied>>

EnqueueGiveUp ==
  /\ readerPc = "push"
  /\ rootDone
  /\ cancelled' = Cancel(hand)
  /\ dropped' = dropped \union {hand}
  /\ readerPc' = "scan" /\ hand' = NoReq
  /\ UNCHANGED <<hostVars, cmds, tableVars, queue, execVars, reply, lifeVars,
                 events, replied>>

ReadEOF ==
  /\ readerPc = "scan" /\ stdin = <<>> /\ eof
  /\ readerPc' = "exited"
  /\ UNCHANGED <<hostVars, hand, cmds, tableVars, queue, execVars, reply,
                 cancelled, lifeVars, obsVars>>

Reader ==
  \/ ReadMalformed \/ ReadInterrupt \/ ReadReply \/ ReadShutdown
  \/ EnqueueRefuse \/ EnqueueAdmit \/ EnqueueRegister \/ EnqueuePush
  \/ EnqueueGiveUp \/ ReadEOF

-----------------------------------------------------------------------------
(* The request-table actor: one command at a time, in channel order.       *)

Handles(op) ==
  /\ cmds # <<>>
  /\ Head(cmds).op = op
  /\ cmds' = Tail(cmds)
  /\ UNCHANGED <<hostVars, readerVars, queue, execVars, lifeVars, obsVars>>

TableRegister ==
  /\ Handles("register")
  /\ cancels' = cancels \union {Head(cmds).id}
  /\ UNCHANGED <<activeID, parked, parkNext, targeted, nIdless, reply,
                 cancelled>>

(* Mutant of TableActivate: parkNext is not reset.                         *)
TableActivateKeepsPark ==
  LET id == Head(cmds).id IN
  /\ Handles("activate")
  /\ activeID' = id
  /\ reply' = [full   |-> TRUE,
               cancel |-> IF id \in cancels THEN id ELSE NoReq,
               parked |-> id \in parked \/ parkNext]
  /\ parked' = parked \ {id}
  /\ UNCHANGED <<cancels, parkNext, targeted, nIdless, cancelled>>

TableActivate ==
  LET id == Head(cmds).id IN
  /\ Handles("activate")
  /\ activeID' = id
  /\ reply' = [full   |-> TRUE,
               cancel |-> IF id \in cancels THEN id ELSE NoReq,
               parked |-> id \in parked \/ parkNext]
  /\ parked' = parked \ {id}
  /\ parkNext' = FALSE
  /\ UNCHANGED <<cancels, targeted, nIdless, cancelled>>

TableDeactivate ==
  /\ Handles("deactivate")
  /\ activeID' = NoReq
  /\ cancels' = cancels \ {Head(cmds).id}
  /\ UNCHANGED <<parked, parkNext, targeted, nIdless, reply, cancelled>>

(* Mutant of TableInterruptId: an unknown id is ignored, not parked.       *)
TableInterruptIdUnparked ==
  LET id == Head(cmds).id IN
  /\ Handles("interrupt") /\ id # NoReq
  /\ targeted' = targeted \union {id}
  /\ cancelled' = IF id \in cancels THEN Cancel(id) ELSE cancelled
  /\ UNCHANGED <<activeID, cancels, parked, parkNext, nIdless, reply>>

(* An interrupt with an id: cancel that request, or park the interrupt.    *)
TableInterruptId ==
  LET id == Head(cmds).id IN
  /\ Handles("interrupt") /\ id # NoReq
  /\ targeted' = targeted \union {id}
  /\ \/ /\ id \in cancels
        /\ cancelled' = Cancel(id) /\ UNCHANGED parked
     \/ /\ id \notin cancels
        /\ parked' = parked \union {id} /\ UNCHANGED cancelled
  /\ UNCHANGED <<activeID, cancels, parkNext, nIdless, reply>>

(* An interrupt without: cancel the active request, or park for the next.  *)
TableInterruptAny ==
  /\ Handles("interrupt") /\ Head(cmds).id = NoReq
  /\ nIdless' = nIdless + 1
  /\ \/ /\ activeID # NoReq
        /\ cancelled' = IF activeID \in cancels THEN Cancel(activeID)
                                                ELSE cancelled
        /\ UNCHANGED parkNext
     \/ /\ activeID = NoReq
        /\ parkNext' = TRUE /\ UNCHANGED cancelled
  /\ UNCHANGED <<activeID, cancels, parked, targeted, reply>>

Table == \/ TableRegister \/ TableActivate \/ TableDeactivate
         \/ TableInterruptId \/ TableInterruptAny

-----------------------------------------------------------------------------
(* The executor goroutine: executor, runRequest, runCell.                  *)

ExecKeeps == UNCHANGED <<hostVars, readerVars, tableVars, lifeVars, replied,
                         dropped>>

(* Either select may deliver a queued request, draining or not.            *)
ExecTake ==
  /\ execPc = "select" /\ queue # <<>>
  /\ cur' = Head(queue)
  /\ queue' = Tail(queue)
  /\ execPc' = "activate"
  /\ ExecKeeps
  /\ UNCHANGED <<cmds, curCancel, outcome, reply, cancelled, events>>

ExecExits ==
  /\ execPc' = "exited"
  /\ ExecKeeps
  /\ UNCHANGED <<cmds, queue, cur, curCancel, outcome, reply, cancelled, events>>

(* Mutant of ExecExitDrained: the inner select is missing.                 *)
ExecExitUndrained ==
  /\ execPc = "select" /\ draining
  /\ ExecExits

ExecExitDrained ==
  /\ execPc = "select" /\ draining /\ queue = <<>>
  /\ ExecExits

ExecExitStopped ==
  /\ execPc = "select" /\ rootDone
  /\ ExecExits

ExecActivate ==
  /\ execPc = "activate" /\ TableHasRoom
  /\ cmds' = Append(cmds, Cmd("activate", cur))
  /\ execPc' = "await"
  /\ ExecKeeps
  /\ UNCHANGED <<queue, cur, curCancel, outcome, reply, cancelled, events>>

(* Mutant of ExecStart: the parked interrupt is forgotten.                 *)
ExecStartUninterrupted ==
  /\ execPc = "await" /\ reply.full
  /\ curCancel' = reply.cancel
  /\ reply' = NoReply
  /\ execPc' = "run"
  /\ ExecKeeps /\ UNCHANGED <<cmds, queue, cur, outcome, cancelled, events>>

(* The table's reply: a parked interrupt is delivered before the cell      *)
(* starts.                                                                 *)
ExecStart ==
  /\ execPc = "await" /\ reply.full
  /\ curCancel' = reply.cancel
  /\ cancelled' = IF reply.parked THEN Cancel(reply.cancel) ELSE cancelled
  /\ reply' = NoReply
  /\ execPc' = "run"
  /\ ExecKeeps /\ UNCHANGED <<cmds, queue, cur, outcome, events>>

(* Whether the code of r returns without help from its context.            *)
Returns(r) == \/ Work[r] = "quick"
              \/ Work[r] = "hostcall" /\ r \in replied

(***************************************************************************)
(* How the request may end.  A cell whose context is cancelled when its    *)
(* code returns ends as interrupted even if the code swallowed it; an      *)
(* error of its own comes first.  No context ends a loop that reads none.  *)
(***************************************************************************)
Outcomes(r) ==
  IF Work[r] = "endless" THEN {}
  ELSE IF Work[r] = "control" THEN {"ok", "error"}
  ELSE IF CtxDone(r) THEN {"interrupted", "error"}
  ELSE IF Returns(r) THEN {"ok", "error"}
  ELSE {}

(* The evaluator (or the control handler) returns.                         *)
ExecEvaluate(s) ==
  /\ execPc = "run"
  /\ s \in Outcomes(cur)
  /\ outcome' = s
  /\ execPc' = "emit"
  /\ ExecKeeps
  /\ UNCHANGED <<cmds, queue, cur, curCancel, reply, cancelled, events>>

(* The done event, with the outcome found a step ago.                      *)
ExecDone ==
  /\ execPc = "emit"
  /\ events' = Append(events, Done(cur, outcome))
  /\ outcome' = "ok"
  /\ execPc' = "cancel"
  /\ ExecKeeps /\ UNCHANGED <<cmds, queue, cur, curCancel, reply, cancelled>>

(* The deferred calls run after done: first cancel, then deactivate.       *)
ExecCancel ==
  /\ execPc = "cancel"
  /\ cancelled' = Cancel(curCancel)
  /\ curCancel' = NoReq
  /\ execPc' = "deactivate"
  /\ ExecKeeps /\ UNCHANGED <<cmds, queue, cur, outcome, reply, events>>

ExecDeactivate ==
  /\ execPc = "deactivate" /\ TableHasRoom
  /\ cmds' = Append(cmds, Cmd("deactivate", cur))
  /\ cur' = NoReq
  /\ execPc' = "select"
  /\ ExecKeeps /\ UNCHANGED <<queue, curCancel, outcome, reply, cancelled, events>>

Executor ==
  \/ ExecTake \/ ExecExitDrained \/ ExecExitStopped \/ ExecActivate
  \/ ExecStart \/ (\E s \in Statuses : ExecEvaluate(s))
  \/ ExecDone \/ ExecCancel \/ ExecDeactivate

-----------------------------------------------------------------------------
(* Run and the goroutine beginShutdown starts.                             *)

LifeKeeps == UNCHANGED <<hostVars, readerVars, cmds, tableVars, queue,
                         execVars, reply, cancelled, obsVars>>

(* Run waits for its context or for the end of stdin, then begins the      *)
(* shutdown (a sync.Once: closing drainCh twice is a no-op).               *)
RunBeginsShutdown ==
  /\ runPc = "serving"
  /\ runCtxDone \/ readerPc = "exited"
  /\ draining' = TRUE
  /\ runPc' = "waiting"
  /\ LifeKeeps /\ UNCHANGED rootDone

RunReturns ==
  /\ runPc = "waiting" /\ execPc = "exited"
  /\ runPc' = "returned"
  /\ LifeKeeps /\ UNCHANGED <<rootDone, draining>>

StopAfterDrain ==
  /\ draining /\ ~rootDone
  /\ execPc = "exited"
  /\ rootDone' = TRUE
  /\ LifeKeeps /\ UNCHANGED <<draining, runPc>>

(* Mutant of StopAfterGrace: no timer, only the end of the executor.       *)
StopWithoutGrace ==
  /\ draining /\ ~rootDone
  /\ GraceExpires /\ execPc = "exited"
  /\ rootDone' = TRUE
  /\ LifeKeeps /\ UNCHANGED <<draining, runPc>>

StopAfterGrace ==
  /\ draining /\ ~rootDone
  /\ GraceExpires
  /\ rootDone' = TRUE
  /\ LifeKeeps /\ UNCHANGED <<draining, runPc>>

-----------------------------------------------------------------------------
Init ==
  /\ sent = <<>> /\ stdin = <<>> /\ eof = FALSE /\ runCtxDone = FALSE
  /\ readerPc = "scan" /\ hand = NoReq
  /\ cmds = <<>> /\ activeID = NoReq /\ cancels = {} /\ parked = {}
  /\ parkNext = FALSE
  /\ queue = <<>> /\ execPc = "select" /\ cur = NoReq /\ curCancel = NoReq
  /\ outcome = "ok" /\ reply = NoReply
  /\ cancelled = {} /\ rootDone = FALSE /\ draining = FALSE
  /\ runPc = "serving"
  /\ events = <<>> /\ replied = {} /\ dropped = {} /\ targeted = {}
  /\ nInterrupts = 0 /\ nIdless = 0

Host ==
  \/ \E r \in Reqs : SendRequest(r)
  \/ \E r \in Reqs \union {NoReq} : SendInterrupt(r)
  \/ SendReply \/ SendShutdown \/ SendMalformed \/ CloseStdin \/ CancelRun

Lifecycle == \/ RunBeginsShutdown \/ RunReturns
             \/ StopAfterDrain \/ StopAfterGrace

Next == Host \/ Reader \/ Table \/ Executor \/ Lifecycle

Spec == Init /\ [][Next]_vars

(***************************************************************************)
(* Every goroutine that can step eventually does (the Go scheduler), the   *)
(* grace timer eventually fires, and the host answers the host calls it    *)
(* receives.  The host owes nothing else: it need not send, interrupt,     *)
(* close stdin or cancel.                                                  *)
(***************************************************************************)
Fairness ==
  /\ WF_vars(Reader) /\ WF_vars(Table) /\ WF_vars(Executor)
  /\ WF_vars(RunBeginsShutdown) /\ WF_vars(RunReturns)
  /\ WF_vars(StopAfterDrain) /\ WF_vars(StopAfterGrace)
  /\ WF_vars(SendReply)

FairSpec == Spec /\ Fairness

-----------------------------------------------------------------------------
(* Properties.                                                             *)

RequestsOf(s) == {s[i].id : i \in {j \in DOMAIN s : s[j].kind = "request"}}

(* The variables hold what the code's types allow.                         *)
TypeOK ==
  /\ sent \in Seq(Reqs)
  /\ stdin \in Seq(Frames)
  /\ eof \in BOOLEAN /\ runCtxDone \in BOOLEAN
  /\ readerPc \in {"scan", "register", "push", "exited"}
  /\ hand \in Reqs \union {NoReq}
  /\ cmds \in Seq(Cmds)
  /\ activeID \in Reqs \union {NoReq}
  /\ cancels \in SUBSET Reqs /\ parked \in SUBSET Reqs
  /\ parkNext \in BOOLEAN
  /\ queue \in Seq(Reqs)
  /\ execPc \in {"select", "activate", "await", "run", "emit", "cancel",
                 "deactivate", "exited"}
  /\ cur \in Reqs \union {NoReq} /\ curCancel \in Reqs \union {NoReq}
  /\ outcome \in Statuses
  /\ reply \in [full : BOOLEAN, cancel : Reqs \union {NoReq}, parked : BOOLEAN]
  /\ cancelled \in SUBSET Reqs
  /\ rootDone \in BOOLEAN /\ draining \in BOOLEAN
  /\ runPc \in {"serving", "waiting", "returned"}
  /\ events \in Seq(DoneEvents)
  /\ replied \in SUBSET (Reqs \union {NoReq})
  /\ dropped \in SUBSET Reqs
  /\ targeted \in SUBSET Reqs
  /\ nInterrupts \in Nat /\ nIdless \in Nat

(* A request never gets two done events, whichever of the reader (refusal, *)
(* shutdown) and the executor answers it, and none after it was given up   *)
(* ("exactly one done").                                                   *)
AtMostOneDone ==
  /\ \A i, j \in DOMAIN events : events[i].req = events[j].req => i = j
  /\ Answered \intersect dropped = {}

(* Queued requests are answered in the order the host sent them: executes  *)
(* stay serial.  Refusals and shutdown answers come from the reader and    *)
(* may overtake.                                                           *)
Position(r) == CHOOSE i \in DOMAIN sent : sent[i] = r
FromExecutor(e) == e.status # "refused" /\ Work[e.req] # "shutdown"

DoneOrder ==
  \A i, j \in DOMAIN events :
    i < j /\ FromExecutor(events[i]) /\ FromExecutor(events[j])
      => Position(events[i].req) < Position(events[j].req)

(* Once the table has handled an interrupt for a request, its cell never   *)
(* runs with a live context, whether the interrupt came before its         *)
(* registration, while it was queued, or during the cell.                  *)
InterruptDelivered ==
  execPc = "run" /\ cur \in targeted => CtxDone(cur)

(* A cell reports an interruption only if an interrupt named it, or an     *)
(* id-less interrupt was spent on it, or the root context ended: no        *)
(* interrupt hits two cells.                                               *)
NoSpuriousInterrupt ==
  ~rootDone =>
    Cardinality({i \in DOMAIN events : /\ events[i].status = "interrupted"
                                       /\ events[i].req \notin targeted}) <= nIdless

(* "Lets the executor finish queued requests": a drain that neither the    *)
(* grace timer nor the context of Run cuts short leaves no queued request  *)
(* behind, and none the reader has admitted.                               *)
DrainCompletes ==
  ~runCtxDone /\ ~rootDone /\ execPc = "exited" => queue = <<>> /\ hand = NoReq

(* A cell that never ends: the compute loop no context stops.              *)
Endless == cur # NoReq /\ Work[cur] = "endless"

(* A cell that holds the executor for good: an endless one, or one that    *)
(* only its context would end and that no interrupt has named.             *)
Blocked == \/ Endless
           \/ cur # NoReq /\ Work[cur] = "blocking" /\ cur \notin targeted

(* Every request gets its done event ("exactly one done"), unless the      *)
(* context of Run is cancelled, the grace timer ends the root context      *)
(* before the executor is through, or a cell holds the executor for ever.  *)
EveryRequestAnswered ==
  []~runCtxDone /\ [](rootDone => execPc = "exited") =>
    \A r \in Reqs : (r \in Range(sent)) ~> (r \in Answered \/ []Blocked)

(* A running request that an interrupt named ends, even a cell that would  *)
(* wait for ever on its context, wherever the interrupt caught it.  Only a *)
(* loop that never looks at its context goes on.                           *)
InterruptEnds ==
  \A r \in Reqs : Work[r] # "endless" =>
    ((cur = r /\ r \in targeted) ~> (r \in Answered))

(* The reader waits with a request in its hand behind a full queue and a   *)
(* cell that holds the executor: it sees neither frames nor the end of     *)
(* stdin.                                                                  *)
ReaderStuck == readerPc = "push" /\ Blocked

(* When the context is cancelled Run returns, unless it waits for a cell   *)
(* that never ends; when stdin ends it does, too, unless the reader is     *)
(* stuck before it gets there.                                             *)
RunTerminates ==
  /\ runCtxDone ~> (runPc = "returned" \/ []Endless)
  /\ eof ~> (runPc = "returned" \/ []ReaderStuck \/ []Endless)

(* An interrupt the host has sent reaches the request table, whatever the  *)
(* kernel is busy with (an endless cell included), unless the reader is    *)
(* stuck for ever.                                                         *)
InterruptsReachTable ==
  \A r \in Reqs :
    (Frame("interrupt", r) \in Range(stdin))
      ~> (r \in targeted \/ []ReaderStuck)

(* The life of each request, as module KernelService tells it.             *)
PhaseOf(r) ==
  IF r \in Answered THEN "answered"
  ELSE IF r \in dropped THEN "dropped"
  ELSE IF r = cur THEN "running"
  ELSE IF r \in Range(queue) THEN "accepted"
  ELSE IF r \in Range(sent) THEN "sent"
  ELSE "unsent"

Service == INSTANCE KernelService WITH
  phase   <- [r \in Reqs |-> PhaseOf(r)],
  backlog <- queue,
  current <- cur,
  answers <- events,
  closed  <- draining,
  stopped <- rootDone

(* The goroutines together implement the service: one request at a time,   *)
(* one answer each, refusals only after closing.                           *)
ImplementsService == Service!Spec

=============================================================================
