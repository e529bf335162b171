----------------------------- MODULE KernelHost -----------------------------
(***************************************************************************)
(* The host's side of an in-process kernel (host/kernel.go): Execute in    *)
(* any number of goroutines, the writer that feeds the kernel's stdin, the *)
(* line pump, and the reader that owns the pending map and services host   *)
(* requests.                                                               *)
(*                                                                         *)
(* The kernel is what module Kernel is proved to be, seen from here: it    *)
(* runs accepted cells one at a time and in order, refuses after a         *)
(* shutdown, and may then lose what it had accepted.  An execute stands    *)
(* for its own random id.  Both pipes are io.Pipe: no buffer.  The frame   *)
(* the writer holds is the one the kernel's reader works on.               *)
(***************************************************************************)
EXTENDS Naturals, Sequences, FiniteSets

CONSTANTS
  Execs,    \* calls of Execute
  NoExec,
  Cell,     \* Cell[e]: how its cell behaves, see CellKinds
  SendCap,  \* capacity of KernelHost.send (64 in the code)
  RegCap,   \* capacity of KernelHost.reg (64)
  QueueCap, \* capacity of the kernel's queue (64)
  OutCap,   \* capacity of the kernel's event channel (1024)
  MaxText   \* bound: a cell that said so much while it ran prints no more

(* "quick" ends by itself, "asks" waits for a host reply first, "blocks"   *)
(* ends only when it is interrupted.  Any cell may also get into a loop    *)
(* that never ends (CellLoops).                                            *)
CellKinds == {"quick", "asks", "blocks"}

ASSUME KernelHostAssumption ==
  /\ NoExec \notin Execs
  /\ Cell \in [Execs -> CellKinds]
  /\ SendCap \in Nat \ {0} /\ RegCap \in Nat \ {0} /\ QueueCap \in Nat \ {0}
  /\ OutCap \in Nat \ {0, 1} /\ MaxText \in Nat

VARIABLES
  pc,        \* pc[e]: where Execute is
  ctxDone,   \* executes whose context is cancelled
  shutPc,    \* Shutdown: "up", "sent", "down"
  send, reg, \* the two channels
  hand,      \* the frame the writer goroutine holds, if any
  line,      \* the event the line pump holds, if any
  pendings,  \* the reader's map (its keys)
  acked, closed,  \* pendings whose acked, done channel is closed
  got,       \* got[e]: what onEvent noted in the pending of e
  replyTo,   \* the host request the reader is answering
  \* the kernel
  backlog, running, asked, replied, cancelled, draining, out,
  looping,   \* the running cell is in a compute loop that never ends
  ended,     \* cells that have ended; their goroutines live on
  emitted    \* history: what the kernel said about each execute up to done

hostVars   == <<pc, ctxDone, shutPc>>
readerVars == <<pendings, acked, closed, got, replyTo>>
kernelVars == <<backlog, running, asked, replied, cancelled, draining, looping,
                ended, emitted>>
vars == <<hostVars, send, reg, hand, line, readerVars, kernelVars, out>>

Frame(k, e)  == [kind |-> k, id |-> e]
Requests     == [kind : {"execute", "interrupt", "host_reply", "shutdown"},
                 id : Execs \union {NoExec}]
EventKinds   == {"stdout", "error", "done", "host_request"}
Events       == [kind : EventKinds, id : Execs]
NoFrame      == Frame("none", NoExec)

(* The fields of a pending, and of a CellResult.                           *)
Notes   == [text : Nat, err : BOOLEAN]
NoNotes == [text |-> 0, err |-> FALSE]
Note(n, kind) == CASE kind = "stdout" -> [n EXCEPT !.text = @ + 1]
                   [] kind = "error"  -> [n EXCEPT !.err = TRUE]
                   [] OTHER           -> n

Sends(f) == Len(send) < SendCap /\ send' = Append(send, f)
Goes(e, from, to) == pc[e] = from /\ pc' = [pc EXCEPT ![e] = to]

-----------------------------------------------------------------------------
(* Execute and Shutdown.                                                   *)

ExecKeeps == UNCHANGED <<ctxDone, shutPc, hand, line, readerVars, kernelVars, out>>

ExecRegister(e) ==
  /\ Goes(e, "idle", "ack")
  /\ Len(reg) < RegCap /\ reg' = Append(reg, e)
  /\ ExecKeeps /\ UNCHANGED send

ExecAcked(e) ==
  /\ e \in acked
  /\ Goes(e, "ack", "send")
  /\ ExecKeeps /\ UNCHANGED <<send, reg>>

ExecSend(e) ==
  /\ Goes(e, "send", "wait")
  /\ Sends(Frame("execute", e))
  /\ ExecKeeps /\ UNCHANGED reg

ExecSeesCancel(e) ==
  /\ e \in ctxDone
  /\ Goes(e, "wait", "interrupt")
  /\ ExecKeeps /\ UNCHANGED <<send, reg>>

(* Mutant of ExecInterrupt: the frame is dropped when the channel is full. *)
ExecInterruptMaybe(e) ==
  /\ Goes(e, "interrupt", "settle")
  /\ IF Len(send) < SendCap THEN Sends(Frame("interrupt", e))
                            ELSE UNCHANGED send
  /\ ExecKeeps /\ UNCHANGED reg

ExecInterrupt(e) ==
  /\ Goes(e, "interrupt", "settle")
  /\ Sends(Frame("interrupt", e))
  /\ ExecKeeps /\ UNCHANGED reg

(* After an interrupt Execute waits for done unconditionally.              *)
ExecReturn(e) ==
  /\ e \in closed
  /\ Goes(e, "wait", "returned") \/ Goes(e, "settle", "returned")
  /\ ExecKeeps /\ UNCHANGED <<send, reg>>

Execute(e) ==
  \/ ExecRegister(e) \/ ExecAcked(e) \/ ExecSend(e) \/ ExecSeesCancel(e)
  \/ ExecInterrupt(e) \/ ExecReturn(e)

CtxEnds(e) ==
  /\ e \notin ctxDone
  /\ ctxDone' = ctxDone \union {e}
  /\ UNCHANGED <<pc, shutPc, send, reg, hand, line, readerVars, kernelVars, out>>

ShutdownSend ==
  /\ shutPc = "up"
  /\ Sends(Frame("shutdown", NoExec))
  /\ shutPc' = "sent"
  /\ UNCHANGED <<pc, ctxDone, reg, hand, line, readerVars, kernelVars, out>>

(* The kernel's context ends: Run begins its own shutdown.                 *)
ShutdownCancel ==
  /\ shutPc = "sent"
  /\ shutPc' = "down"
  /\ draining' = TRUE
  /\ UNCHANGED <<pc, ctxDone, send, reg, hand, line, readerVars, backlog,
                 running, asked, replied, cancelled, out, looping, ended, emitted>>

-----------------------------------------------------------------------------
(* The writer goroutine, the line pump and the reader.                     *)

WriterTakes ==
  /\ hand = NoFrame /\ send # <<>>
  /\ hand' = Head(send) /\ send' = Tail(send)
  /\ UNCHANGED <<hostVars, reg, line, readerVars, kernelVars, out>>

(* The pump keeps a line until the reader takes it: lines has no buffer.   *)
(* It never ends, for nobody closes the kernel's end of the event pipe.    *)
PumpScans ==
  /\ line = NoFrame /\ out # <<>>
  /\ line' = Head(out) /\ out' = Tail(out)
  /\ UNCHANGED <<hostVars, send, reg, hand, readerVars, kernelVars>>

ReaderRegisters ==
  /\ replyTo = NoExec /\ reg # <<>>
  /\ pendings' = pendings \union {Head(reg)}
  /\ acked' = acked \union {Head(reg)}
  /\ reg' = Tail(reg)
  /\ UNCHANGED <<hostVars, send, hand, line, closed, got, replyTo, kernelVars, out>>

ReaderTakes(kinds) ==
  /\ replyTo = NoExec /\ line.kind \in kinds
  /\ line' = NoFrame
  /\ UNCHANGED <<hostVars, send, reg, hand, acked, kernelVars, out>>

(* Mutant of ReaderNotes: a call that has its result is still told.        *)
ReaderNotesLate ==
  /\ ReaderTakes({"stdout", "error"})
  /\ got' = [got EXCEPT ![line.id] = Note(@, line.kind)]
  /\ UNCHANGED <<pendings, closed, replyTo>>

(* Events of an execute that is not pending are ignored: what a goroutine  *)
(* prints after its cell has ended is lost.                                *)
ReaderNotes ==
  /\ ReaderTakes({"stdout", "error"})
  /\ got' = IF line.id \in pendings
            THEN [got EXCEPT ![line.id] = Note(@, line.kind)] ELSE got
  /\ UNCHANGED <<pendings, closed, replyTo>>

ReaderEnds ==
  /\ ReaderTakes({"done"})
  /\ pendings' = pendings \ {line.id}
  /\ closed' = closed \union ({line.id} \intersect pendings)
  /\ UNCHANGED <<got, replyTo>>

(* The service (module-level: Manager) answers on the reader's goroutine.  *)
ReaderServes ==
  /\ ReaderTakes({"host_request"})
  /\ replyTo' = line.id
  /\ UNCHANGED <<pendings, closed, got>>

ReplyKeeps == UNCHANGED <<hostVars, reg, hand, line, pendings, acked, closed, got,
                          kernelVars, out>>

(* Mutant of ReaderReplies: the id is left out.                            *)
ReaderRepliesToNobody ==
  /\ replyTo # NoExec
  /\ Sends(Frame("host_reply", <<>>))
  /\ replyTo' = NoExec
  /\ ReplyKeeps

ReaderReplies ==
  /\ replyTo # NoExec
  /\ Sends(Frame("host_reply", replyTo))
  /\ replyTo' = NoExec
  /\ ReplyKeeps

Reader == \/ ReaderRegisters \/ ReaderNotes \/ ReaderEnds
          \/ ReaderServes \/ ReaderReplies

-----------------------------------------------------------------------------
(* The kernel.                                                             *)

(* Its reader goroutine takes the frame the writer holds.                  *)
KernelReads(kind) ==
  /\ hand.kind = kind
  /\ hand' = NoFrame
  /\ UNCHANGED <<hostVars, send, reg, line, readerVars, running, asked, looping,
                 ended>>

Emits(kind, e) ==
  /\ Len(out) < OutCap
  /\ out' = Append(out, Frame(kind, e))
  /\ emitted' = IF e \in ended THEN emitted
                               ELSE [emitted EXCEPT ![e] = Note(@, kind)]

(* enqueue's check and its push are one step here; Kernel separates them.  *)
KernelAccepts ==
  /\ KernelReads("execute") /\ ~draining
  /\ Len(backlog) < QueueCap
  /\ backlog' = Append(backlog, hand.id)
  /\ UNCHANGED <<replied, cancelled, draining, emitted, out>>

(* Once draining: an error and a done event.                               *)
KernelRefuses ==
  /\ KernelReads("execute") /\ draining
  /\ Len(out) + 2 <= OutCap
  /\ out' = out \o <<Frame("error", hand.id), Frame("done", hand.id)>>
  /\ emitted' = [emitted EXCEPT ![hand.id] = Note(@, "error")]
  /\ UNCHANGED <<backlog, replied, cancelled, draining>>

(* An interrupt of a request that has not begun is parked for it.          *)
KernelInterrupted ==
  /\ KernelReads("interrupt")
  /\ cancelled' = cancelled \union {hand.id}
  /\ UNCHANGED <<backlog, replied, draining, emitted, out>>

KernelReplied ==
  /\ KernelReads("host_reply")
  /\ replied' = replied \union {hand.id}
  /\ UNCHANGED <<backlog, cancelled, draining, emitted, out>>

KernelDrains ==
  /\ KernelReads("shutdown")
  /\ draining' = TRUE
  /\ UNCHANGED <<backlog, replied, cancelled, emitted, out>>

(* The root context ends: what runs is interrupted, what waits is lost.    *)
KernelStops ==
  /\ draining
  /\ cancelled' = Execs /\ backlog' = <<>>
  /\ UNCHANGED <<hostVars, send, reg, hand, line, readerVars, running, asked,
                 replied, draining, looping, ended, emitted, out>>

CellKeeps == UNCHANGED <<hostVars, send, reg, hand, line, readerVars, backlog,
                         replied, cancelled, draining>>

KernelStarts ==
  /\ running = NoExec /\ backlog # <<>>
  /\ running' = Head(backlog) /\ backlog' = Tail(backlog)
  /\ UNCHANGED <<hostVars, send, reg, hand, line, readerVars, asked, replied,
                 cancelled, draining, looping, ended, emitted, out>>

(* The cell prints, or one of its goroutines does: while the cell runs or  *)
(* at any time after, for the slot keeps the out of the last cell and a    *)
(* goroutine may have read it before the next one began.                   *)
CellPrints(e) ==
  /\ running = e \/ e \in ended
  /\ emitted[e].text < MaxText
  /\ Emits("stdout", e)
  /\ CellKeeps /\ UNCHANGED <<running, asked, looping, ended>>

CellAsks(e) ==
  /\ running = e /\ ~looping
  /\ Cell[e] = "asks" /\ e \notin asked
  /\ Emits("host_request", e)
  /\ asked' = asked \union {e}
  /\ CellKeeps /\ UNCHANGED <<running, looping, ended>>

(* Eval is given no context: interpreted code that never ends and calls no *)
(* helper never returns, whatever is cancelled.                            *)
CellLoops(e) ==
  /\ running = e /\ ~looping /\ ~emitted[e].err
  /\ looping' = TRUE
  /\ CellKeeps /\ UNCHANGED <<running, asked, ended, emitted, out>>

(* An interrupted cell reports KeyboardInterrupt.                          *)
CellFails(e) ==
  /\ running = e /\ ~looping
  /\ e \in cancelled /\ ~emitted[e].err
  /\ Emits("error", e)
  /\ CellKeeps /\ UNCHANGED <<running, asked, looping, ended>>

CellEnds(e) ==
  /\ running = e /\ ~looping
  /\ emitted[e].err \/ Cell[e] = "quick" \/ e \in replied
  /\ Emits("done", e)
  /\ running' = NoExec
  /\ ended' = ended \union {e}
  /\ CellKeeps /\ UNCHANGED <<asked, looping>>

KernelReader == \/ KernelAccepts \/ KernelRefuses \/ KernelInterrupted
                \/ KernelReplied \/ KernelDrains

CellRuns(e) == CellAsks(e) \/ CellFails(e) \/ CellEnds(e)

-----------------------------------------------------------------------------
Init ==
  /\ pc = [e \in Execs |-> "idle"] /\ ctxDone = {} /\ shutPc = "up"
  /\ send = <<>> /\ reg = <<>> /\ hand = NoFrame /\ line = NoFrame
  /\ pendings = {} /\ acked = {} /\ closed = {} /\ replyTo = NoExec
  /\ got = [e \in Execs |-> NoNotes]
  /\ backlog = <<>> /\ running = NoExec /\ asked = {} /\ replied = {}
  /\ cancelled = {} /\ draining = FALSE /\ out = <<>>
  /\ looping = FALSE /\ ended = {}
  /\ emitted = [e \in Execs |-> NoNotes]

Next ==
  \/ \E e \in Execs : \/ Execute(e) \/ CtxEnds(e)
                     \/ CellPrints(e) \/ CellLoops(e) \/ CellRuns(e)
  \/ ShutdownSend \/ ShutdownCancel
  \/ WriterTakes \/ PumpScans \/ Reader
  \/ KernelReader \/ KernelStarts \/ KernelStops

Spec == Init /\ [][Next]_vars

(* Every goroutine runs; the reader's select, the channel h.send and the   *)
(* kernel's event channel serve everyone who waits, whatever background    *)
(* goroutines print.  No caller is owed its call or the end of its         *)
(* context, and no cell its output or a loop.                              *)
Fairness ==
  /\ \A e \in Execs : /\ WF_vars(ExecAcked(e) \/ ExecSeesCancel(e) \/ ExecReturn(e))
                      /\ SF_vars(ExecSend(e) \/ ExecInterrupt(e))
  /\ SF_vars(\E e \in Execs : CellRuns(e))
  /\ WF_vars(WriterTakes) /\ WF_vars(PumpScans)
  /\ SF_vars(ReaderRegisters \/ ReaderReplies)
  /\ WF_vars(ReaderNotes \/ ReaderEnds \/ ReaderServes)
  /\ WF_vars(KernelReader) /\ WF_vars(KernelStarts)

FairSpec == Spec /\ Fairness

-----------------------------------------------------------------------------
(* Properties.                                                             *)

Pcs == {"idle", "ack", "send", "wait", "interrupt", "settle", "returned"}

TypeOK ==
  /\ pc \in [Execs -> Pcs] /\ ctxDone \in SUBSET Execs
  /\ shutPc \in {"up", "sent", "down"}
  /\ send \in Seq(Requests) /\ reg \in Seq(Execs)
  /\ hand \in Requests \union {NoFrame} /\ line \in Events \union {NoFrame}
  /\ pendings \in SUBSET Execs /\ acked \in SUBSET Execs
  /\ closed \in SUBSET Execs /\ replyTo \in Execs \union {NoExec}
  /\ got \in [Execs -> Notes] /\ emitted \in [Execs -> Notes]
  /\ backlog \in Seq(Execs) /\ running \in Execs \union {NoExec}
  /\ asked \in SUBSET Execs /\ replied \in SUBSET Execs
  /\ cancelled \in SUBSET Execs /\ draining \in BOOLEAN
  /\ out \in Seq(Events)
  /\ looping \in BOOLEAN /\ ended \in SUBSET Execs

(* Execute returns everything the kernel said about its cell up to the     *)
(* done event, nobody else's events, and nothing that comes later: no      *)
(* event is missed, because the registration precedes the request, and     *)
(* what a goroutine of the cell prints after its end never gets into a     *)
(* result that is being read (it is lost).                                 *)
ResultComplete ==
  \A e \in Execs : pc[e] = "returned" => got[e] = emitted[e]

(* What can go on without the outside: a call of Execute, the reader, the  *)
(* writer and the pump, the kernel's reader, the cell or the executor.     *)
ExecuteMoves(e) ==
  \/ pc[e] = "ack" /\ e \in acked
  \/ pc[e] \in {"send", "interrupt"} /\ Len(send) < SendCap
  \/ pc[e] = "wait" /\ e \in ctxDone
  \/ pc[e] \in {"wait", "settle"} /\ e \in closed

ReaderMoves == IF replyTo = NoExec THEN reg # <<>> \/ line # NoFrame
                                   ELSE Len(send) < SendCap

PipesMove == \/ hand = NoFrame /\ send # <<>>
             \/ line = NoFrame /\ out # <<>>

KernelReaderMoves ==
  \/ hand.kind \in {"interrupt", "host_reply", "shutdown"}
  \/ hand.kind = "execute" /\ ~draining /\ Len(backlog) < QueueCap
  \/ hand.kind = "execute" /\ draining /\ Len(out) + 2 <= OutCap

CellMoves ==
  IF running = NoExec THEN backlog # <<>>
  ELSE /\ ~looping /\ Len(out) < OutCap
       /\ \/ Cell[running] = "quick" \/ running \in replied \union cancelled
          \/ Cell[running] = "asks" /\ running \notin asked

InFlight == {e \in Execs : pc[e] \notin {"idle", "returned"}}

(* Executes never wait for each other in a circle, through the reader that *)
(* sends replies, the kernel's reader and the executor, until the kernel   *)
(* shuts down: while one more than fit in the kernel's queue are in flight *)
(* at most, somebody can go on, or the cell that runs waits for nothing    *)
(* but the end of its context, or it loops for ever.  With one more in     *)
(* flight, the kernel's reader may hold an execute that does not fit,      *)
(* ahead of the reply that the running cell waits for.                     *)
NoCircularWait ==
  ~draining /\ InFlight # {} /\ Cardinality(InFlight) <= QueueCap + 1 =>
    \/ \E e \in Execs : ExecuteMoves(e)
    \/ ReaderMoves \/ PipesMove \/ KernelReaderMoves \/ CellMoves
    \/ running # NoExec /\ Cell[running] = "blocks" /\ running \notin ctxDone
    \/ looping

(* While nobody shuts the kernel down, every Execute returns, interrupted  *)
(* or not, provided the contexts of the cells that only an interrupt ends  *)
(* are done some day, and unless the running cell never ends.  Such a cell *)
(* keeps its own caller waiting after the interrupt, and every caller      *)
(* behind it.                                                              *)
EveryExecuteReturns ==
  /\ [](shutPc = "up")
  /\ \A e \in Execs : Cell[e] = "blocks" => <>(e \in ctxDone)
  => \A e \in Execs : (pc[e] # "idle") ~> (pc[e] = "returned" \/ []looping)
=============================================================================
