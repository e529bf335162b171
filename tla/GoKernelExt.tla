---------------------------- MODULE GoKernelExt ----------------------------
(***************************************************************************)
(* The go-kernel extension (.prime/agent/extensions/go-kernel.ts): class   *)
(* GoKernel, which starts one kernel process, waits for its handshake and  *)
(* executes cells for concurrent tool calls.                               *)
(*                                                                         *)
(* JavaScript runs one callback at a time, and what an await waited for    *)
(* goes on before the next callback: Settled says that nothing is left to  *)
(* go on.  The kernel process is reduced to what this side can tell apart; *)
(* its own concurrency is module Kernel.                                   *)
(***************************************************************************)
EXTENDS Naturals, Sequences

CONSTANTS
  Calls,   \* the tool calls
  Cell,    \* Cell[e]: "brief" (may ask the host something and ends), or
           \* "blocking" (ends when interrupted), as the code of call e does;
           \* either may fall into a loop that no interrupt ends
  NoCall

ASSUME ExtAssumption ==
  /\ NoCall \notin Calls
  /\ Cell \in [Calls -> {"brief", "blocking"}]

VARIABLES
  \* the extension
  ready,      \* the promise this.ready: "none", "pending", "resolved", "rejected"
  exitInfo,   \* the exit callback has run
  call,       \* call[e]: where execute is
  pending,    \* this.pending
  woken,      \* calls whose p.resolve was called
  error,      \* error[e]: p.error, "none", "own" or "KernelDied"
  listens,    \* calls whose abort listener is registered
  aborted,    \* calls whose signal was aborted
  timedOut,   \* calls whose cell timer has fired
  \* the pipes and the kernel process
  spawned,    \* processes started
  up,         \* the process runs
  stdin, stdout,
  greeted,    \* it has written ready
  queue, running, interrupted, asked, replied,
  looping,    \* the running cell computes without an end
  finished    \* history: calls whose done event was handled

extVars  == <<ready, exitInfo, call, pending, woken, error, finished>>
sigVars  == <<listens, aborted, timedOut>>
kernVars == <<up, greeted, queue, running, interrupted, asked, replied, looping>>
vars == <<extVars, sigVars, spawned, stdin, stdout, kernVars>>

Line(k, e) == [kind |-> k, id |-> e]

(* An execute that start has been decided for, or whose p.resolve was      *)
(* called, goes on before any other callback runs.                         *)
MayGoOn(e) == \/ call[e] = "starting" /\ ready \in {"resolved", "rejected"}
              \/ call[e] = "waiting" /\ e \in woken
Settled == \A e \in Calls : ~MayGoOn(e)

(* writer: a line written after the process has ended goes nowhere.        *)
Writes(line) == stdin' = IF up THEN Append(stdin, line) ELSE stdin

-----------------------------------------------------------------------------
(* start and its callbacks.                                                *)

(* Mutant: the promise is not kept while the handshake is out.             *)
ExecuteRestarts(e) ==
  /\ Settled /\ call[e] = "idle"
  /\ call' = [call EXCEPT ![e] = "starting"]
  /\ IF ready # "resolved"
     THEN ready' = "pending" /\ spawned' = spawned + 1 /\ up' = TRUE
     ELSE UNCHANGED <<ready, spawned, up>>
  /\ UNCHANGED <<exitInfo, pending, woken, error, finished, sigVars, stdin, stdout,
                 greeted, queue, running, interrupted, asked, replied, looping>>

(* A tool call: start keeps its promise, so that there is one process.     *)
Execute(e) ==
  /\ Settled /\ call[e] = "idle"
  /\ call' = [call EXCEPT ![e] = "starting"]
  /\ IF ready = "none"
     THEN ready' = "pending" /\ spawned' = spawned + 1 /\ up' = TRUE
     ELSE UNCHANGED <<ready, spawned, up>>
  /\ UNCHANGED <<exitInfo, pending, woken, error, finished, sigVars, stdin, stdout,
                 greeted, queue, running, interrupted, asked, replied, looping>>

(* Mutant: the timer is set when the process writes its first line.        *)
StartTimesOutFromFirstLine ==
  /\ Settled /\ ready = "pending" /\ greeted
  /\ ready' = "rejected" /\ up' = FALSE
  /\ UNCHANGED <<exitInfo, call, pending, woken, error, finished, sigVars, spawned,
                 stdin, stdout, greeted, queue, running, interrupted, asked, replied, looping>>

(* The handshake timer: the start fails and the process is killed.         *)
StartTimesOut ==
  /\ Settled /\ ready = "pending"
  /\ ready' = "rejected" /\ up' = FALSE
  /\ UNCHANGED <<exitInfo, call, pending, woken, error, finished, sigVars, spawned,
                 stdin, stdout, greeted, queue, running, interrupted, asked, replied, looping>>

(* The exit callback may run before the last lines are read.               *)
OnExit ==
  /\ Settled /\ spawned > 0 /\ ~up /\ ~exitInfo
  /\ exitInfo' = TRUE
  /\ woken' = woken \union pending
  /\ pending' = {}
  /\ ready' = IF ready = "pending" THEN "rejected" ELSE ready
  /\ UNCHANGED <<call, error, finished, sigVars, spawned, stdin, stdout, kernVars>>

-----------------------------------------------------------------------------
(* onEvent.  The lines of one chunk are handled in one callback; what they  *)
(* wake does not touch what the later ones do, so each line is one here.   *)

Handles(kind) ==
  /\ Settled /\ stdout # <<>> /\ Head(stdout).kind = kind
  /\ stdout' = Tail(stdout)
  /\ UNCHANGED <<exitInfo, call, sigVars, spawned, kernVars>>

OnReady ==
  /\ Handles("ready")
  /\ ready' = IF ready = "pending" THEN "resolved" ELSE ready
  /\ UNCHANGED <<pending, woken, error, finished, stdin>>

(* stdout, result and error fill the pending request.                      *)
OnOutput ==
  /\ \/ /\ Handles("result") /\ UNCHANGED error
     \/ /\ Handles("error")
        /\ error' = [e \in Calls |-> IF e = Head(stdout).id /\ e \in pending
                                     THEN "own" ELSE error[e]]
  /\ UNCHANGED <<ready, pending, woken, finished, stdin>>

(* onHostRequest: every kind is answered with an error.                    *)
OnHostRequest ==
  /\ Handles("host_request")
  /\ Writes(Line("host_reply", Head(stdout).id))
  /\ UNCHANGED <<ready, pending, woken, error, finished>>

OnDone ==
  LET e == Head(stdout).id IN
  /\ Handles("done")
  /\ IF e \in pending
     THEN /\ pending' = pending \ {e} /\ woken' = woken \union {e}
          /\ finished' = finished \union {e}
     ELSE UNCHANGED <<pending, woken, finished>>
  /\ UNCHANGED <<ready, error, stdin>>

OnLine == OnReady \/ OnOutput \/ OnHostRequest \/ OnDone

-----------------------------------------------------------------------------
(* execute.                                                                *)

(* start has succeeded: the request is registered, the abort listener      *)
(* added, the timer set, and the line written, in one go.                  *)
Registers(e) ==
  /\ call[e] = "starting" /\ ready = "resolved"
  /\ call' = [call EXCEPT ![e] = "waiting"]
  /\ pending' = pending \union {e}
  /\ listens' = listens \union {e}
  /\ Writes(Line("execute", e))
  /\ UNCHANGED <<ready, exitInfo, woken, error, finished, aborted, timedOut,
                 spawned, stdout, kernVars>>

(* The rejection of a start, which is kept, fails this call and the later. *)
Throws(e) ==
  /\ call[e] = "starting" /\ ready = "rejected"
  /\ call' = [call EXCEPT ![e] = "thrown"]
  /\ UNCHANGED <<ready, exitInfo, pending, woken, error, finished, sigVars,
                 spawned, stdin, stdout, kernVars>>

(* The abort listener: an abort before it is added is not seen.            *)
Abort(e) ==
  /\ Settled /\ e \notin aborted /\ call[e] \in {"idle", "starting", "waiting"}
  /\ aborted' = aborted \union {e}
  /\ IF e \in listens THEN Writes(Line("interrupt", e)) ELSE UNCHANGED stdin
  /\ UNCHANGED <<extVars, listens, timedOut, spawned, stdout, kernVars>>

(* Mutant: the timer that the abort listener would have cleared.           *)
CellTimesOutUnlessAborted(e) ==
  /\ Settled /\ call[e] = "waiting" /\ e \notin timedOut /\ e \notin aborted
  /\ timedOut' = timedOut \union {e}
  /\ Writes(Line("interrupt", e))
  /\ UNCHANGED <<extVars, listens, aborted, spawned, stdout, kernVars>>

CellTimesOut(e) ==
  /\ Settled /\ call[e] = "waiting" /\ e \notin timedOut
  /\ timedOut' = timedOut \union {e}
  /\ Writes(Line("interrupt", e))
  /\ UNCHANGED <<extVars, listens, aborted, spawned, stdout, kernVars>>

(* Mutant: what was received so far is returned as it is.                  *)
ReturnsBlindly(e) ==
  /\ call[e] = "waiting" /\ e \in woken
  /\ call' = [call EXCEPT ![e] = "returned"]
  /\ listens' = listens \ {e}
  /\ UNCHANGED <<ready, exitInfo, pending, woken, error, finished, aborted,
                 timedOut, spawned, stdin, stdout, kernVars>>

(* A call that was woken by the process's end reports KernelDied, unless   *)
(* the cell's own error has come.                                          *)
Returns(e) ==
  /\ call[e] = "waiting" /\ e \in woken
  /\ call' = [call EXCEPT ![e] = "returned"]
  /\ error' = IF exitInfo /\ error[e] = "none"
              THEN [error EXCEPT ![e] = "KernelDied"] ELSE error
  /\ listens' = listens \ {e}
  /\ UNCHANGED <<ready, exitInfo, pending, woken, finished, aborted, timedOut,
                 spawned, stdin, stdout, kernVars>>

GoesOn(e) == Registers(e) \/ Throws(e) \/ Returns(e)

-----------------------------------------------------------------------------
(* The kernel process.                                                     *)

KernelKeeps == UNCHANGED <<extVars, sigVars, spawned>>

(* It may never get so far.                                                *)
KernelGreets ==
  /\ up /\ ~greeted
  /\ greeted' = TRUE
  /\ stdout' = Append(stdout, Line("ready", NoCall))
  /\ KernelKeeps
  /\ UNCHANGED <<up, stdin, queue, running, interrupted, asked, replied, looping>>

KernelReads ==
  LET line == Head(stdin) IN
  /\ up /\ greeted /\ stdin # <<>>
  /\ stdin' = Tail(stdin)
  /\ CASE line.kind = "execute"    -> /\ queue' = Append(queue, line.id)
                                      /\ UNCHANGED <<interrupted, replied>>
       [] line.kind = "interrupt"  -> /\ interrupted' = interrupted \union {line.id}
                                      /\ UNCHANGED <<queue, replied>>
       [] line.kind = "host_reply" -> /\ replied' = replied \union {line.id}
                                      /\ UNCHANGED <<queue, interrupted>>
  /\ KernelKeeps /\ UNCHANGED <<up, stdout, greeted, running, asked, looping>>

KernelRuns ==
  /\ up /\ running = NoCall /\ queue # <<>>
  /\ running' = Head(queue) /\ queue' = Tail(queue)
  /\ KernelKeeps /\ UNCHANGED <<up, stdin, stdout, greeted, interrupted, asked, replied, looping>>

CellAsks ==
  /\ up /\ running # NoCall /\ ~looping
  /\ Cell[running] = "brief" /\ running \notin asked
  /\ asked' = asked \union {running}
  /\ stdout' = Append(stdout, Line("host_request", running))
  /\ KernelKeeps
  /\ UNCHANGED <<up, stdin, greeted, queue, running, interrupted, replied, looping>>

(* A compute loop is deaf to the interrupt and keeps every later cell      *)
(* waiting until the process is killed, which the timer of a call does not *)
(* do.                                                                     *)
CellLoops ==
  /\ up /\ running # NoCall /\ ~looping
  /\ looping' = TRUE
  /\ KernelKeeps
  /\ UNCHANGED <<up, stdin, stdout, greeted, queue, running, interrupted, asked, replied>>

CellEnds(kind) ==
  /\ up /\ running # NoCall /\ ~looping
  /\ \/ running \in interrupted
     \/ Cell[running] = "brief" /\ running \notin asked \ replied
  /\ stdout' = stdout \o <<Line(kind, running), Line("done", running)>>
  /\ running' = NoCall
  /\ KernelKeeps
  /\ UNCHANGED <<up, stdin, greeted, queue, interrupted, asked, replied, looping>>

KernelWorks == \/ KernelReads \/ KernelRuns \/ CellAsks
               \/ \E kind \in {"result", "error"} : CellEnds(kind)

KernelDies ==
  /\ up /\ up' = FALSE
  /\ KernelKeeps
  /\ UNCHANGED <<stdin, stdout, greeted, queue, running, interrupted, asked, replied, looping>>

-----------------------------------------------------------------------------
Init ==
  /\ ready = "none" /\ exitInfo = FALSE
  /\ call = [e \in Calls |-> "idle"]
  /\ pending = {} /\ woken = {} /\ finished = {}
  /\ error = [e \in Calls |-> "none"]
  /\ listens = {} /\ aborted = {} /\ timedOut = {}
  /\ spawned = 0 /\ up = FALSE /\ stdin = <<>> /\ stdout = <<>>
  /\ greeted = FALSE /\ queue = <<>> /\ running = NoCall
  /\ interrupted = {} /\ asked = {} /\ replied = {} /\ looping = FALSE

Next ==
  \/ \E e \in Calls : Execute(e) \/ GoesOn(e) \/ Abort(e) \/ CellTimesOut(e)
  \/ StartTimesOut \/ OnExit \/ OnLine
  \/ KernelGreets \/ KernelWorks \/ CellLoops \/ KernelDies

Spec == Init /\ [][Next]_vars

(* The event loop runs every callback that is due, timers included, and a  *)
(* kernel that has greeted works on; it owes nobody its greeting, and no   *)
(* cell has to fall into a loop.                                           *)
FairSpec ==
  /\ Spec
  /\ \A e \in Calls : WF_vars(GoesOn(e)) /\ WF_vars(CellTimesOut(e))
  /\ WF_vars(StartTimesOut) /\ WF_vars(OnExit) /\ WF_vars(OnLine)
  /\ WF_vars(KernelWorks)

-----------------------------------------------------------------------------
(* Properties.                                                             *)

Lines == [kind : {"execute", "interrupt", "host_reply", "ready", "result",
                  "error", "host_request", "done"}, id : Calls \union {NoCall}]

(* The variables are typed; concurrent calls share one process.            *)
TypeOK ==
  /\ ready \in {"none", "pending", "resolved", "rejected"}
  /\ exitInfo \in BOOLEAN /\ spawned \in 0..1
  /\ call \in [Calls -> {"idle", "starting", "waiting", "returned", "thrown"}]
  /\ pending \in SUBSET Calls /\ woken \in SUBSET Calls
  /\ finished \in SUBSET Calls
  /\ error \in [Calls -> {"none", "own", "KernelDied"}]
  /\ listens \in SUBSET Calls /\ aborted \in SUBSET Calls
  /\ timedOut \in SUBSET Calls
  /\ up \in BOOLEAN /\ greeted \in BOOLEAN
  /\ stdin \in Seq(Lines) /\ stdout \in Seq(Lines)
  /\ queue \in Seq(Calls) /\ running \in Calls \union {NoCall}
  /\ interrupted \in SUBSET Calls /\ asked \in SUBSET Calls
  /\ replied \in SUBSET Calls /\ looping \in BOOLEAN

(* A call returns without an error only when its done event was handled,   *)
(* and one whose done event was handled is not said to have died with the  *)
(* kernel, however the exit callback races with the last lines.            *)
ResultTrue ==
  \A e \in Calls : call[e] = "returned" =>
    /\ error[e] = "none" => e \in finished
    /\ error[e] = "KernelDied" => e \notin finished

(* A tool call gets past the start, whether the kernel greets, hangs or    *)
(* dies.                                                                   *)
StartSettles == \A e \in Calls : (call[e] = "starting") ~> (call[e] # "starting")

(* A call registered before the exit callback has run returns: it is done, *)
(* or interrupted by its timer, or woken by the process's end. A compute   *)
(* loop in a process that stays up keeps it, and those behind it: the      *)
(* timer only writes an interrupt, which the loop does not heed.           *)
ExecuteSettles ==
  \A e \in Calls : (e \in pending /\ ~exitInfo) ~>
                    (call[e] = "returned" \/ [](up /\ looping))
=============================================================================
