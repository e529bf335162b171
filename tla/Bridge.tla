------------------------------- MODULE Bridge -------------------------------
(***************************************************************************)
(* Host calls: Bridge.Call in any number of goroutines, the registry       *)
(* goroutine that owns the pending map, the event writer's goroutine, and  *)
(* the reader's share, Bridge.Resolve (rlm/harness.go, the Writer of       *)
(* rlm/frames.go).                                                         *)
(*                                                                         *)
(* A call stands for the random id it draws.  A reply is [id, n]: the n-th *)
(* the host gives to that id.  Payloads are left out.                      *)
(***************************************************************************)
EXTENDS Naturals, Sequences, FiniteSets, Functions

CONSTANTS
  Calls,       \* the calls cells and their goroutines make
  CmdCap,      \* capacity of Bridge.cmds (256 in the code)
  WriterCap,   \* capacity of Writer.ch (1024)
  MaxReplies,  \* bound: replies the host gives to one id
  OutBreaks,   \* whether the output may break (the host died)
  Unmarshalable \* the calls whose payload json.Marshal refuses

ASSUME BridgeAssumption ==
  /\ CmdCap \in Nat \ {0}
  /\ WriterCap \in Nat \ {0}
  /\ MaxReplies \in Nat \ {0}
  /\ OutBreaks \in BOOLEAN
  /\ Unmarshalable \subseteq Calls

VARIABLES
  pc,         \* pc[c]: where call c is
  result,     \* result[c]: what it returns, or NoResult
  expired,    \* calls whose context is done
  ch,         \* ch[c]: the call's reply channel, buffered(1)
  cmds,       \* Bridge.cmds
  pending,    \* the registry's map (its keys; the value is ch[c])
  frames,     \* Writer.ch: host_request frames to write
  writeErr,   \* Writer.err is set
  broken,     \* every later write to the output fails
  received,   \* the requests the host has read
  replies,    \* replies[c]: how many replies the host has sent
  stdin,      \* replies on their way to the reader
  discarded   \* history: ids of replies the registry dropped

callVars     == <<pc, result, expired>>
registryVars == <<pending, discarded>>
writerVars   == <<writeErr, broken, received>>
hostVars     == <<replies, stdin>>
vars == <<callVars, ch, cmds, registryVars, frames, writerVars, hostVars>>

Pcs      == {"idle", "write", "send", "wait", "drop", "returned"}
Reply(c, n) == [id |-> c, n |-> n]
Replies  == [id : Calls, n : 1..MaxReplies]
NoResult == [kind |-> "none"]
Failed   == [kind |-> "failed"]
Abandoned == [kind |-> "abandoned"]

Cmd(op, c, n) == [op |-> op, id |-> c, n |-> n]
CmdOps == {"register", "resolve", "drop"}

CmdsHaveRoom == Len(cmds) < CmdCap

Goes(c, to) == pc' = [pc EXCEPT ![c] = to]

-----------------------------------------------------------------------------
(* Bridge.Call.                                                            *)

CallRegister(c) ==
  /\ pc[c] = "idle" /\ CmdsHaveRoom
  /\ cmds' = Append(cmds, Cmd("register", c, 0))
  /\ Goes(c, "write")
  /\ UNCHANGED <<result, expired, ch, registryVars, frames, writerVars, hostVars>>

(* HostRequestEvent fails, or Write finds the sticky error.                *)
CallFails(c) ==
  /\ pc[c] = "write"
  /\ c \in Unmarshalable \/ writeErr
  /\ result' = [result EXCEPT ![c] = Failed]
  /\ Goes(c, "drop")
  /\ UNCHANGED <<expired, ch, cmds, registryVars, frames, writerVars, hostVars>>

(* Write has seen no error and goes on to the channel send.                *)
CallPassesCheck(c) ==
  /\ pc[c] = "write"
  /\ c \notin Unmarshalable /\ ~writeErr
  /\ Goes(c, "send")
  /\ UNCHANGED <<result, expired, ch, cmds, registryVars, frames, writerVars,
                 hostVars>>

(* The send blocks while the channel is full, whatever the context says.   *)
CallSend(c) ==
  /\ pc[c] = "send"
  /\ Len(frames) < WriterCap
  /\ frames' = Append(frames, c)
  /\ Goes(c, "wait")
  /\ UNCHANGED <<result, expired, ch, cmds, registryVars, writerVars, hostVars>>

CallTakesReply(c) ==
  /\ pc[c] = "wait" /\ ch[c] # <<>>
  /\ result' = [result EXCEPT ![c] = Head(ch[c])]
  /\ ch' = [ch EXCEPT ![c] = Tail(ch[c])]
  /\ Goes(c, "returned")
  /\ UNCHANGED <<expired, cmds, registryVars, frames, writerVars, hostVars>>

(* Mutant of CallAbandons: the context is looked at only after a reply.    *)
CallAbandonsLate(c) ==
  /\ pc[c] = "wait" /\ c \in expired /\ ch[c] # <<>>
  /\ result' = [result EXCEPT ![c] = Abandoned]
  /\ Goes(c, "drop")
  /\ UNCHANGED <<expired, ch, cmds, registryVars, frames, writerVars, hostVars>>

CallAbandons(c) ==
  /\ pc[c] = "wait" /\ c \in expired
  /\ result' = [result EXCEPT ![c] = Abandoned]
  /\ Goes(c, "drop")
  /\ UNCHANGED <<expired, ch, cmds, registryVars, frames, writerVars, hostVars>>

(* Mutant of CallDrops: the error paths just return.                       *)
CallForgets(c) ==
  /\ pc[c] = "drop"
  /\ Goes(c, "returned")
  /\ UNCHANGED <<result, expired, ch, cmds, registryVars, frames, writerVars,
                 hostVars>>

(* Both error paths drop the registration before they return.              *)
CallDrops(c) ==
  /\ pc[c] = "drop" /\ CmdsHaveRoom
  /\ cmds' = Append(cmds, Cmd("drop", c, 0))
  /\ Goes(c, "returned")
  /\ UNCHANGED <<result, expired, ch, registryVars, frames, writerVars, hostVars>>

Call(c) ==
  \/ CallRegister(c) \/ CallFails(c) \/ CallPassesCheck(c) \/ CallSend(c)
  \/ CallTakesReply(c) \/ CallAbandons(c) \/ CallDrops(c)

(* The call's context ends: the cell is interrupted or the kernel stops.   *)
Expire(c) ==
  /\ c \notin expired
  /\ expired' = expired \union {c}
  /\ UNCHANGED <<pc, result, ch, cmds, registryVars, frames, writerVars, hostVars>>

-----------------------------------------------------------------------------
(* The registry goroutine (Bridge.run).                                    *)

Handles(op) ==
  /\ cmds # <<>> /\ Head(cmds).op = op
  /\ cmds' = Tail(cmds)
  /\ UNCHANGED <<callVars, frames, writerVars, hostVars>>

(* Mutant of RegistryRegister: one slot instead of a map.                  *)
RegistryRegisterOne ==
  /\ Handles("register")
  /\ pending' = {Head(cmds).id}
  /\ UNCHANGED <<ch, discarded>>

RegistryRegister ==
  /\ Handles("register")
  /\ pending' = pending \union {Head(cmds).id}
  /\ UNCHANGED <<ch, discarded>>

(* Mutants of RegistryDeliver: the entry stays, replies are matched to any *)
(* pending call, the reply is not sent.                                    *)
RegistryDeliverKeeps ==
  LET c == Head(cmds).id IN
  /\ Handles("resolve") /\ c \in pending
  /\ ch[c] = <<>>
  /\ ch' = [ch EXCEPT ![c] = Append(@, Reply(c, Head(cmds).n))]
  /\ UNCHANGED <<pending, discarded>>

RegistryDeliverAnywhere ==
  \E c \in pending :
    /\ Handles("resolve")
    /\ pending' = pending \ {c}
    /\ ch[c] = <<>>
    /\ ch' = [ch EXCEPT ![c] = Append(@, Reply(Head(cmds).id, Head(cmds).n))]
    /\ UNCHANGED discarded

RegistryDeliverNothing ==
  LET c == Head(cmds).id IN
  /\ Handles("resolve") /\ c \in pending
  /\ pending' = pending \ {c}
  /\ UNCHANGED <<ch, discarded>>

(* A send to a full reply channel would block the registry.                *)
RegistryDeliver ==
  LET c == Head(cmds).id IN
  /\ Handles("resolve") /\ c \in pending
  /\ pending' = pending \ {c}
  /\ ch[c] = <<>>
  /\ ch' = [ch EXCEPT ![c] = Append(@, Reply(c, Head(cmds).n))]
  /\ UNCHANGED discarded

(* Unknown or abandoned ids are dropped.                                   *)
RegistryDiscard ==
  /\ Handles("resolve") /\ Head(cmds).id \notin pending
  /\ discarded' = discarded \union {Head(cmds).id}
  /\ UNCHANGED <<pending, ch>>

RegistryDrop ==
  /\ Handles("drop")
  /\ pending' = pending \ {Head(cmds).id}
  /\ UNCHANGED <<ch, discarded>>

Registry == \/ RegistryRegister \/ RegistryDeliver
            \/ RegistryDiscard \/ RegistryDrop

-----------------------------------------------------------------------------
(* The writer goroutine (Writer.run), the host, and the reader.            *)

WriterTakes ==
  /\ frames # <<>>
  /\ frames' = Tail(frames)
  /\ UNCHANGED <<callVars, ch, cmds, registryVars, broken, hostVars>>

(* The write waits for a host that reads.                                  *)
WriterWrites ==
  /\ WriterTakes /\ ~broken
  /\ received' = received \union {Head(frames)}
  /\ UNCHANGED writeErr

(* The error sticks; the goroutine goes on draining the channel.           *)
WriterFails ==
  /\ WriterTakes /\ broken
  /\ writeErr' = TRUE
  /\ UNCHANGED received

OutputBreaks ==
  /\ OutBreaks /\ ~broken
  /\ broken' = TRUE
  /\ UNCHANGED <<callVars, ch, cmds, registryVars, frames, writeErr, received,
                 hostVars>>

HostReplies(c) ==
  /\ c \in received
  /\ replies[c] < MaxReplies
  /\ replies' = [replies EXCEPT ![c] = @ + 1]
  /\ stdin' = Append(stdin, Reply(c, replies[c] + 1))
  /\ UNCHANGED <<callVars, ch, cmds, registryVars, frames, writerVars>>

(* Bridge.Resolve on the reader goroutine.                                 *)
Resolve ==
  /\ stdin # <<>> /\ CmdsHaveRoom
  /\ cmds' = Append(cmds, Cmd("resolve", Head(stdin).id, Head(stdin).n))
  /\ stdin' = Tail(stdin)
  /\ UNCHANGED <<callVars, ch, registryVars, frames, writerVars, replies>>

-----------------------------------------------------------------------------
Init ==
  /\ pc = [c \in Calls |-> "idle"]
  /\ result = [c \in Calls |-> NoResult]
  /\ expired = {}
  /\ ch = [c \in Calls |-> <<>>]
  /\ cmds = <<>> /\ pending = {} /\ discarded = {}
  /\ frames = <<>> /\ writeErr = FALSE /\ broken = FALSE /\ received = {}
  /\ replies = [c \in Calls |-> 0] /\ stdin = <<>>

Next ==
  \/ \E c \in Calls : Call(c) \/ Expire(c) \/ HostReplies(c)
  \/ Registry \/ WriterWrites \/ WriterFails \/ OutputBreaks \/ Resolve

Spec == Init /\ [][Next]_vars

(* The kernel's goroutines run, and a broken output fails at once.  A call *)
(* is not owed its start, nor the host's attention.                        *)
KernelFairness ==
  /\ \A c \in Calls : WF_vars(Call(c) /\ pc[c] # "idle")
  /\ WF_vars(Registry) /\ WF_vars(Resolve) /\ WF_vars(WriterFails)

(* The host reads its input and answers each call at least once.           *)
HostFairness ==
  /\ WF_vars(WriterWrites)
  /\ \A c \in Calls : WF_vars(replies[c] = 0 /\ HostReplies(c))

FairSpec == Spec /\ KernelFairness

-----------------------------------------------------------------------------
(* Properties.                                                             *)

TypeOK ==
  /\ pc \in [Calls -> Pcs]
  /\ result \in [Calls -> Replies \union {NoResult, Failed, Abandoned}]
  /\ expired \in SUBSET Calls
  /\ ch \in [Calls -> Seq(Replies)]
  /\ cmds \in Seq([op : CmdOps, id : Calls, n : 0..MaxReplies])
  /\ pending \in SUBSET Calls /\ discarded \in SUBSET Calls
  /\ frames \in Seq(Calls)
  /\ writeErr \in BOOLEAN /\ broken \in BOOLEAN
  /\ received \in SUBSET Calls
  /\ replies \in [Calls -> 0..MaxReplies]
  /\ stdin \in Seq(Replies)

(* The registry never blocks on a call's channel, even when the host       *)
(* answers twice and the caller is slow: buffered(1) is enough.            *)
RegistryNeverBlocks ==
  \A c \in pending : ch[c] = <<>>

(* No registration outlives its call: whichever way a call ends, and       *)
(* whatever reply races with its end, its entry is gone or a drop for it   *)
(* is on its way.                                                          *)
NoLeak ==
  \A c \in pending :
    pc[c] = "returned" => \E i \in DOMAIN cmds : cmds[i] = Cmd("drop", c, 0)

(* "Registration always precedes resolution": the registry discards a      *)
(* reply only if the call has one already or has stopped waiting.          *)
NoReplyLost ==
  \A c \in discarded : ch[c] # <<>> \/ pc[c] \in {"drop", "returned"}

(* Each call is the remote call its cell may rely on.                      *)
StatusOf(c) ==
  CASE pc[c] = "idle"                      -> "idle"
    [] pc[c] \in {"write", "send", "wait"} -> "open"
    [] pc[c] \in {"drop", "returned"} ->
         IF result[c] = Failed THEN "failed"
         ELSE IF result[c] = Abandoned THEN "abandoned" ELSE "answered"

Remote == INSTANCE RemoteCall WITH
  status  <- [c \in Calls |-> StatusOf(c)],
  got     <- [c \in Calls |-> IF StatusOf(c) # "answered" THEN 0
                              ELSE IF result[c].id = c THEN result[c].n
                              ELSE MaxReplies + 1],
  offered <- replies

ImplementsRemoteCall == Remote!Spec

(* With a host that reads and answers, every call returns, unless the      *)
(* output breaks under it.                                                 *)
EveryCallReturns ==
  HostFairness /\ []~broken =>
    \A c \in Calls : (pc[c] # "idle") ~> (pc[c] = "returned")

(* A waiting call returns once its context ends, whatever the host does.   *)
WaitingCallEnds ==
  \A c \in Calls : (pc[c] = "wait" /\ c \in expired) ~> (pc[c] = "returned")
=============================================================================
