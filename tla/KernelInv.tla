------------------------------ MODULE KernelInv ------------------------------
(***************************************************************************)
(* The inductive invariant of module Kernel: where each request is, and    *)
(* what the request table knows of it by then.  Module KernelProofs proves *)
(* that it is inductive and that the properties of Kernel follow from it.  *)
(***************************************************************************)
EXTENDS Kernel

Held     == {hand} \ {NoReq}
Running  == {cur} \ {NoReq}
Finished == Answered \union dropped

(* The requests still to be read.                                          *)
Unread == RequestsOf(stdin)

RequestsOnce(s) ==
  \A i, j \in DOMAIN s :
    s[i].kind = "request" /\ s[j].kind = "request" /\ s[i].id = s[j].id => i = j

AnswersOnce(s) == \A i, j \in DOMAIN s : s[i].req = s[j].req => i = j

(* A request is in one place at a time: on its way to the reader, in the   *)
(* reader's hand, queued, running, or finished.  The running request is    *)
(* already answered while the deferred calls of runRequest run.            *)
OnePlace ==
  /\ RequestsOnce(stdin)
  /\ IsInjective(queue)
  /\ AnswersOnce(events)
  /\ Unread \intersect (Held \union Range(queue) \union Running \union Finished) = {}
  /\ Held \intersect (Range(queue) \union Running \union Finished) = {}
  /\ Range(queue) \intersect (Running \union Finished) = {}
  /\ Running \intersect dropped = {}
  /\ Answered \intersect dropped = {}
  /\ cur \in Answered <=> execPc \in {"cancel", "deactivate"}

(* Whatever has left the host was sent by it.                              *)
OnlySent ==
  Unread \union Held \union Range(queue) \union Running \union Finished
    \subseteq Range(sent)

(* The program counters tell whether a goroutine holds a request.          *)
PcsAgree ==
  /\ hand = NoReq <=> readerPc \in {"scan", "exited"}
  /\ cur = NoReq <=> execPc \in {"select", "exited"}
  /\ \A i \in DOMAIN stdin : stdin[i].kind \in {"request", "host_reply"}
                               => stdin[i].id \in Reqs
  /\ \A i \in DOMAIN cmds : cmds[i].op # "interrupt" => cmds[i].id \in Reqs

(* The table has registered r, or will when it gets to the command.       *)
Registering(r) == \E i \in DOMAIN cmds : cmds[i] = Cmd("register", r)
Registered(r)  == r \in cancels \/ Registering(r)

(* A request is registered before it can be activated.                     *)
WaitingRegistered ==
  /\ \A r \in Range(queue) : Registered(r)
  /\ readerPc = "push" => Registered(hand)
  /\ execPc = "activate" => Registered(cur)

(* At most one activation is under way, for the request the executor       *)
(* holds, and behind that request's registration.                          *)
ActivationInOrder ==
  \A i \in DOMAIN cmds :
    cmds[i].op = "activate" =>
      /\ cmds[i].id = cur /\ execPc = "await" /\ ~reply.full
      /\ \/ cur \in cancels
         \/ \E j \in DOMAIN cmds : j < i /\ cmds[j] = Cmd("register", cur)
      /\ \A j \in DOMAIN cmds : cmds[j].op = "activate" => j = i

(* Only an answered request is forgotten.                                  *)
DeactivationAfterDone ==
  \A i \in DOMAIN cmds : cmds[i].op = "deactivate" => cmds[i].id \in Answered

(* The table can cancel the request it has activated.                      *)
ActiveRegistered ==
  /\ reply.full => execPc = "await" /\ reply.cancel = cur /\ cur \in cancels
  /\ execPc \in {"run", "emit"} => cur \in cancels

(* An interrupt that named a request is parked until the activation that   *)
(* hands it over, or has cancelled the request's context.                  *)
InterruptKept ==
  /\ targeted \subseteq parked \union cancelled \union
                        (IF reply.full /\ reply.parked THEN {cur} ELSE {})
  /\ reply.full \/ execPc \in {"run", "emit"} => cur \notin parked

(* The inductive invariant.                                                *)
IInv == /\ TypeOK /\ OnePlace /\ OnlySent /\ PcsAgree
        /\ WaitingRegistered /\ ActivationInOrder /\ DeactivationAfterDone
        /\ ActiveRegistered /\ InterruptKept
=============================================================================
