---------------------------- MODULE KernelService ----------------------------
(***************************************************************************)
(* What the RLM kernel promises a host about its requests, with none of    *)
(* the goroutines, channels and tables it uses to keep the promise: v3     *)
(* runs requests one at a time in the order they were accepted, each gets  *)
(* exactly one answer, and new ones are refused once the service closes.   *)
(* Module Kernel implements it.                                            *)
(***************************************************************************)
EXTENDS Naturals, Sequences

CONSTANTS Reqs,      \* the requests a host may send
          NoReq      \* "no request"

VARIABLES
  phase,    \* phase[r]: where request r is in its life
  backlog,  \* accepted requests that have not started, oldest first
  current,  \* the request being run, or NoReq
  answers,  \* the answers given, in order: [req, status]
  closed,   \* the service has stopped accepting
  stopped   \* the service may abandon what it has accepted

vars == <<phase, backlog, current, answers, closed, stopped>>

Phases == {"unsent", "sent", "accepted", "running", "answered", "dropped"}

Answer(r, s) == [req |-> r, status |-> s]

Init ==
  /\ phase = [r \in Reqs |-> "unsent"]
  /\ backlog = <<>>
  /\ current = NoReq
  /\ answers = <<>>
  /\ closed = FALSE
  /\ stopped = FALSE

(* The host sends a request it has not sent before. *)
Send(r) ==
  /\ phase[r] = "unsent"
  /\ phase' = [phase EXCEPT ![r] = "sent"]
  /\ UNCHANGED <<backlog, current, answers, closed, stopped>>

Accept(r) ==
  /\ phase[r] = "sent"
  /\ phase' = [phase EXCEPT ![r] = "accepted"]
  /\ backlog' = Append(backlog, r)
  /\ UNCHANGED <<current, answers, closed, stopped>>

(* After closing, a request is answered at once, with a refusal. *)
Refuse(r) ==
  /\ phase[r] = "sent" /\ closed
  /\ phase' = [phase EXCEPT ![r] = "answered"]
  /\ answers' = Append(answers, Answer(r, "refused"))
  /\ UNCHANGED <<backlog, current, closed, stopped>>

(* Only a stopped service loses a request it had not accepted yet. *)
Drop(r) ==
  /\ phase[r] = "sent" /\ stopped
  /\ phase' = [phase EXCEPT ![r] = "dropped"]
  /\ UNCHANGED <<backlog, current, answers, closed, stopped>>

Start ==
  /\ current = NoReq /\ backlog # <<>>
  /\ current' = Head(backlog)
  /\ backlog' = Tail(backlog)
  /\ phase' = [phase EXCEPT ![Head(backlog)] = "running"]
  /\ UNCHANGED <<answers, closed, stopped>>

Finish(s) ==
  /\ current # NoReq
  /\ phase[current] = "running"
  /\ answers' = Append(answers, Answer(current, s))
  /\ phase' = [phase EXCEPT ![current] = "answered"]
  /\ UNCHANGED <<backlog, current, closed, stopped>>

(* The service lets go of an answered request; only then may the next start. *)
Release ==
  /\ current # NoReq
  /\ phase[current] = "answered"
  /\ current' = NoReq
  /\ UNCHANGED <<phase, backlog, answers, closed, stopped>>

Close ==
  /\ closed' = TRUE
  /\ UNCHANGED <<phase, backlog, current, answers, stopped>>

(* A request that asks for the shutdown is answered at once. *)
AnswerShutdown(r) ==
  /\ phase[r] = "sent"
  /\ phase' = [phase EXCEPT ![r] = "answered"]
  /\ answers' = Append(answers, Answer(r, "ok"))
  /\ closed' = TRUE
  /\ UNCHANGED <<backlog, current, stopped>>

Stop ==
  /\ closed
  /\ stopped' = TRUE
  /\ UNCHANGED <<phase, backlog, current, answers, closed>>

Next ==
  \/ \E r \in Reqs : Send(r) \/ Accept(r) \/ Refuse(r) \/ Drop(r)
                  \/ AnswerShutdown(r)
  \/ Start
  \/ \E s \in {"ok", "error", "interrupted"} : Finish(s)
  \/ Release
  \/ Close
  \/ Stop

Spec == Init /\ [][Next]_vars
=============================================================================
