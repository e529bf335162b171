------------------------------- MODULE Agents -------------------------------
(***************************************************************************)
(* Sessions and subagents: the manager of each session (host/manager.go),  *)
(* the child sessions it admits, and the main loop of the root session     *)
(* (cmd/goprime/main.go).                                                  *)
(*                                                                         *)
(* A session is its agent loop, its kernel and its manager.  The agent     *)
(* loop is the language model with the go tool: it may run cells, and a    *)
(* cell may ask the session's own manager for a child, a message or the    *)
(* roster.  The kernel host hands these requests to the manager one at a   *)
(* time (module KernelHost); a child's context is never cancelled from     *)
(* outside, since that host passes context.Background().                   *)
(***************************************************************************)
EXTENDS Naturals, Sequences, Functions

CONSTANTS
  Root,      \* the root session
  Children,  \* the children that may be spawned, each at most once
  Names,     \* the names cells may give them
  Messages,  \* the messages cells send, each at most once
  None,
  InboxCap,  \* capacity of a manager's inbox (64 in the code)
  Rounds     \* rounds of the root's main loop (4)

Sessions == {Root} \union Children

ASSUME AgentsAssumption ==
  /\ Root \notin Children /\ None \notin Sessions \union Messages \union Names
  /\ InboxCap \in Nat \ {0} /\ Rounds \in Nat \ {0}

VARIABLES
  \* per session
  ask,       \* ask[s]: the host request its manager has not answered
  roster,    \* roster[s]: Manager.children, from a name to the child's id
  inbox,     \* inbox[s]: Manager.inbox
  \* per child
  phase,     \* phase[c]: where the goroutine of spawn is
  parent,    \* parent[c]: the session that spawned it
  name,      \* name[c]: the name it was asked for under
  \* the root's main loop
  rootPc, round,
  drained,   \* the messages taken from the inbox in this round
  messages,  \* those added to the conversation, in order
  shown,     \* history: those in it when the latest loop began
  \* history
  sender,    \* sender[m]: the session whose cell sent m
  accepted   \* accepted[s]: what s's inbox was given, in order

loopVars  == <<rootPc, round, drained, messages, shown>>
childVars == <<phase, parent, name>>
vars == <<ask, roster, inbox, childVars, loopVars, sender, accepted>>

Alive == rootPc # "exited"

-----------------------------------------------------------------------------
(* What a cell may ask of the host (rlm.Spawn, Send, ListAgents).          *)

Spawning(c) == [kind |-> "spawn_task", about |-> c]
ToParent(m) == [kind |-> "to_parent", about |-> m]
(* list_agents, a message to a child, an unknown kind.                     *)
Other       == [kind |-> "other", about |-> None]
NoAsk       == [kind |-> "none", about |-> None]
Asks == {Spawning(c) : c \in Children} \union {ToParent(m) : m \in Messages}
        \union {Other, NoAsk}

(* A session runs cells as long as its agent loop runs; goroutines that    *)
(* outlive their cell may ask between the root's rounds as well.           *)
RunsCells(s) == IF s = Root THEN Alive ELSE phase[s] = "running"

AskFor(s, a) ==
  /\ RunsCells(s) /\ ask[s] = NoAsk
  /\ ask' = [ask EXCEPT ![s] = a]
  /\ UNCHANGED <<roster, inbox, phase, parent, loopVars, accepted>>

(* No other cell asks for c: it stands for one task.                       *)
CellSpawns(s, c, n) ==
  /\ name[c] = None
  /\ name' = [name EXCEPT ![c] = n]
  /\ AskFor(s, Spawning(c)) /\ UNCHANGED sender

CellSends(s, m) ==
  /\ sender[m] = None
  /\ sender' = [sender EXCEPT ![m] = s]
  /\ AskFor(s, ToParent(m)) /\ UNCHANGED name

CellAsksOther(s) ==
  /\ AskFor(s, Other) /\ UNCHANGED <<sender, name>>

-----------------------------------------------------------------------------
(* Manager.HandleHostRequest.                                              *)

(* The manager of s answers what its cell asked.                           *)
Answers(s, kind) ==
  /\ Alive /\ ask[s].kind = kind
  /\ ask' = [ask EXCEPT ![s] = NoAsk]
  /\ UNCHANGED <<loopVars, sender>>

(* Mutant: the answer waits until the child has run.                       *)
SpawnWaits(s) ==
  LET c == ask[s].about IN
  /\ Alive /\ ask[s].kind = "spawn_task"
  /\ \/ /\ phase[c] = "unborn"
        /\ roster' = [roster EXCEPT ![s][name[c]] = c]
        /\ phase' = [phase EXCEPT ![c] = "running"]
        /\ parent' = [parent EXCEPT ![c] = s]
        /\ UNCHANGED <<ask, name>>
     \/ /\ phase[c] = "gone"
        /\ ask' = [ask EXCEPT ![s] = NoAsk]
        /\ UNCHANGED <<roster, childVars>>
  /\ UNCHANGED <<loopVars, sender, inbox, accepted>>

(* spawn: the roster is written before the child's goroutine exists, over  *)
(* whoever has the name; the handle is returned at once.                   *)
Spawn(s) ==
  LET c == ask[s].about IN
  /\ Answers(s, "spawn_task")
  /\ roster' = [roster EXCEPT ![s][name[c]] = c]
  /\ phase' = [phase EXCEPT ![c] = "running"]
  /\ parent' = [parent EXCEPT ![c] = s]
  /\ UNCHANGED <<inbox, name, accepted>>

(* deliver to "parent": the inbox of the manager that is asked.            *)
Deliver(s) ==
  LET m == ask[s].about IN
  /\ Answers(s, "to_parent")
  /\ Len(inbox[s]) < InboxCap
  /\ inbox' = [inbox EXCEPT ![s] = Append(@, m)]
  /\ accepted' = [accepted EXCEPT ![s] = Append(@, m)]
  /\ UNCHANGED <<roster, childVars>>

(* Mutant: a full inbox makes room.                                        *)
DeliverOverwrites(s) ==
  LET m == ask[s].about IN
  /\ Answers(s, "to_parent")
  /\ Len(inbox[s]) = InboxCap
  /\ inbox' = [inbox EXCEPT ![s] = Append(Tail(@), m)]
  /\ accepted' = [accepted EXCEPT ![s] = Append(@, m)]
  /\ UNCHANGED <<roster, childVars>>

(* "parent inbox full".                                                    *)
DeliverRefuses(s) ==
  /\ Answers(s, "to_parent")
  /\ Len(inbox[s]) = InboxCap
  /\ UNCHANGED <<roster, inbox, childVars, accepted>>

(* The roster is only read; a message to a child and a kind the manager    *)
(* does not know are errors.                                               *)
AnswersOther(s) ==
  /\ Answers(s, "other")
  /\ UNCHANGED <<roster, inbox, childVars, accepted>>

Serves(s) == Spawn(s) \/ Deliver(s) \/ DeliverRefuses(s) \/ AnswersOther(s)

-----------------------------------------------------------------------------
(* The goroutine of spawn: RunChild, then the deletion.                    *)

(* Mutant: the name is deleted first, and RunChild goes on.                *)
ChildEndsUnlisted(c) ==
  /\ Alive /\ phase[c] = "running"
  /\ \/ roster[parent[c]][name[c]] = None /\ phase' = [phase EXCEPT ![c] = "ended"]
     \/ UNCHANGED phase
  /\ roster' = [roster EXCEPT ![parent[c]][name[c]] = None]
  /\ UNCHANGED <<ask, inbox, parent, name, loopVars, sender, accepted>>

(* The child's agent loop ends and its kernel shuts down.                  *)
ChildEnds(c) ==
  /\ Alive /\ phase[c] = "running"
  /\ phase' = [phase EXCEPT ![c] = "ended"]
  /\ UNCHANGED <<ask, roster, inbox, parent, name, loopVars, sender, accepted>>

(* delete(m.children, name): by name, whoever has it now.                  *)
ChildForgotten(c) ==
  /\ Alive /\ phase[c] = "ended"
  /\ phase' = [phase EXCEPT ![c] = "gone"]
  /\ roster' = [roster EXCEPT ![parent[c]][name[c]] = None]
  /\ UNCHANGED <<ask, inbox, parent, name, loopVars, sender, accepted>>

-----------------------------------------------------------------------------
(* main: a round is an agent loop and a look at the inbox.                 *)

RootKeeps == UNCHANGED <<ask, roster, childVars, sender, accepted>>

(* The agent loop ends: the model has answered, failed or been stopped.    *)
LoopEnds ==
  /\ rootPc = "loop"
  /\ rootPc' = "drain"
  /\ RootKeeps /\ UNCHANGED <<inbox, round, drained, messages, shown>>

RootDrains ==
  /\ rootPc = "drain" /\ inbox[Root] # <<>>
  /\ drained' = Append(drained, Head(inbox[Root]))
  /\ inbox' = [inbox EXCEPT ![Root] = Tail(@)]
  /\ RootKeeps /\ UNCHANGED <<rootPc, round, messages, shown>>

(* Nothing was drained: the last text is the answer, and main returns with *)
(* whatever children still run.                                            *)
RootAnswers ==
  /\ rootPc = "drain" /\ inbox[Root] = <<>> /\ drained = <<>>
  /\ rootPc' = "exited"
  /\ RootKeeps /\ UNCHANGED <<inbox, round, drained, messages, shown>>

(* The drained messages join the conversation; after the last round nobody *)
(* reads it any more.                                                      *)
RootGoesOn ==
  /\ rootPc = "drain" /\ inbox[Root] = <<>> /\ drained # <<>>
  /\ messages' = messages \o drained
  /\ drained' = <<>>
  /\ round' = round + 1
  /\ IF round' < Rounds THEN rootPc' = "loop" /\ shown' = messages'
                        ELSE rootPc' = "exited" /\ UNCHANGED shown
  /\ RootKeeps /\ UNCHANGED inbox

RootLoop == LoopEnds \/ RootDrains \/ RootAnswers \/ RootGoesOn

-----------------------------------------------------------------------------
Init ==
  /\ ask = [s \in Sessions |-> NoAsk]
  /\ roster = [s \in Sessions |-> [n \in Names |-> None]]
  /\ inbox = [s \in Sessions |-> <<>>]
  /\ phase = [c \in Children |-> "unborn"]
  /\ parent = [c \in Children |-> None]
  /\ name = [c \in Children |-> None]
  /\ rootPc = "loop" /\ round = 0
  /\ drained = <<>> /\ messages = <<>> /\ shown = <<>>
  /\ sender = [m \in Messages |-> None]
  /\ accepted = [s \in Sessions |-> <<>>]

Next ==
  \/ \E s \in Sessions : \/ \E c \in Children, n \in Names : CellSpawns(s, c, n)
                         \/ \E m \in Messages : CellSends(s, m)
                         \/ CellAsksOther(s)
                         \/ Serves(s)
  \/ \E c \in Children : ChildEnds(c) \/ ChildForgotten(c)
  \/ RootLoop

Spec == Init /\ [][Next]_vars

(* Only the goroutines that hand requests to the managers are owed steps:  *)
(* a language model may take any time, so no agent loop has to end.        *)
FairSpec == Spec /\ \A s \in Sessions : WF_vars(Serves(s))

-----------------------------------------------------------------------------
(* Properties.                                                             *)

TypeOK ==
  /\ ask \in [Sessions -> Asks]
  /\ roster \in [Sessions -> [Names -> Children \union {None}]]
  /\ inbox \in [Sessions -> Seq(Messages)]
  /\ \A s \in Sessions : Len(inbox[s]) <= InboxCap
  /\ phase \in [Children -> {"unborn", "running", "ended", "gone"}]
  /\ parent \in [Children -> Sessions \union {None}]
  /\ name \in [Children -> Names \union {None}]
  /\ rootPc \in {"loop", "drain", "exited"} /\ round \in 0..Rounds
  /\ Alive => round < Rounds
  /\ drained \in Seq(Messages) /\ messages \in Seq(Messages)
  /\ shown \in Seq(Messages)
  /\ sender \in [Messages -> Sessions \union {None}]
  /\ accepted \in [Sessions -> Seq(Messages)]

(* What list_agents answers: a child it lists has not been forgotten, and  *)
(* a running child is listed unless a sibling was given the same name.     *)
RosterAgrees ==
  \A c \in Children :
    /\ \A s \in Sessions, n \in Names :
         roster[s][n] = c => parent[c] = s /\ phase[c] \in {"running", "ended"}
    /\ phase[c] = "running" =>
         \/ roster[parent[c]][name[c]] = c
         \/ \E d \in Children \ {c} : parent[d] = parent[c] /\ name[d] = name[c]

(* A message the root's inbox accepted reaches its conversation once and   *)
(* in order; when the root exits with an answer, the model has seen every  *)
(* message accepted before the last look, and only those of the last of    *)
(* all rounds are never shown.                                             *)
MessagesReachRoot ==
  /\ messages \o drained \o inbox[Root] = accepted[Root]
  /\ rootPc = "exited" /\ round < Rounds => drained = <<>> /\ shown = messages

(* A cell that asks its host is answered as long as the harness runs: it   *)
(* waits for no child to end and for nobody to read an inbox.              *)
HostAnswers ==
  \A s \in Sessions : (ask[s] # NoAsk) ~> (ask[s] = NoAsk \/ ~Alive)

(* "Replies flow via the parent manager's inbox (agent_message)": what a   *)
(* child was told is delivered to its parent is in its parent's inbox.     *)
RepliesReachParent ==
  \A s \in Sessions : \A m \in Range(accepted[s]) :
    sender[m] \in Children => s = parent[sender[m]]
=============================================================================
