---------------------------- MODULE BridgeProofs ----------------------------
(***************************************************************************)
(* Host calls, for any set of calls, any channel capacities and any number *)
(* of replies: the registry never blocks, no registration leaks, no reply  *)
(* is lost.                                                                *)
(***************************************************************************)
EXTENDS Bridge, SequenceTheorems, TLAPS

Commands == [op : CmdOps, id : Calls, n : 0..MaxReplies]

(* A reply on its way to the registry has its number.                      *)
ResolvesNumbered ==
  \A i \in DOMAIN cmds : cmds[i].op = "resolve" => cmds[i].n \in 1..MaxReplies

Registering(c) == \E i \in DOMAIN cmds : cmds[i].op = "register" /\ cmds[i].id = c
Dropping(c)    == \E i \in DOMAIN cmds : cmds[i] = Cmd("drop", c, 0)

(* Before a call begins nothing is about it.                               *)
OnlyStarted ==
  /\ \A c \in Calls : pc[c] = "idle" => /\ c \notin pending /\ c \notin received
                                        /\ ch[c] = <<>>
  /\ \A i \in DOMAIN cmds : pc[cmds[i].id] # "idle"
  /\ \A i \in DOMAIN frames : pc[frames[i]] # "idle"
  /\ \A i \in DOMAIN stdin : pc[stdin[i].id] # "idle"

(* A registration is the first command of its call, and a drop comes when  *)
(* the call has returned.                                                  *)
RegisterFirst ==
  \A i, j \in DOMAIN cmds :
    cmds[i].op = "register" /\ cmds[j].id = cmds[i].id => i <= j

RegisterOnce ==
  \A i \in DOMAIN cmds :
    cmds[i].op = "register" => cmds[i].id \notin pending /\ ch[cmds[i].id] = <<>>

DropsLast ==
  \A i \in DOMAIN cmds : cmds[i].op = "drop" => pc[cmds[i].id] = "returned"

(* A call that has not ended is known to the registry or has its reply.    *)
Known ==
  \A c \in Calls :
    pc[c] \in {"write", "send", "wait"} => Registering(c) \/ c \in pending \/ ch[c] # <<>>

(* One that has ended is forgotten or about to be.                         *)
Forgotten ==
  \A c \in Calls :
    pc[c] = "returned" /\ (c \in pending \/ Registering(c)) => Dropping(c)

RegistryInv ==
  /\ OnlyStarted /\ RegisterFirst /\ RegisterOnce /\ DropsLast
  /\ Known /\ Forgotten /\ RegistryNeverBlocks /\ NoReplyLost

-----------------------------------------------------------------------------
(* What is in the channels is about calls.                                 *)
LEMMA AboutCalls ==
  ASSUME TypeOK
  PROVE  /\ \A i \in DOMAIN cmds : cmds[i] \in Commands /\ cmds[i].id \in Calls
         /\ \A i \in DOMAIN frames : frames[i] \in Calls
         /\ \A i \in DOMAIN stdin : stdin[i] \in Replies /\ stdin[i].id \in Calls
  <1>1. /\ \A i \in DOMAIN cmds : cmds[i] \in Commands
        /\ \A i \in DOMAIN frames : frames[i] \in Calls
        /\ \A i \in DOMAIN stdin : stdin[i] \in Replies
    <2>1. /\ cmds \in Seq(Commands) /\ frames \in Seq(Calls) /\ stdin \in Seq(Replies)
      BY DEF TypeOK, Commands
    <2> QED
      BY <2>1
  <1> QED
    BY <1>1 DEF Commands, Replies

(* What queueing a command does to the channel.                            *)
LEMMA CmdQueued ==
  ASSUME TypeOK, NEW x \in Commands, cmds' = Append(cmds, x)
  PROVE  /\ DOMAIN cmds' = DOMAIN cmds \union {Len(cmds) + 1}
         /\ cmds'[Len(cmds) + 1] = x
         /\ \A i \in DOMAIN cmds : cmds'[i] = cmds[i] /\ i <= Len(cmds)
         /\ Len(cmds) \in Nat /\ Len(cmds) + 1 \notin DOMAIN cmds
         /\ cmds' \in Seq(Commands)
  <1>1. cmds \in Seq(Commands)
    BY DEF TypeOK, Commands
  <1> QED
    BY <1>1, AppendProperties, LenProperties

(* What the registry's receive does to it.                                 *)
LEMMA CmdTaken ==
  ASSUME TypeOK, cmds # <<>>, cmds' = Tail(cmds)
  PROVE  /\ 1 \in DOMAIN cmds /\ Head(cmds) = cmds[1] /\ Head(cmds) \in Commands
         /\ \A i \in DOMAIN cmds' : /\ i \in Nat \ {0} /\ i + 1 \in DOMAIN cmds
                                   /\ cmds'[i] = cmds[i + 1]
         /\ \A i \in DOMAIN cmds : i # 1 => i - 1 \in DOMAIN cmds' /\ cmds'[i - 1] = cmds[i]
         /\ \A i \in DOMAIN cmds : i \in Nat \ {0} /\ cmds[i] \in Commands
         /\ cmds' \in Seq(Commands)
  <1>1. cmds \in Seq(Commands)
    BY DEF TypeOK, Commands
  <1> QED
    BY <1>1, HeadTailProperties, LenProperties, EmptySeq

(* The variables keep their types, and replies their numbers.              *)
LEMMA TypeStep == TypeOK /\ ResolvesNumbered /\ [Next]_vars => (TypeOK /\ ResolvesNumbered)'
  <1> SUFFICES ASSUME TypeOK, ResolvesNumbered, [Next]_vars
               PROVE  TypeOK' /\ ResolvesNumbered'
    OBVIOUS
  <1> USE BridgeAssumption
  <1>1. ASSUME NEW x \in Commands, cmds' = Append(cmds, x),
               x.op = "resolve" => x.n \in 1..MaxReplies
        PROVE  cmds' \in Seq(Commands) /\ ResolvesNumbered'
    BY <1>1, CmdQueued DEF ResolvesNumbered
  <1>2. ASSUME cmds # <<>>, cmds' = Tail(cmds)
        PROVE  cmds' \in Seq(Commands) /\ ResolvesNumbered'
    BY <1>2, CmdTaken DEF ResolvesNumbered
  <1>3. ASSUME cmds' = cmds PROVE cmds' \in Seq(Commands) /\ ResolvesNumbered'
    BY <1>3 DEF ResolvesNumbered, TypeOK, Commands
  <1>4. ASSUME cmds' \in Seq(Commands), UNCHANGED <<ch, registryVars, frames, writerVars, hostVars>>,
               pc' \in [Calls -> Pcs],
               result' \in [Calls -> Replies \union {NoResult, Failed, Abandoned}],
               expired' \in SUBSET Calls
        PROVE  TypeOK'
    BY <1>4 DEF TypeOK, Commands, registryVars, writerVars, hostVars
  <1>5. ASSUME NEW c \in Calls, NEW op \in {"register", "drop"}
        PROVE  Cmd(op, c, 0) \in Commands /\ Cmd(op, c, 0).op # "resolve"
    BY <1>5 DEF Cmd, Commands, CmdOps
  <1>6. ASSUME NEW c \in Calls, CallRegister(c) \/ CallDrops(c)
        PROVE  TypeOK' /\ ResolvesNumbered'
    <2>1. cmds' \in Seq(Commands) /\ ResolvesNumbered'
      BY <1>1, <1>5, <1>6 DEF CallRegister, CallDrops
    <2>2. pc' \in [Calls -> Pcs]
      BY <1>6 DEF CallRegister, CallDrops, Goes, TypeOK, Pcs
    <2> QED
      BY <1>4, <1>6, <2>1, <2>2 DEF CallRegister, CallDrops, TypeOK
  <1>7. ASSUME NEW c \in Calls,
               CallFails(c) \/ CallPassesCheck(c) \/ CallAbandons(c) \/ Expire(c)
        PROVE  TypeOK' /\ ResolvesNumbered'
    <2>1. cmds' = cmds /\ UNCHANGED <<ch, registryVars, frames, writerVars, hostVars>>
      BY <1>7 DEF CallFails, CallPassesCheck, CallAbandons, Expire
    <2>2. pc' \in [Calls -> Pcs]
      BY <1>7 DEF CallFails, CallPassesCheck, CallAbandons, Expire, Goes, TypeOK, Pcs
    <2>3. /\ result' \in [Calls -> Replies \union {NoResult, Failed, Abandoned}]
          /\ expired' \in SUBSET Calls
      BY <1>7 DEF CallFails, CallPassesCheck, CallAbandons, Expire, TypeOK
    <2> QED
      BY <1>3, <1>4, <2>1, <2>2, <2>3
  <1>8. ASSUME NEW c \in Calls, CallSend(c) PROVE TypeOK' /\ ResolvesNumbered'
    <2>1. Append(frames, c) \in Seq(Calls)
      BY AppendProperties DEF TypeOK
    <2>2. pc' \in [Calls -> Pcs]
      BY <1>8 DEF CallSend, Goes, TypeOK, Pcs
    <2> QED
      BY <1>3, <1>8, <2>1, <2>2
         DEF CallSend, TypeOK, Commands, registryVars, writerVars, hostVars
  <1>9. ASSUME NEW c \in Calls, CallTakesReply(c) PROVE TypeOK' /\ ResolvesNumbered'
    <2>1. Head(ch[c]) \in Replies /\ Tail(ch[c]) \in Seq(Replies)
      BY <1>9, HeadTailProperties DEF CallTakesReply, TypeOK
    <2>2. pc' \in [Calls -> Pcs]
      BY <1>9 DEF CallTakesReply, Goes, TypeOK, Pcs
    <2> QED
      BY <1>3, <1>9, <2>1, <2>2
         DEF CallTakesReply, TypeOK, Commands, registryVars, writerVars, hostVars
  <1>10. ASSUME NEW c \in Calls, HostReplies(c) PROVE TypeOK' /\ ResolvesNumbered'
    <2>1. replies[c] + 1 \in 1..MaxReplies
      BY <1>10 DEF HostReplies, TypeOK
    <2>2. Reply(c, replies[c] + 1) \in Replies
      BY <2>1 DEF Reply, Replies
    <2>3. Append(stdin, Reply(c, replies[c] + 1)) \in Seq(Replies)
      BY <2>2, AppendProperties DEF TypeOK
    <2> QED
      BY <1>3, <1>10, <2>1, <2>3
         DEF HostReplies, TypeOK, Commands, callVars, registryVars, writerVars
  <1>11. CASE Registry
    <2>1. cmds # <<>> /\ cmds' = Tail(cmds) /\ UNCHANGED <<callVars, frames, writerVars, hostVars>>
      BY <1>11 DEF Registry, RegistryRegister, RegistryDeliver, RegistryDiscard,
                   RegistryDrop, Handles
    <2>2. Head(cmds) \in Commands /\ cmds' \in Seq(Commands) /\ ResolvesNumbered'
      BY <1>2, <2>1, CmdTaken
    <2>3. Head(cmds).id \in Calls
      BY <2>2 DEF Commands
    <2>4. pending' \in SUBSET Calls /\ discarded' \in SUBSET Calls
      BY <1>11, <2>3 DEF Registry, RegistryRegister, RegistryDeliver, RegistryDiscard,
                         RegistryDrop, TypeOK
    <2>5. ch' \in [Calls -> Seq(Replies)]
      <3>1. CASE RegistryDeliver
        <4> DEFINE c == Head(cmds).id
        <4>1. Head(cmds).n \in 1..MaxReplies
          BY <2>1, <3>1, CmdTaken DEF RegistryDeliver, Handles, ResolvesNumbered
        <4>2. Reply(c, Head(cmds).n) \in Replies
          BY <2>3, <4>1 DEF Reply, Replies
        <4>3. Append(ch[c], Reply(c, Head(cmds).n)) \in Seq(Replies)
          BY <2>3, <4>2, AppendProperties DEF TypeOK
        <4> QED
          BY <2>3, <3>1, <4>3 DEF RegistryDeliver, TypeOK
      <3>2. CASE ch' = ch
        BY <3>2 DEF TypeOK
      <3> QED
        BY <1>11, <3>1, <3>2 DEF Registry, RegistryRegister, RegistryDiscard, RegistryDrop
    <2> QED
      BY <2>1, <2>2, <2>4, <2>5 DEF TypeOK, Commands, callVars, writerVars, hostVars
  <1>12. CASE WriterWrites \/ WriterFails
    <2>1. Head(frames) \in Calls /\ Tail(frames) \in Seq(Calls)
      BY <1>12, HeadTailProperties DEF WriterWrites, WriterFails, WriterTakes, TypeOK
    <2> QED
      BY <1>3, <1>12, <2>1
         DEF WriterWrites, WriterFails, WriterTakes, TypeOK, Commands, callVars,
             registryVars, hostVars
  <1>13. CASE OutputBreaks
    BY <1>3, <1>13 DEF OutputBreaks, TypeOK, Commands, callVars, registryVars, hostVars
  <1>14. CASE Resolve
    <2>1. Head(stdin) \in Replies /\ Tail(stdin) \in Seq(Replies)
      BY <1>14, HeadTailProperties DEF Resolve, TypeOK
    <2> DEFINE x == Cmd("resolve", Head(stdin).id, Head(stdin).n)
    <2>2. x \in Commands /\ x.n \in 1..MaxReplies
      BY <2>1 DEF Cmd, Commands, CmdOps, Replies
    <2>3. cmds' \in Seq(Commands) /\ ResolvesNumbered'
      BY <1>1, <1>14, <2>2 DEF Resolve
    <2> QED
      BY <1>14, <2>1, <2>3
         DEF Resolve, TypeOK, Commands, callVars, registryVars, writerVars
  <1>15. CASE UNCHANGED vars
    BY <1>3, <1>15 DEF vars, TypeOK, Commands, callVars, registryVars, writerVars, hostVars
  <1> QED
    BY <1>6, <1>7, <1>8, <1>9, <1>10, <1>11, <1>12, <1>13, <1>14, <1>15 DEF Next, Call

(* The variables of the bridge keep their types, and replies their numbers.*)
LEMMA TypesKept == Spec => [](TypeOK /\ ResolvesNumbered)
  <1>1. Init => TypeOK /\ ResolvesNumbered
    <2>1. \A S : <<>> \in Seq(S) /\ DOMAIN <<>> = {}
      OBVIOUS
    <2> SUFFICES ASSUME Init PROVE TypeOK /\ ResolvesNumbered
      OBVIOUS
    <2>2. ch \in [Calls -> Seq(Replies)] /\ replies \in [Calls -> 0..MaxReplies]
      BY <2>1, BridgeAssumption DEF Init
    <2>3. pc \in [Calls -> Pcs]
      BY DEF Init, Pcs
    <2> QED
      BY <2>1, <2>2, <2>3 DEF Init, TypeOK, ResolvesNumbered
  <1> QED
    BY <1>1, TypeStep, PTL DEF Spec

(* The variables of the bridge keep their types.                           *)
THEOREM BridgeTypes == Spec => []TypeOK
  BY TypesKept, PTL

-----------------------------------------------------------------------------
(* The registry.                                                           *)

(* A call may go from one place to another without touching the registry.  *)
CallsGoOn ==
  \A c \in Calls :
    /\ pc[c] # "idle" => pc'[c] # "idle"
    /\ pc'[c] \in {"write", "send", "wait"} => pc[c] \in {"write", "send", "wait"}
    /\ pc'[c] = "returned" <=> pc[c] = "returned"
    /\ pc[c] \in {"drop", "returned"} => pc'[c] \in {"drop", "returned"}

(* A step that leaves the registry and its channel alone.                  *)
LEMMA QuietStep ==
  ASSUME TypeOK, RegistryInv, CallsGoOn, UNCHANGED <<cmds, pending, ch, discarded>>,
         \A c \in received' : c \in Calls /\ pc[c] # "idle",
         \A i \in DOMAIN frames' : frames'[i] \in Calls /\ pc[frames'[i]] # "idle",
         \A i \in DOMAIN stdin' : stdin'[i].id \in Calls /\ pc[stdin'[i].id] # "idle"
  PROVE  RegistryInv'
  <1>1. \A i \in DOMAIN cmds : cmds[i].id \in Calls
    BY AboutCalls
  <1>2. OnlyStarted'
    BY <1>1 DEF RegistryInv, OnlyStarted, CallsGoOn
  <1>3. RegisterFirst' /\ RegisterOnce' /\ RegistryNeverBlocks'
    BY DEF RegistryInv, RegisterFirst, RegisterOnce, RegistryNeverBlocks
  <1>4. DropsLast'
    BY <1>1 DEF RegistryInv, DropsLast, CallsGoOn
  <1>5. Known' /\ Forgotten'
    BY DEF RegistryInv, Known, Forgotten, Registering, Dropping, CallsGoOn
  <1>6. NoReplyLost'
    BY DEF RegistryInv, NoReplyLost, CallsGoOn, TypeOK
  <1> QED
    BY <1>2, <1>3, <1>4, <1>5, <1>6 DEF RegistryInv

(* Calls, the writer and the host leave the registry alone while no        *)
(* command is sent and no reply taken.                                     *)
LEMMA QuietActions ==
  ASSUME TypeOK, TypeOK', RegistryInv,
         \/ \E c \in Calls : \/ CallFails(c) \/ CallPassesCheck(c) \/ CallAbandons(c)
                            \/ CallSend(c) \/ Expire(c) \/ HostReplies(c)
         \/ WriterWrites \/ WriterFails \/ OutputBreaks \/ UNCHANGED vars
  PROVE  RegistryInv'
  <1>0. /\ \A c \in received : c \in Calls /\ pc[c] # "idle"
        /\ \A i \in DOMAIN frames : frames[i] \in Calls /\ pc[frames[i]] # "idle"
        /\ \A i \in DOMAIN stdin : stdin[i].id \in Calls /\ pc[stdin[i].id] # "idle"
    BY AboutCalls DEF TypeOK, RegistryInv, OnlyStarted
  <1>1. ASSUME NEW c \in Calls,
               CallFails(c) \/ CallPassesCheck(c) \/ CallAbandons(c) \/ Expire(c)
        PROVE  RegistryInv'
    <2>1. UNCHANGED <<cmds, pending, ch, discarded, received, frames, stdin>>
      BY <1>1 DEF CallFails, CallPassesCheck, CallAbandons, Expire, registryVars,
                  writerVars, hostVars
    <2>2. CallsGoOn
      BY <1>1 DEF CallFails, CallPassesCheck, CallAbandons, Expire, Goes, CallsGoOn, TypeOK
    <2> QED
      BY <1>0, <2>1, <2>2, QuietStep
  <1>2. ASSUME NEW c \in Calls, CallSend(c) PROVE RegistryInv'
    <2>1. UNCHANGED <<cmds, pending, ch, discarded, received, stdin>>
      BY <1>2 DEF CallSend, registryVars, writerVars, hostVars
    <2>2. CallsGoOn
      BY <1>2 DEF CallSend, Goes, CallsGoOn, TypeOK
    <2>3. \A i \in DOMAIN frames' : frames'[i] \in Calls /\ pc[frames'[i]] # "idle"
      <3>1. frames' = Append(frames, c) /\ frames \in Seq(Calls) /\ pc[c] # "idle"
        BY <1>2 DEF CallSend, Goes, TypeOK
      <3> QED
        BY <1>0, <3>1, AppendProperties, LenProperties
    <2> QED
      BY <1>0, <2>1, <2>2, <2>3, QuietStep
  <1>3. ASSUME NEW c \in Calls, HostReplies(c) PROVE RegistryInv'
    <2>1. UNCHANGED <<cmds, pending, ch, discarded, received, frames, pc>>
      BY <1>3 DEF HostReplies, callVars, registryVars, writerVars
    <2>2. CallsGoOn
      BY <2>1 DEF CallsGoOn
    <2> DEFINE x == Reply(c, replies[c] + 1)
    <2>3. x \in Replies /\ x.id = c /\ pc[c] # "idle"
      BY <1>0, <1>3 DEF HostReplies, Reply, Replies, TypeOK
    <2>4. stdin' = Append(stdin, x) /\ stdin \in Seq(Replies)
      BY <1>3 DEF HostReplies, TypeOK
    <2> HIDE DEF x
    <2>5. \A i \in DOMAIN stdin' : stdin'[i].id \in Calls /\ pc[stdin'[i].id] # "idle"
      BY <1>0, <2>3, <2>4, AppendProperties, LenProperties
    <2> QED
      BY <1>0, <2>1, <2>2, <2>5, QuietStep
  <1>4. CASE WriterWrites \/ WriterFails
    <2>1. UNCHANGED <<cmds, pending, ch, discarded, stdin, pc>>
      BY <1>4 DEF WriterWrites, WriterFails, WriterTakes, callVars, registryVars, hostVars
    <2>2. CallsGoOn
      BY <2>1 DEF CallsGoOn
    <2>3. frames # <<>> /\ frames' = Tail(frames) /\ frames \in Seq(Calls)
      BY <1>4 DEF WriterWrites, WriterFails, WriterTakes, TypeOK
    <2>4. \A i \in DOMAIN frames' : frames'[i] \in Calls /\ pc[frames'[i]] # "idle"
      BY <1>0, <2>3, HeadTailProperties, LenProperties, EmptySeq
    <2>5. \A c \in received' : c \in Calls /\ pc[c] # "idle"
      BY <1>0, <1>4, <2>3, HeadTailProperties, LenProperties, EmptySeq DEF WriterWrites, WriterFails
    <2> QED
      BY <1>0, <2>1, <2>2, <2>4, <2>5, QuietStep
  <1>5. CASE OutputBreaks \/ UNCHANGED vars
    <2>1. UNCHANGED <<cmds, pending, ch, discarded, received, frames, stdin, pc>>
      BY <1>5 DEF OutputBreaks, vars, callVars, registryVars, writerVars, hostVars
    <2>2. CallsGoOn
      BY <2>1 DEF CallsGoOn
    <2> QED
      BY <1>0, <2>1, <2>2, QuietStep
  <1> QED
    BY <1>1, <1>2, <1>3, <1>4, <1>5

(* Registering, dropping and resolving: a command is queued.               *)
LEMMA QueueStep ==
  ASSUME TypeOK, TypeOK', RegistryInv, NEW c \in Calls,
         CallRegister(c) \/ CallDrops(c)
  PROVE  RegistryInv'
  <1>0. /\ UNCHANGED <<pending, ch, discarded, received, frames, stdin>>
        /\ \A i \in DOMAIN cmds : cmds[i].id \in Calls
        /\ \A i \in DOMAIN frames : frames[i] \in Calls
        /\ \A i \in DOMAIN stdin : stdin[i].id \in Calls
    BY AboutCalls DEF CallRegister, CallDrops, registryVars, writerVars, hostVars
  <1> DEFINE n == Len(cmds) + 1
  <1>1. CASE CallRegister(c)
    <2> DEFINE x == Cmd("register", c, 0)
    <2>1. x \in Commands /\ x.op = "register" /\ x.id = c
      BY BridgeAssumption DEF Cmd, Commands, CmdOps
    <2>2. cmds' = Append(cmds, x) /\ pc' = [pc EXCEPT ![c] = "write"] /\ pc[c] = "idle"
      BY <1>1 DEF CallRegister, Goes
    <2> HIDE DEF x, n
    <2>3. /\ DOMAIN cmds' = DOMAIN cmds \union {n} /\ cmds'[n] = x
          /\ \A i \in DOMAIN cmds : cmds'[i] = cmds[i] /\ i <= n
          /\ n \notin DOMAIN cmds /\ n \in Nat
      <3>1. /\ DOMAIN cmds' = DOMAIN cmds \union {n} /\ cmds'[n] = x
            /\ \A i \in DOMAIN cmds : cmds'[i] = cmds[i] /\ i <= Len(cmds)
            /\ n \notin DOMAIN cmds /\ Len(cmds) \in Nat
        BY <2>1, <2>2, CmdQueued DEF n
      <3> QED
        BY <3>1 DEF n, TypeOK
    <2>4. c \notin pending /\ ch[c] = <<>> /\ \A i \in DOMAIN cmds : cmds[i].id # c
      BY <2>2 DEF RegistryInv, OnlyStarted
    <2>5. pc'[c] = "write" /\ \A d \in Calls : d # c => pc'[d] = pc[d]
      BY <2>2 DEF TypeOK
    <2>6. OnlyStarted'
      BY <1>0, <2>1, <2>3, <2>5 DEF RegistryInv, OnlyStarted
    <2>7. RegisterFirst'
      BY <2>1, <2>3, <2>4 DEF RegistryInv, RegisterFirst
    <2>8. RegisterOnce' /\ RegistryNeverBlocks'
      BY <1>0, <2>1, <2>3, <2>4 DEF RegistryInv, RegisterOnce, RegistryNeverBlocks
    <2>9. DropsLast'
      BY <1>0, <2>1, <2>3, <2>4, <2>5 DEF RegistryInv, DropsLast
    <2>10. /\ \A d \in Calls : d # c => Registering(d)' = Registering(d)
           /\ \A d \in Calls : Dropping(d) => Dropping(d)'
           /\ Registering(c)'
      BY <2>1, <2>3 DEF Registering, Dropping
    <2>11. Known' /\ Forgotten'
      BY <1>0, <2>5, <2>10 DEF RegistryInv, Known, Forgotten
    <2>12. NoReplyLost'
      BY <1>0, <2>2, <2>5 DEF RegistryInv, NoReplyLost, TypeOK
    <2> QED
      BY <2>6, <2>7, <2>8, <2>9, <2>11, <2>12 DEF RegistryInv
  <1>2. CASE CallDrops(c)
    <2> DEFINE x == Cmd("drop", c, 0)
    <2>1. x \in Commands /\ x.op = "drop" /\ x.id = c
      BY BridgeAssumption DEF Cmd, Commands, CmdOps
    <2>2. cmds' = Append(cmds, x) /\ pc' = [pc EXCEPT ![c] = "returned"] /\ pc[c] = "drop"
      BY <1>2 DEF CallDrops, Goes
    <2>0. Dropping(c)' \/ cmds' # Append(cmds, x)
      <3>1. cmds' = Append(cmds, x) => n \in DOMAIN cmds' /\ cmds'[n] = x
        BY <2>1, CmdQueued
      <3> QED
        BY <3>1 DEF Dropping
    <2> HIDE DEF x, n
    <2>3. /\ DOMAIN cmds' = DOMAIN cmds \union {n} /\ cmds'[n] = x
          /\ \A i \in DOMAIN cmds : cmds'[i] = cmds[i] /\ i <= n
          /\ n \notin DOMAIN cmds /\ n \in Nat
      BY <2>1, <2>2, CmdQueued DEF n, TypeOK
    <2>5. pc'[c] = "returned" /\ \A d \in Calls : d # c => pc'[d] = pc[d]
      BY <2>2 DEF TypeOK
    <2>6. OnlyStarted'
      BY <1>0, <2>1, <2>3, <2>5 DEF RegistryInv, OnlyStarted
    <2>7. RegisterFirst'
      BY <2>1, <2>3 DEF RegistryInv, RegisterFirst
    <2>8. RegisterOnce' /\ RegistryNeverBlocks'
      BY <1>0, <2>1, <2>3 DEF RegistryInv, RegisterOnce, RegistryNeverBlocks
    <2>9. DropsLast'
      BY <1>0, <2>1, <2>3, <2>5 DEF RegistryInv, DropsLast
    <2>10. /\ \A d \in Calls : Registering(d)' = Registering(d)
           /\ \A d \in Calls : Dropping(d) => Dropping(d)'
      BY <2>1, <2>3 DEF Registering, Dropping
    <2>11. Known' /\ Forgotten'
      BY <1>0, <2>0, <2>2, <2>5, <2>10 DEF RegistryInv, Known, Forgotten
    <2>12. NoReplyLost'
      BY <1>0, <2>5 DEF RegistryInv, NoReplyLost, TypeOK
    <2> QED
      BY <2>6, <2>7, <2>8, <2>9, <2>11, <2>12 DEF RegistryInv
  <1> QED
    BY <1>1, <1>2

(* The reader queues a resolve.                                            *)
LEMMA ResolveStep ==
  ASSUME TypeOK, TypeOK', RegistryInv, Resolve
  PROVE  RegistryInv'
  <1> DEFINE x == Cmd("resolve", Head(stdin).id, Head(stdin).n)
             n == Len(cmds) + 1
             c == Head(stdin).id
  <1>0. /\ UNCHANGED <<pc, pending, ch, discarded, received, frames>>
        /\ \A i \in DOMAIN cmds : cmds[i].id \in Calls
    BY AboutCalls DEF Resolve, callVars, registryVars, writerVars
  <1>1. /\ 1 \in DOMAIN stdin /\ Head(stdin) = stdin[1] /\ Head(stdin) \in Replies
        /\ \A i \in DOMAIN stdin' : i + 1 \in DOMAIN stdin /\ stdin'[i] = stdin[i + 1]
    BY HeadTailProperties, LenProperties, EmptySeq DEF Resolve, TypeOK
  <1>2. x \in Commands /\ x.op = "resolve" /\ x.id = c /\ c \in Calls /\ pc[c] # "idle"
    BY <1>1 DEF Cmd, Commands, CmdOps, Replies, RegistryInv, OnlyStarted
  <1>3. cmds' = Append(cmds, x)
    BY DEF Resolve
  <1> HIDE DEF x, n, c
  <1>4. /\ DOMAIN cmds' = DOMAIN cmds \union {n} /\ cmds'[n] = x
        /\ \A i \in DOMAIN cmds : cmds'[i] = cmds[i] /\ i <= n
        /\ n \notin DOMAIN cmds /\ n \in Nat
    BY <1>2, <1>3, CmdQueued DEF n, TypeOK
  <1>5. OnlyStarted'
    BY <1>0, <1>1, <1>2, <1>4 DEF RegistryInv, OnlyStarted
  <1>6. RegisterFirst'
    BY <1>2, <1>4 DEF RegistryInv, RegisterFirst
  <1>7. RegisterOnce' /\ RegistryNeverBlocks' /\ DropsLast'
    BY <1>0, <1>2, <1>4 DEF RegistryInv, RegisterOnce, RegistryNeverBlocks, DropsLast
  <1>8. /\ \A d \in Calls : Registering(d)' = Registering(d)
        /\ \A d \in Calls : Dropping(d) => Dropping(d)'
    BY <1>2, <1>4 DEF Registering, Dropping
  <1>9. Known' /\ Forgotten' /\ NoReplyLost'
    BY <1>0, <1>8 DEF RegistryInv, Known, Forgotten, NoReplyLost
  <1> QED
    BY <1>5, <1>6, <1>7, <1>9 DEF RegistryInv

(* A call that takes its reply is not registered any more.                 *)
LEMMA TakeStep ==
  ASSUME TypeOK, TypeOK', RegistryInv, NEW c \in Calls, CallTakesReply(c)
  PROVE  RegistryInv'
  <1>1. /\ UNCHANGED <<cmds, pending, discarded, received, frames, stdin>>
        /\ pc' = [pc EXCEPT ![c] = "returned"] /\ ch' = [ch EXCEPT ![c] = Tail(ch[c])]
        /\ pc[c] = "wait" /\ ch[c] # <<>>
    BY DEF CallTakesReply, Goes, registryVars, writerVars, hostVars
  <1>2. /\ pc'[c] = "returned"
        /\ \A d \in Calls : d # c => pc'[d] = pc[d] /\ ch'[d] = ch[d]
    BY <1>1 DEF TypeOK
  <1>3. c \notin pending /\ ~Registering(c)
    BY <1>1 DEF RegistryInv, RegistryNeverBlocks, RegisterOnce, Registering
  <1>4. /\ \A i \in DOMAIN cmds : cmds[i].id \in Calls
        /\ \A i \in DOMAIN frames : frames[i] \in Calls
        /\ \A i \in DOMAIN stdin : stdin[i].id \in Calls
    BY AboutCalls
  <1>5. \A d \in Calls : Registering(d)' = Registering(d) /\ Dropping(d)' = Dropping(d)
    BY <1>1 DEF Registering, Dropping
  <1>6. OnlyStarted'
    BY <1>1, <1>2, <1>4 DEF RegistryInv, OnlyStarted
  <1>7. RegisterFirst' /\ DropsLast'
    BY <1>1, <1>2, <1>4 DEF RegistryInv, RegisterFirst, DropsLast
  <1>8. RegisterOnce' /\ RegistryNeverBlocks'
    BY <1>1, <1>2, <1>3, <1>4
       DEF RegistryInv, RegisterOnce, RegistryNeverBlocks, Registering, TypeOK
  <1>9. Known' /\ Forgotten' /\ NoReplyLost'
    BY <1>1, <1>2, <1>3, <1>5 DEF RegistryInv, Known, Forgotten, NoReplyLost, TypeOK
  <1> QED
    BY <1>6, <1>7, <1>8, <1>9 DEF RegistryInv

(* What the registry's receive does to what is known of the commands.      *)
LEMMA TakenCommand ==
  ASSUME TypeOK, RegistryInv, cmds # <<>>, cmds' = Tail(cmds)
  PROVE  /\ RegisterFirst' /\ \A d : Registering(d)' => d # Head(cmds).id
         /\ \A d : Registering(d)' => Registering(d)
         /\ \A d : Registering(d) /\ d # Head(cmds).id => Registering(d)'
         /\ \A d : Dropping(d) /\ Head(cmds) # Cmd("drop", d, 0) => Dropping(d)'
  <1> DEFINE k == Head(cmds)
  <1>1. /\ 1 \in DOMAIN cmds /\ k = cmds[1]
        /\ \A i \in DOMAIN cmds' : /\ i \in Nat \ {0} /\ i + 1 \in DOMAIN cmds
                                  /\ cmds'[i] = cmds[i + 1]
        /\ \A i \in DOMAIN cmds : i # 1 => i - 1 \in DOMAIN cmds' /\ cmds'[i - 1] = cmds[i]
        /\ \A i \in DOMAIN cmds : i \in Nat \ {0}
    BY CmdTaken
  <1> HIDE DEF k
  <1>2. RegisterFirst'
    BY <1>1 DEF RegistryInv, RegisterFirst
  <1>3. \A d : Registering(d)' => d # k.id
    <2>1. ASSUME NEW i \in DOMAIN cmds', cmds'[i].op = "register" PROVE cmds'[i].id # k.id
      <3>1. i + 1 \in DOMAIN cmds /\ cmds[i + 1].op = "register" /\ ~(i + 1 <= 1)
        BY <1>1, <2>1
      <3> QED
        BY <1>1, <2>1, <3>1 DEF RegistryInv, RegisterFirst
    <2> QED
      BY <2>1 DEF Registering
  <1>4. \A d : Registering(d)' => Registering(d)
    BY <1>1 DEF Registering
  <1>5. \A d : Registering(d) /\ d # k.id => Registering(d)'
    BY <1>1 DEF Registering
  <1>6. \A d : Dropping(d) /\ k # Cmd("drop", d, 0) => Dropping(d)'
    BY <1>1 DEF Dropping
  <1> QED
    BY <1>2, <1>3, <1>4, <1>5, <1>6 DEF k

(* The registry handles a command.                                         *)
LEMMA RegistryStep ==
  ASSUME TypeOK, TypeOK', RegistryInv, Registry
  PROVE  RegistryInv'
  <1> DEFINE k == Head(cmds)
             c == Head(cmds).id
  <1>0. /\ cmds # <<>> /\ cmds' = Tail(cmds)
        /\ UNCHANGED <<pc, received, frames, stdin>>
    BY DEF Registry, RegistryRegister, RegistryDeliver, RegistryDiscard, RegistryDrop,
           Handles, callVars, writerVars, hostVars
  <1>1. /\ 1 \in DOMAIN cmds /\ k = cmds[1]
        /\ \A i \in DOMAIN cmds' : i + 1 \in DOMAIN cmds /\ cmds'[i] = cmds[i + 1]
        /\ k \in Commands
    BY <1>0, CmdTaken
  <1>2. /\ c \in Calls /\ k.op \in CmdOps /\ pc[c] # "idle"
        /\ \A i \in DOMAIN cmds : cmds[i].id \in Calls
        /\ \A i \in DOMAIN frames : frames[i] \in Calls
        /\ \A i \in DOMAIN stdin : stdin[i].id \in Calls
    BY <1>1, AboutCalls DEF RegistryInv, OnlyStarted, Commands
  <1>3. /\ RegisterFirst' /\ \A d : Registering(d)' => d # c
        /\ \A d : Registering(d)' => Registering(d)
        /\ \A d : Registering(d) /\ d # c => Registering(d)'
        /\ \A d : Dropping(d) /\ k # Cmd("drop", d, 0) => Dropping(d)'
    BY <1>0, TakenCommand
  <1>4. \A d : k = Cmd("drop", d, 0) => k.op = "drop" /\ d = c
    BY DEF Cmd
  <1>5. DropsLast'
    BY <1>0, <1>1 DEF RegistryInv, DropsLast
  <1>6. k.op = "register" => Registering(c)
    BY <1>1 DEF Registering
  <1>7. Registering(c) => k.op = "register"
    BY <1>1, CmdTaken, <1>0 DEF RegistryInv, RegisterFirst, Registering
  <1>8. \A d : Registering(d) => d \notin pending /\ ch[d] = <<>>
    BY DEF RegistryInv, RegisterOnce, Registering
  <1>9. ASSUME \A d \in Calls : pc[d] = "idle" => d \notin pending' /\ ch'[d] = <<>>
        PROVE  OnlyStarted'
    BY <1>0, <1>1, <1>2, <1>9 DEF RegistryInv, OnlyStarted
  <1>10. ASSUME \A d : Registering(d)' => d \notin pending' /\ ch'[d] = <<>>
         PROVE  RegisterOnce'
    BY <1>10 DEF RegisterOnce, Registering
  <1> HIDE DEF k, c
  <1>11. CASE RegistryRegister
    <2>1. pending' = pending \union {c} /\ UNCHANGED <<ch, discarded>> /\ k.op = "register"
      BY <1>11 DEF RegistryRegister, Handles, c, k
    <2>2. OnlyStarted'
      BY <1>2, <1>9, <2>1 DEF RegistryInv, OnlyStarted
    <2>3. RegisterOnce'
      BY <1>3, <1>8, <1>10, <2>1
    <2>4. RegistryNeverBlocks' /\ NoReplyLost'
      BY <1>0, <1>6, <1>8, <2>1 DEF RegistryInv, RegistryNeverBlocks, NoReplyLost
    <2>5. Known'
      BY <1>0, <1>3, <2>1 DEF RegistryInv, Known
    <2>6. Forgotten'
      BY <1>0, <1>3, <1>4, <1>6, <2>1 DEF RegistryInv, Forgotten
    <2> QED
      BY <1>3, <1>5, <2>2, <2>3, <2>4, <2>5, <2>6 DEF RegistryInv
  <1>12. CASE RegistryDeliver
    <2>1. /\ pending' = pending \ {c} /\ discarded' = discarded /\ k.op = "resolve"
          /\ c \in pending /\ ch[c] = <<>>
          /\ ch' = [ch EXCEPT ![c] = Append(ch[c], Reply(c, k.n))]
      BY <1>12 DEF RegistryDeliver, Handles, c, k
    <2>2. ch'[c] # <<>> /\ \A d \in Calls : d # c => ch'[d] = ch[d]
      <3>1. ch'[c] = Append(<<>>, Reply(c, k.n))
        BY <1>2, <2>1 DEF TypeOK
      <3>2. \A z : Append(<<>>, z) # <<>>
        OBVIOUS
      <3> QED
        BY <2>1, <3>1, <3>2 DEF TypeOK
    <2>3. OnlyStarted'
      BY <1>2, <1>9, <2>1, <2>2 DEF RegistryInv, OnlyStarted
    <2>4. \A d : Registering(d) => d \in Calls
      BY <1>2 DEF Registering
    <2>5. RegisterOnce'
      BY <1>3, <1>8, <1>10, <2>1, <2>2, <2>4
    <2>6. RegistryNeverBlocks' /\ NoReplyLost'
      BY <1>0, <2>1, <2>2 DEF RegistryInv, RegistryNeverBlocks, NoReplyLost, TypeOK
    <2>7. Known'
      BY <1>0, <1>3, <2>1, <2>2 DEF RegistryInv, Known
    <2>8. Forgotten'
      BY <1>0, <1>3, <1>4, <2>1 DEF RegistryInv, Forgotten
    <2> QED
      BY <1>3, <1>5, <2>3, <2>5, <2>6, <2>7, <2>8 DEF RegistryInv
  <1>13. CASE RegistryDiscard
    <2>1. /\ discarded' = discarded \union {c} /\ UNCHANGED <<pending, ch>>
          /\ k.op = "resolve" /\ c \notin pending
      BY <1>13 DEF RegistryDiscard, Handles, c, k
    <2>2. OnlyStarted'
      BY <1>9, <2>1 DEF RegistryInv, OnlyStarted
    <2>3. RegisterOnce' /\ RegistryNeverBlocks'
      BY <1>3, <1>8, <1>10, <2>1 DEF RegistryInv, RegistryNeverBlocks
    <2>4. pc[c] \in {"write", "send", "wait"} => ch[c] # <<>>
      BY <1>2, <1>7, <2>1 DEF RegistryInv, Known
    <2>5. NoReplyLost'
      BY <1>0, <1>2, <2>1, <2>4 DEF RegistryInv, NoReplyLost, TypeOK, Pcs
    <2>6. Known'
      BY <1>0, <1>3, <2>1, <2>4 DEF RegistryInv, Known
    <2>7. Forgotten'
      BY <1>0, <1>3, <1>4, <2>1 DEF RegistryInv, Forgotten
    <2> QED
      BY <1>3, <1>5, <2>2, <2>3, <2>5, <2>6, <2>7 DEF RegistryInv
  <1>14. CASE RegistryDrop
    <2>1. pending' = pending \ {c} /\ UNCHANGED <<ch, discarded>> /\ k.op = "drop"
      BY <1>14 DEF RegistryDrop, Handles, c, k
    <2>2. pc[c] = "returned"
      BY <1>1, <2>1 DEF RegistryInv, DropsLast, c
    <2>3. OnlyStarted'
      BY <1>9, <2>1 DEF RegistryInv, OnlyStarted
    <2>4. RegisterOnce' /\ RegistryNeverBlocks' /\ NoReplyLost'
      BY <1>0, <1>3, <1>8, <1>10, <2>1 DEF RegistryInv, RegistryNeverBlocks, NoReplyLost
    <2>5. Known'
      BY <1>0, <1>3, <2>1, <2>2 DEF RegistryInv, Known
    <2>6. Forgotten'
      BY <1>0, <1>3, <1>4, <2>1 DEF RegistryInv, Forgotten
    <2> QED
      BY <1>3, <1>5, <2>3, <2>4, <2>5, <2>6 DEF RegistryInv
  <1> QED
    BY <1>11, <1>12, <1>13, <1>14 DEF Registry

(* The registry's map, its commands and the calls agree.                   *)
LEMMA RegistryKept == Spec => []RegistryInv
  <1>1. ASSUME Init PROVE RegistryInv
    <2>1. DOMAIN <<>> = {}
      OBVIOUS
    <2> QED
      BY <1>1, <2>1
         DEF Init, RegistryInv, OnlyStarted, RegisterFirst, RegisterOnce, DropsLast, Known,
             Forgotten, RegistryNeverBlocks, NoReplyLost, Registering
  <1>2. TypeOK /\ TypeOK' /\ RegistryInv /\ [Next]_vars => RegistryInv'
    BY QuietActions, QueueStep, ResolveStep, TakeStep, RegistryStep DEF Next, Call
  <1>3. Spec => []TypeOK
    BY BridgeTypes
  <1> QED
    BY <1>1, <1>2, <1>3, PTL DEF Spec

(* The registry goroutine never blocks on a call's reply channel, for any  *)
(* number of calls and any number of replies to each.                      *)
THEOREM BridgeNeverBlocks == Spec => []RegistryNeverBlocks
  <1>1. RegistryInv => RegistryNeverBlocks
    BY DEF RegistryInv
  <1> QED
    BY <1>1, RegistryKept, PTL

(* No registration outlives its call.                                      *)
THEOREM BridgeForgets == Spec => []NoLeak
  <1>1. TypeOK /\ RegistryInv => NoLeak
    BY DEF TypeOK, RegistryInv, Forgotten, Dropping, NoLeak
  <1> QED
    BY <1>1, BridgeTypes, RegistryKept, PTL

(* The registry discards no reply a call still waits for.                  *)
THEOREM BridgeLosesNoReply == Spec => []NoReplyLost
  <1>1. RegistryInv => NoReplyLost
    BY DEF RegistryInv
  <1> QED
    BY <1>1, RegistryKept, PTL

-----------------------------------------------------------------------------
(* The bridge implements RemoteCall.                                       *)

(* No reply to the call has been handed over or given up.                  *)
Fresh(c) == pc[c] = "idle" \/ Registering(c) \/ c \in pending

(* The host's replies to a call keep their order.                          *)
InOrder ==
  /\ \A i \in DOMAIN cmds :
       cmds[i].op = "resolve" => cmds[i].n \in 1..replies[cmds[i].id]
  /\ \A i \in DOMAIN stdin : stdin[i].n \in 1..replies[stdin[i].id]
  /\ \A i, j \in DOMAIN cmds :
       i < j /\ cmds[i].op = "resolve" /\ cmds[j].op = "resolve"
             /\ cmds[i].id = cmds[j].id => cmds[i].n < cmds[j].n
  /\ \A i \in DOMAIN cmds, j \in DOMAIN stdin :
       cmds[i].op = "resolve" /\ cmds[i].id = stdin[j].id => cmds[i].n < stdin[j].n
  /\ \A i, j \in DOMAIN stdin :
       i < j /\ stdin[i].id = stdin[j].id => stdin[i].n < stdin[j].n

(* The first reply to a fresh call is on its way.                          *)
FirstOnItsWay ==
  \A c \in Calls :
    Fresh(c) /\ replies[c] > 0 =>
      \/ \E i \in DOMAIN cmds : cmds[i] = Cmd("resolve", c, 1)
      \/ \E i \in DOMAIN stdin : stdin[i] = Reply(c, 1)

OnlyFirst ==
  \A c \in Calls : ch[c] = <<>> \/ (ch[c] = <<Reply(c, 1)>> /\ replies[c] > 0)

(* A call has its result from the moment it stops waiting.                 *)
ResultsSet ==
  \A c \in Calls :
    /\ pc[c] \in {"idle", "write", "send", "wait"} => result[c] = NoResult
    /\ pc[c] \in {"drop", "returned"} => result[c] \in {Failed, Abandoned, Reply(c, 1)}

OrderInv == InOrder /\ FirstOnItsWay /\ OnlyFirst /\ ResultsSet

(* Results can be told apart.                                              *)
LEMMA ResultsDiffer ==
  ASSUME NEW c \in Calls
  PROVE  /\ NoResult # Failed /\ NoResult # Abandoned /\ Failed # Abandoned
         /\ \A n : Reply(c, n) \notin {NoResult, Failed, Abandoned}
         /\ \A n : Reply(c, n).id = c /\ Reply(c, n).n = n
  <1>1. /\ DOMAIN NoResult = {"kind"} /\ DOMAIN Failed = {"kind"} /\ DOMAIN Abandoned = {"kind"}
        /\ \A n : DOMAIN Reply(c, n) = {"id", "n"}
    BY DEF NoResult, Failed, Abandoned, Reply
  <1>2. "kind" \notin {"id", "n"}
    OBVIOUS
  <1>3. /\ NoResult.kind = "none" /\ Failed.kind = "failed" /\ Abandoned.kind = "abandoned"
        /\ \A n : Reply(c, n).id = c /\ Reply(c, n).n = n
    BY DEF NoResult, Failed, Abandoned, Reply
  <1>4. \A n : Reply(c, n) \notin {NoResult, Failed, Abandoned}
    BY <1>1, <1>2
  <1> QED
    BY <1>3, <1>4

(* A call's result is set once, in the step in which it stops waiting.     *)
LEMMA ResultStep ==
  ASSUME TypeOK, RegistryInv, OrderInv, [Next]_vars
  PROVE  ResultsSet'
  <1>1. ASSUME NEW c \in Calls, Call(c) PROVE ResultsSet'
    <2>1. CASE CallTakesReply(c)
      <3>1. ch[c] = <<Reply(c, 1)>>
        BY <2>1 DEF CallTakesReply, OrderInv, OnlyFirst
      <3>2. Head(ch[c]) = Reply(c, 1)
        BY <3>1
      <3> QED
        BY <2>1, <3>2 DEF CallTakesReply, Goes, OrderInv, ResultsSet, TypeOK
    <2>2. CASE CallRegister(c) \/ CallFails(c) \/ CallPassesCheck(c) \/ CallSend(c)
               \/ CallAbandons(c) \/ CallDrops(c)
      BY <2>2 DEF CallRegister, CallFails, CallPassesCheck, CallSend, CallAbandons, CallDrops,
                  Goes, OrderInv, ResultsSet, TypeOK
    <2> QED
      BY <1>1, <2>1, <2>2 DEF Call
  <1>2. CASE UNCHANGED <<pc, result>>
    BY <1>2 DEF OrderInv, ResultsSet
  <1>3. CASE \E c \in Calls : Expire(c) \/ HostReplies(c)
    BY <1>2, <1>3 DEF Expire, HostReplies, callVars
  <1>4. CASE Registry \/ WriterWrites \/ WriterFails \/ OutputBreaks \/ Resolve \/ UNCHANGED vars
    BY <1>2, <1>4
       DEF Registry, RegistryRegister, RegistryDeliver, RegistryDiscard, RegistryDrop, Handles,
           WriterWrites, WriterFails, WriterTakes, OutputBreaks, Resolve, vars, callVars
  <1> QED
    BY <1>1, <1>3, <1>4 DEF Next

(* A command that is not a reply is queued.                                *)
LEMMA OrderQueue ==
  ASSUME TypeOK, RegistryInv, OrderInv, NEW x \in Commands, x.op # "resolve",
         cmds' = Append(cmds, x), UNCHANGED <<stdin, replies, ch>>,
         \A c \in Calls : Fresh(c)' => Fresh(c)
  PROVE  InOrder' /\ FirstOnItsWay' /\ OnlyFirst'
  <1> DEFINE n == Len(cmds) + 1
  <1>1. /\ DOMAIN cmds' = DOMAIN cmds \union {n} /\ cmds'[n] = x
        /\ \A i \in DOMAIN cmds : cmds'[i] = cmds[i]
    BY CmdQueued
  <1> HIDE DEF n
  <1>2. InOrder'
    BY <1>1 DEF OrderInv, InOrder
  <1>3. FirstOnItsWay'
    BY <1>1 DEF OrderInv, FirstOnItsWay
  <1> QED
    BY <1>2, <1>3 DEF OrderInv, OnlyFirst

(* The host sends another reply.                                           *)
LEMMA OrderReply ==
  ASSUME TypeOK, RegistryInv, OrderInv, NEW c \in Calls, HostReplies(c)
  PROVE  InOrder' /\ FirstOnItsWay' /\ OnlyFirst'
  <1> DEFINE x == Reply(c, replies[c] + 1)
             n == Len(stdin) + 1
  <1>1. /\ UNCHANGED <<cmds, pending, pc, ch>> /\ stdin' = Append(stdin, x)
        /\ replies' = [replies EXCEPT ![c] = replies[c] + 1]
    BY DEF HostReplies, callVars, registryVars, writerVars
  <1>2. replies[c] \in Nat /\ replies'[c] = replies[c] + 1 /\ replies[c] + 1 \in 1..MaxReplies
    BY <1>1, BridgeAssumption DEF TypeOK, HostReplies
  <1>3. x \in Replies /\ x.id = c /\ x.n = replies'[c] /\ stdin \in Seq(Replies)
    BY <1>2 DEF Reply, Replies, TypeOK
  <1>4. x = Reply(c, replies'[c])
    BY <1>2
  <1> HIDE DEF x
  <1>5. /\ DOMAIN stdin' = DOMAIN stdin \union {n} /\ stdin'[n] = x
        /\ \A i \in DOMAIN stdin : stdin'[i] = stdin[i] /\ i < n
    BY <1>1, <1>3, AppendProperties, LenProperties
  <1> HIDE DEF n
  <1>6. \A d \in Calls : d # c => replies'[d] = replies[d]
    BY <1>1 DEF TypeOK
  <1>7. /\ \A i \in DOMAIN cmds : cmds[i].id \in Calls /\ cmds[i] \in Commands
        /\ \A i \in DOMAIN stdin : stdin[i].id \in Calls /\ stdin[i].n \in Nat
        /\ \A i \in DOMAIN cmds : cmds[i].n \in Nat
        /\ \A d \in Calls : replies[d] \in Nat
    <2>1. \A i \in DOMAIN cmds : cmds[i].id \in Calls /\ cmds[i] \in Commands
      BY AboutCalls
    <2>2. \A y \in Commands : y.n \in Nat
      BY BridgeAssumption DEF Commands
    <2>3. \A i \in DOMAIN stdin : stdin[i].id \in Calls /\ stdin[i] \in Replies
      BY AboutCalls
    <2>4. \A y \in Replies : y.n \in Nat
      BY BridgeAssumption DEF Replies
    <2>5. \A d \in Calls : replies[d] \in Nat
      BY BridgeAssumption DEF TypeOK
    <2> QED
      BY <2>1, <2>2, <2>3, <2>4, <2>5
  <1>8. InOrder'
    <2>1. \A i \in DOMAIN cmds : cmds[i].op = "resolve" => cmds[i].n \in 1..replies'[cmds[i].id]
      BY <1>2, <1>6, <1>7 DEF OrderInv, InOrder
    <2>2. \A i \in DOMAIN stdin : stdin[i].n \in 1..replies'[stdin[i].id]
      BY <1>2, <1>6, <1>7 DEF OrderInv, InOrder
    <2>3. \A i \in DOMAIN stdin' : stdin'[i].n \in 1..replies'[stdin'[i].id]
      BY <1>2, <1>3, <1>5, <2>2
    <2>4. \A i \in DOMAIN cmds : cmds[i].op = "resolve" /\ cmds[i].id = c => cmds[i].n < x.n
      BY <1>2, <1>3, <1>7 DEF OrderInv, InOrder
    <2>5. \A i \in DOMAIN stdin : stdin[i].id = c => stdin[i].n < x.n
      BY <1>2, <1>3, <1>7 DEF OrderInv, InOrder
    <2>6. \A i \in DOMAIN cmds, j \in DOMAIN stdin' :
            cmds[i].op = "resolve" /\ cmds[i].id = stdin'[j].id => cmds[i].n < stdin'[j].n
      BY <1>3, <1>5, <2>4 DEF OrderInv, InOrder
    <2>7. ~(n < n) /\ \A i \in DOMAIN stdin : ~(n < i)
      <3>1. DOMAIN stdin = 1..Len(stdin) /\ Len(stdin) \in Nat
        BY <1>3
      <3> QED
        BY <3>1 DEF n
    <2>8. \A i, j \in DOMAIN stdin' :
            i < j /\ stdin'[i].id = stdin'[j].id => stdin'[i].n < stdin'[j].n
      BY <1>3, <1>5, <2>5, <2>7 DEF OrderInv, InOrder
    <2> QED
      BY <1>1, <2>1, <2>3, <2>6, <2>8 DEF OrderInv, InOrder
  <1>9. FirstOnItsWay'
    <2> SUFFICES ASSUME NEW d \in Calls, Fresh(d)', replies'[d] > 0
                 PROVE  \/ \E i \in DOMAIN cmds : cmds[i] = Cmd("resolve", d, 1)
                        \/ \E i \in DOMAIN stdin' : stdin'[i] = Reply(d, 1)
      BY <1>1 DEF FirstOnItsWay
    <2>1. Fresh(d)
      BY <1>1 DEF Fresh, Registering
    <2>2. CASE d = c /\ replies[c] = 0
      BY <1>2, <1>4, <1>5, <2>2
    <2>3. CASE replies[d] > 0
      BY <1>5, <2>1, <2>3 DEF OrderInv, FirstOnItsWay
    <2> QED
      BY <1>2, <1>6, <1>7, <2>2, <2>3
  <1>10. OnlyFirst'
    BY <1>1, <1>2, <1>6 DEF OrderInv, OnlyFirst
  <1> QED
    BY <1>8, <1>9, <1>10

(* The reader hands a reply to the registry's channel.                     *)
LEMMA OrderResolve ==
  ASSUME TypeOK, RegistryInv, OrderInv, Resolve
  PROVE  InOrder' /\ FirstOnItsWay' /\ OnlyFirst'
  <1> DEFINE h == Head(stdin)
             x == Cmd("resolve", h.id, h.n)
             n == Len(cmds) + 1
  <1>1. /\ UNCHANGED <<pending, pc, ch, replies>> /\ cmds' = Append(cmds, x)
        /\ stdin # <<>> /\ stdin' = Tail(stdin) /\ stdin \in Seq(Replies)
    BY DEF Resolve, callVars, registryVars, TypeOK
  <1>2. /\ 1 \in DOMAIN stdin /\ h = stdin[1] /\ h \in Replies
        /\ \A i \in DOMAIN stdin' : /\ i \in Nat \ {0} /\ i + 1 \in DOMAIN stdin
                                   /\ stdin'[i] = stdin[i + 1]
        /\ \A i \in DOMAIN stdin : i # 1 => i - 1 \in DOMAIN stdin' /\ stdin'[i - 1] = stdin[i]
    BY <1>1, HeadTailProperties, LenProperties, EmptySeq
  <1>3. x \in Commands /\ x.op = "resolve" /\ x.id = h.id /\ x.n = h.n
    BY <1>2 DEF Cmd, Commands, CmdOps, Replies
  <1>4. \A c : h = Reply(c, 1) => x = Cmd("resolve", c, 1)
    BY DEF Reply
  <1> HIDE DEF h, x
  <1>5. /\ DOMAIN cmds' = DOMAIN cmds \union {n} /\ cmds'[n] = x
        /\ \A i \in DOMAIN cmds : cmds'[i] = cmds[i] /\ i <= Len(cmds)
        /\ Len(cmds) \in Nat /\ \A i \in DOMAIN cmds : i \in Nat
    <2>1. cmds \in Seq(Commands)
      BY DEF TypeOK, Commands
    <2> QED
      BY <1>1, <1>3, <2>1, CmdQueued
  <1>6. /\ n \in Nat /\ ~(n < n) /\ \A i \in DOMAIN cmds : ~(n < i)
    BY <1>5
  <1> HIDE DEF n
  <1>7. InOrder'
    <2>1. \A i \in DOMAIN cmds' :
            cmds'[i].op = "resolve" => cmds'[i].n \in 1..replies[cmds'[i].id]
      BY <1>2, <1>3, <1>5 DEF OrderInv, InOrder
    <2>2. \A i \in DOMAIN stdin' : stdin'[i].n \in 1..replies[stdin'[i].id]
      BY <1>2 DEF OrderInv, InOrder
    <2>3. \A i, j \in DOMAIN cmds' :
            i < j /\ cmds'[i].op = "resolve" /\ cmds'[j].op = "resolve"
                  /\ cmds'[i].id = cmds'[j].id => cmds'[i].n < cmds'[j].n
      BY <1>2, <1>3, <1>5, <1>6 DEF OrderInv, InOrder
    <2>4. \A j \in DOMAIN stdin' : stdin'[j].id = h.id => h.n < stdin'[j].n
      <3> SUFFICES ASSUME NEW j \in DOMAIN stdin', stdin'[j].id = h.id PROVE h.n < stdin'[j].n
        OBVIOUS
      <3>1. 1 < j + 1 /\ j + 1 \in DOMAIN stdin /\ stdin'[j] = stdin[j + 1]
        BY <1>2
      <3> QED
        BY <1>2, <3>1 DEF OrderInv, InOrder
    <2>5. \A i \in DOMAIN cmds', j \in DOMAIN stdin' :
            cmds'[i].op = "resolve" /\ cmds'[i].id = stdin'[j].id => cmds'[i].n < stdin'[j].n
      BY <1>2, <1>3, <1>5, <2>4 DEF OrderInv, InOrder
    <2>6. \A i, j \in DOMAIN stdin' :
            i < j /\ stdin'[i].id = stdin'[j].id => stdin'[i].n < stdin'[j].n
      <3> SUFFICES ASSUME NEW i \in DOMAIN stdin', NEW j \in DOMAIN stdin',
                          i < j, stdin'[i].id = stdin'[j].id
                   PROVE  stdin'[i].n < stdin'[j].n
        OBVIOUS
      <3>1. /\ i + 1 < j + 1 /\ i + 1 \in DOMAIN stdin /\ stdin'[i] = stdin[i + 1]
            /\ j + 1 \in DOMAIN stdin /\ stdin'[j] = stdin[j + 1]
        BY <1>2
      <3> QED
        BY <3>1 DEF OrderInv, InOrder
    <2> QED
      BY <1>1, <2>1, <2>2, <2>3, <2>5, <2>6 DEF InOrder
  <1>8. FirstOnItsWay'
    <2> SUFFICES ASSUME NEW c \in Calls, Fresh(c)', replies[c] > 0
                 PROVE  \/ \E i \in DOMAIN cmds' : cmds'[i] = Cmd("resolve", c, 1)
                        \/ \E i \in DOMAIN stdin' : stdin'[i] = Reply(c, 1)
      BY <1>1 DEF FirstOnItsWay
    <2>1. Fresh(c)
      BY <1>1, <1>3, <1>5 DEF Fresh, Registering
    <2>2. CASE \E i \in DOMAIN cmds : cmds[i] = Cmd("resolve", c, 1)
      BY <1>5, <2>2
    <2>3. ASSUME NEW i \in DOMAIN stdin, stdin[i] = Reply(c, 1)
          PROVE  \/ \E k \in DOMAIN cmds' : cmds'[k] = Cmd("resolve", c, 1)
                 \/ \E k \in DOMAIN stdin' : stdin'[k] = Reply(c, 1)
      <3>1. CASE i = 1
        BY <1>2, <1>4, <1>5, <2>3, <3>1
      <3>2. CASE i # 1
        BY <1>2, <2>3, <3>2
      <3> QED
        BY <3>1, <3>2
    <2> QED
      BY <2>1, <2>2, <2>3 DEF OrderInv, FirstOnItsWay
  <1>9. OnlyFirst'
    BY <1>1 DEF OrderInv, OnlyFirst
  <1> QED
    BY <1>7, <1>8, <1>9

(* The registry handles a command: a reply it delivers is the first.       *)
LEMMA OrderRegistry ==
  ASSUME TypeOK, RegistryInv, OrderInv, Registry
  PROVE  InOrder' /\ FirstOnItsWay' /\ OnlyFirst'
  <1> DEFINE k == Head(cmds)
             c == Head(cmds).id
  <1>0. /\ cmds # <<>> /\ cmds' = Tail(cmds) /\ UNCHANGED <<pc, stdin, replies>>
    BY DEF Registry, RegistryRegister, RegistryDeliver, RegistryDiscard, RegistryDrop,
           Handles, callVars, writerVars, hostVars
  <1>1. /\ 1 \in DOMAIN cmds /\ k = cmds[1] /\ k \in Commands /\ c \in Calls
        /\ \A i \in DOMAIN cmds' : /\ i \in Nat \ {0} /\ i + 1 \in DOMAIN cmds
                                  /\ cmds'[i] = cmds[i + 1]
        /\ \A i \in DOMAIN cmds : i # 1 => i - 1 \in DOMAIN cmds' /\ cmds'[i - 1] = cmds[i]
        /\ \A i \in DOMAIN cmds : i \in Nat \ {0}
    BY <1>0, CmdTaken, AboutCalls DEF Commands
  <1>2. /\ \A d : Registering(d)' => d # c
        /\ \A d : Registering(d)' => Registering(d)
    BY <1>0, TakenCommand
  <1>3. pc[c] # "idle"
    BY <1>1 DEF RegistryInv, OnlyStarted
  <1>4. \A d : k = Cmd("resolve", d, 1) => k.op = "resolve" /\ d = c
    BY DEF Cmd
  <1>5. k.op = "register" => Registering(c)
    BY <1>1 DEF Registering
  <1> HIDE DEF k, c
  <1>6. InOrder'
    <2>1. \A i, j \in DOMAIN cmds' : i < j => i + 1 < j + 1
      BY <1>1
    <2> QED
      BY <1>0, <1>1, <2>1 DEF OrderInv, InOrder
  <1>7. ASSUME \A d \in Calls : Fresh(d)' => Fresh(d),
               k.op = "resolve" => \A d : d = c => ~Fresh(d)'
        PROVE  FirstOnItsWay'
    <2> SUFFICES ASSUME NEW d \in Calls, Fresh(d)', replies[d] > 0
                 PROVE  \/ \E i \in DOMAIN cmds' : cmds'[i] = Cmd("resolve", d, 1)
                        \/ \E i \in DOMAIN stdin : stdin[i] = Reply(d, 1)
      BY <1>0 DEF FirstOnItsWay
    <2>1. CASE \E i \in DOMAIN stdin : stdin[i] = Reply(d, 1)
      BY <2>1
    <2>2. ASSUME NEW i \in DOMAIN cmds, cmds[i] = Cmd("resolve", d, 1)
          PROVE  \E j \in DOMAIN cmds' : cmds'[j] = Cmd("resolve", d, 1)
      <3>1. i # 1
        <4>1. ASSUME i = 1 PROVE FALSE
          <5>1. k.op = "resolve" /\ d = c
            BY <1>1, <1>4, <2>2, <4>1
          <5> QED
            BY <1>7, <5>1
        <4> QED
          BY <4>1
      <3> QED
        BY <1>1, <2>2, <3>1
    <2> QED
      BY <1>7, <2>1, <2>2 DEF OrderInv, FirstOnItsWay
  <1>8. CASE RegistryRegister
    <2>1. pending' = pending \union {c} /\ UNCHANGED ch /\ k.op = "register"
      BY <1>8 DEF RegistryRegister, Handles, c, k
    <2>2. \A d \in Calls : Fresh(d)' => Fresh(d)
      BY <1>0, <1>2, <1>5, <2>1 DEF Fresh
    <2>3. FirstOnItsWay'
      BY <1>7, <2>1, <2>2
    <2>4. OnlyFirst'
      BY <1>0, <2>1 DEF OrderInv, OnlyFirst
    <2> QED
      BY <1>6, <2>3, <2>4
  <1>9. CASE RegistryDeliver
    <2>1. /\ pending' = pending \ {c} /\ k.op = "resolve" /\ c \in pending /\ ch[c] = <<>>
          /\ ch' = [ch EXCEPT ![c] = Append(ch[c], Reply(c, k.n))]
      BY <1>9 DEF RegistryDeliver, Handles, c, k
    <2>2. \A d \in Calls : Fresh(d)' => Fresh(d)
      BY <1>0, <1>2, <2>1 DEF Fresh
    <2>3. \A d : d = c => ~Fresh(d)'
      BY <1>0, <1>2, <1>3, <2>1 DEF Fresh
    <2>4. FirstOnItsWay'
      BY <1>7, <2>2, <2>3
    <2>5. k.n = 1 /\ replies[c] > 0
      <3>1. k.n \in 1..replies[c] /\ replies[c] \in Nat
        BY <1>1, <2>1, BridgeAssumption DEF OrderInv, InOrder, TypeOK, c
      <3>2. replies[c] > 0
        BY <3>1
      <3>3. \/ \E i \in DOMAIN cmds : cmds[i] = Cmd("resolve", c, 1)
            \/ \E i \in DOMAIN stdin : stdin[i] = Reply(c, 1)
        BY <1>1, <2>1, <3>2 DEF OrderInv, FirstOnItsWay, Fresh
      <3>4. \A i \in DOMAIN cmds : i = 1 \/ 1 < i
        BY <1>1
      <3>5. ASSUME NEW i \in DOMAIN cmds, cmds[i] = Cmd("resolve", c, 1) PROVE k.n <= 1
        <4>1. cmds[i].op = "resolve" /\ cmds[i].id = c /\ cmds[i].n = 1
          BY <3>5 DEF Cmd
        <4> QED
          BY <1>1, <2>1, <3>1, <3>4, <4>1 DEF OrderInv, InOrder, c
      <3>6. ASSUME NEW i \in DOMAIN stdin, stdin[i] = Reply(c, 1) PROVE k.n < 1
        <4>1. stdin[i].id = c /\ stdin[i].n = 1
          BY <3>6 DEF Reply
        <4> QED
          BY <1>1, <2>1, <4>1 DEF OrderInv, InOrder, c
      <3> QED
        BY <3>1, <3>2, <3>3, <3>5, <3>6
    <2>6. OnlyFirst'
      BY <1>0, <1>1, <2>1, <2>5 DEF OrderInv, OnlyFirst, TypeOK
    <2> QED
      BY <1>6, <2>4, <2>6
  <1>10. CASE RegistryDiscard
    <2>1. UNCHANGED <<pending, ch>> /\ k.op = "resolve" /\ c \notin pending
      BY <1>10 DEF RegistryDiscard, Handles, c, k
    <2>2. \A d : d = c => ~Fresh(d)'
      BY <1>0, <1>2, <1>3, <2>1 DEF Fresh
    <2>3. FirstOnItsWay'
      BY <1>0, <1>2, <1>7, <2>1, <2>2 DEF Fresh
    <2>4. OnlyFirst'
      BY <1>0, <2>1 DEF OrderInv, OnlyFirst
    <2> QED
      BY <1>6, <2>3, <2>4
  <1>11. CASE RegistryDrop
    <2>1. pending' = pending \ {c} /\ UNCHANGED ch /\ k.op = "drop"
      BY <1>11 DEF RegistryDrop, Handles, c, k
    <2>2. \A d \in Calls : Fresh(d)' => Fresh(d)
      BY <1>0, <1>2, <2>1 DEF Fresh
    <2>3. FirstOnItsWay'
      BY <1>7, <2>1, <2>2
    <2>4. OnlyFirst'
      BY <1>0, <2>1 DEF OrderInv, OnlyFirst
    <2> QED
      BY <1>6, <2>3, <2>4
  <1> QED
    BY <1>8, <1>9, <1>10, <1>11 DEF Registry

(* A call takes its reply, or the step is about something else.            *)
LEMMA OrderOthers ==
  ASSUME TypeOK, RegistryInv, OrderInv,
         \/ \E c \in Calls : \/ CallTakesReply(c) \/ CallFails(c) \/ CallPassesCheck(c)
                            \/ CallAbandons(c) \/ CallSend(c) \/ Expire(c)
         \/ WriterWrites \/ WriterFails \/ OutputBreaks \/ UNCHANGED vars
  PROVE  InOrder' /\ FirstOnItsWay' /\ OnlyFirst'
  <1>1. UNCHANGED <<cmds, stdin, replies, pending>>
    BY DEF CallTakesReply, CallFails, CallPassesCheck, CallAbandons, CallSend, Expire,
           WriterWrites, WriterFails, WriterTakes, OutputBreaks, vars, registryVars, hostVars
  <1>2. \A c \in Calls : pc'[c] = "idle" => pc[c] = "idle"
    BY DEF CallTakesReply, CallFails, CallPassesCheck, CallAbandons, CallSend, Expire,
           WriterWrites, WriterFails, WriterTakes, OutputBreaks, vars, callVars, Goes, TypeOK
  <1>3. InOrder'
    BY <1>1 DEF OrderInv, InOrder
  <1>4. \A c \in Calls : Fresh(c)' => Fresh(c)
    BY <1>1, <1>2 DEF Fresh, Registering
  <1>5. FirstOnItsWay'
    BY <1>1, <1>4 DEF OrderInv, FirstOnItsWay
  <1>6. ASSUME NEW c \in Calls, CallTakesReply(c) PROVE OnlyFirst'
    <2>1. ch[c] = <<Reply(c, 1)>> /\ ch' = [ch EXCEPT ![c] = Tail(ch[c])]
      BY <1>6 DEF CallTakesReply, OrderInv, OnlyFirst
    <2>2. Tail(ch[c]) = <<>>
      BY <2>1
    <2> QED
      BY <1>1, <2>1, <2>2 DEF OrderInv, OnlyFirst, TypeOK
  <1>7. ASSUME UNCHANGED ch PROVE OnlyFirst'
    BY <1>1, <1>7 DEF OrderInv, OnlyFirst
  <1> QED
    BY <1>3, <1>5, <1>6, <1>7
       DEF CallFails, CallPassesCheck, CallAbandons, CallSend, Expire, WriterWrites,
           WriterFails, WriterTakes, OutputBreaks, vars

(* Every step keeps the replies in order.                                  *)
LEMMA OrderStep ==
  ASSUME TypeOK, RegistryInv, OrderInv, [Next]_vars
  PROVE  OrderInv'
  <1>1. ASSUME NEW c \in Calls, CallRegister(c) \/ CallDrops(c)
        PROVE  InOrder' /\ FirstOnItsWay' /\ OnlyFirst'
    <2>1. PICK op \in {"register", "drop"} :
            /\ cmds' = Append(cmds, Cmd(op, c, 0))
            /\ op = "register" => pc[c] = "idle"
      BY <1>1 DEF CallRegister, CallDrops
    <2> DEFINE x == Cmd(op, c, 0)
    <2>2. x \in Commands /\ x.op = op /\ x.id = c
      BY BridgeAssumption DEF Cmd, Commands, CmdOps
    <2> HIDE DEF x
    <2>3. /\ DOMAIN cmds' = DOMAIN cmds \union {Len(cmds) + 1} /\ cmds'[Len(cmds) + 1] = x
          /\ \A i \in DOMAIN cmds : cmds'[i] = cmds[i]
      BY <2>1, <2>2, CmdQueued DEF x
    <2>4. \A d \in Calls : pc'[d] = "idle" => pc[d] = "idle"
      BY <1>1 DEF CallRegister, CallDrops, Goes, TypeOK
    <2>5. \A d \in Calls : Fresh(d)' => Fresh(d)
      BY <1>1, <2>1, <2>2, <2>3, <2>4 DEF Fresh, Registering, CallRegister, CallDrops, registryVars
    <2> QED
      BY <1>1, <2>1, <2>2, <2>5, OrderQueue DEF CallRegister, CallDrops, hostVars, x
  <1>2. InOrder' /\ FirstOnItsWay' /\ OnlyFirst'
    BY <1>1, OrderReply, OrderResolve, OrderRegistry, OrderOthers DEF Next, Call
  <1>3. ResultsSet'
    BY ResultStep
  <1> QED
    BY <1>2, <1>3 DEF OrderInv

(* The replies keep their order, and a call's result is the first of them. *)
LEMMA OrderKept == Spec => []OrderInv
  <1>1. ASSUME Init PROVE OrderInv
    <2>1. DOMAIN <<>> = {}
      OBVIOUS
    <2> QED
      BY <1>1, <2>1 DEF Init, OrderInv, InOrder, FirstOnItsWay, OnlyFirst, ResultsSet
  <1> QED
    BY <1>1, BridgeTypes, RegistryKept, OrderStep, PTL DEF Spec

-----------------------------------------------------------------------------
(* What a call is, seen from its cell.                                     *)
(* The answer it ends with, as the refinement maps it.                     *)
GotOf(c) == IF StatusOf(c) # "answered" THEN 0
            ELSE IF result[c].id = c THEN result[c].n ELSE MaxReplies + 1

StatusesKnown ==
  \A c \in Calls :
    /\ pc[c] = "idle" => StatusOf(c) = "idle" /\ GotOf(c) = 0
    /\ pc[c] \in {"write", "send", "wait"} => StatusOf(c) = "open" /\ GotOf(c) = 0
    /\ pc[c] \in {"drop", "returned"} =>
         /\ result[c] = Failed => StatusOf(c) = "failed" /\ GotOf(c) = 0
         /\ result[c] = Abandoned => StatusOf(c) = "abandoned" /\ GotOf(c) = 0
         /\ result[c] = Reply(c, 1) => StatusOf(c) = "answered" /\ GotOf(c) = 1

(* A call's place and result tell its status, before a step and after it.  *)
LEMMA StatusIs == TypeOK /\ OrderInv => StatusesKnown
  <1> SUFFICES ASSUME TypeOK, OrderInv, NEW c \in Calls
               PROVE  /\ pc[c] = "idle" => StatusOf(c) = "idle" /\ GotOf(c) = 0
                      /\ pc[c] \in {"write", "send", "wait"} =>
                           StatusOf(c) = "open" /\ GotOf(c) = 0
                      /\ pc[c] \in {"drop", "returned"} =>
                           /\ result[c] = Failed => StatusOf(c) = "failed" /\ GotOf(c) = 0
                           /\ result[c] = Abandoned => StatusOf(c) = "abandoned" /\ GotOf(c) = 0
                           /\ result[c] = Reply(c, 1) => StatusOf(c) = "answered" /\ GotOf(c) = 1
    BY DEF StatusesKnown
  <1>1. /\ Reply(c, 1).id = c /\ Reply(c, 1).n = 1
        /\ Reply(c, 1) \notin {NoResult, Failed, Abandoned}
        /\ NoResult # Failed /\ NoResult # Abandoned /\ Failed # Abandoned
    BY ResultsDiffer
  <1>2. CASE pc[c] = "idle"
    BY <1>2 DEF StatusOf, GotOf
  <1>3. CASE pc[c] \in {"write", "send", "wait"}
    BY <1>3 DEF StatusOf, GotOf
  <1>4. CASE pc[c] \in {"drop", "returned"}
    <2>1. StatusOf(c) = IF result[c] = Failed THEN "failed"
                        ELSE IF result[c] = Abandoned THEN "abandoned" ELSE "answered"
      BY <1>4 DEF StatusOf
    <2> QED
      BY <1>1, <1>4, <2>1 DEF GotOf
  <1>5. pc[c] \in Pcs
    BY DEF TypeOK
  <1> QED
    BY <1>2, <1>3, <1>4, <1>5 DEF Pcs

(* The status of every call is one RemoteCall knows of, after a step too.    *)
LEMMA StatusIsNext == TypeOK' /\ OrderInv' => StatusesKnown'
  BY StatusIs, PTL

(* A step of the bridge is a step of the remote calls, or none of theirs.  *)
LEMMA RemoteStep ==
  ASSUME TypeOK, TypeOK', RegistryInv, OrderInv, OrderInv', [Next]_vars
  PROVE  [Remote!Next]_(Remote!vars)
  <1> DEFINE st == [c \in Calls |-> StatusOf(c)]
             gt == [c \in Calls |-> GotOf(c)]
  <1>0. /\ gt = [c \in Calls |-> IF StatusOf(c) # "answered" THEN 0
                                 ELSE IF result[c].id = c THEN result[c].n
                                 ELSE MaxReplies + 1]
        /\ gt' = [c \in Calls |-> IF StatusOf(c)' # "answered" THEN 0
                                  ELSE IF result'[c].id = c THEN result'[c].n
                                  ELSE MaxReplies + 1]
    BY DEF GotOf
  <1>9. StatusesKnown /\ StatusesKnown'
    BY StatusIs, StatusIsNext
  <1>1. \A d \in Calls : /\ pc'[d] = pc[d] /\ result'[d] = result[d]
                         => StatusOf(d)' = StatusOf(d) /\ GotOf(d)' = GotOf(d)
    BY DEF StatusOf, GotOf
  <1>2. ASSUME \A d \in Calls : StatusOf(d)' = StatusOf(d) /\ GotOf(d)' = GotOf(d)
        PROVE  st' = st /\ gt' = gt
    BY <1>2
  <1>3. ASSUME NEW c \in Calls, NEW to, UNCHANGED <<replies, expired>>, StatusOf(c)' = to,
               \A d \in Calls : d # c => StatusOf(d)' = StatusOf(d) /\ GotOf(d)' = GotOf(d)
        PROVE  st' = [st EXCEPT ![c] = to] /\ gt' = [gt EXCEPT ![c] = GotOf(c)']
    BY <1>3
  <1>4. ASSUME NEW c \in Calls, Call(c) PROVE [Remote!Next]_(Remote!vars)
    <2>1. /\ UNCHANGED <<replies, expired>>
          /\ \A d \in Calls : d # c => pc'[d] = pc[d] /\ result'[d] = result[d]
      BY <1>4 DEF Call, CallRegister, CallFails, CallPassesCheck, CallSend, CallTakesReply,
                  CallAbandons, CallDrops, Goes, hostVars, TypeOK
    <2>2. \A d \in Calls : d # c => StatusOf(d)' = StatusOf(d) /\ GotOf(d)' = GotOf(d)
      BY <1>1, <2>1
    <2>3. CASE CallRegister(c)
      <3>1. pc[c] = "idle" /\ pc'[c] = "write"
        BY <2>3 DEF CallRegister, Goes, TypeOK
      <3>2. StatusOf(c) = "idle" /\ StatusOf(c)' = "open" /\ GotOf(c)' = GotOf(c)
        BY <3>1, <1>9 DEF StatusesKnown
      <3>3. st' = [st EXCEPT ![c] = "open"] /\ gt' = gt
        BY <1>3, <2>1, <2>2, <3>2
      <3>4. Remote!Open(c)
        BY <1>0, <2>1, <3>2, <3>3 DEF Remote!Open
      <3> QED
        BY <3>4 DEF Remote!Next
    <2>4. CASE CallFails(c)
      <3>1. /\ pc[c] \in {"write", "send", "wait"} /\ pc'[c] = "drop" /\ result'[c] = Failed
        BY <2>4 DEF CallFails, Goes, TypeOK
      <3>2. StatusOf(c) = "open" /\ StatusOf(c)' = "failed" /\ GotOf(c)' = GotOf(c)
        BY <3>1, <1>9 DEF StatusesKnown
      <3>3. st' = [st EXCEPT ![c] = "failed"] /\ gt' = gt
        BY <1>3, <2>1, <2>2, <3>2
      <3>4. Remote!Fail(c)
        BY <1>0, <2>1, <3>2, <3>3 DEF Remote!Fail, Remote!Ends
      <3> QED
        BY <3>4 DEF Remote!Next
    <2>5. CASE CallAbandons(c)
      <3>1. /\ pc[c] \in {"write", "send", "wait"} /\ pc'[c] = "drop" /\ result'[c] = Abandoned
            /\ c \in expired
        BY <2>5 DEF CallAbandons, Goes, TypeOK
      <3>2. StatusOf(c) = "open" /\ StatusOf(c)' = "abandoned" /\ GotOf(c)' = GotOf(c)
        BY <3>1, <1>9 DEF StatusesKnown
      <3>3. st' = [st EXCEPT ![c] = "abandoned"] /\ gt' = gt
        BY <1>3, <2>1, <2>2, <3>2
      <3>4. Remote!Abandon(c)
        BY <1>0, <2>1, <3>1, <3>2, <3>3 DEF Remote!Abandon, Remote!Ends
      <3> QED
        BY <3>4 DEF Remote!Next
    <2>6. CASE CallTakesReply(c)
      <3>1. ch[c] = <<Reply(c, 1)>> /\ replies[c] > 0
        BY <2>6 DEF CallTakesReply, OrderInv, OnlyFirst
      <3>2. Head(ch[c]) = Reply(c, 1)
        BY <3>1
      <3>3. /\ pc[c] \in {"write", "send", "wait"} /\ pc'[c] = "returned"
            /\ result'[c] = Reply(c, 1)
        BY <2>6, <3>2 DEF CallTakesReply, Goes, TypeOK
      <3>4. StatusOf(c) = "open" /\ StatusOf(c)' = "answered" /\ GotOf(c)' = 1
        BY <3>3, <1>9 DEF StatusesKnown
      <3>5. st' = [st EXCEPT ![c] = "answered"] /\ gt' = [gt EXCEPT ![c] = 1]
        BY <1>3, <2>1, <2>2, <3>4
      <3>6. Remote!Return(c)
        BY <1>0, <2>1, <3>1, <3>4, <3>5 DEF Remote!Return, Remote!Ends
      <3> QED
        BY <3>6 DEF Remote!Next
    <2>7. CASE CallPassesCheck(c) \/ CallSend(c)
      <3>1. /\ pc[c] \in {"write", "send", "wait"} /\ pc'[c] \in {"write", "send", "wait"}
        BY <2>7 DEF CallPassesCheck, CallSend, Goes, TypeOK
      <3>2. StatusOf(c)' = StatusOf(c) /\ GotOf(c)' = GotOf(c)
        BY <3>1, <1>9 DEF StatusesKnown
      <3>3. st' = st /\ gt' = gt
        BY <1>2, <2>2, <3>2
      <3> QED
        BY <1>0, <2>1, <3>3 DEF Remote!vars
    <2>8. CASE CallDrops(c)
      <3>1. /\ pc[c] \in {"drop", "returned"} /\ pc'[c] \in {"drop", "returned"}
            /\ result'[c] = result[c]
        BY <2>8 DEF CallDrops, Goes, TypeOK
      <3>2. StatusOf(c)' = StatusOf(c) /\ GotOf(c)' = GotOf(c)
        BY <3>1, <1>9 DEF OrderInv, ResultsSet, StatusesKnown
      <3>3. st' = st /\ gt' = gt
        BY <1>2, <2>2, <3>2
      <3> QED
        BY <1>0, <2>1, <3>3 DEF Remote!vars
    <2> QED
      BY <1>4, <2>3, <2>4, <2>5, <2>6, <2>7, <2>8 DEF Call
  <1>5. ASSUME UNCHANGED <<pc, result>> PROVE st' = st /\ gt' = gt
    BY <1>1, <1>2, <1>5
  <1>6. ASSUME NEW c \in Calls, Expire(c) PROVE [Remote!Next]_(Remote!vars)
    <2>1. st' = st /\ gt' = gt
      BY <1>5, <1>6 DEF Expire
    <2>2. Remote!Expire(c)
      BY <1>0, <1>6, <2>1 DEF Expire, Remote!Expire, hostVars
    <2> QED
      BY <2>2 DEF Remote!Next
  <1>7. ASSUME NEW c \in Calls, HostReplies(c) PROVE [Remote!Next]_(Remote!vars)
    <2>1. st' = st /\ gt' = gt
      BY <1>5, <1>7 DEF HostReplies, callVars
    <2>2. pc[c] \in Pcs /\ pc[c] # "idle"
      BY <1>7 DEF HostReplies, RegistryInv, OnlyStarted, TypeOK
    <2>3. StatusOf(c) # "idle"
      BY <2>2, <1>9 DEF Pcs, OrderInv, ResultsSet, StatusesKnown
    <2>4. Remote!Offer(c)
      BY <1>0, <1>7, <2>1, <2>3 DEF HostReplies, Remote!Offer, callVars
    <2> QED
      BY <2>4 DEF Remote!Next
  <1>8. CASE Registry \/ WriterWrites \/ WriterFails \/ OutputBreaks \/ Resolve \/ UNCHANGED vars
    <2>1. UNCHANGED <<pc, result, expired, replies>>
      BY <1>8
         DEF Registry, RegistryRegister, RegistryDeliver, RegistryDiscard, RegistryDrop, Handles,
             WriterWrites, WriterFails, WriterTakes, OutputBreaks, Resolve, vars, callVars, hostVars
    <2>2. st' = st /\ gt' = gt
      BY <1>5, <2>1
    <2> QED
      BY <1>0, <2>1, <2>2 DEF Remote!vars
  <1> QED
    BY <1>4, <1>6, <1>7, <1>8 DEF Next

(* Each call is the remote call its cell may rely on: it ends at most once *)
(* and with the host's first answer to that very call, however many calls  *)
(* and answers cross.                                                      *)
THEOREM BridgeImplementsRemoteCall == Spec => ImplementsRemoteCall
  <1>1. Init => Remote!Init
    BY DEF Init, Remote!Init, StatusOf
  <1>2. TypeOK /\ TypeOK' /\ RegistryInv /\ OrderInv /\ OrderInv' /\ [Next]_vars
          => [Remote!Next]_(Remote!vars)
    BY RemoteStep
  <1> QED
    BY <1>1, <1>2, BridgeTypes, RegistryKept, OrderKept, PTL
       DEF Spec, ImplementsRemoteCall, Remote!Spec
=============================================================================
