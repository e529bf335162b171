---------------------------- MODULE KernelProofs ----------------------------
(***************************************************************************)
(* Proofs about module Kernel, for every set of requests, every behaviour  *)
(* of their cells and every channel capacity.  The inductive invariant of  *)
(* KernelInv is proved in three layers, each of which uses the ones before *)
(* it: the types and program counters (TypeStep), the place of every       *)
(* request (PlaceStep), what the request table knows (TableStep).  Three   *)
(* results build on it: the goroutines implement KernelService (PhaseMoves *)
(* and ServiceStep), requests keep the order they were sent in (LineStep), *)
(* and no interrupt without an id is spent twice (SpentStep).              *)
(***************************************************************************)
EXTENDS KernelInv, Functions, FiniteSetTheorems, TLAPS

-----------------------------------------------------------------------------
(* Queues kept as sequences: what Append, Head and Tail do to the elements *)
(* of a sequence (Range) and to its freedom from duplicates (IsInjective). *)

(* A sequence's first element and the rest of it are typed as it is.       *)
LEMMA HeadTailType ==
  ASSUME NEW S, NEW s \in Seq(S), s # <<>>
  PROVE  Head(s) \in S /\ Tail(s) \in Seq(S)
  OBVIOUS

(* Appending keeps the type of a sequence.                                 *)
LEMMA AppendType ==
  ASSUME NEW S, NEW s \in Seq(S), NEW x \in S
  PROVE  Append(s, x) \in Seq(S)
  OBVIOUS

(* Every place of an extended sequence.                                    *)
LEMMA AppendAt ==
  ASSUME NEW S, NEW s \in Seq(S), NEW x \in S
  PROVE  /\ DOMAIN Append(s, x) = DOMAIN s \union {Len(s) + 1}
         /\ Len(s) + 1 \notin DOMAIN s
         /\ Append(s, x)[Len(s) + 1] = x
         /\ \A i \in DOMAIN s : Append(s, x)[i] = s[i]
  OBVIOUS

(* Every place of the rest of a sequence.                                  *)
LEMMA TailAt ==
  ASSUME NEW S, NEW s \in Seq(S), s # <<>>
  PROVE  /\ 1 \in DOMAIN s /\ Head(s) = s[1]
         /\ \A i \in DOMAIN Tail(s) : i \in Nat \ {0} /\ i + 1 \in DOMAIN s /\ Tail(s)[i] = s[i + 1]
         /\ \A i \in DOMAIN s : i # 1 => i - 1 \in DOMAIN Tail(s) /\ Tail(s)[i - 1] = s[i]
  OBVIOUS

(* Appending adds one element.                                             *)
LEMMA AppendRange ==
  ASSUME NEW S, NEW s \in Seq(S), NEW x \in S
  PROVE  Range(Append(s, x)) = Range(s) \union {x}
  <1> DEFINE t == Append(s, x)
  <1>1. /\ DOMAIN t = DOMAIN s \union {Len(s) + 1}
        /\ t[Len(s) + 1] = x
        /\ \A i \in DOMAIN s : t[i] = s[i]
    BY AppendAt
  <1> HIDE DEF t
  <1> QED
    BY <1>1 DEF Range, t

(* Taking the head away takes at most that element away.                   *)
LEMMA TailRange ==
  ASSUME NEW S, NEW s \in Seq(S), s # <<>>
  PROVE  Range(s) = Range(Tail(s)) \union {Head(s)}
  <1> DEFINE t == Tail(s)
             h == Head(s)
  <1>1. /\ 1 \in DOMAIN s /\ h = s[1]
        /\ \A i \in DOMAIN t : i + 1 \in DOMAIN s /\ t[i] = s[i + 1]
        /\ \A i \in DOMAIN s : i # 1 => i - 1 \in DOMAIN t /\ t[i - 1] = s[i]
    BY TailAt
  <1> HIDE DEF t, h
  <1>2. Range(s) = Range(t) \union {h}
    BY <1>1 DEF Range
  <1> QED
    BY <1>2 DEF t, h

(* The head of a sequence without duplicates does not come back.           *)
LEMMA TailInjective ==
  ASSUME NEW S, NEW s \in Seq(S), s # <<>>, IsInjective(s)
  PROVE  IsInjective(Tail(s)) /\ Head(s) \notin Range(Tail(s))
  <1> DEFINE t == Tail(s)
             h == Head(s)
  <1>1. /\ 1 \in DOMAIN s /\ h = s[1]
        /\ \A i \in DOMAIN t : i \in Nat \ {0} /\ i + 1 \in DOMAIN s /\ t[i] = s[i + 1]
    BY TailAt
  <1> HIDE DEF t, h
  <1>2. IsInjective(t) /\ h \notin Range(t)
    BY <1>1 DEF IsInjective, Range
  <1> QED
    BY <1>2 DEF t, h

(* A new element keeps a sequence free of duplicates.                      *)
LEMMA AppendInjective ==
  ASSUME NEW S, NEW s \in Seq(S), NEW x \in S, IsInjective(s), x \notin Range(s)
  PROVE  IsInjective(Append(s, x))
  <1> DEFINE t == Append(s, x)
  <1>1. /\ DOMAIN t = DOMAIN s \union {Len(s) + 1}
        /\ t[Len(s) + 1] = x
        /\ \A i \in DOMAIN s : t[i] = s[i]
    BY AppendAt
  <1> HIDE DEF t
  <1>2. IsInjective(t)
    BY <1>1 DEF IsInjective, Range
  <1> QED
    BY <1>2 DEF t

-----------------------------------------------------------------------------
(* Types and program counters.                                             *)

(* Types, and what the program counters say of the variables.              *)
TypeInv == TypeOK /\ PcsAgree

(* What the table finds when it receives a command.                        *)
LEMMA CmdRead ==
  ASSUME TypeInv, cmds # <<>>
  PROVE  /\ Head(cmds) \in Cmds
         /\ Head(cmds).op # "interrupt" => Head(cmds).id \in Reqs
         /\ Tail(cmds) \in Seq(Cmds)
         /\ \A i \in DOMAIN Tail(cmds) :
              Tail(cmds)[i].op # "interrupt" => Tail(cmds)[i].id \in Reqs
  <1>1. cmds \in Seq(Cmds)
    BY DEF TypeInv, TypeOK
  <1>2. \A i \in DOMAIN cmds : cmds[i].op # "interrupt" => cmds[i].id \in Reqs
    BY DEF TypeInv, PcsAgree
  <1>3. Head(cmds) \in Cmds /\ Tail(cmds) \in Seq(Cmds)
    BY <1>1, HeadTailType
  <1>4. /\ 1 \in DOMAIN cmds /\ Head(cmds) = cmds[1]
        /\ \A i \in DOMAIN Tail(cmds) : i + 1 \in DOMAIN cmds /\ Tail(cmds)[i] = cmds[i + 1]
    BY <1>1, TailAt
  <1> QED
    BY <1>2, <1>3, <1>4

(* What the reader finds when it reads a frame.                            *)
LEMMA FrameRead ==
  ASSUME TypeInv, stdin # <<>>
  PROVE  /\ Head(stdin) \in Frames
         /\ Head(stdin).kind \in {"request", "host_reply"} => Head(stdin).id \in Reqs
         /\ Tail(stdin) \in Seq(Frames)
         /\ \A i \in DOMAIN Tail(stdin) :
              Tail(stdin)[i].kind \in {"request", "host_reply"}
                => Tail(stdin)[i].id \in Reqs
  <1>1. stdin \in Seq(Frames)
    BY DEF TypeInv, TypeOK
  <1>2. \A i \in DOMAIN stdin : stdin[i].kind \in {"request", "host_reply"}
                                  => stdin[i].id \in Reqs
    BY DEF TypeInv, PcsAgree
  <1>3. Head(stdin) \in Frames /\ Tail(stdin) \in Seq(Frames)
    BY <1>1, HeadTailType
  <1>4. /\ 1 \in DOMAIN stdin /\ Head(stdin) = stdin[1]
        /\ \A i \in DOMAIN Tail(stdin) :
             i + 1 \in DOMAIN stdin /\ Tail(stdin)[i] = stdin[i + 1]
    BY <1>1, TailAt
  <1> QED
    BY <1>2, <1>3, <1>4

(* What a frame leaves behind in the pipe.                                 *)
LEMMA FrameSent ==
  ASSUME TypeInv, NEW f \in Frames, f.kind \in {"request", "host_reply"} => f.id \in Reqs
  PROVE  /\ Append(stdin, f) \in Seq(Frames)
         /\ \A i \in DOMAIN Append(stdin, f) :
              Append(stdin, f)[i].kind \in {"request", "host_reply"}
                => Append(stdin, f)[i].id \in Reqs
  <1>1. stdin \in Seq(Frames)
    BY DEF TypeInv, TypeOK
  <1>2. \A i \in DOMAIN stdin : stdin[i].kind \in {"request", "host_reply"}
                                  => stdin[i].id \in Reqs
    BY DEF TypeInv, PcsAgree
  <1>3. Append(stdin, f) \in Seq(Frames)
    BY <1>1, AppendType
  <1>4. /\ DOMAIN Append(stdin, f) = DOMAIN stdin \union {Len(stdin) + 1}
        /\ Append(stdin, f)[Len(stdin) + 1] = f
        /\ \A i \in DOMAIN stdin : Append(stdin, f)[i] = stdin[i]
    BY <1>1, AppendAt
  <1> QED
    BY <1>2, <1>3, <1>4

(* What a command about a request leaves behind in the channel.            *)
LEMMA CmdSent ==
  ASSUME TypeInv, NEW op \in CmdOps \ {"interrupt"}, NEW r \in Reqs
  PROVE  /\ Append(cmds, Cmd(op, r)) \in Seq(Cmds)
         /\ \A i \in DOMAIN Append(cmds, Cmd(op, r)) :
              Append(cmds, Cmd(op, r))[i].op # "interrupt"
                => Append(cmds, Cmd(op, r))[i].id \in Reqs
  <1> DEFINE c == Cmd(op, r)
  <1>1. cmds \in Seq(Cmds)
    BY DEF TypeInv, TypeOK
  <1>2. \A i \in DOMAIN cmds : cmds[i].op # "interrupt" => cmds[i].id \in Reqs
    BY DEF TypeInv, PcsAgree
  <1>3. c \in Cmds /\ c.id \in Reqs
    BY DEF Cmd, Cmds
  <1> HIDE DEF c
  <1>4. Append(cmds, c) \in Seq(Cmds)
    BY <1>1, <1>3, AppendType
  <1>5. /\ DOMAIN Append(cmds, c) = DOMAIN cmds \union {Len(cmds) + 1}
        /\ Append(cmds, c)[Len(cmds) + 1] = c
        /\ \A i \in DOMAIN cmds : Append(cmds, c)[i] = cmds[i]
    BY <1>1, <1>3, AppendAt
  <1>6. \A i \in DOMAIN Append(cmds, c) :
          Append(cmds, c)[i].op # "interrupt" => Append(cmds, c)[i].id \in Reqs
    BY <1>2, <1>3, <1>5
  <1> QED
    BY <1>4, <1>6 DEF c

(* A done event is well typed.                                             *)
LEMMA DoneSent ==
  ASSUME TypeInv, NEW r \in Reqs, NEW s \in Statuses
  PROVE  Append(events, Done(r, s)) \in Seq(DoneEvents)
  BY AppendType DEF TypeInv, TypeOK, Done, DoneEvents

(* Every step preserves the types and the meaning of the program counters. *)
LEMMA TypeStep ==
  ASSUME TypeInv, [Next]_vars
  PROVE  TypeInv'
  <1> USE KernelAssumption DEF TypeInv, TypeOK, PcsAgree
  <1>1. ASSUME NEW r \in Reqs, SendRequest(r) PROVE TypeInv'
    BY <1>1, FrameSent, AppendType
       DEF SendRequest, HostSends, HostKeeps, Frame, Frames, FrameKinds,
           hostVars, readerVars, tableVars, execVars, lifeVars, obsVars
  <1>2. ASSUME NEW r \in Reqs \union {NoReq}, SendInterrupt(r) PROVE TypeInv'
    BY <1>2, FrameSent
       DEF SendInterrupt, HostSends, HostKeeps, Frame, Frames, FrameKinds,
           hostVars, readerVars, tableVars, execVars, lifeVars, obsVars
  <1>3. ASSUME SendReply PROVE TypeInv'
    BY <1>3, FrameSent
       DEF SendReply, HostSends, HostKeeps, Frame, Frames, FrameKinds,
           hostVars, readerVars, tableVars, execVars, lifeVars, obsVars
  <1>4. ASSUME SendShutdown PROVE TypeInv'
    BY <1>4, FrameSent
       DEF SendShutdown, HostSends, HostKeeps, Frame, Frames, FrameKinds,
           hostVars, readerVars, tableVars, execVars, lifeVars, obsVars
  <1>5. ASSUME SendMalformed PROVE TypeInv'
    BY <1>5, FrameSent
       DEF SendMalformed, HostSends, HostKeeps, Frame, Frames, FrameKinds,
           hostVars, readerVars, tableVars, execVars, lifeVars, obsVars
  <1>6. ASSUME CloseStdin PROVE TypeInv'
    BY <1>6
       DEF CloseStdin, HostKeeps, hostVars, readerVars, tableVars,
           execVars, lifeVars, obsVars
  <1>7. ASSUME CancelRun PROVE TypeInv'
    BY <1>7
       DEF CancelRun, HostKeeps, hostVars, readerVars, tableVars, execVars,
           lifeVars, obsVars
  <1>8. ASSUME ReadMalformed PROVE TypeInv'
    BY <1>8, FrameRead
       DEF ReadMalformed, Reads, hostVars, readerVars, tableVars, execVars,
           lifeVars, obsVars
  <1>9. ASSUME ReadInterrupt PROVE TypeInv'
    <2>1. stdin # <<>> /\ stdin' = Tail(stdin) /\ Head(stdin) \in Frames
      BY <1>9, FrameRead DEF ReadInterrupt, Reads
    <2> DEFINE c == Cmd("interrupt", Head(stdin).id)
    <2>2. c \in Cmds /\ c.op = "interrupt"
      BY <2>1 DEF Cmd, Cmds, CmdOps, Frames
    <2>3. cmds' = Append(cmds, c)
      BY <1>9 DEF ReadInterrupt
    <2> HIDE DEF c
    <2>4. cmds' \in Seq(Cmds)
      BY <2>2, <2>3, AppendType
    <2>5. \A i \in DOMAIN cmds' : cmds'[i].op # "interrupt" => cmds'[i].id \in Reqs
      BY <2>2, <2>3, AppendAt
    <2> QED
      BY <1>9, <2>1, <2>4, <2>5, FrameRead
         DEF ReadInterrupt, Reads, hostVars, readerVars, tableVars,
             execVars, lifeVars, obsVars
  <1>10. ASSUME ReadReply PROVE TypeInv'
    BY <1>10, FrameRead
       DEF ReadReply, Reads, hostVars, readerVars, tableVars, execVars,
           lifeVars, obsVars
  <1>11. ASSUME ReadShutdown PROVE TypeInv'
    <2>1. stdin' = Tail(stdin) /\ stdin # <<>>
      BY <1>11 DEF ReadShutdown, Reads
    <2>2. events' \in Seq(DoneEvents)
      <3>1. CASE events' = events
        BY <3>1
      <3>2. CASE Reads("request") /\ events' = Append(events, Done(Head(stdin).id, "ok"))
        <4>1. Head(stdin).id \in Reqs
          BY <2>1, <3>2, FrameRead DEF Reads
        <4> QED
          BY <3>2, <4>1, DoneSent DEF Statuses
      <3> QED
        BY <1>11, <3>1, <3>2 DEF ReadShutdown
    <2> QED
      BY <1>11, <2>1, <2>2, FrameRead
         DEF ReadShutdown, Reads, hostVars, readerVars, tableVars,
             execVars, lifeVars, obsVars
  <1>12. ASSUME EnqueueRefuse PROVE TypeInv'
    BY <1>12, FrameRead, DoneSent
       DEF EnqueueRefuse, Reads, Statuses, hostVars, readerVars, tableVars,
           execVars, lifeVars, obsVars
  <1>13. ASSUME EnqueueAdmit PROVE TypeInv'
    BY <1>13, FrameRead
       DEF EnqueueAdmit, Reads, hostVars, readerVars, tableVars, execVars,
           lifeVars, obsVars
  <1>14. ASSUME EnqueueRegister PROVE TypeInv'
    BY <1>14, CmdSent
       DEF EnqueueRegister, CmdOps, hostVars, readerVars, tableVars,
           execVars, lifeVars, obsVars
  <1>15. ASSUME EnqueuePush PROVE TypeInv'
    BY <1>15, AppendType
       DEF EnqueuePush, hostVars, readerVars, tableVars, execVars,
           lifeVars, obsVars
  <1>16. ASSUME EnqueueGiveUp PROVE TypeInv'
    BY <1>16
       DEF EnqueueGiveUp, Cancel, hostVars, readerVars, tableVars,
           execVars, lifeVars, obsVars
  <1>17. ASSUME ReadEOF PROVE TypeInv'
    BY <1>17
       DEF ReadEOF, hostVars, readerVars, tableVars, execVars, lifeVars,
           obsVars
  <1>18. ASSUME TableRegister PROVE TypeInv'
    BY <1>18, CmdRead
       DEF TableRegister, Handles, Cmds, hostVars, readerVars, tableVars,
           execVars, lifeVars, obsVars
  <1>19. ASSUME TableActivate PROVE TypeInv'
    <2>1. Head(cmds).id \in Reqs
      BY <1>19, CmdRead DEF TableActivate, Handles
    <2>2. reply' \in [full : BOOLEAN, cancel : Reqs \union {NoReq}, parked : BOOLEAN]
      BY <1>19, <2>1 DEF TableActivate
    <2>3. activeID' \in Reqs \union {NoReq} /\ parked' \in SUBSET Reqs /\ parkNext' \in BOOLEAN
      BY <1>19, <2>1 DEF TableActivate
    <2>4. cmds' \in Seq(Cmds)
      BY <1>19, CmdRead DEF TableActivate, Handles
    <2>5. \A i \in DOMAIN cmds' : cmds'[i].op # "interrupt" => cmds'[i].id \in Reqs
      BY <1>19, CmdRead DEF TableActivate, Handles
    <2> QED
      BY <1>19, <2>2, <2>3, <2>4, <2>5
         DEF TableActivate, Handles, hostVars, readerVars, tableVars,
             execVars, lifeVars, obsVars
  <1>20. ASSUME TableDeactivate PROVE TypeInv'
    BY <1>20, CmdRead
       DEF TableDeactivate, Handles, Cmds, hostVars, readerVars, tableVars,
           execVars, lifeVars, obsVars
  <1>21. ASSUME TableInterruptId PROVE TypeInv'
    BY <1>21, CmdRead
       DEF TableInterruptId, Handles, Cancel, Cmds, hostVars, readerVars,
           tableVars, execVars, lifeVars, obsVars
  <1>22. ASSUME TableInterruptAny PROVE TypeInv'
    <2>1. cancelled' \in SUBSET Reqs
      <3>1. Cancel(activeID) \in SUBSET Reqs
        BY DEF Cancel
      <3> QED
        BY <1>22, <3>1 DEF TableInterruptAny
    <2>4. parkNext' \in BOOLEAN
      BY <1>22 DEF TableInterruptAny
    <2>5. nIdless' \in Nat
      BY <1>22 DEF TableInterruptAny
    <2>2. cmds' \in Seq(Cmds)
      BY <1>22, CmdRead DEF TableInterruptAny, Handles
    <2>3. \A i \in DOMAIN cmds' : cmds'[i].op # "interrupt" => cmds'[i].id \in Reqs
      BY <1>22, CmdRead DEF TableInterruptAny, Handles
    <2> QED
      BY <1>22, <2>1, <2>2, <2>3, <2>4, <2>5
         DEF TableInterruptAny, Handles, hostVars, readerVars, tableVars,
             execVars, lifeVars, obsVars
  <1>23. ASSUME ExecTake PROVE TypeInv'
    BY <1>23, HeadTailType
       DEF ExecTake, ExecKeeps, hostVars, readerVars, tableVars, execVars,
           lifeVars, obsVars
  <1>24. ASSUME ExecExitDrained PROVE TypeInv'
    BY <1>24
       DEF ExecExitDrained, ExecExits, ExecKeeps, hostVars, readerVars,
           tableVars, execVars, lifeVars, obsVars
  <1>25. ASSUME ExecExitStopped PROVE TypeInv'
    BY <1>25
       DEF ExecExitStopped, ExecExits, ExecKeeps, hostVars, readerVars,
           tableVars, execVars, lifeVars, obsVars
  <1>26. ASSUME ExecActivate PROVE TypeInv'
    BY <1>26, CmdSent
       DEF ExecActivate, ExecKeeps, CmdOps, hostVars, readerVars,
           tableVars, execVars, lifeVars, obsVars
  <1>27. ASSUME ExecStart PROVE TypeInv'
    BY <1>27
       DEF ExecStart, ExecKeeps, Cancel, NoReply, hostVars, readerVars,
           tableVars, execVars, lifeVars, obsVars
  <1>28. ASSUME NEW s \in Statuses, ExecEvaluate(s) PROVE TypeInv'
    BY <1>28
       DEF ExecEvaluate, ExecKeeps, hostVars, readerVars, tableVars,
           execVars, lifeVars, obsVars
  <1>29. ASSUME ExecDone PROVE TypeInv'
    BY <1>29, DoneSent
       DEF ExecDone, ExecKeeps, Statuses, hostVars, readerVars, tableVars,
           execVars, lifeVars, obsVars
  <1>30. ASSUME ExecCancel PROVE TypeInv'
    BY <1>30
       DEF ExecCancel, ExecKeeps, Cancel, hostVars, readerVars, tableVars,
           execVars, lifeVars, obsVars
  <1>31. ASSUME ExecDeactivate PROVE TypeInv'
    BY <1>31, CmdSent
       DEF ExecDeactivate, ExecKeeps, CmdOps, hostVars, readerVars,
           tableVars, execVars, lifeVars, obsVars
  <1>32. ASSUME RunBeginsShutdown PROVE TypeInv'
    BY <1>32
       DEF RunBeginsShutdown, LifeKeeps, hostVars, readerVars, tableVars,
           execVars, lifeVars, obsVars
  <1>33. ASSUME RunReturns PROVE TypeInv'
    BY <1>33
       DEF RunReturns, LifeKeeps, hostVars, readerVars, tableVars,
           execVars, lifeVars, obsVars
  <1>34. ASSUME StopAfterDrain PROVE TypeInv'
    BY <1>34
       DEF StopAfterDrain, LifeKeeps, hostVars, readerVars, tableVars,
           execVars, lifeVars, obsVars
  <1>35. ASSUME StopAfterGrace PROVE TypeInv'
    BY <1>35
       DEF StopAfterGrace, LifeKeeps, hostVars, readerVars, tableVars,
           execVars, lifeVars, obsVars
  <1>36. ASSUME UNCHANGED vars PROVE TypeInv'
    BY <1>36
       DEF vars, hostVars, readerVars, tableVars, execVars, lifeVars,
           obsVars
  <1> QED
    BY <1>1, <1>2, <1>3, <1>4, <1>5, <1>6, <1>7, <1>8, <1>9, <1>10, <1>11,
       <1>12, <1>13, <1>14, <1>15, <1>16, <1>17, <1>18, <1>19, <1>20, <1>21,
       <1>22, <1>23, <1>24, <1>25, <1>26, <1>27, <1>28, <1>29, <1>30, <1>31,
       <1>32, <1>33, <1>34, <1>35, <1>36
       DEF Next, Host, Reader, Table, Executor, Lifecycle

(* A frame written to the pipe adds at most its own request to the unread. *)
LEMMA UnreadAppend ==
  ASSUME NEW s \in Seq(Frames), NEW f \in Frames
  PROVE  /\ RequestsOf(Append(s, f)) =
              RequestsOf(s) \union (IF f.kind = "request" THEN {f.id} ELSE {})
         /\ RequestsOnce(s) /\ (f.kind = "request" => f.id \notin RequestsOf(s))
              => RequestsOnce(Append(s, f))
  <1> DEFINE t == Append(s, f)
  <1>1. /\ DOMAIN t = DOMAIN s \union {Len(s) + 1}
        /\ t[Len(s) + 1] = f
        /\ \A i \in DOMAIN s : t[i] = s[i]
    BY AppendAt
  <1> HIDE DEF t
  <1>2. RequestsOf(t) = RequestsOf(s) \union (IF f.kind = "request" THEN {f.id} ELSE {})
    BY <1>1 DEF RequestsOf
  <1>3. RequestsOnce(s) /\ (f.kind = "request" => f.id \notin RequestsOf(s))
          => RequestsOnce(t)
    BY <1>1 DEF RequestsOnce, RequestsOf
  <1> QED
    BY <1>2, <1>3 DEF t

(* A frame read takes at most its own request from the unread.             *)
LEMMA UnreadTail ==
  ASSUME NEW s \in Seq(Frames), s # <<>>
  PROVE  /\ RequestsOf(s) = RequestsOf(Tail(s)) \union
                             (IF Head(s).kind = "request" THEN {Head(s).id} ELSE {})
         /\ RequestsOnce(s) => /\ RequestsOnce(Tail(s))
                               /\ Head(s).kind = "request"
                                    => Head(s).id \notin RequestsOf(Tail(s))
  <1> DEFINE t == Tail(s)
             h == Head(s)
  <1>1. /\ 1 \in DOMAIN s /\ h = s[1]
        /\ \A i \in DOMAIN t : i \in Nat \ {0} /\ i + 1 \in DOMAIN s /\ t[i] = s[i + 1]
        /\ \A i \in DOMAIN s : i # 1 => i - 1 \in DOMAIN t /\ t[i - 1] = s[i]
    BY TailAt
  <1> HIDE DEF t, h
  <1>2. RequestsOf(s) = RequestsOf(t) \union (IF h.kind = "request" THEN {h.id} ELSE {})
    BY <1>1 DEF RequestsOf
  <1>3. ASSUME RequestsOnce(s) PROVE RequestsOnce(t)
    BY <1>1, <1>3 DEF RequestsOnce
  <1>4. ASSUME RequestsOnce(s), h.kind = "request" PROVE h.id \notin RequestsOf(t)
    <2> SUFFICES ASSUME NEW i \in DOMAIN t, t[i].kind = "request", t[i].id = h.id
                 PROVE  FALSE
      BY DEF RequestsOf
    <2>1. i + 1 \in DOMAIN s /\ s[i + 1].kind = "request" /\ s[i + 1].id = s[1].id
      BY <1>1
    <2>2. i + 1 = 1
      BY <1>1, <1>4, <2>1 DEF RequestsOnce
    <2> QED
      BY <1>1, <2>2
  <1> QED
    BY <1>2, <1>3, <1>4 DEF t, h

(* A done event answers exactly its request.                               *)
LEMMA AnswerAppend ==
  ASSUME TypeInv, NEW r \in Reqs, NEW st \in Statuses, events' = Append(events, Done(r, st))
  PROVE  /\ Answered' = Answered \union {r}
         /\ AnswersOnce(events) /\ r \notin Answered => AnswersOnce(events')
  <1> DEFINE e == Done(r, st)
  <1>1. events \in Seq(DoneEvents) /\ e \in DoneEvents /\ e.req = r
    BY DEF TypeInv, TypeOK, Done, DoneEvents
  <1> HIDE DEF e
  <1>2. /\ DOMAIN Append(events, e) = DOMAIN events \union {Len(events) + 1}
        /\ Len(events) + 1 \notin DOMAIN events
        /\ Append(events, e)[Len(events) + 1] = e
        /\ \A i \in DOMAIN events : Append(events, e)[i] = events[i]
    BY <1>1, AppendAt
  <1>3. /\ DOMAIN events' = DOMAIN events \union {Len(events) + 1}
        /\ events'[Len(events) + 1] = e
        /\ \A i \in DOMAIN events : events'[i] = events[i]
    BY <1>2 DEF e
  <1>4. Answered' = Answered \union {r}
    BY <1>1, <1>3 DEF Answered
  <1>5. AnswersOnce(events) /\ r \notin Answered => AnswersOnce(events')
    BY <1>1, <1>3 DEF Answered, AnswersOnce
  <1> QED
    BY <1>4, <1>5

-----------------------------------------------------------------------------
(* The place of each request.                                              *)

PlaceInv == OnePlace /\ OnlySent

(* A step that moves no request keeps every request in one place.          *)
LEMMA PlaceKept ==
  ASSUME PlaceInv,
         UNCHANGED <<sent, hand, queue, cur, events, dropped>>,
         RequestsOf(stdin') \subseteq RequestsOf(stdin), RequestsOnce(stdin'),
         execPc' \in {"cancel", "deactivate"} <=> execPc \in {"cancel", "deactivate"}
  PROVE  PlaceInv'
  BY DEF PlaceInv, OnePlace, OnlySent, Held, Running, Finished, Unread,
     Answered, AnswersOnce

(* A frame that is no request leaves the unread requests alone.            *)
LEMMA SentKeepsUnread ==
  ASSUME TypeInv, PlaceInv, NEW f \in Frames, f.kind # "request", HostSends(f)
  PROVE  RequestsOf(stdin') = RequestsOf(stdin) /\ RequestsOnce(stdin')
  BY UnreadAppend DEF HostSends, TypeInv, TypeOK, PlaceInv, OnePlace

(* Reading a frame takes away at most the request it carries.              *)
LEMMA ReadKeepsUnread ==
  ASSUME TypeInv, PlaceInv, NEW k, Reads(k)
  PROVE  /\ RequestsOf(stdin') \subseteq RequestsOf(stdin) /\ RequestsOnce(stdin')
         /\ k = "request" => /\ Head(stdin).id \in RequestsOf(stdin)
                             /\ Head(stdin).id \notin RequestsOf(stdin')
                             /\ Head(stdin).id \in Reqs
  BY UnreadTail, FrameRead DEF Reads, TypeInv, TypeOK, PlaceInv, OnePlace

(* Every step keeps each request in one place.                             *)
LEMMA PlaceStep ==
  ASSUME TypeInv, PlaceInv, [Next]_vars
  PROVE  PlaceInv'
  <1> USE KernelAssumption
  <1>1. ASSUME NEW r \in Reqs \union {NoReq}, SendInterrupt(r) PROVE PlaceInv'
    <2>1. Frame("interrupt", r) \in Frames /\ Frame("interrupt", r).kind # "request"
      BY <1>1 DEF SendInterrupt, Frame, Frames, FrameKinds, TypeInv, TypeOK
    <2>2. RequestsOf(stdin') = RequestsOf(stdin) /\ RequestsOnce(stdin')
      BY <1>1, <2>1, SentKeepsUnread DEF SendInterrupt
    <2> QED
      BY <1>1, <2>2, PlaceKept
         DEF SendInterrupt, HostKeeps, hostVars, readerVars, tableVars,
             execVars, lifeVars, obsVars
  <1>2. ASSUME SendReply PROVE PlaceInv'
    <2>1. Frame("host_reply", cur) \in Frames /\ Frame("host_reply", cur).kind # "request"
      BY <1>2 DEF SendReply, Frame, Frames, FrameKinds, TypeInv, TypeOK
    <2>2. RequestsOf(stdin') = RequestsOf(stdin) /\ RequestsOnce(stdin')
      BY <1>2, <2>1, SentKeepsUnread DEF SendReply
    <2> QED
      BY <1>2, <2>2, PlaceKept
         DEF SendReply, HostKeeps, hostVars, readerVars, tableVars,
             execVars, lifeVars, obsVars
  <1>3. ASSUME SendShutdown PROVE PlaceInv'
    <2>1. Frame("shutdown", NoReq) \in Frames /\ Frame("shutdown", NoReq).kind # "request"
      BY <1>3 DEF SendShutdown, Frame, Frames, FrameKinds, TypeInv, TypeOK
    <2>2. RequestsOf(stdin') = RequestsOf(stdin) /\ RequestsOnce(stdin')
      BY <1>3, <2>1, SentKeepsUnread DEF SendShutdown
    <2> QED
      BY <1>3, <2>2, PlaceKept
         DEF SendShutdown, HostKeeps, hostVars, readerVars, tableVars,
             execVars, lifeVars, obsVars
  <1>4. ASSUME SendMalformed PROVE PlaceInv'
    <2>1. Frame("malformed", NoReq) \in Frames /\ Frame("malformed", NoReq).kind # "request"
      BY <1>4 DEF SendMalformed, Frame, Frames, FrameKinds, TypeInv, TypeOK
    <2>2. RequestsOf(stdin') = RequestsOf(stdin) /\ RequestsOnce(stdin')
      BY <1>4, <2>1, SentKeepsUnread DEF SendMalformed
    <2> QED
      BY <1>4, <2>2, PlaceKept
         DEF SendMalformed, HostKeeps, hostVars, readerVars, tableVars,
             execVars, lifeVars, obsVars
  <1>5. ASSUME ReadMalformed PROVE PlaceInv'
    <2>1. RequestsOf(stdin') \subseteq RequestsOf(stdin) /\ RequestsOnce(stdin')
      BY <1>5, ReadKeepsUnread DEF ReadMalformed
    <2> QED
      BY <1>5, <2>1, PlaceKept
         DEF ReadMalformed, Reads, hostVars, readerVars, tableVars,
             execVars, lifeVars, obsVars
  <1>6. ASSUME ReadInterrupt PROVE PlaceInv'
    <2>1. RequestsOf(stdin') \subseteq RequestsOf(stdin) /\ RequestsOnce(stdin')
      BY <1>6, ReadKeepsUnread DEF ReadInterrupt
    <2> QED
      BY <1>6, <2>1, PlaceKept
         DEF ReadInterrupt, Reads, hostVars, readerVars, tableVars,
             execVars, lifeVars, obsVars
  <1>7. ASSUME ReadReply PROVE PlaceInv'
    <2>1. RequestsOf(stdin') \subseteq RequestsOf(stdin) /\ RequestsOnce(stdin')
      BY <1>7, ReadKeepsUnread DEF ReadReply
    <2> QED
      BY <1>7, <2>1, PlaceKept
         DEF ReadReply, Reads, hostVars, readerVars, tableVars, execVars,
             lifeVars, obsVars
  <1>8. ASSUME CloseStdin PROVE PlaceInv'
    BY <1>8, PlaceKept
       DEF CloseStdin, HostKeeps, PlaceInv, OnePlace, hostVars, readerVars,
           tableVars, execVars, lifeVars, obsVars
  <1>9. ASSUME CancelRun PROVE PlaceInv'
    BY <1>9, PlaceKept
       DEF CancelRun, HostKeeps, PlaceInv, OnePlace, hostVars, readerVars,
           tableVars, execVars, lifeVars, obsVars
  <1>10. ASSUME ReadEOF PROVE PlaceInv'
    BY <1>10, PlaceKept
       DEF ReadEOF, PlaceInv, OnePlace, hostVars, readerVars, tableVars,
           execVars, lifeVars, obsVars
  <1>11. ASSUME EnqueueRegister PROVE PlaceInv'
    BY <1>11, PlaceKept
       DEF EnqueueRegister, PlaceInv, OnePlace, hostVars, readerVars,
           tableVars, execVars, lifeVars, obsVars
  <1>12. ASSUME Table PROVE PlaceInv'
    BY <1>12, PlaceKept
       DEF Table, TableRegister, TableActivate, TableDeactivate,
           TableInterruptId, TableInterruptAny, Handles, PlaceInv,
           OnePlace, hostVars, readerVars, tableVars, execVars, lifeVars,
           obsVars
  <1>13. ASSUME ExecExitDrained PROVE PlaceInv'
    BY <1>13, PlaceKept
       DEF ExecExitDrained, ExecExits, ExecKeeps, PlaceInv, OnePlace,
           hostVars, readerVars, tableVars, execVars, lifeVars, obsVars
  <1>14. ASSUME ExecExitStopped PROVE PlaceInv'
    BY <1>14, PlaceKept
       DEF ExecExitStopped, ExecExits, ExecKeeps, PlaceInv, OnePlace,
           hostVars, readerVars, tableVars, execVars, lifeVars, obsVars
  <1>15. ASSUME ExecActivate PROVE PlaceInv'
    BY <1>15, PlaceKept
       DEF ExecActivate, ExecKeeps, PlaceInv, OnePlace, hostVars,
           readerVars, tableVars, execVars, lifeVars, obsVars
  <1>16. ASSUME ExecStart PROVE PlaceInv'
    BY <1>16, PlaceKept
       DEF ExecStart, ExecKeeps, PlaceInv, OnePlace, hostVars, readerVars,
           tableVars, execVars, lifeVars, obsVars
  <1>17. ASSUME NEW s \in Statuses, ExecEvaluate(s) PROVE PlaceInv'
    BY <1>17, PlaceKept
       DEF ExecEvaluate, ExecKeeps, PlaceInv, OnePlace, hostVars,
           readerVars, tableVars, execVars, lifeVars, obsVars
  <1>18. ASSUME ExecCancel PROVE PlaceInv'
    BY <1>18, PlaceKept
       DEF ExecCancel, ExecKeeps, PlaceInv, OnePlace, hostVars, readerVars,
           tableVars, execVars, lifeVars, obsVars
  <1>19. ASSUME Lifecycle PROVE PlaceInv'
    BY <1>19, PlaceKept
       DEF Lifecycle, RunBeginsShutdown, RunReturns, StopAfterDrain,
           StopAfterGrace, LifeKeeps, PlaceInv, OnePlace, hostVars,
           readerVars, tableVars, execVars, lifeVars, obsVars
  <1>20. ASSUME UNCHANGED vars PROVE PlaceInv'
    BY <1>20, PlaceKept
       DEF vars, PlaceInv, OnePlace, hostVars, readerVars, tableVars,
           execVars, lifeVars, obsVars
  <1>21. ASSUME NEW r \in Reqs, SendRequest(r) PROVE PlaceInv'
    <2> DEFINE f == Frame("request", r)
    <2>1. f \in Frames /\ f.kind = "request" /\ f.id = r /\ r \notin Range(sent)
      BY <1>21 DEF SendRequest, Frame, Frames, FrameKinds
    <2>2. r \notin Unread
      BY <2>1 DEF PlaceInv, OnlySent
    <2>3. stdin' = Append(stdin, f)
      BY <1>21 DEF SendRequest, HostSends
    <2> HIDE DEF f
    <2>4. RequestsOf(stdin') = RequestsOf(stdin) \union {r} /\ RequestsOnce(stdin')
      BY <2>1, <2>2, <2>3, UnreadAppend
         DEF TypeInv, TypeOK, PlaceInv, OnePlace, Unread
    <2>5. Range(sent') = Range(sent) \union {r}
      BY <1>21, AppendRange DEF SendRequest, TypeInv, TypeOK
    <2> QED
      BY <1>21, <2>1, <2>4, <2>5
         DEF SendRequest, HostKeeps, PlaceInv, OnePlace, OnlySent, Held,
             Running, Finished, Unread, hostVars, readerVars, tableVars,
             execVars, lifeVars, obsVars, Answered, AnswersOnce
  <1>22. ASSUME ReadShutdown PROVE PlaceInv'
    <2>1. CASE Reads("shutdown") /\ UNCHANGED events
      BY <1>22, <2>1, ReadKeepsUnread, PlaceKept
         DEF ReadShutdown, Reads, hostVars, readerVars, tableVars,
             execVars, lifeVars, obsVars
    <2>2. CASE Reads("request") /\ events' = Append(events, Done(Head(stdin).id, "ok"))
      BY <1>22, <2>2, ReadKeepsUnread, AnswerAppend
         DEF ReadShutdown, Reads, Statuses, PlaceInv, OnePlace, OnlySent, Held, Running, Finished, Unread, hostVars, readerVars, tableVars, execVars, lifeVars, obsVars
    <2> QED
      BY <1>22, <2>1, <2>2 DEF ReadShutdown
  <1>23. ASSUME EnqueueRefuse PROVE PlaceInv'
    BY <1>23, ReadKeepsUnread, AnswerAppend
       DEF EnqueueRefuse, Reads, Statuses, PlaceInv, OnePlace, OnlySent,
           Held, Running, Finished, Unread, hostVars, readerVars,
           tableVars, execVars, lifeVars, obsVars
  <1>24. ASSUME EnqueueAdmit PROVE PlaceInv'
    BY <1>24, ReadKeepsUnread
       DEF EnqueueAdmit, Reads, PlaceInv, OnePlace, OnlySent, Held,
           Running, Finished, Unread, hostVars, readerVars, tableVars,
           execVars, lifeVars, obsVars, Answered, AnswersOnce
  <1>25. ASSUME EnqueuePush PROVE PlaceInv'
    <2>1. hand \in Reqs /\ hand \notin Range(queue)
      BY <1>25
         DEF EnqueuePush, TypeInv, TypeOK, PcsAgree, PlaceInv, OnePlace,
             OnlySent, Held, Running, Finished, Unread
    <2>2. Range(queue') = Range(queue) \union {hand} /\ IsInjective(queue')
      BY <1>25, <2>1, AppendRange, AppendInjective
         DEF EnqueuePush, TypeInv, TypeOK, PlaceInv, OnePlace
    <2> QED
      BY <1>25, <2>1, <2>2
         DEF EnqueuePush, PlaceInv, OnePlace, OnlySent, Held, Running,
             Finished, Unread, hostVars, readerVars, tableVars, execVars,
             lifeVars, obsVars, Answered, AnswersOnce
  <1>26. ASSUME EnqueueGiveUp PROVE PlaceInv'
    <2>1. hand \in Reqs
      BY <1>26 DEF EnqueueGiveUp, TypeInv, TypeOK, PcsAgree
    <2> QED
      BY <1>26, <2>1
         DEF EnqueueGiveUp, PlaceInv, OnePlace, OnlySent, Held, Running,
             Finished, Unread, hostVars, readerVars, tableVars, execVars,
             lifeVars, obsVars, Answered, AnswersOnce
  <1>27. ASSUME ExecTake PROVE PlaceInv'
    <2>1. /\ Range(queue) = Range(queue') \union {cur'} /\ cur' \in Reqs
          /\ IsInjective(queue') /\ cur' \notin Range(queue')
      BY <1>27, HeadTailType, TailRange, TailInjective
         DEF ExecTake, TypeInv, TypeOK, PlaceInv, OnePlace
    <2> QED
      BY <1>27, <2>1
         DEF ExecTake, ExecKeeps, PcsAgree, TypeInv, PlaceInv, OnePlace,
             OnlySent, Held, Running, Finished, Unread, hostVars,
             readerVars, tableVars, execVars, lifeVars, obsVars, Answered,
             AnswersOnce
  <1>28. ASSUME ExecDone PROVE PlaceInv'
    <2>1. cur \in Reqs /\ cur \notin Answered
      BY <1>28
         DEF ExecDone, TypeInv, TypeOK, PcsAgree, PlaceInv, OnePlace,
             OnlySent, Held, Running, Finished, Unread
    <2>2. Answered' = Answered \union {cur} /\ AnswersOnce(events')
      BY <1>28, <2>1, AnswerAppend
         DEF ExecDone, TypeInv, TypeOK, PlaceInv, OnePlace
    <2> QED
      BY <1>28, <2>1, <2>2
         DEF ExecDone, ExecKeeps, PlaceInv, OnePlace, OnlySent, Held,
             Running, Finished, Unread, hostVars, readerVars, tableVars,
             execVars, lifeVars, obsVars
  <1>29. ASSUME ExecDeactivate PROVE PlaceInv'
    <2>1. Answered \subseteq Reqs
      BY DEF PlaceInv, OnlySent, Finished, TypeInv, TypeOK, Range
    <2> QED
      BY <1>29, <2>1
         DEF ExecDeactivate, ExecKeeps, PlaceInv, OnePlace, OnlySent, Held,
             Running, Finished, Unread, hostVars, readerVars, tableVars,
             execVars, lifeVars, obsVars, Answered, AnswersOnce
  <1> QED
    BY <1>1, <1>2, <1>3, <1>4, <1>5, <1>6, <1>7, <1>8, <1>9, <1>10, <1>11,
       <1>12, <1>13, <1>14, <1>15, <1>16, <1>17, <1>18, <1>19, <1>20, <1>21,
       <1>22, <1>23, <1>24, <1>25, <1>26, <1>27, <1>28, <1>29
       DEF Next, Host, Reader, Executor

-----------------------------------------------------------------------------
(* The request table.                                                      *)

TableInv == /\ WaitingRegistered /\ ActivationInOrder /\ DeactivationAfterDone
            /\ ActiveRegistered /\ InterruptKept

(* A step that only answers, cancels or moves a program counter keeps what *)
(* the table knows.                                                        *)
LEMMA TableKept ==
  ASSUME TableInv,
         UNCHANGED <<cmds, cancels, queue, cur, reply, targeted, parked>>,
         cancelled \subseteq cancelled', Answered \subseteq Answered',
         readerPc' = "push" => readerPc = "push" /\ hand' = hand,
         execPc' = "activate" => execPc = "activate",
         execPc = "await" => execPc' = "await",
         execPc' \in {"run", "emit"} => execPc \in {"run", "emit"}
  PROVE  TableInv'
  BY DEF TableInv, WaitingRegistered, ActivationInOrder,
     DeactivationAfterDone, ActiveRegistered, InterruptKept, Registered,
     Registering

(* The places of the command channel after a send.                         *)
LEMMA CmdAppended ==
  ASSUME TypeInv, NEW c \in Cmds, cmds' = Append(cmds, c)
  PROVE  /\ DOMAIN cmds' = DOMAIN cmds \union {Len(cmds) + 1}
         /\ cmds'[Len(cmds) + 1] = c
         /\ \A i \in DOMAIN cmds : cmds'[i] = cmds[i] /\ i < Len(cmds) + 1
  BY AppendAt DEF TypeInv, TypeOK

(* The places of the command channel after a receive.                      *)
LEMMA CmdHandled ==
  ASSUME TypeInv, cmds # <<>>, cmds' = Tail(cmds)
  PROVE  /\ 1 \in DOMAIN cmds /\ Head(cmds) = cmds[1]
         /\ \A i \in DOMAIN cmds : i \in Nat /\ ~(i < 1)
         /\ \A i \in DOMAIN cmds' : i \in Nat \ {0} /\ i + 1 \in DOMAIN cmds
                                    /\ cmds'[i] = cmds[i + 1]
         /\ \A i \in DOMAIN cmds : i # 1 => i - 1 \in DOMAIN cmds' /\ cmds'[i - 1] = cmds[i]
  BY TailAt DEF TypeInv, TypeOK

(* A registration in the channel is the command handled or is still there. *)
LEMMA RegistrationHandled ==
  ASSUME TypeInv, cmds # <<>>, cmds' = Tail(cmds), NEW r, Registering(r)
  PROVE  Head(cmds) = Cmd("register", r) \/ Registering(r)'
  BY CmdHandled DEF Registering

(* An activation that stays in the channel is still in order.              *)
LEMMA ActivationHandled ==
  ASSUME TypeInv, ActivationInOrder, cmds # <<>>, cmds' = Tail(cmds),
         NEW i \in DOMAIN cmds', cmds'[i].op = "activate"
  PROVE  /\ Head(cmds).op # "activate"
         /\ cmds'[i].id = cur /\ execPc = "await" /\ ~reply.full
         /\ \/ cur \in cancels
            \/ Head(cmds) = Cmd("register", cur)
            \/ \E j \in DOMAIN cmds' : j < i /\ cmds'[j] = Cmd("register", cur)
         /\ \A j \in DOMAIN cmds' : cmds'[j].op = "activate" => j = i
  <1>1. i \in Nat \ {0} /\ i + 1 \in DOMAIN cmds /\ cmds'[i] = cmds[i + 1]
    BY CmdHandled
  <1>2. /\ cmds[i + 1].id = cur /\ execPc = "await" /\ ~reply.full
        /\ \/ cur \in cancels
           \/ \E j \in DOMAIN cmds : j < i + 1 /\ cmds[j] = Cmd("register", cur)
        /\ \A j \in DOMAIN cmds : cmds[j].op = "activate" => j = i + 1
    BY <1>1 DEF ActivationInOrder
  <1>3. Head(cmds).op # "activate"
    BY <1>1, <1>2, CmdHandled
  <1>4. ASSUME NEW j \in DOMAIN cmds, j < i + 1, cmds[j] = Cmd("register", cur)
        PROVE  \/ Head(cmds) = Cmd("register", cur)
               \/ \E k \in DOMAIN cmds' : k < i /\ cmds'[k] = Cmd("register", cur)
    <2>1. CASE j = 1
      BY <1>4, <2>1, CmdHandled
    <2>2. CASE j # 1
      <3>1. /\ j \in Nat /\ j - 1 \in DOMAIN cmds' /\ cmds'[j - 1] = Cmd("register", cur)
        BY <1>4, <2>2, CmdHandled
      <3>2. j - 1 < i
        BY <1>1, <1>4, <3>1
      <3> QED
        BY <3>1, <3>2
    <2> QED
      BY <2>1, <2>2
  <1>5. \A j \in DOMAIN cmds' : cmds'[j].op = "activate" => j = i
    BY <1>1, <1>2, CmdHandled
  <1> QED
    BY <1>1, <1>2, <1>3, <1>4, <1>5

(* Deactivations stay behind their done events.                            *)
LEMMA DeactivationHandled ==
  ASSUME TypeInv, DeactivationAfterDone, cmds # <<>>, cmds' = Tail(cmds), UNCHANGED events
  PROVE  DeactivationAfterDone' /\ (Head(cmds).op = "deactivate" => Head(cmds).id \in Answered)
  BY CmdHandled DEF DeactivationAfterDone, Answered

(* Every step preserves what the table knows of each request.              *)
LEMMA TableStep ==
  ASSUME TypeInv, PlaceInv, TableInv, [Next]_vars
  PROVE  TableInv'
  <1> USE KernelAssumption
  <1>1. ASSUME Host PROVE TableInv'
    BY <1>1, TableKept
       DEF Host, SendRequest, SendInterrupt, SendReply, SendShutdown,
         SendMalformed, CloseStdin, CancelRun, HostKeeps, Answered, hostVars, readerVars, tableVars, execVars, lifeVars, obsVars
  <1>2. ASSUME ReadMalformed PROVE TableInv'
    BY <1>2, TableKept
       DEF ReadMalformed, Reads, Answered, hostVars, readerVars, tableVars,
           execVars, lifeVars, obsVars
  <1>3. ASSUME ReadReply PROVE TableInv'
    BY <1>3, TableKept
       DEF ReadReply, Reads, Answered, hostVars, readerVars, tableVars,
           execVars, lifeVars, obsVars
  <1>4. ASSUME EnqueueAdmit PROVE TableInv'
    BY <1>4, TableKept
       DEF EnqueueAdmit, Reads, Answered, hostVars, readerVars, tableVars,
           execVars, lifeVars, obsVars
  <1>5. ASSUME ReadEOF PROVE TableInv'
    BY <1>5, TableKept
       DEF ReadEOF, Reads, Answered, hostVars, readerVars, tableVars,
           execVars, lifeVars, obsVars
  <1>6. ASSUME EnqueueGiveUp PROVE TableInv'
    BY <1>6, TableKept
       DEF EnqueueGiveUp, Cancel, Answered, hostVars, readerVars,
           tableVars, execVars, lifeVars, obsVars
  <1>7. ASSUME EnqueueRefuse PROVE TableInv'
    <2>1. Answered \subseteq Answered'
      BY <1>7, ReadKeepsUnread, AnswerAppend DEF EnqueueRefuse, Statuses
    <2> QED
      BY <1>7, <2>1, TableKept
         DEF EnqueueRefuse, Reads, hostVars, readerVars, tableVars,
             execVars, lifeVars, obsVars
  <1>8. ASSUME ReadShutdown PROVE TableInv'
    <2>1. Answered \subseteq Answered'
      <3>1. CASE UNCHANGED events
        BY <3>1 DEF Answered
      <3>2. CASE Reads("request") /\ events' = Append(events, Done(Head(stdin).id, "ok"))
        BY <3>2, ReadKeepsUnread, AnswerAppend DEF Statuses
      <3> QED
        BY <1>8, <3>1, <3>2 DEF ReadShutdown
    <2> QED
      BY <1>8, <2>1, TableKept
         DEF ReadShutdown, Reads, hostVars, readerVars, tableVars,
             execVars, lifeVars, obsVars
  <1>9. ASSUME ExecExitDrained PROVE TableInv'
    BY <1>9, TableKept
       DEF ExecExitDrained, ExecExits, ExecKeeps, Answered, hostVars,
           readerVars, tableVars, execVars, lifeVars, obsVars
  <1>10. ASSUME ExecExitStopped PROVE TableInv'
    BY <1>10, TableKept
       DEF ExecExitStopped, ExecExits, ExecKeeps, Answered, hostVars,
           readerVars, tableVars, execVars, lifeVars, obsVars
  <1>11. ASSUME NEW s \in Statuses, ExecEvaluate(s) PROVE TableInv'
    BY <1>11, TableKept
       DEF ExecEvaluate, ExecKeeps, Answered, hostVars, readerVars,
           tableVars, execVars, lifeVars, obsVars
  <1>12. ASSUME ExecCancel PROVE TableInv'
    BY <1>12, TableKept
       DEF ExecCancel, Cancel, ExecKeeps, Answered, hostVars, readerVars,
           tableVars, execVars, lifeVars, obsVars
  <1>13. ASSUME ExecDone PROVE TableInv'
    <2>1. Answered \subseteq Answered'
      BY <1>13, AnswerAppend DEF ExecDone, TypeInv, TypeOK, PcsAgree
    <2> QED
      BY <1>13, <2>1, TableKept
         DEF ExecDone, ExecKeeps, hostVars, readerVars, tableVars,
             execVars, lifeVars, obsVars
  <1>14. ASSUME Lifecycle PROVE TableInv'
    BY <1>14, TableKept
       DEF Lifecycle, RunBeginsShutdown, RunReturns, StopAfterDrain,
         StopAfterGrace, LifeKeeps, Answered, hostVars, readerVars, tableVars, execVars, lifeVars, obsVars
  <1>15. ASSUME UNCHANGED vars PROVE TableInv'
    BY <1>15, TableKept
       DEF vars, Answered, hostVars, readerVars, tableVars, execVars,
           lifeVars, obsVars
  <1>16. ASSUME ReadInterrupt PROVE TableInv'
    <2> DEFINE c == Cmd("interrupt", Head(stdin).id)
    <2>1. c \in Cmds /\ c.op = "interrupt" /\ cmds' = Append(cmds, c)
      BY <1>16, FrameRead DEF ReadInterrupt, Reads, Cmd, Cmds, CmdOps, Frames
    <2>2. \A r : c # Cmd("register", r)
      BY <2>1 DEF Cmd
    <2> HIDE DEF c
    <2> QED
      BY <1>16, <2>1, <2>2, CmdAppended
         DEF ReadInterrupt, Reads, Answered, hostVars, readerVars,
             tableVars, execVars, lifeVars, obsVars, TableInv,
             WaitingRegistered, ActivationInOrder, DeactivationAfterDone,
             ActiveRegistered, InterruptKept, Registered, Registering
  <1>17. ASSUME EnqueueRegister PROVE TableInv'
    <2> DEFINE c == Cmd("register", hand)
    <2>1. c \in Cmds /\ c.op = "register" /\ cmds' = Append(cmds, c)
      BY <1>17 DEF EnqueueRegister, Cmd, Cmds, CmdOps, TypeInv, TypeOK
    <2>2. c = Cmd("register", hand)
      OBVIOUS
    <2> HIDE DEF c
    <2> QED
      BY <1>17, <2>1, <2>2, CmdAppended
         DEF EnqueueRegister, Answered, hostVars, readerVars, tableVars,
             execVars, lifeVars, obsVars, TableInv, WaitingRegistered,
             ActivationInOrder, DeactivationAfterDone, ActiveRegistered,
             InterruptKept, Registered, Registering
  <1>18. ASSUME EnqueuePush PROVE TableInv'
    <2>1. Range(queue') = Range(queue) \union {hand}
      BY <1>18, AppendRange DEF EnqueuePush, TypeInv, TypeOK, PcsAgree
    <2> QED
      BY <1>18, <2>1
         DEF EnqueuePush, Answered, hostVars, readerVars, tableVars,
             execVars, lifeVars, obsVars, TableInv, WaitingRegistered,
             ActivationInOrder, DeactivationAfterDone, ActiveRegistered,
             InterruptKept, Registered, Registering
  <1>19. ASSUME ExecTake PROVE TableInv'
    <2>1. cur' \in Range(queue) /\ Range(queue') \subseteq Range(queue)
      BY <1>19, TailRange DEF ExecTake, TypeInv, TypeOK
    <2> QED
      BY <1>19, <2>1
         DEF ExecTake, ExecKeeps, Answered, hostVars, readerVars,
             tableVars, execVars, lifeVars, obsVars, TableInv,
             WaitingRegistered, ActivationInOrder, DeactivationAfterDone,
             ActiveRegistered, InterruptKept, Registered, Registering
  <1>20. ASSUME ExecActivate PROVE TableInv'
    <2> DEFINE c == Cmd("activate", cur)
    <2>1. c \in Cmds /\ c.op = "activate" /\ c.id = cur /\ cmds' = Append(cmds, c)
      BY <1>20 DEF ExecActivate, Cmd, Cmds, CmdOps, TypeInv, TypeOK
    <2>2. \A r : c # Cmd("register", r)
      BY <2>1 DEF Cmd
    <2> HIDE DEF c
    <2> QED
      BY <1>20, <2>1, <2>2, CmdAppended
         DEF ExecActivate, ExecKeeps, Answered, hostVars, readerVars,
             tableVars, execVars, lifeVars, obsVars, TableInv,
             WaitingRegistered, ActivationInOrder, DeactivationAfterDone,
             ActiveRegistered, InterruptKept, Registered, Registering
  <1>21. ASSUME ExecStart PROVE TableInv'
    BY <1>21
       DEF ExecStart, ExecKeeps, NoReply, Cancel, Answered, TypeInv,
           TypeOK, PcsAgree, hostVars, readerVars, tableVars, execVars,
           lifeVars, obsVars, TableInv, WaitingRegistered,
           ActivationInOrder, DeactivationAfterDone, ActiveRegistered,
           InterruptKept, Registered, Registering
  <1>22. ASSUME ExecDeactivate PROVE TableInv'
    <2> DEFINE c == Cmd("deactivate", cur)
    <2>1. c \in Cmds /\ c.op = "deactivate" /\ c.id = cur /\ cmds' = Append(cmds, c)
      BY <1>22 DEF ExecDeactivate, Cmd, Cmds, CmdOps, TypeInv, TypeOK
    <2>2. \A r : c # Cmd("register", r)
      BY <2>1 DEF Cmd
    <2>3. cur \in Answered
      BY <1>22 DEF ExecDeactivate, PlaceInv, OnePlace
    <2> HIDE DEF c
    <2> QED
      BY <1>22, <2>1, <2>2, <2>3, CmdAppended
         DEF ExecDeactivate, ExecKeeps, Answered, hostVars, readerVars,
             tableVars, execVars, lifeVars, obsVars, TableInv,
             WaitingRegistered, ActivationInOrder, DeactivationAfterDone,
             ActiveRegistered, InterruptKept, Registered, Registering
  <1>23. ASSUME TableRegister PROVE TableInv'
    <2>1. cmds # <<>> /\ cmds' = Tail(cmds) /\ UNCHANGED events
      BY <1>23 DEF TableRegister, Handles, obsVars
    <2>2. DeactivationAfterDone' /\ (Head(cmds).op = "deactivate" => Head(cmds).id \in Answered)
      BY <2>1, DeactivationHandled DEF TableInv
    <2>3. ActivationInOrder'
      BY <1>23, <2>1, ActivationHandled
         DEF TableRegister, Handles, TableInv, ActivationInOrder, Cmd,
             execVars, lifeVars
    <2>4. WaitingRegistered'
      BY <1>23, <2>1, RegistrationHandled
         DEF TableRegister, Handles, TableInv, WaitingRegistered,
             Registered, Cmd, hostVars, readerVars, tableVars, execVars,
             lifeVars, obsVars
    <2>5. ActiveRegistered'
      BY <1>23
         DEF TableRegister, Handles, TableInv, ActiveRegistered, execVars
    <2>6. InterruptKept'
      BY <1>23
         DEF TableRegister, Handles, TableInv, InterruptKept,
             ActiveRegistered, execVars
    <2> QED
      BY <2>2, <2>3, <2>4, <2>5, <2>6 DEF TableInv
  <1>24. ASSUME TableActivate PROVE TableInv'
    <2>1. cmds # <<>> /\ cmds' = Tail(cmds) /\ UNCHANGED events
      BY <1>24 DEF TableActivate, Handles, obsVars
    <2>2. DeactivationAfterDone' /\ (Head(cmds).op = "deactivate" => Head(cmds).id \in Answered)
      BY <2>1, DeactivationHandled DEF TableInv
    <2>3. /\ Head(cmds).id = cur /\ cur \in cancels /\ execPc = "await" /\ ~reply.full
          /\ \A i \in DOMAIN cmds' : cmds'[i].op # "activate"
      BY <1>24, <2>1, ActivationHandled, CmdHandled
         DEF TableActivate, Handles, TableInv, ActivationInOrder
    <2>4. WaitingRegistered'
      BY <1>24, <2>1, <2>3, RegistrationHandled
         DEF TableActivate, Handles, TableInv, WaitingRegistered,
             Registered, Cmd, hostVars, readerVars, tableVars, execVars,
             lifeVars, obsVars
    <2>5. ActivationInOrder' /\ ActiveRegistered' /\ InterruptKept'
      BY <1>24, <2>3
         DEF TableActivate, Handles, TableInv, ActivationInOrder,
             ActiveRegistered, InterruptKept, execVars
    <2> QED
      BY <2>2, <2>4, <2>5 DEF TableInv
  <1>25. ASSUME TableDeactivate PROVE TableInv'
    <2>1. cmds # <<>> /\ cmds' = Tail(cmds) /\ UNCHANGED events
      BY <1>25 DEF TableDeactivate, Handles, obsVars
    <2>2. DeactivationAfterDone' /\ (Head(cmds).op = "deactivate" => Head(cmds).id \in Answered)
      BY <2>1, DeactivationHandled DEF TableInv
    <2>7. Head(cmds).id \in Answered /\ Range(queue) \intersect Answered = {}
          /\ (readerPc = "push" => hand \notin Answered)
          /\ (execPc \in {"activate", "await", "run", "emit"} => cur \notin Answered)
      BY <1>25, <2>2
         DEF TableDeactivate, Handles, PlaceInv, OnePlace, Held, Finished,
             TypeInv, PcsAgree
    <2>3. ActivationInOrder'
      BY <1>25, <2>7, <2>1, ActivationHandled
         DEF TableDeactivate, Handles, TableInv, ActivationInOrder, Cmd,
             execVars, lifeVars
    <2>4. WaitingRegistered'
      BY <1>25, <2>7, <2>1, RegistrationHandled
         DEF TableDeactivate, Handles, TableInv, WaitingRegistered,
             Registered, Cmd, hostVars, readerVars, tableVars, execVars,
             lifeVars, obsVars
    <2>5. ActiveRegistered'
      BY <1>25, <2>7
         DEF TableDeactivate, Handles, TableInv, ActiveRegistered, execVars
    <2>6. InterruptKept'
      BY <1>25, <2>7
         DEF TableDeactivate, Handles, TableInv, InterruptKept,
             ActiveRegistered, execVars
    <2> QED
      BY <2>2, <2>3, <2>4, <2>5, <2>6 DEF TableInv
  <1>26. ASSUME TableInterruptId PROVE TableInv'
    <2>1. cmds # <<>> /\ cmds' = Tail(cmds) /\ UNCHANGED events
      BY <1>26 DEF TableInterruptId, Handles, obsVars
    <2>2. DeactivationAfterDone' /\ (Head(cmds).op = "deactivate" => Head(cmds).id \in Answered)
      BY <2>1, DeactivationHandled DEF TableInv
    <2>3. ActivationInOrder'
      BY <1>26, <2>1, ActivationHandled
         DEF TableInterruptId, Handles, TableInv, ActivationInOrder, Cmd,
             execVars, lifeVars
    <2>4. WaitingRegistered'
      BY <1>26, <2>1, RegistrationHandled
         DEF TableInterruptId, Handles, TableInv, WaitingRegistered,
             Registered, Cmd, hostVars, readerVars, tableVars, execVars,
             lifeVars, obsVars
    <2>5. ActiveRegistered'
      BY <1>26
         DEF TableInterruptId, Handles, TableInv, ActiveRegistered,
             execVars
    <2>6. InterruptKept'
      BY <1>26
         DEF TableInterruptId, Handles, TableInv, InterruptKept,
             ActiveRegistered, execVars, Cancel
    <2> QED
      BY <2>2, <2>3, <2>4, <2>5, <2>6 DEF TableInv
  <1>27. ASSUME TableInterruptAny PROVE TableInv'
    <2>1. cmds # <<>> /\ cmds' = Tail(cmds) /\ UNCHANGED events
      BY <1>27 DEF TableInterruptAny, Handles, obsVars
    <2>2. DeactivationAfterDone' /\ (Head(cmds).op = "deactivate" => Head(cmds).id \in Answered)
      BY <2>1, DeactivationHandled DEF TableInv
    <2>3. ActivationInOrder'
      BY <1>27, <2>1, ActivationHandled
         DEF TableInterruptAny, Handles, TableInv, ActivationInOrder, Cmd,
             execVars, lifeVars
    <2>4. WaitingRegistered'
      BY <1>27, <2>1, RegistrationHandled
         DEF TableInterruptAny, Handles, TableInv, WaitingRegistered,
             Registered, Cmd, hostVars, readerVars, tableVars, execVars,
             lifeVars, obsVars
    <2>5. ActiveRegistered'
      BY <1>27
         DEF TableInterruptAny, Handles, TableInv, ActiveRegistered,
             execVars
    <2>6. InterruptKept'
      BY <1>27
         DEF TableInterruptAny, Handles, TableInv, InterruptKept,
             ActiveRegistered, execVars, Cancel
    <2> QED
      BY <2>2, <2>3, <2>4, <2>5, <2>6 DEF TableInv
  <1> QED
    BY <1>1, <1>2, <1>3, <1>4, <1>5, <1>6, <1>7, <1>8, <1>9, <1>10, <1>11,
       <1>12, <1>13, <1>14, <1>15, <1>16, <1>17, <1>18, <1>19, <1>20, <1>21,
       <1>22, <1>23, <1>24, <1>25, <1>26, <1>27
       DEF Next, Reader, Table, Executor

-----------------------------------------------------------------------------
(* The theorems.                                                           *)

(* The initial state satisfies the inductive invariant.                    *)
LEMMA InitIInv == Init => IInv
  <1> SUFFICES ASSUME Init PROVE IInv
    OBVIOUS
  <1> USE KernelAssumption DEF Init
  <1>1. TypeOK
    <2>1. reply \in [full : BOOLEAN, cancel : Reqs \union {NoReq}, parked : BOOLEAN]
      BY DEF NoReply
    <2>2. /\ sent \in Seq(Reqs) /\ stdin \in Seq(Frames) /\ cmds \in Seq(Cmds)
          /\ queue \in Seq(Reqs) /\ events \in Seq(DoneEvents)
      OBVIOUS
    <2>3. /\ cancels \in SUBSET Reqs /\ parked \in SUBSET Reqs
          /\ cancelled \in SUBSET Reqs /\ dropped \in SUBSET Reqs
          /\ replied \in SUBSET (Reqs \union {NoReq})
          /\ targeted \in SUBSET Reqs
      OBVIOUS
    <2>4. /\ eof \in BOOLEAN /\ runCtxDone \in BOOLEAN /\ parkNext \in BOOLEAN
          /\ rootDone \in BOOLEAN /\ draining \in BOOLEAN
      OBVIOUS
    <2>5. /\ outcome \in Statuses /\ nInterrupts \in Nat /\ nIdless \in Nat
          /\ hand \in Reqs \union {NoReq} /\ activeID \in Reqs \union {NoReq}
          /\ cur \in Reqs \union {NoReq} /\ curCancel \in Reqs \union {NoReq}
      BY DEF Statuses
    <2>6. /\ readerPc = "scan" /\ execPc = "select" /\ runPc = "serving"
      OBVIOUS
    <2> HIDE DEF Init
    <2> QED
      BY <2>1, <2>2, <2>3, <2>4, <2>5, <2>6 DEF TypeOK
  <1>2. OnePlace /\ OnlySent
    BY DEF OnePlace, OnlySent, Held, Running, Finished, Unread, Answered,
           RequestsOf, RequestsOnce, AnswersOnce, Range, IsInjective
  <1>3. PcsAgree
    BY DEF PcsAgree
  <1>4. TableInv
    BY DEF TableInv, WaitingRegistered, ActivationInOrder,
           DeactivationAfterDone, ActiveRegistered, InterruptKept, Range,
           NoReply
  <1> QED
    BY <1>1, <1>2, <1>3, <1>4 DEF IInv, TableInv

(* Every step preserves the inductive invariant.                           *)
LEMMA StepIInv == IInv /\ [Next]_vars => IInv'
  <1> SUFFICES ASSUME IInv, [Next]_vars PROVE IInv'
    OBVIOUS
  <1>1. TypeInv /\ PlaceInv /\ TableInv
    BY DEF IInv, TypeInv, PlaceInv, TableInv
  <1>2. TypeInv' /\ PlaceInv' /\ TableInv'
    BY <1>1, TypeStep, PlaceStep, TableStep
  <1> QED
    BY <1>2 DEF IInv, TypeInv, PlaceInv, TableInv

(* The inductive invariant holds throughout.                               *)
THEOREM KernelInvariant == Spec => []IInv
  BY InitIInv, StepIInv, PTL DEF Spec

(* Type correctness.                                                       *)
THEOREM KernelTypes == Spec => []TypeOK
  <1>1. IInv => TypeOK
    BY DEF IInv
  <1> QED
    BY <1>1, KernelInvariant, PTL

(* No request is ever answered twice, nor answered and given up: a done    *)
(* event comes from the reader or from the executor, and a request is in   *)
(* the hands of one of them at a time.                                     *)
THEOREM KernelAnswersOnce == Spec => []AtMostOneDone
  <1>1. IInv => AtMostOneDone
    BY DEF IInv, OnePlace, AnswersOnce, AtMostOneDone
  <1> QED
    BY <1>1, KernelInvariant, PTL

(* An interrupt that named a request is never lost, however it races with  *)
(* the request's registration, activation and deferred cleanup.            *)
THEOREM KernelDeliversInterrupts == Spec => []InterruptDelivered
  <1>1. IInv => InterruptDelivered
    BY DEF IInv, InterruptKept, ActiveRegistered, InterruptDelivered, CtxDone
  <1> QED
    BY <1>1, KernelInvariant, PTL

(* Until something cuts the drain short, the reader holds no request once  *)
(* draining has begun, and the executor exits behind an empty queue.       *)
DrainInv ==
  /\ PcsAgree
  /\ ~runCtxDone /\ ~rootDone =>
       /\ draining => hand = NoReq
       /\ execPc = "exited" => draining /\ queue = <<>>

(* A drain that neither the grace timer nor the context of Run cuts short  *)
(* leaves no queued request behind, and none the reader has admitted.      *)
THEOREM KernelDrains == Spec => []DrainCompletes
  <1>1. Init => DrainInv
    BY InitIInv DEF IInv, Init, DrainInv
  <1>2. IInv /\ IInv' /\ DrainInv /\ [Next]_vars => DrainInv'
    <2> SUFFICES ASSUME IInv, IInv', DrainInv, [Next]_vars PROVE DrainInv'
      OBVIOUS
    <2>1. PcsAgree'
      BY DEF IInv
    <2> USE DEF DrainInv, PcsAgree
    <2>2. CASE Host
      BY <2>1, <2>2 DEF Host, SendRequest, SendInterrupt, SendReply,
            SendShutdown, SendMalformed, CloseStdin, CancelRun, HostKeeps,
            hostVars, readerVars, execVars, lifeVars
    <2>3. CASE Reader
      BY <2>1, <2>3 DEF Reader, ReadMalformed, ReadInterrupt, ReadReply,
            ReadShutdown, EnqueueRefuse, EnqueueAdmit, EnqueueRegister,
            EnqueuePush, EnqueueGiveUp, ReadEOF, Reads, hostVars,
            readerVars, execVars, lifeVars
    <2>4. CASE Table
      BY <2>1, <2>4 DEF Table, TableRegister, TableActivate, TableDeactivate,
            TableInterruptId, TableInterruptAny, Handles, hostVars,
            readerVars, execVars, lifeVars
    <2>5. CASE Executor
      BY <2>1, <2>5 DEF Executor, ExecTake, ExecExitDrained, ExecExitStopped,
            ExecExits, ExecActivate, ExecStart, ExecEvaluate, ExecDone,
            ExecCancel, ExecDeactivate, ExecKeeps, hostVars, readerVars,
            execVars, lifeVars
    <2>6. CASE Lifecycle
      BY <2>1, <2>6 DEF Lifecycle, RunBeginsShutdown, RunReturns,
            StopAfterDrain, StopAfterGrace, LifeKeeps, hostVars, readerVars,
            execVars, lifeVars
    <2>7. CASE UNCHANGED vars
      BY <2>1, <2>7 DEF vars, hostVars, readerVars, execVars, lifeVars
    <2> QED
      BY <2>2, <2>3, <2>4, <2>5, <2>6, <2>7 DEF Next
  <1>3. DrainInv => DrainCompletes
    BY DEF DrainInv, DrainCompletes
  <1> QED
    BY <1>1, <1>2, <1>3, KernelInvariant, PTL DEF Spec

-----------------------------------------------------------------------------
(* The refinement.                                                         *)

(* No outcome the executor finds is a refusal.                             *)
NotRefused == outcome # "refused"

(* The executor only finds outcomes a request that ran may have.           *)
LEMMA StepNotRefused == NotRefused /\ [Next]_vars => NotRefused'
  <1> SUFFICES ASSUME NotRefused, [Next]_vars PROVE NotRefused'
    OBVIOUS
  <1> USE DEF NotRefused
  <1>1. ASSUME NEW s \in Statuses, ExecEvaluate(s) PROVE NotRefused'
    BY <1>1 DEF ExecEvaluate, Outcomes
  <1>2. CASE ExecDone
    BY <1>2 DEF ExecDone
  <1>3. CASE UNCHANGED outcome
    BY <1>3
  <1> QED
    BY <1>1, <1>2, <1>3
       DEF Next, vars, Host, SendRequest, SendInterrupt, SendReply, SendShutdown,
           SendMalformed, CloseStdin, CancelRun, HostKeeps, Reader, ReadMalformed,
           ReadInterrupt, ReadReply, ReadShutdown, EnqueueRefuse, EnqueueAdmit,
           EnqueueRegister, EnqueuePush, EnqueueGiveUp, ReadEOF, Table,
           TableRegister, TableActivate, TableDeactivate, TableInterruptId,
           TableInterruptAny, Handles, Executor, ExecTake, ExecExitDrained,
           ExecExitStopped, ExecExits, ExecActivate, ExecStart, ExecCancel,
           ExecDeactivate, Lifecycle, RunBeginsShutdown, RunReturns,
           StopAfterDrain, StopAfterGrace, LifeKeeps, execVars

(* A step in which one request changes its phase.                          *)
LEMMA PhaseMoves ==
  ASSUME NEW r \in Reqs, NEW p, PhaseOf(r)' = p,
         \A d \in Reqs : d # r => PhaseOf(d)' = PhaseOf(d)
  PROVE  [d \in Reqs |-> PhaseOf(d)]' = [[d \in Reqs |-> PhaseOf(d)] EXCEPT ![r] = p]
  OBVIOUS

(* A step of the kernel is a step of the service, or none of its.          *)
LEMMA ServiceStep ==
  ASSUME IInv, NotRefused, [Next]_vars
  PROVE  [Service!Next]_(Service!vars)
  <1> USE KernelAssumption
  <1> DEFINE ph == [d \in Reqs |-> PhaseOf(d)]
  <1>0. TypeInv /\ PlaceInv
    BY DEF IInv, TypeInv, PlaceInv
  <1>1. ASSUME UNCHANGED <<sent, events, dropped, cur, queue>> PROVE ph' = ph
    BY <1>1 DEF PhaseOf, Answered
  <1>2. ASSUME UNCHANGED <<sent, events, dropped, cur, queue, draining, rootDone>>
        PROVE  UNCHANGED Service!vars
    BY <1>1, <1>2 DEF Service!vars
  <1>3. ASSUME NEW r \in Reqs, SendRequest(r) PROVE Service!Send(r)
    <2>1. Range(sent') = Range(sent) \union {r} /\ r \notin Range(sent)
      BY <1>0, <1>3, AppendRange DEF SendRequest, TypeInv, TypeOK
    <2>2. UNCHANGED <<events, dropped, cur, queue, draining, rootDone>>
      BY <1>3 DEF SendRequest, HostKeeps, execVars, lifeVars, obsVars
    <2>3. r \notin Answered \union dropped \union Range(queue) /\ r # cur
      BY <1>0, <2>1 DEF PlaceInv, OnlySent, Finished, Running
    <2>4. /\ PhaseOf(r) = "unsent" /\ PhaseOf(r)' = "sent"
          /\ \A d \in Reqs : d # r => PhaseOf(d)' = PhaseOf(d)
      BY <2>1, <2>2, <2>3 DEF PhaseOf, Answered
    <2>5. ph' = [ph EXCEPT ![r] = "sent"]
      BY <2>4, PhaseMoves
    <2> QED
      BY <2>2, <2>4, <2>5 DEF Service!Send
  <1>4. ASSUME Reads("request") PROVE
          /\ Head(stdin).id \in Reqs
          /\ \A r \in Reqs : r = Head(stdin).id =>
               /\ r \in Range(sent) /\ r # cur
               /\ r \notin Answered \union dropped \union Range(queue)
    BY <1>0, <1>4, ReadKeepsUnread
       DEF PlaceInv, OnePlace, OnlySent, Finished, Running, Unread
  <1>5. ASSUME NEW r \in Reqs, NEW st \in Statuses,
               r \in Range(sent), r # cur,
               r \notin Answered \union dropped \union Range(queue),
               events' = Append(events, Done(r, st)),
               UNCHANGED <<sent, dropped, cur, queue>>
        PROVE  ph[r] = "sent" /\ ph' = [ph EXCEPT ![r] = "answered"]
    <2>1. Answered' = Answered \union {r}
      BY <1>0, <1>5, AnswerAppend
    <2>2. /\ PhaseOf(r) = "sent" /\ PhaseOf(r)' = "answered"
          /\ \A d \in Reqs : d # r => PhaseOf(d)' = PhaseOf(d)
      BY <1>5, <2>1 DEF PhaseOf
    <2> QED
      BY <2>2, PhaseMoves
  <1>6. ASSUME ReadShutdown PROVE [Service!Next]_(Service!vars)
    <2>1. UNCHANGED <<sent, dropped, cur, queue, rootDone>> /\ draining' = TRUE
      BY <1>6 DEF ReadShutdown, Reads, execVars
    <2>2. CASE UNCHANGED events
      <3>1. Service!Close
        BY <1>1, <2>1, <2>2 DEF Service!Close
      <3> QED
        BY <3>1 DEF Service!Next
    <2>3. CASE Reads("request") /\ events' = Append(events, Done(Head(stdin).id, "ok"))
      <3>1. PICK r \in Reqs : r = Head(stdin).id
        BY <1>4, <2>3
      <3>2. /\ r \in Range(sent) /\ r # cur
            /\ r \notin Answered \union dropped \union Range(queue)
            /\ events' = Append(events, Done(r, "ok")) /\ "ok" \in Statuses
        BY <1>4, <2>3, <3>1 DEF Statuses
      <3>3. ph[r] = "sent" /\ ph' = [ph EXCEPT ![r] = "answered"]
        BY <1>5, <2>1, <3>2
      <3>4. Service!AnswerShutdown(r)
        BY <2>1, <3>2, <3>3 DEF Service!AnswerShutdown, Service!Answer, Done
      <3> QED
        BY <3>4 DEF Service!Next
    <2> QED
      BY <1>6, <2>2, <2>3 DEF ReadShutdown
  <1>7. ASSUME EnqueueRefuse PROVE [Service!Next]_(Service!vars)
    <2>1. /\ UNCHANGED <<sent, dropped, cur, queue, rootDone, draining>>
          /\ draining /\ Reads("request")
          /\ events' = Append(events, Done(Head(stdin).id, "refused"))
      BY <1>7 DEF EnqueueRefuse, Reads, execVars, lifeVars
    <2>2. PICK r \in Reqs : r = Head(stdin).id
      BY <1>4, <2>1
    <2>3. /\ r \in Range(sent) /\ r # cur
          /\ r \notin Answered \union dropped \union Range(queue)
          /\ events' = Append(events, Done(r, "refused")) /\ "refused" \in Statuses
      BY <1>4, <2>1, <2>2 DEF Statuses
    <2>4. ph[r] = "sent" /\ ph' = [ph EXCEPT ![r] = "answered"]
      BY <1>5, <2>1, <2>3
    <2>5. Service!Refuse(r)
      BY <2>1, <2>3, <2>4 DEF Service!Refuse, Service!Answer, Done
    <2> QED
      BY <2>5 DEF Service!Next
  <1>8. ASSUME readerPc = "push" PROVE
          /\ hand \in Reqs
          /\ \A r \in Reqs : r = hand =>
               /\ r \in Range(sent) /\ r # cur
               /\ r \notin Answered \union dropped \union Range(queue)
    BY <1>0, <1>8
       DEF TypeInv, TypeOK, PcsAgree, PlaceInv, OnePlace, OnlySent, Held, Finished, Running
  <1>9. ASSUME EnqueuePush PROVE [Service!Next]_(Service!vars)
    <2>1. UNCHANGED <<sent, events, dropped, cur, rootDone, draining>> /\ readerPc = "push"
      BY <1>9 DEF EnqueuePush, hostVars, execVars, lifeVars, obsVars
    <2>2. PICK r \in Reqs : r = hand
      BY <1>8, <2>1
    <2>3. queue' = Append(queue, r) /\ Range(queue') = Range(queue) \union {r}
      BY <1>0, <1>9, <2>2, AppendRange DEF EnqueuePush, TypeInv, TypeOK
    <2>4. /\ PhaseOf(r) = "sent" /\ PhaseOf(r)' = "accepted"
          /\ \A d \in Reqs : d # r => PhaseOf(d)' = PhaseOf(d)
      BY <1>8, <2>1, <2>2, <2>3 DEF PhaseOf, Answered
    <2>5. ph' = [ph EXCEPT ![r] = "accepted"]
      BY <2>4, PhaseMoves
    <2>6. Service!Accept(r)
      BY <2>1, <2>3, <2>4, <2>5 DEF Service!Accept
    <2> QED
      BY <2>6 DEF Service!Next
  <1>10. ASSUME EnqueueGiveUp PROVE [Service!Next]_(Service!vars)
    <2>1. /\ UNCHANGED <<sent, events, cur, queue, rootDone, draining>>
          /\ readerPc = "push" /\ rootDone /\ dropped' = dropped \union {hand}
      BY <1>10 DEF EnqueueGiveUp, hostVars, execVars, lifeVars
    <2>2. PICK r \in Reqs : r = hand
      BY <1>8, <2>1
    <2>3. /\ PhaseOf(r) = "sent" /\ PhaseOf(r)' = "dropped"
          /\ \A d \in Reqs : d # r => PhaseOf(d)' = PhaseOf(d)
      BY <1>8, <2>1, <2>2 DEF PhaseOf, Answered
    <2>4. ph' = [ph EXCEPT ![r] = "dropped"]
      BY <2>3, PhaseMoves
    <2>5. Service!Drop(r)
      BY <2>1, <2>3, <2>4 DEF Service!Drop
    <2> QED
      BY <2>5 DEF Service!Next
  <1>11. ASSUME ExecTake PROVE [Service!Next]_(Service!vars)
    <2>1. /\ UNCHANGED <<sent, events, dropped, rootDone, draining>>
          /\ queue # <<>> /\ cur' = Head(queue) /\ queue' = Tail(queue) /\ cur = NoReq
      BY <1>0, <1>11
         DEF ExecTake, ExecKeeps, TypeInv, PcsAgree, hostVars, lifeVars
    <2>2. /\ Head(queue) \in Reqs /\ Range(queue) = Range(queue') \union {Head(queue)}
          /\ Head(queue) \notin Range(queue')
      BY <1>0, <2>1, HeadTailType, TailRange, TailInjective
         DEF TypeInv, TypeOK, PlaceInv, OnePlace
    <2>3. PICK r \in Reqs : r = Head(queue)
      BY <2>2
    <2>4. r \notin Answered \union dropped
      BY <1>0, <2>2, <2>3 DEF PlaceInv, OnePlace, Finished
    <2>5. /\ PhaseOf(r)' = "running"
          /\ \A d \in Reqs : d # r => PhaseOf(d)' = PhaseOf(d)
      BY <2>1, <2>2, <2>3, <2>4 DEF PhaseOf, Answered
    <2>6. ph' = [ph EXCEPT ![r] = "running"]
      BY <2>5, PhaseMoves
    <2>7. Service!Start
      BY <2>1, <2>3, <2>6 DEF Service!Start
    <2> QED
      BY <2>7 DEF Service!Next
  <1>12. ASSUME ExecDone PROVE [Service!Next]_(Service!vars)
    <2>1. /\ UNCHANGED <<sent, dropped, cur, queue, rootDone, draining>>
          /\ execPc = "emit" /\ events' = Append(events, Done(cur, outcome))
      BY <1>12 DEF ExecDone, ExecKeeps, hostVars, lifeVars
    <2>2. cur \in Reqs /\ cur \notin Answered \union dropped
      BY <1>0, <2>1 DEF TypeInv, TypeOK, PcsAgree, PlaceInv, OnePlace, Running
    <2>3. PICK r \in Reqs : r = cur
      BY <2>2
    <2>4. PICK s \in {"ok", "error", "interrupted"} : s = outcome
      BY <1>0 DEF NotRefused, TypeInv, TypeOK, Statuses
    <2>5. events' = Append(events, Done(r, s)) /\ s \in Statuses
      BY <2>1, <2>3, <2>4 DEF Statuses
    <2>6. Answered' = Answered \union {r}
      BY <1>0, <2>5, AnswerAppend
    <2>7. /\ PhaseOf(r) = "running" /\ PhaseOf(r)' = "answered"
          /\ \A d \in Reqs : d # r => PhaseOf(d)' = PhaseOf(d)
      BY <2>1, <2>2, <2>3, <2>6 DEF PhaseOf
    <2>8. ph' = [ph EXCEPT ![r] = "answered"]
      BY <2>7, PhaseMoves
    <2>9. Service!Finish(s)
      BY <2>1, <2>3, <2>5, <2>7, <2>8 DEF Service!Finish, Service!Answer, Done
    <2> QED
      BY <2>9 DEF Service!Next
  <1>13. ASSUME ExecDeactivate PROVE [Service!Next]_(Service!vars)
    <2>1. /\ UNCHANGED <<sent, events, dropped, queue, rootDone, draining>>
          /\ execPc = "deactivate" /\ cur' = NoReq
      BY <1>13 DEF ExecDeactivate, ExecKeeps, hostVars, lifeVars
    <2>2. cur \in Reqs /\ cur \in Answered
      BY <1>0, <2>1 DEF TypeInv, TypeOK, PcsAgree, PlaceInv, OnePlace
    <2>3. PhaseOf(cur) = "answered"
      BY <2>2 DEF PhaseOf
    <2>4. \A d \in Reqs : PhaseOf(d)' = PhaseOf(d)
      BY <2>1, <2>2 DEF PhaseOf, Answered
    <2>5. Service!Release
      BY <2>1, <2>2, <2>3, <2>4 DEF Service!Release
    <2> QED
      BY <2>5 DEF Service!Next
  <1>14. ASSUME Lifecycle PROVE [Service!Next]_(Service!vars)
    <2>1. UNCHANGED <<sent, events, dropped, cur, queue>> /\ ph' = ph
      BY <1>1, <1>14
         DEF Lifecycle, RunBeginsShutdown, RunReturns, StopAfterDrain,
             StopAfterGrace, LifeKeeps, hostVars, execVars, obsVars
    <2>2. ASSUME RunBeginsShutdown PROVE Service!Close
      BY <2>1, <2>2 DEF RunBeginsShutdown, Service!Close
    <2>3. ASSUME RunReturns PROVE UNCHANGED Service!vars
      BY <1>2, <2>1, <2>3 DEF RunReturns
    <2>4. ASSUME StopAfterDrain \/ StopAfterGrace PROVE Service!Stop
      BY <2>1, <2>4 DEF StopAfterDrain, StopAfterGrace, Service!Stop
    <2> QED
      BY <1>14, <2>2, <2>3, <2>4 DEF Lifecycle, Service!Next
  <1>15. ASSUME Host, ~\E r \in Reqs : SendRequest(r) PROVE UNCHANGED Service!vars
    BY <1>2, <1>15
       DEF Host, SendInterrupt, SendReply, SendShutdown, SendMalformed, CloseStdin,
           CancelRun, HostKeeps, execVars, lifeVars, obsVars
  <1>16. ASSUME \/ ReadMalformed \/ ReadInterrupt \/ ReadReply
                \/ EnqueueAdmit \/ EnqueueRegister \/ ReadEOF
         PROVE  UNCHANGED Service!vars
    BY <1>2, <1>16
       DEF ReadMalformed, ReadInterrupt, ReadReply, EnqueueAdmit, EnqueueRegister,
           ReadEOF, Reads, hostVars, execVars, lifeVars, obsVars
  <1>17. ASSUME Table \/ UNCHANGED vars PROVE UNCHANGED Service!vars
    BY <1>2, <1>17
       DEF Table, TableRegister, TableActivate, TableDeactivate, TableInterruptId,
           TableInterruptAny, Handles, vars, hostVars, execVars, lifeVars, obsVars
  <1>18. ASSUME \/ ExecExitDrained \/ ExecExitStopped \/ ExecActivate \/ ExecStart
                \/ \E s \in Statuses : ExecEvaluate(s)
                \/ ExecCancel
         PROVE  UNCHANGED Service!vars
    BY <1>2, <1>18
       DEF ExecExitDrained, ExecExitStopped, ExecExits, ExecActivate, ExecStart,
           ExecEvaluate, ExecCancel, ExecKeeps, hostVars, lifeVars
  <1> QED
    BY <1>3, <1>6, <1>7, <1>9, <1>10, <1>11, <1>12, <1>13, <1>14, <1>15, <1>16,
       <1>17, <1>18
       DEF Next, Reader, Executor, Service!Next

(* The kernel is the service a host may rely on: requests run one at a     *)
(* time in the order accepted, each is answered once, and none is refused  *)
(* before the kernel closes or given up before it stops.                   *)
THEOREM KernelImplementsService == Spec => ImplementsService
  <1>1. Init => Service!Init
    BY KernelAssumption DEF Init, Service!Init, PhaseOf, Answered, Range
  <1>2. Init => NotRefused
    BY DEF Init, NotRefused
  <1>3. Spec => []NotRefused
    BY <1>2, StepNotRefused, PTL DEF Spec
  <1>4. IInv /\ NotRefused /\ [Next]_vars => [Service!Next]_(Service!vars)
    BY ServiceStep
  <1> QED
    BY <1>1, <1>3, <1>4, KernelInvariant, PTL DEF Spec, ImplementsService, Service!Spec

-----------------------------------------------------------------------------
(* The order of the answers.                                               *)

(* The host sent a before b.                                               *)
Before(a, b) == \E i, j \in DOMAIN sent : i < j /\ sent[i] = a /\ sent[j] = b

AllBefore(S, T)  == \A a \in S, b \in T : Before(a, b)
SortedFrames(s)  == \A i, j \in DOMAIN s :
                      i < j /\ s[i].kind = "request" /\ s[j].kind = "request"
                        => Before(s[i].id, s[j].id)
SortedQueue(q)   == \A i, j \in DOMAIN q : i < j => Before(q[i], q[j])
SortedAnswers(s) == \A i, j \in DOMAIN s :
                      i < j /\ FromExecutor(s[i]) /\ FromExecutor(s[j])
                        => Before(s[i].req, s[j].req)

(* The requests the executor has answered.                                 *)
Executed == {events[i].req : i \in {j \in DOMAIN events : FromExecutor(events[j])}}

(* The places of the requests are in the order in which the host sent      *)
(* them: executed, running, queued, in the reader's hand, unread.          *)
InLine ==
  /\ AllBefore(Held, Unread)
  /\ AllBefore(Range(queue), Held \union Unread)
  /\ AllBefore(Running, Range(queue) \union Held \union Unread)
  /\ AllBefore(Executed \ Running, Running \union Range(queue) \union Held \union Unread)

LineInv == /\ IsInjective(sent) /\ SortedFrames(stdin) /\ SortedQueue(queue)
           /\ SortedAnswers(events) /\ InLine

(* What has been sent keeps its order.                                     *)
LEMMA BeforeKept ==
  ASSUME sent \in Seq(Reqs),
         sent' = sent \/ \E r \in Reqs : sent' = Append(sent, r)
  PROVE  \A a, b : Before(a, b) => Before(a, b)'
  <1>1. CASE sent' = sent
    BY <1>1 DEF Before
  <1>2. ASSUME NEW r \in Reqs, sent' = Append(sent, r)
        PROVE  \A a, b : Before(a, b) => Before(a, b)'
    <2>1. /\ DOMAIN sent \subseteq DOMAIN sent'
          /\ \A i \in DOMAIN sent : sent'[i] = sent[i]
      BY <1>2, AppendAt
    <2> QED
      BY <2>1 DEF Before
  <1> QED
    BY <1>1, <1>2

(* A step that reads a frame, or adds one that is no request.              *)
LEMMA FramesSorted ==
  ASSUME TypeInv, UNCHANGED sent, SortedFrames(stdin),
         \/ stdin' = stdin
         \/ stdin # <<>> /\ stdin' = Tail(stdin)
         \/ \E f \in Frames : f.kind # "request" /\ stdin' = Append(stdin, f)
  PROVE  SortedFrames(stdin)' /\ Unread' \subseteq Unread
  <1>0. stdin \in Seq(Frames)
    BY DEF TypeInv, TypeOK
  <1>1. \A a, b : Before(a, b) => Before(a, b)'
    BY DEF Before
  <1>2. CASE stdin' = stdin
    BY <1>1, <1>2 DEF SortedFrames, Unread
  <1>3. CASE stdin # <<>> /\ stdin' = Tail(stdin)
    <2>1. \A i \in DOMAIN stdin' : i \in Nat /\ i + 1 \in DOMAIN stdin /\ stdin'[i] = stdin[i + 1]
      BY <1>0, <1>3, TailAt
    <2>2. SortedFrames(stdin)'
      BY <1>1, <2>1 DEF SortedFrames
    <2> QED
      BY <1>0, <1>3, <2>2, UnreadTail DEF Unread
  <1>4. ASSUME NEW f \in Frames, f.kind # "request", stdin' = Append(stdin, f)
        PROVE  SortedFrames(stdin)' /\ Unread' \subseteq Unread
    <2>1. /\ DOMAIN stdin' = DOMAIN stdin \union {Len(stdin) + 1}
          /\ stdin'[Len(stdin) + 1] = f
          /\ \A i \in DOMAIN stdin : stdin'[i] = stdin[i]
      BY <1>0, <1>4, AppendAt
    <2>2. SortedFrames(stdin)'
      BY <1>1, <1>4, <2>1 DEF SortedFrames
    <2> QED
      BY <1>0, <1>4, <2>2, UnreadAppend DEF Unread
  <1> QED
    BY <1>2, <1>3, <1>4

(* The first request to be read was sent before the others.                *)
LEMMA HeadFirst ==
  ASSUME TypeInv, SortedFrames(stdin), Reads("request")
  PROVE  AllBefore({Head(stdin).id}, RequestsOf(stdin'))
  <1>1. /\ stdin \in Seq(Frames) /\ stdin # <<>> /\ stdin' = Tail(stdin)
        /\ Head(stdin).kind = "request"
    BY DEF Reads, TypeInv, TypeOK
  <1>2. /\ 1 \in DOMAIN stdin /\ Head(stdin) = stdin[1]
        /\ \A i \in DOMAIN stdin' : i \in Nat \ {0} /\ i + 1 \in DOMAIN stdin
                                    /\ stdin'[i] = stdin[i + 1]
    BY <1>1, TailAt
  <1>3. \A i \in DOMAIN stdin' : stdin'[i].kind = "request" =>
                                  Before(stdin[1].id, stdin'[i].id)
    BY <1>1, <1>2 DEF SortedFrames
  <1> QED
    BY <1>2, <1>3 DEF AllBefore, RequestsOf

(* A step that moves no request forward keeps them in line.                *)
LEMMA LineKept ==
  ASSUME LineInv, UNCHANGED <<sent, queue, cur>>,
         SortedFrames(stdin)', SortedAnswers(events)',
         Unread' \subseteq Unread, Held' \subseteq Held, Executed' = Executed
  PROVE  LineInv'
  <1>1. \A a, b : Before(a, b) => Before(a, b)'
    BY DEF Before
  <1>2. SortedQueue(queue)'
    BY <1>1 DEF LineInv, SortedQueue
  <1>3. InLine'
    BY <1>1 DEF LineInv, InLine, AllBefore, Running
  <1> QED
    BY <1>2, <1>3 DEF LineInv

(* An answer of the reader is none of the executor's.                      *)
LEMMA ReaderAnswers ==
  ASSUME TypeInv, UNCHANGED sent, SortedAnswers(events), NEW r \in Reqs, NEW st \in Statuses,
         st = "refused" \/ Work[r] = "shutdown",
         events' = Append(events, Done(r, st))
  PROVE  SortedAnswers(events)' /\ Executed' = Executed
  <1> DEFINE e == Done(r, st)
  <1>1. events \in Seq(DoneEvents) /\ e \in DoneEvents /\ ~FromExecutor(e)
    BY DEF TypeInv, TypeOK, Done, DoneEvents, FromExecutor
  <1> HIDE DEF e
  <1>2. /\ DOMAIN Append(events, e) = DOMAIN events \union {Len(events) + 1}
        /\ Append(events, e)[Len(events) + 1] = e
        /\ \A i \in DOMAIN events : Append(events, e)[i] = events[i]
    BY <1>1, AppendAt
  <1>3. /\ DOMAIN events' = DOMAIN events \union {Len(events) + 1}
        /\ events'[Len(events) + 1] = e
        /\ \A i \in DOMAIN events : events'[i] = events[i]
    BY <1>2 DEF e
  <1>4. \A a, b : Before(a, b) => Before(a, b)'
    BY DEF Before
  <1>5. \A d : FromExecutor(d)' <=> FromExecutor(d)
    BY DEF FromExecutor
  <1>6. SortedAnswers(events)'
    BY <1>1, <1>3, <1>4, <1>5 DEF SortedAnswers
  <1>7. Executed' = Executed
    BY <1>1, <1>3, <1>5 DEF Executed
  <1> QED
    BY <1>6, <1>7

(* A step that leaves the answers alone.                                   *)
LEMMA AnswersKept ==
  ASSUME UNCHANGED <<sent, events>>, SortedAnswers(events)
  PROVE  SortedAnswers(events)' /\ Executed' = Executed
  BY DEF SortedAnswers, Executed, FromExecutor, Before

(* Every step keeps the requests in line.                                  *)
LEMMA LineStep ==
  ASSUME IInv, LineInv, [Next]_vars
  PROVE  LineInv'
  <1> USE KernelAssumption
  <1>0. TypeInv /\ PlaceInv
    BY DEF IInv, TypeInv, PlaceInv
  <1>1. ASSUME UNCHANGED <<sent, hand, queue, cur, events>>,
               \/ stdin' = stdin
               \/ stdin # <<>> /\ stdin' = Tail(stdin)
               \/ \E f \in Frames : f.kind # "request" /\ stdin' = Append(stdin, f)
        PROVE  LineInv'
    <2>1. SortedFrames(stdin)' /\ Unread' \subseteq Unread
      BY <1>0, <1>1, FramesSorted DEF LineInv
    <2>2. SortedAnswers(events)' /\ Executed' = Executed
      BY <1>1, AnswersKept DEF LineInv
    <2> QED
      BY <1>1, <2>1, <2>2, LineKept DEF Held
  <1>2. ASSUME NEW r \in Reqs, SendRequest(r) PROVE LineInv'
    <2> DEFINE f == Frame("request", r)
    <2>1. /\ f \in Frames /\ f.kind = "request" /\ f.id = r
          /\ r \notin Range(sent) /\ sent' = Append(sent, r) /\ stdin' = Append(stdin, f)
          /\ sent \in Seq(Reqs) /\ stdin \in Seq(Frames)
          /\ UNCHANGED <<hand, queue, cur, events>>
      BY <1>0, <1>2
         DEF SendRequest, HostSends, HostKeeps, Frame, Frames, FrameKinds, TypeInv,
             TypeOK, readerVars, execVars, obsVars
    <2> HIDE DEF f
    <2>2. \A a, b : Before(a, b) => Before(a, b)'
      BY <2>1, BeforeKept
    <2>3. /\ DOMAIN sent' = DOMAIN sent \union {Len(sent) + 1}
          /\ sent'[Len(sent) + 1] = r
          /\ \A i \in DOMAIN sent : sent'[i] = sent[i] /\ i < Len(sent) + 1
      BY <2>1, AppendAt
    <2>4. \A a \in Range(sent) : Before(a, r)'
      BY <2>3 DEF Before, Range
    <2>5. IsInjective(sent')
      BY <2>1, AppendInjective DEF LineInv
    <2>6. Unread' = Unread \union {r}
      BY <2>1, UnreadAppend DEF Unread
    <2>7. SortedFrames(stdin)'
      <3>1. /\ DOMAIN stdin' = DOMAIN stdin \union {Len(stdin) + 1}
            /\ DOMAIN stdin = 1..Len(stdin) /\ Len(stdin) \in Nat
            /\ stdin'[Len(stdin) + 1] = f
            /\ \A i \in DOMAIN stdin : stdin'[i] = stdin[i]
        BY <2>1, AppendAt
      <3>2. \A i \in DOMAIN stdin : stdin[i].kind = "request" => stdin[i].id \in Range(sent)
        BY <1>0 DEF PlaceInv, OnlySent, Unread, RequestsOf
      <3> QED
        BY <2>1, <2>2, <2>4, <3>1, <3>2 DEF LineInv, SortedFrames
    <2>8. SortedQueue(queue)'
      BY <2>1, <2>2 DEF LineInv, SortedQueue
    <2>9. SortedAnswers(events)' /\ Executed' = Executed
      BY <2>1, <2>2 DEF LineInv, SortedAnswers, Executed, FromExecutor
    <2>10. Executed \subseteq Answered
      BY DEF Executed, Answered
    <2>11. InLine'
      BY <1>0, <2>1, <2>2, <2>4, <2>6, <2>9, <2>10
         DEF LineInv, InLine, AllBefore, PlaceInv, OnlySent, Finished, Held, Running
    <2> QED
      BY <2>5, <2>7, <2>8, <2>9, <2>11 DEF LineInv
  <1>3. ASSUME Host, ~\E r \in Reqs : SendRequest(r) PROVE LineInv'
    <2>1. UNCHANGED <<sent, hand, queue, cur, events>>
      BY <1>3 DEF Host, SendInterrupt, SendReply, SendShutdown, SendMalformed, CloseStdin,
                  CancelRun, HostKeeps, readerVars, execVars, obsVars
    <2>2. ASSUME NEW r \in Reqs \union {NoReq}, NEW k \in {"interrupt", "host_reply", "shutdown", "malformed"},
                 HostSends(Frame(k, r))
          PROVE  LineInv'
      <3>1. /\ Frame(k, r) \in Frames /\ Frame(k, r).kind # "request"
            /\ stdin' = Append(stdin, Frame(k, r))
        BY <2>2 DEF Frame, Frames, FrameKinds, HostSends
      <3> QED
        BY <1>1, <2>1, <3>1
    <2>3. CASE UNCHANGED stdin
      BY <1>1, <2>1, <2>3
    <2>4. cur \in Reqs \union {NoReq}
      BY <1>0 DEF TypeInv, TypeOK
    <2> QED
      BY <1>3, <2>2, <2>3, <2>4
         DEF Host, SendInterrupt, SendReply, SendShutdown, SendMalformed, CloseStdin, CancelRun
  <1>4. ASSUME Reads("request") PROVE
          /\ stdin # <<>> /\ stdin' = Tail(stdin) /\ UNCHANGED sent
          /\ Head(stdin).id \in Reqs /\ Head(stdin).id \in Unread
          /\ SortedFrames(stdin)' /\ Unread' \subseteq Unread
          /\ AllBefore({Head(stdin).id}, Unread')
    <2>1. stdin # <<>> /\ stdin' = Tail(stdin) /\ UNCHANGED sent
      BY <1>4 DEF Reads
    <2>2. SortedFrames(stdin)' /\ Unread' \subseteq Unread
      BY <1>0, <2>1, FramesSorted DEF LineInv
    <2>3. Head(stdin).id \in Reqs /\ Head(stdin).id \in Unread
      BY <1>0, <1>4, ReadKeepsUnread DEF Unread
    <2>4. AllBefore({Head(stdin).id}, Unread')
      BY <1>0, <1>4, HeadFirst DEF LineInv, Unread
    <2> QED
      BY <2>1, <2>2, <2>3, <2>4
  <1>5. ASSUME \/ ReadMalformed \/ ReadInterrupt \/ ReadReply \/ ReadEOF
               \/ EnqueueRegister
               \/ (ReadShutdown /\ UNCHANGED events)
        PROVE  LineInv'
    <2>1. UNCHANGED <<sent, hand, queue, cur, events>>
      BY <1>5 DEF ReadMalformed, ReadInterrupt, ReadReply, ReadEOF, EnqueueRegister,
                  ReadShutdown, Reads, hostVars, readerVars, execVars, obsVars
    <2>2. stdin' = stdin \/ (stdin # <<>> /\ stdin' = Tail(stdin))
      BY <1>5 DEF ReadMalformed, ReadInterrupt, ReadReply, ReadEOF, EnqueueRegister,
                  ReadShutdown, Reads, hostVars
    <2> QED
      BY <1>1, <2>1, <2>2
  <1>6. ASSUME Reads("request"), UNCHANGED <<hand, queue, cur>>,
               NEW st \in Statuses, st = "refused" \/ Work[Head(stdin).id] = "shutdown",
               events' = Append(events, Done(Head(stdin).id, st))
        PROVE  LineInv'
    <2>1. PICK r \in Reqs : r = Head(stdin).id
      BY <1>4, <1>6
    <2>2. SortedAnswers(events)' /\ Executed' = Executed
      BY <1>0, <1>4, <1>6, <2>1, ReaderAnswers DEF LineInv
    <2> QED
      BY <1>4, <1>6, <2>2, LineKept DEF Held
  <1>7. ASSUME ReadShutdown, ~UNCHANGED events PROVE LineInv'
    <2>1. /\ Reads("request") /\ UNCHANGED <<hand, queue, cur>> /\ "ok" \in Statuses
          /\ events' = Append(events, Done(Head(stdin).id, "ok"))
          /\ Work[Head(stdin).id] = "shutdown"
      BY <1>7 DEF ReadShutdown, Closes, Reads, readerVars, execVars, Statuses
    <2> QED
      BY <1>6, <2>1
  <1>8. ASSUME EnqueueRefuse PROVE LineInv'
    <2>1. /\ Reads("request") /\ UNCHANGED <<hand, queue, cur>> /\ "refused" \in Statuses
          /\ events' = Append(events, Done(Head(stdin).id, "refused"))
      BY <1>8 DEF EnqueueRefuse, readerVars, execVars, Statuses
    <2> QED
      BY <1>6, <2>1
  <1>9. ASSUME EnqueueAdmit PROVE LineInv'
    <2>1. /\ Reads("request") /\ hand' = Head(stdin).id
          /\ UNCHANGED <<sent, queue, cur, events>>
      BY <1>9 DEF EnqueueAdmit, Reads, execVars, obsVars
    <2>2. \A a, b : Before(a, b) => Before(a, b)'
      BY <2>1 DEF Before
    <2>3. SortedAnswers(events)' /\ Executed' = Executed
      BY <2>1, AnswersKept DEF LineInv
    <2>4. SortedQueue(queue)'
      BY <2>1, <2>2 DEF LineInv, SortedQueue
    <2>5. InLine'
      BY <1>4, <2>1, <2>2, <2>3 DEF LineInv, InLine, AllBefore, Held, Running
    <2> QED
      BY <1>4, <2>1, <2>3, <2>4, <2>5 DEF LineInv
  <1>10. ASSUME EnqueueGiveUp PROVE LineInv'
    <2>1. hand' = NoReq /\ UNCHANGED <<sent, stdin, queue, cur, events>>
      BY <1>10 DEF EnqueueGiveUp, hostVars, execVars
    <2>2. SortedAnswers(events)' /\ Executed' = Executed
      BY <2>1, AnswersKept DEF LineInv
    <2>3. SortedFrames(stdin)' /\ Unread' \subseteq Unread
      BY <1>0, <2>1, FramesSorted DEF LineInv
    <2> QED
      BY <2>1, <2>2, <2>3, LineKept DEF Held
  <1>11. ASSUME EnqueuePush PROVE LineInv'
    <2>1. /\ hand \in Reqs /\ queue' = Append(queue, hand) /\ hand' = NoReq
          /\ UNCHANGED <<sent, stdin, cur, events>>
          /\ queue \in Seq(Reqs)
      BY <1>0, <1>11
         DEF EnqueuePush, hostVars, execVars, obsVars, TypeInv, TypeOK, PcsAgree
    <2>2. \A a, b : Before(a, b) => Before(a, b)'
      BY <2>1 DEF Before
    <2>3. SortedAnswers(events)' /\ Executed' = Executed
      BY <2>1, AnswersKept DEF LineInv
    <2>4. SortedFrames(stdin)' /\ Unread' \subseteq Unread
      BY <1>0, <2>1, FramesSorted DEF LineInv
    <2>5. Range(queue') = Range(queue) \union {hand}
      BY <2>1, AppendRange
    <2>6. SortedQueue(queue)'
      <3>1. /\ DOMAIN queue' = DOMAIN queue \union {Len(queue) + 1}
            /\ DOMAIN queue = 1..Len(queue) /\ Len(queue) \in Nat
            /\ queue'[Len(queue) + 1] = hand
            /\ \A i \in DOMAIN queue : queue'[i] = queue[i] /\ queue[i] \in Range(queue)
        BY <2>1, AppendAt DEF Range
      <3>2. \A a \in Range(queue) : Before(a, hand)
        BY <1>0, <2>1 DEF LineInv, InLine, AllBefore, Held
      <3> QED
        BY <2>2, <3>1, <3>2 DEF LineInv, SortedQueue
    <2>7. InLine'
      BY <2>1, <2>2, <2>3, <2>4, <2>5 DEF LineInv, InLine, AllBefore, Held, Running
    <2> QED
      BY <2>1, <2>3, <2>4, <2>6, <2>7 DEF LineInv
  <1>12. ASSUME ExecTake PROVE LineInv'
    <2>1. /\ UNCHANGED <<sent, stdin, hand, events>> /\ cur = NoReq
          /\ queue # <<>> /\ cur' = Head(queue) /\ queue' = Tail(queue)
          /\ queue \in Seq(Reqs)
      BY <1>0, <1>12
         DEF ExecTake, ExecKeeps, hostVars, readerVars, TypeInv, TypeOK, PcsAgree
    <2>2. \A a, b : Before(a, b) => Before(a, b)'
      BY <2>1 DEF Before
    <2>3. SortedAnswers(events)' /\ Executed' = Executed
      BY <2>1, AnswersKept DEF LineInv
    <2>4. SortedFrames(stdin)' /\ Unread' \subseteq Unread
      BY <1>0, <2>1, FramesSorted DEF LineInv
    <2>5. /\ Range(queue) = Range(queue') \union {cur'} /\ cur' \in Reqs
      BY <2>1, HeadTailType, TailRange
    <2>6. /\ 1 \in DOMAIN queue /\ cur' = queue[1]
          /\ \A i \in DOMAIN queue' : i \in Nat \ {0} /\ i + 1 \in DOMAIN queue
                                      /\ queue'[i] = queue[i + 1]
      BY <2>1, TailAt
    <2>7. SortedQueue(queue)'
      BY <2>2, <2>6 DEF LineInv, SortedQueue
    <2>8. \A b \in Range(queue') : Before(cur', b)
      <3>1. \A i \in DOMAIN queue' : Before(queue[1], queue[i + 1])
        BY <2>6 DEF LineInv, SortedQueue
      <3> QED
        BY <2>6, <3>1 DEF Range
    <2>9. /\ Held' = Held /\ Running = {} /\ Running' = {cur'}
      BY <2>1, <2>5 DEF Held, Running
    <2>10. /\ AllBefore(Held, Unread)'
           /\ AllBefore(Range(queue), Held \union Unread)'
      BY <2>2, <2>4, <2>5, <2>9 DEF LineInv, InLine, AllBefore
    <2>11. AllBefore(Running, Range(queue) \union Held \union Unread)'
      BY <2>2, <2>4, <2>5, <2>8, <2>9 DEF LineInv, InLine, AllBefore
    <2>12. AllBefore(Executed \ Running,
                     Running \union Range(queue) \union Held \union Unread)'
      BY <2>2, <2>3, <2>4, <2>5, <2>9 DEF LineInv, InLine, AllBefore
    <2>13. InLine'
      BY <2>10, <2>11, <2>12 DEF InLine
    <2> QED
      BY <2>1, <2>3, <2>4, <2>7, <2>13 DEF LineInv
  <1>13. ASSUME ExecDone PROVE LineInv'
    <2> DEFINE e == Done(cur, outcome)
    <2>1. /\ UNCHANGED <<sent, stdin, hand, queue, cur>>
          /\ cur \in Reqs /\ cur \notin Answered
          /\ events' = Append(events, e)
          /\ events \in Seq(DoneEvents) /\ e \in DoneEvents /\ e.req = cur
      BY <1>0, <1>13
         DEF ExecDone, ExecKeeps, hostVars, readerVars, TypeInv, TypeOK, PcsAgree,
             PlaceInv, OnePlace, Done, DoneEvents
    <2> HIDE DEF e
    <2>2. /\ DOMAIN events' = DOMAIN events \union {Len(events) + 1}
          /\ DOMAIN events = 1..Len(events) /\ Len(events) \in Nat
          /\ events'[Len(events) + 1] = e
          /\ \A i \in DOMAIN events : events'[i] = events[i]
      BY <2>1, AppendAt
    <2>3. \A a, b : Before(a, b) => Before(a, b)'
      BY <2>1 DEF Before
    <2>4. \A d : FromExecutor(d)' <=> FromExecutor(d)
      BY DEF FromExecutor
    <2>5. Executed' \subseteq Executed \union {cur} /\ Executed \subseteq Executed'
      BY <2>1, <2>2, <2>4 DEF Executed
    <2>6. \A i \in DOMAIN events : FromExecutor(events[i]) => Before(events[i].req, cur)
      <3>1. Executed \subseteq Answered
        BY DEF Executed, Answered
      <3>2. \A a \in Executed : Before(a, cur)
        BY <2>1, <3>1 DEF LineInv, InLine, AllBefore, Running
      <3> QED
        BY <3>2 DEF Executed
    <2>7. SortedAnswers(events)'
      BY <2>1, <2>2, <2>3, <2>4, <2>6 DEF LineInv, SortedAnswers
    <2>8. SortedFrames(stdin)' /\ SortedQueue(queue)' /\ Unread' = Unread
      BY <2>1, <2>3 DEF LineInv, SortedFrames, SortedQueue, Unread
    <2>9. InLine'
      BY <2>1, <2>3, <2>5, <2>8 DEF LineInv, InLine, AllBefore, Held, Running
    <2> QED
      BY <2>1, <2>7, <2>8, <2>9 DEF LineInv
  <1>14. ASSUME ExecDeactivate PROVE LineInv'
    <2>1. UNCHANGED <<sent, stdin, hand, queue, events>> /\ cur' = NoReq
      BY <1>14 DEF ExecDeactivate, ExecKeeps, hostVars, readerVars
    <2>2. \A a, b : Before(a, b) => Before(a, b)'
      BY <2>1 DEF Before
    <2>3. SortedAnswers(events)' /\ Executed' = Executed
      BY <2>1, AnswersKept DEF LineInv
    <2>4. SortedFrames(stdin)' /\ SortedQueue(queue)' /\ Unread' = Unread
      BY <2>1, <2>2 DEF LineInv, SortedFrames, SortedQueue, Unread
    <2>5. InLine'
      BY <2>1, <2>2, <2>3, <2>4 DEF LineInv, InLine, AllBefore, Held, Running
    <2> QED
      BY <2>1, <2>3, <2>4, <2>5 DEF LineInv
  <1>15. ASSUME \/ Table \/ Lifecycle \/ UNCHANGED vars
                \/ ExecExitDrained \/ ExecExitStopped \/ ExecActivate \/ ExecStart
                \/ \E s \in Statuses : ExecEvaluate(s)
                \/ ExecCancel
         PROVE  LineInv'
    <2>1. UNCHANGED <<sent, stdin, hand, queue, cur, events>>
      BY <1>15
         DEF Table, TableRegister, TableActivate, TableDeactivate, TableInterruptId,
             TableInterruptAny, Handles, Lifecycle, RunBeginsShutdown, RunReturns,
             StopAfterDrain, StopAfterGrace, LifeKeeps, ExecExitDrained,
             ExecExitStopped, ExecExits, ExecActivate, ExecStart, ExecEvaluate,
             ExecCancel, ExecKeeps, vars, hostVars, readerVars, execVars, obsVars
    <2> QED
      BY <1>1, <2>1
  <1> QED
    BY <1>2, <1>3, <1>5, <1>7, <1>8, <1>9, <1>10, <1>11, <1>12, <1>13, <1>14, <1>15
       DEF Next, Reader, Executor

(* Executes stay serial: the executor's answers come in the order in which *)
(* the host sent the requests, however the two selects choose and whatever *)
(* is refused or given up in between.                                      *)
THEOREM KernelKeepsOrder == Spec => []DoneOrder
  <1>1. Init => LineInv
    BY KernelAssumption
       DEF Init, LineInv, SortedFrames, SortedQueue, SortedAnswers, InLine, AllBefore,
           Held, Running, Unread, RequestsOf, Executed, Range, IsInjective
  <1>2. IInv /\ LineInv /\ [Next]_vars => LineInv'
    BY LineStep
  <1>3. LineInv => DoneOrder
    <2> SUFFICES ASSUME LineInv, NEW i \in DOMAIN events, NEW j \in DOMAIN events,
                        i < j, FromExecutor(events[i]), FromExecutor(events[j])
                 PROVE  Position(events[i].req) < Position(events[j].req)
      BY DEF DoneOrder
    <2>1. PICK a, b \in DOMAIN sent : /\ a < b /\ sent[a] = events[i].req
                                      /\ sent[b] = events[j].req
      BY DEF LineInv, SortedAnswers, Before
    <2>2. Position(events[i].req) = a /\ Position(events[j].req) = b
      BY <2>1 DEF LineInv, IsInjective, Position
    <2> QED
      BY <2>1, <2>2
  <1> QED
    BY <1>1, <1>2, <1>3, KernelInvariant, PTL DEF Spec

-----------------------------------------------------------------------------
(* What interrupts without an id are spent on.                             *)

(* The answers that report an interrupt which named nobody.                *)
Spurious == {i \in DOMAIN events : /\ events[i].status = "interrupted"
                                   /\ events[i].req \notin targeted}

(* Such an interrupt is parked for the next request, handed over with an   *)
(* activation, or has hit the running request.                             *)
Handed == reply.full /\ reply.parked /\ cur \notin targeted
Hit    == cur \in cancelled /\ cur \notin targeted /\ cur \notin Answered

One(b) == IF b THEN 1 ELSE 0

(* Whom the cancel functions and the active id belong to.                  *)
Belongs ==
  /\ curCancel \in {NoReq, cur}
  /\ execPc \notin {"run", "emit", "cancel"} => curCancel = NoReq
  /\ parked \subseteq targeted
  /\ activeID = NoReq \/ activeID = cur \/ activeID \in Answered

(* Until the root context ends, only an interrupt cancels a request that   *)
(* has not been answered.                                                  *)
Caused ==
  ~rootDone =>
    /\ \A r \in cancelled : r \in targeted \/ r \in Answered \/ r = cur
    /\ execPc = "emit" /\ outcome = "interrupted" => cur \in cancelled

(* No interrupt without an id is spent twice.                              *)
Spent ==
  ~rootDone =>
    Cardinality(Spurious) + One(parkNext) + One(Handed) + One(Hit) <= nIdless

SpendInv == Belongs /\ Caused /\ Spent

(* Answers are only added, and only by the reader and by ExecDone.         *)
LEMMA AnswersGrow ==
  ASSUME IInv, [Next]_vars
  PROVE  \/ UNCHANGED events
         \/ \E r \in Reqs, st \in Statuses :
              /\ events' = Append(events, Done(r, st))
              /\ UNCHANGED <<cur, targeted, cancelled, activeID, parkNext, parked, reply,
                             nIdless, rootDone, curCancel>>
              /\ \/ /\ st \in {"ok", "refused"} /\ r # cur
                    /\ UNCHANGED <<execPc, outcome>>
                 \/ r = cur /\ st = outcome /\ ExecDone
  <1>0. TypeInv /\ PlaceInv
    BY DEF IInv, TypeInv, PlaceInv
  <1>1. ASSUME Reads("request") PROVE Head(stdin).id \in Reqs /\ Head(stdin).id # cur
    BY <1>0, <1>1, ReadKeepsUnread, KernelAssumption DEF PlaceInv, OnePlace, Unread, Running
  <1>2. CASE ReadShutdown
    <2>1. UNCHANGED <<execVars, targeted, cancelled, activeID, parkNext, parked, reply,
                      nIdless, rootDone>>
      BY <1>2 DEF ReadShutdown, tableVars
    <2> QED
      BY <1>1, <1>2, <2>1 DEF ReadShutdown, Statuses, execVars
  <1>3. CASE EnqueueRefuse
    <2>1. UNCHANGED <<execVars, targeted, cancelled, activeID, parkNext, parked, reply,
                      nIdless, rootDone>>
      BY <1>3 DEF EnqueueRefuse, tableVars, lifeVars
    <2> QED
      BY <1>1, <1>3, <2>1 DEF EnqueueRefuse, Statuses, execVars
  <1>4. CASE ExecDone
    <2>1. cur \in Reqs /\ outcome \in Statuses
      BY <1>0, <1>4 DEF ExecDone, TypeInv, TypeOK, PcsAgree
    <2>2. UNCHANGED <<cur, targeted, cancelled, activeID, parkNext, parked, reply,
                      nIdless, rootDone, curCancel>>
      BY <1>4 DEF ExecDone, ExecKeeps, tableVars, lifeVars
    <2> QED
      BY <1>4, <2>1, <2>2 DEF ExecDone
  <1>5. CASE UNCHANGED events
    BY <1>5
  <1> QED
    BY <1>2, <1>3, <1>4, <1>5
       DEF Next, vars, Host, SendRequest, SendInterrupt, SendReply, SendShutdown,
           SendMalformed, CloseStdin, CancelRun, HostKeeps, Reader, ReadMalformed,
           ReadInterrupt, ReadReply, EnqueueAdmit, EnqueueRegister, EnqueuePush,
           EnqueueGiveUp, ReadEOF, Table, TableRegister, TableActivate,
           TableDeactivate, TableInterruptId, TableInterruptAny, Handles, Executor,
           ExecTake, ExecExitDrained, ExecExitStopped, ExecExits, ExecActivate,
           ExecStart, ExecEvaluate, ExecCancel, ExecDeactivate, ExecKeeps,
           Lifecycle, RunBeginsShutdown, RunReturns, StopAfterDrain,
           StopAfterGrace, LifeKeeps, obsVars

(* The answers that report an interrupt which named nobody are finitely    *)
(* many.                                                                   *)
LEMMA SpuriousCount ==
  ASSUME TypeOK
  PROVE  IsFiniteSet(Spurious) /\ Cardinality(Spurious) \in Nat
  <1>1. Len(events) \in Nat /\ Spurious \subseteq 1..Len(events)
    BY DEF TypeOK, Spurious
  <1>2. IsFiniteSet(1..Len(events))
    BY <1>1, FS_Interval
  <1> QED
    BY <1>1, <1>2, FS_Subset, FS_CardinalityType

(* A step adds one such answer at most, and none unless it reports an      *)
(* interruption of a request that no interrupt names.                      *)
LEMMA SpuriousStep ==
  ASSUME TypeOK, targeted \subseteq targeted',
         \/ UNCHANGED events
         \/ \E r \in Reqs, st \in Statuses : events' = Append(events, Done(r, st))
  PROVE  /\ Cardinality(Spurious') \in Nat
         /\ Cardinality(Spurious') <= Cardinality(Spurious) + 1
         /\ \/ UNCHANGED events
            \/ \E r \in Reqs, st \in Statuses :
                 /\ events' = Append(events, Done(r, st))
                 /\ st # "interrupted" \/ r \in targeted'
            => Cardinality(Spurious') <= Cardinality(Spurious)
  <1>1. IsFiniteSet(Spurious) /\ Cardinality(Spurious) \in Nat
    BY SpuriousCount
  <1>2. CASE UNCHANGED events
    <2>1. Spurious' \subseteq Spurious
      BY <1>2 DEF Spurious
    <2> QED
      BY <1>1, <1>2, <2>1, FS_Subset, FS_CardinalityType
  <1>3. ASSUME NEW r \in Reqs, NEW st \in Statuses, events' = Append(events, Done(r, st))
        PROVE  /\ Cardinality(Spurious') \in Nat
               /\ Cardinality(Spurious') <= Cardinality(Spurious) + 1
               /\ st # "interrupted" \/ r \in targeted'
                    => Cardinality(Spurious') <= Cardinality(Spurious)
    <2> DEFINE e == Done(r, st)
    <2>1. events \in Seq(DoneEvents) /\ e \in DoneEvents /\ e.req = r /\ e.status = st
      BY DEF TypeOK, Done, DoneEvents
    <2>2. /\ DOMAIN events' = DOMAIN events \union {Len(events) + 1}
          /\ events'[Len(events) + 1] = e
          /\ \A i \in DOMAIN events : events'[i] = events[i]
      BY <1>3, <2>1, AppendAt
    <2> HIDE DEF e
    <2>3. Spurious' \subseteq Spurious \union {Len(events) + 1}
      BY <2>1, <2>2 DEF Spurious
    <2>4. st # "interrupted" \/ r \in targeted' => Spurious' \subseteq Spurious
      BY <2>1, <2>2 DEF Spurious
    <2> DEFINE S == Spurious
               x == Len(events) + 1
               T == Spurious'
    <2>5. IsFiniteSet(S) /\ Cardinality(S) \in Nat /\ T \subseteq S \union {x}
      BY <1>1, <2>3
    <2> HIDE DEF S, T, x
    <2>6. /\ IsFiniteSet(S \union {x})
          /\ Cardinality(S \union {x}) \in {Cardinality(S), Cardinality(S) + 1}
      BY <2>5, FS_AddElement
    <2>7. IsFiniteSet(T) /\ Cardinality(T) <= Cardinality(S \union {x})
      BY <2>5, <2>6, FS_Subset
    <2>8. Cardinality(T) \in Nat /\ Cardinality(T) <= Cardinality(S) + 1
      BY <2>5, <2>6, <2>7, FS_CardinalityType
    <2>9. ASSUME T \subseteq S PROVE Cardinality(T) <= Cardinality(S)
      BY <2>5, <2>9, FS_Subset
    <2> QED
      BY <2>4, <2>8, <2>9 DEF S, T
  <1> QED
    BY <1>1, <1>2, <1>3

(* Answered requests stay answered.                                        *)
LEMMA AnsweredGrows ==
  ASSUME IInv, [Next]_vars
  PROVE  Answered \subseteq Answered' /\ (UNCHANGED events => Answered' = Answered)
  <1>1. CASE UNCHANGED events
    BY <1>1 DEF Answered
  <1>2. ASSUME NEW r \in Reqs, NEW st \in Statuses, events' = Append(events, Done(r, st))
        PROVE  Answered \subseteq Answered'
    BY <1>2, AnswerAppend DEF IInv, TypeInv
  <1> QED
    BY <1>1, <1>2, AnswersGrow DEF Answered

(* Cancel functions and the active id keep their owners.                   *)
LEMMA BelongsStep ==
  ASSUME IInv, Belongs, [Next]_vars
  PROVE  Belongs'
  <1> USE DEF Belongs
  <1>0. Answered \subseteq Answered' /\ PcsAgree /\ TypeOK
    BY AnsweredGrows DEF IInv
  <1>1. CASE Host
    BY <1>0, <1>1
       DEF Host, SendRequest, SendInterrupt, SendReply, SendShutdown, SendMalformed,
           CloseStdin, CancelRun, HostKeeps, tableVars, execVars
  <1>2. CASE Reader
    BY <1>0, <1>2
       DEF Reader, ReadMalformed, ReadInterrupt, ReadReply, ReadShutdown,
           EnqueueRefuse, EnqueueAdmit, EnqueueRegister, EnqueuePush,
           EnqueueGiveUp, ReadEOF, tableVars, execVars
  <1>3. CASE TableActivate
    <2>1. /\ Head(cmds).op = "activate" /\ cmds # <<>> /\ UNCHANGED execVars
          /\ activeID' = Head(cmds).id /\ parked' \subseteq parked /\ UNCHANGED targeted
      BY <1>3 DEF TableActivate, Handles
    <2>2. activeID' = cur
      BY <1>0, <2>1, TailAt DEF IInv, ActivationInOrder, TypeOK
    <2> QED
      BY <1>0, <2>1, <2>2 DEF execVars
  <1>4. CASE TableRegister \/ TableDeactivate \/ TableInterruptId \/ TableInterruptAny
    BY <1>0, <1>4
       DEF TableRegister, TableDeactivate, TableInterruptId, TableInterruptAny,
           Handles, execVars
  <1>5. CASE Executor
    <2>1. UNCHANGED tableVars
      BY <1>5
         DEF Executor, ExecTake, ExecExitDrained, ExecExitStopped, ExecExits,
             ExecActivate, ExecStart, ExecEvaluate, ExecDone, ExecCancel,
             ExecDeactivate, ExecKeeps
    <2>2. CASE ExecTake
      BY <1>0, <2>1, <2>2 DEF ExecTake, tableVars, PcsAgree
    <2>3. CASE ExecStart
      BY <1>0, <2>1, <2>3 DEF ExecStart, tableVars, IInv, ActiveRegistered
    <2>4. CASE ExecDeactivate
      BY <1>0, <2>1, <2>4 DEF ExecDeactivate, tableVars, IInv, OnePlace
    <2>5. CASE \/ ExecExitDrained \/ ExecExitStopped \/ ExecActivate
               \/ (\E s \in Statuses : ExecEvaluate(s))
               \/ ExecDone \/ ExecCancel
      BY <1>0, <2>1, <2>5
         DEF ExecExitDrained, ExecExitStopped, ExecExits, ExecActivate, ExecEvaluate,
             ExecDone, ExecCancel, tableVars
    <2> QED
      BY <1>5, <2>2, <2>3, <2>4, <2>5 DEF Executor
  <1>6. CASE Lifecycle \/ UNCHANGED vars
    BY <1>0, <1>6
       DEF Lifecycle, RunBeginsShutdown, RunReturns, StopAfterDrain, StopAfterGrace,
           LifeKeeps, vars, tableVars, execVars
  <1> QED
    BY <1>1, <1>2, <1>3, <1>4, <1>5, <1>6 DEF Next, Table

(* Only an interrupt cancels a request that has not been answered.         *)
LEMMA CausedStep ==
  ASSUME IInv, Belongs, Caused, [Next]_vars
  PROVE  Caused'
  <1> SUFFICES ASSUME ~rootDone'
               PROVE  /\ \A r \in cancelled' : \/ r \in targeted' \/ r \in Answered'
                                               \/ r = cur'
                      /\ execPc' = "emit" /\ outcome' = "interrupted" => cur' \in cancelled'
    BY DEF Caused
  <1>0. Answered \subseteq Answered' /\ PcsAgree /\ TypeOK
    BY AnsweredGrows DEF IInv
  <1>a. /\ \A r \in cancelled : r \in targeted \/ r \in Answered \/ r = cur
        /\ execPc = "emit" /\ outcome = "interrupted" => cur \in cancelled
        /\ ~rootDone
    BY DEF Caused, Next, vars, Host, SendRequest, SendInterrupt, SendReply, SendShutdown,
           SendMalformed, CloseStdin, CancelRun, HostKeeps, Reader, ReadMalformed,
           ReadInterrupt, ReadReply, ReadShutdown, EnqueueRefuse, EnqueueAdmit,
           EnqueueRegister, EnqueuePush, EnqueueGiveUp, ReadEOF, Table, TableRegister,
           TableActivate, TableDeactivate, TableInterruptId, TableInterruptAny, Handles,
           Executor, ExecTake, ExecExitDrained, ExecExitStopped, ExecExits, ExecActivate,
           ExecStart, ExecEvaluate, ExecDone, ExecCancel, ExecDeactivate, ExecKeeps,
           Lifecycle, RunBeginsShutdown, RunReturns, StopAfterDrain, StopAfterGrace,
           LifeKeeps, lifeVars
  <1>1. CASE Host
    BY <1>0, <1>a, <1>1
       DEF Host, SendRequest, SendInterrupt, SendReply, SendShutdown, SendMalformed,
           CloseStdin, CancelRun, HostKeeps, tableVars, execVars
  <1>2. CASE Reader
    BY <1>0, <1>a, <1>2
       DEF Reader, ReadMalformed, ReadInterrupt, ReadReply, ReadShutdown,
           EnqueueRefuse, EnqueueAdmit, EnqueueRegister, EnqueuePush,
           EnqueueGiveUp, ReadEOF, tableVars, execVars
  <1>3. CASE TableRegister \/ TableActivate \/ TableDeactivate
    BY <1>0, <1>a, <1>3
       DEF TableRegister, TableActivate, TableDeactivate, Handles, execVars
  <1>4. CASE TableInterruptId
    BY <1>0, <1>a, <1>4 DEF TableInterruptId, Handles, execVars, Cancel
  <1>5. CASE TableInterruptAny
    BY <1>0, <1>a, <1>5 DEF TableInterruptAny, Handles, execVars, Cancel, Belongs
  <1>6. CASE Executor
    <2>1. UNCHANGED targeted
      BY <1>6
         DEF Executor, ExecTake, ExecExitDrained, ExecExitStopped, ExecExits,
             ExecActivate, ExecStart, ExecEvaluate, ExecDone, ExecCancel,
             ExecDeactivate, ExecKeeps, tableVars
    <2>2. CASE ExecTake
      BY <1>0, <1>a, <2>1, <2>2, KernelAssumption DEF ExecTake, PcsAgree, TypeOK
    <2>3. CASE ExecStart
      BY <1>0, <1>a, <2>1, <2>3 DEF ExecStart, Cancel, IInv, ActiveRegistered
    <2>4. CASE ExecDeactivate
      BY <1>0, <1>a, <2>1, <2>4 DEF ExecDeactivate, IInv, OnePlace
    <2>5. CASE ExecCancel
      BY <1>0, <1>a, <2>1, <2>5 DEF ExecCancel, Cancel, Belongs
    <2>6. ASSUME NEW s \in Statuses, ExecEvaluate(s)
          PROVE  /\ UNCHANGED <<cancelled, cur>>
                 /\ outcome' = "interrupted" => cur \in cancelled
      BY <1>a, <2>6, KernelAssumption DEF ExecEvaluate, Outcomes, CtxDone
    <2>7. CASE ExecExitDrained \/ ExecExitStopped \/ ExecActivate \/ ExecDone
      BY <1>0, <1>a, <2>1, <2>7
         DEF ExecExitDrained, ExecExitStopped, ExecExits, ExecActivate, ExecDone
    <2> QED
      BY <1>0, <1>a, <1>6, <2>1, <2>2, <2>3, <2>4, <2>5, <2>6, <2>7 DEF Executor
  <1>7. CASE Lifecycle \/ UNCHANGED vars
    BY <1>0, <1>a, <1>7
       DEF Lifecycle, RunBeginsShutdown, RunReturns, StopAfterDrain, StopAfterGrace,
           LifeKeeps, vars, tableVars, execVars
  <1> QED
    BY <1>1, <1>2, <1>3, <1>4, <1>5, <1>6, <1>7 DEF Next, Table

(* No step spends an interrupt twice.                                      *)
LEMMA SpentStep ==
  ASSUME IInv, Belongs, Caused, Spent, [Next]_vars
  PROVE  Spent'
  <1> SUFFICES ASSUME ~rootDone'
               PROVE  Cardinality(Spurious') + One(parkNext') + One(Handed') + One(Hit')
                        <= nIdless'
    BY DEF Spent
  <1>0. /\ Answered \subseteq Answered'
        /\ UNCHANGED events => Answered' = Answered
        /\ PcsAgree /\ TypeOK /\ TypeInv
    BY AnsweredGrows DEF IInv, TypeInv
  <1>a. ~rootDone /\ targeted \subseteq targeted'
    BY DEF Next, vars, Host, SendRequest, SendInterrupt, SendReply, SendShutdown,
           SendMalformed, CloseStdin, CancelRun, HostKeeps, Reader, ReadMalformed,
           ReadInterrupt, ReadReply, ReadShutdown, EnqueueRefuse, EnqueueAdmit,
           EnqueueRegister, EnqueuePush, EnqueueGiveUp, ReadEOF, Table, TableRegister,
           TableActivate, TableDeactivate, TableInterruptId, TableInterruptAny, Handles,
           Executor, ExecTake, ExecExitDrained, ExecExitStopped, ExecExits, ExecActivate,
           ExecStart, ExecEvaluate, ExecDone, ExecCancel, ExecDeactivate, ExecKeeps,
           Lifecycle, RunBeginsShutdown, RunReturns, StopAfterDrain, StopAfterGrace,
           LifeKeeps, lifeVars, tableVars
  <1> DEFINE c == Cardinality(Spurious)
             d == Cardinality(Spurious')
  <1>b. /\ c \in Nat /\ d \in Nat /\ d <= c + 1
        /\ UNCHANGED events => d <= c
        /\ \A r \in Reqs, st \in Statuses :
             events' = Append(events, Done(r, st)) /\ (st # "interrupted" \/ r \in targeted')
               => d <= c
    <2>1. \/ UNCHANGED events
          \/ \E r \in Reqs, st \in Statuses : events' = Append(events, Done(r, st))
      BY AnswersGrow
    <2> QED
      BY <1>0, <1>a, <2>1, SpuriousCount, SpuriousStep
  <1>c. c + One(parkNext) + One(Handed) + One(Hit) <= nIdless
    BY <1>a DEF Spent
  <1>d. nIdless \in Nat /\ nIdless' \in Nat
    <2>1. TypeOK'
      BY StepIInv DEF IInv
    <2> QED
      BY <1>0, <2>1 DEF TypeOK
  <1> HIDE DEF c, d
  <1> SUFFICES d + One(parkNext') + One(Handed') + One(Hit') <= nIdless'
    BY DEF d
  <1>e. ASSUME d <= c, nIdless' = nIdless, parkNext' => parkNext, Handed' => Handed,
               Hit' => Hit
        PROVE  d + One(parkNext') + One(Handed') + One(Hit') <= nIdless'
    BY <1>b, <1>c, <1>d, <1>e DEF One
  <1>f. ASSUME UNCHANGED <<events, nIdless, parkNext, reply, cur, cancelled>>
        PROVE  d + One(parkNext') + One(Handed') + One(Hit') <= nIdless'
    BY <1>0, <1>a, <1>b, <1>e, <1>f DEF Handed, Hit
  <1>1. CASE Host \/ Lifecycle \/ UNCHANGED vars
    BY <1>1, <1>f
       DEF Host, SendRequest, SendInterrupt, SendReply, SendShutdown, SendMalformed,
           CloseStdin, CancelRun, HostKeeps, Lifecycle, RunBeginsShutdown, RunReturns,
           StopAfterDrain, StopAfterGrace, LifeKeeps, vars, tableVars, execVars, obsVars
  <1>2. CASE Reader
    <2>1. UNCHANGED <<nIdless, parkNext, reply, cur, cancelled>>
      BY <1>2, <1>a
         DEF Reader, ReadMalformed, ReadInterrupt, ReadReply, ReadShutdown,
             EnqueueRefuse, EnqueueAdmit, EnqueueRegister, EnqueuePush,
             EnqueueGiveUp, ReadEOF, tableVars, execVars
    <2>2. CASE UNCHANGED events
      BY <1>f, <2>1, <2>2
    <2>3. CASE ReadShutdown \/ EnqueueRefuse
      <3>1. UNCHANGED execVars
        BY <2>3 DEF ReadShutdown, EnqueueRefuse
      <3>2. d <= c
        BY <1>b, <3>1, AnswersGrow, <2>3 DEF execVars, ExecDone, ReadShutdown, EnqueueRefuse
      <3> QED
        BY <1>0, <1>a, <1>e, <2>1, <3>2 DEF Handed, Hit
    <2> QED
      BY <1>2, <2>2, <2>3
         DEF Reader, ReadMalformed, ReadInterrupt, ReadReply, EnqueueAdmit,
             EnqueueRegister, EnqueuePush, EnqueueGiveUp, ReadEOF, obsVars
  <1>3. CASE TableRegister \/ TableDeactivate
    BY <1>3, <1>f DEF TableRegister, TableDeactivate, Handles, execVars, obsVars
  <1>4. CASE TableActivate
    <2>1. /\ Head(cmds).op = "activate" /\ cmds # <<>>
          /\ UNCHANGED <<cur, events, targeted, nIdless, cancelled>>
          /\ reply'.parked = (Head(cmds).id \in parked \/ parkNext)
          /\ parkNext' = FALSE
      BY <1>4 DEF TableActivate, Handles, execVars, obsVars
    <2>2. Head(cmds).id = cur /\ ~reply.full
      BY <1>0, <2>1, TailAt DEF IInv, ActivationInOrder, TypeOK
    <2>3. Handed' => parkNext
      BY <2>1, <2>2 DEF Handed, Belongs
    <2>4. ~Handed /\ (Hit' <=> Hit)
      BY <1>0, <2>1, <2>2 DEF Handed, Hit
    <2> QED
      BY <1>b, <1>c, <1>d, <2>1, <2>3, <2>4 DEF One
  <1>5. CASE TableInterruptId
    <2>1. /\ UNCHANGED <<cur, events, nIdless, parkNext, reply>>
          /\ cancelled' \subseteq cancelled \union targeted'
      BY <1>5 DEF TableInterruptId, Handles, Cancel, execVars, obsVars
    <2> QED
      BY <1>0, <1>a, <1>b, <1>e, <2>1 DEF Handed, Hit
  <1>6. CASE TableInterruptAny
    <2>1. /\ UNCHANGED <<cur, events, targeted, reply>>
          /\ nIdless' = nIdless + 1
          /\ UNCHANGED parkNext \/ UNCHANGED cancelled
      BY <1>6 DEF TableInterruptAny, Handles, execVars, obsVars
    <2>2. Handed' <=> Handed
      BY <2>1 DEF Handed
    <2>3. CASE UNCHANGED cancelled
      <3>1. Hit' <=> Hit
        BY <1>0, <2>1, <2>3 DEF Hit
      <3> QED
        BY <1>b, <1>c, <1>d, <2>1, <2>2, <3>1 DEF One
    <2>4. CASE UNCHANGED parkNext
      BY <1>b, <1>c, <1>d, <2>1, <2>2, <2>4 DEF One
    <2> QED
      BY <2>1, <2>3, <2>4
  <1>7. CASE Executor
    <2>1. UNCHANGED <<targeted, nIdless, parkNext>>
      BY <1>7
         DEF Executor, ExecTake, ExecExitDrained, ExecExitStopped, ExecExits,
             ExecActivate, ExecStart, ExecEvaluate, ExecDone, ExecCancel,
             ExecDeactivate, ExecKeeps, tableVars
    <2>2. CASE ExecTake
      <3>1. /\ UNCHANGED <<events, reply, cancelled>> /\ ~reply.full /\ cur = NoReq
        BY <1>0, <2>2 DEF ExecTake, IInv, ActiveRegistered, PcsAgree
      <3>2. ~Handed' /\ ~Hit'
        BY <1>0, <1>a, <2>1, <3>1, KernelAssumption DEF Handed, Hit, Caused, TypeOK
      <3> QED
        BY <1>b, <1>e, <2>1, <3>1, <3>2
    <2>3. CASE ExecStart
      <3>1. /\ reply.full /\ reply.cancel = cur /\ UNCHANGED <<cur, events>>
            /\ ~reply'.full
            /\ cancelled' = IF reply.parked THEN Cancel(cur) ELSE cancelled
        BY <2>3 DEF ExecStart, IInv, ActiveRegistered, NoReply
      <3>2. ~Handed' /\ (Hit' => Hit \/ Handed)
        BY <1>0, <2>1, <3>1 DEF Handed, Hit, Cancel
      <3> QED
        BY <1>b, <1>c, <1>d, <2>1, <3>1, <3>2 DEF One
    <2>4. CASE ExecDone
      <3>1. /\ events' = Append(events, Done(cur, outcome))
            /\ UNCHANGED <<cur, reply, cancelled>>
            /\ cur \in Reqs /\ outcome \in Statuses /\ execPc = "emit"
        BY <1>0, <2>4 DEF ExecDone, PcsAgree, TypeOK
      <3>2. Handed' <=> Handed
        BY <2>1, <3>1 DEF Handed
      <3>3. cur \in Answered' /\ cur \notin Answered
        BY <1>0, <3>1, AnswerAppend DEF IInv, OnePlace
      <3>4. ~Hit'
        BY <3>1, <3>3 DEF Hit
      <3>5. CASE outcome # "interrupted" \/ cur \in targeted'
        <4>1. d <= c
          BY <1>b, <3>1, <3>5
        <4> QED
          BY <1>e, <2>1, <3>2, <3>4, <4>1
      <3>6. CASE outcome = "interrupted" /\ cur \notin targeted'
        <4>1. Hit
          BY <1>a, <2>1, <3>1, <3>3, <3>6 DEF Hit, Caused
        <4> QED
          BY <1>b, <1>c, <1>d, <2>1, <3>2, <3>4, <4>1 DEF One
      <3> QED
        BY <3>5, <3>6
    <2>5. CASE ExecCancel
      <3>1. /\ cur \in Answered /\ UNCHANGED <<cur, events, reply>>
        BY <2>5 DEF ExecCancel, IInv, OnePlace
      <3>2. ~Hit' /\ (Handed' <=> Handed)
        BY <1>0, <2>1, <3>1 DEF Hit, Handed
      <3> QED
        BY <1>b, <1>e, <2>1, <3>1, <3>2
    <2>6. CASE ExecDeactivate
      <3>1. /\ cur' = NoReq /\ UNCHANGED <<events, reply, cancelled>> /\ ~reply.full
        BY <2>6 DEF ExecDeactivate, IInv, ActiveRegistered
      <3>2. ~Hit' /\ ~Handed'
        BY <1>0, <3>1, KernelAssumption DEF Hit, Handed, TypeOK
      <3> QED
        BY <1>b, <1>e, <2>1, <3>1, <3>2
    <2>7. CASE \/ ExecExitDrained \/ ExecExitStopped \/ ExecActivate
               \/ (\E s \in Statuses : ExecEvaluate(s))
      BY <1>f, <2>1, <2>7
         DEF ExecExitDrained, ExecExitStopped, ExecExits, ExecActivate, ExecEvaluate
    <2> QED
      BY <1>7, <2>2, <2>3, <2>4, <2>5, <2>6, <2>7 DEF Executor
  <1> QED
    BY <1>1, <1>2, <1>3, <1>4, <1>5, <1>6, <1>7 DEF Next, Table

(* A cell that reports an interruption nobody named it for was hit by an   *)
(* interrupt without an id, and no such interrupt hits two cells.          *)
THEOREM KernelBlamesInterrupts == Spec => []NoSpuriousInterrupt
  <1>1. Init => SpendInv
    <2> SUFFICES ASSUME Init PROVE SpendInv
      OBVIOUS
    <2>1. Spurious = {} /\ Answered = {}
      BY DEF Init, Spurious, Answered
    <2>2. Cardinality(Spurious) = 0
      BY <2>1, FS_EmptySet
    <2> QED
      BY <2>1, <2>2
         DEF Init, SpendInv, Belongs, Caused, Spent, One, Handed, Hit, NoReply
  <1>2. IInv /\ SpendInv /\ [Next]_vars => SpendInv'
    BY BelongsStep, CausedStep, SpentStep DEF SpendInv
  <1>3. IInv /\ SpendInv => NoSpuriousInterrupt
    <2> SUFFICES ASSUME IInv, SpendInv, ~rootDone
                 PROVE  Cardinality(Spurious) <= nIdless
      BY DEF NoSpuriousInterrupt, Spurious
    <2>1. Cardinality(Spurious) \in Nat /\ nIdless \in Nat
      BY SpuriousCount DEF IInv, TypeOK
    <2> QED
      BY <2>1 DEF SpendInv, Spent, One
  <1> QED
    BY <1>1, <1>2, <1>3, KernelInvariant, PTL DEF Spec
=============================================================================
