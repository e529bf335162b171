-------------------------- MODULE KernelHostProofs --------------------------
(***************************************************************************)
(* The host's side of the kernel, for any executes, cells and capacities:  *)
(* what Execute returns is everything the kernel said about its cell, and  *)
(* executes do not wait for each other in a circle.                        *)
(***************************************************************************)
EXTENDS KernelHost, SequenceTheorems, FunctionTheorems, FiniteSetTheorems, TLAPS

-----------------------------------------------------------------------------
(* The channels.                                                           *)

(* A value comes once at most.                                             *)
Once(x, s) == \A i, j \in DOMAIN s : s[i] = x /\ s[j] = x => i = j

(* What a channel holds once something was sent on it.                     *)
LEMMA Sent ==
  ASSUME NEW S, NEW s \in Seq(S), NEW x \in S
  PROVE  /\ Append(s, x) \in Seq(S)
         /\ Range(Append(s, x)) = Range(s) \union {x}
         /\ \A y : Once(y, s) /\ (y # x \/ y \notin Range(s)) => Once(y, Append(s, x))
  <1> DEFINE t == Append(s, x)
  <1>1. /\ t \in Seq(S) /\ DOMAIN s = 1..Len(s) /\ DOMAIN t = 1..(Len(s) + 1)
        /\ Len(s) \in Nat
        /\ \A i \in 1..Len(s) : t[i] = s[i]
        /\ t[Len(s) + 1] = x
    BY AppendProperties, LenProperties
  <1> HIDE DEF t
  <1>2. \A i \in DOMAIN t : (i \in DOMAIN s /\ t[i] = s[i]) \/ i = Len(s) + 1
    BY <1>1
  <1>3. Range(t) = Range(s) \union {x}
    BY <1>1, <1>2 DEF Range
  <1>4. ASSUME NEW y, Once(y, s), y # x \/ y \notin Range(s)
        PROVE  Once(y, t)
    BY <1>1, <1>2, <1>4 DEF Once, Range
  <1> QED
    BY <1>1, <1>3, <1>4 DEF t

(* What was received, and what a channel holds afterwards.                 *)
LEMMA Received ==
  ASSUME NEW S, NEW s \in Seq(S), s # <<>>
  PROVE  /\ Head(s) \in S /\ Tail(s) \in Seq(S)
         /\ Range(s) = Range(Tail(s)) \union {Head(s)}
         /\ \A y : Once(y, s) => /\ Once(y, Tail(s))
                                 /\ y = Head(s) => y \notin Range(Tail(s))
         /\ Len(Tail(s)) \in Nat /\ Len(s) = Len(Tail(s)) + 1 /\ Head(s) = s[1]
         /\ \A i \in 1..Len(Tail(s)) : Tail(s)[i] = s[i + 1]
  <1> DEFINE t == Tail(s)
             h == Head(s)
  <1>1. /\ h \in S /\ t \in Seq(S) /\ Len(s) \in Nat /\ Len(t) \in Nat
        /\ Len(s) = Len(t) + 1
        /\ DOMAIN s = 1..Len(s) /\ DOMAIN t = 1..Len(t)
        /\ \A i \in 1..Len(t) : t[i] = s[i + 1]
        /\ h = s[1]
    BY HeadTailProperties, LenProperties, EmptySeq
  <1> HIDE DEF t, h
  <1>2. /\ \A i \in DOMAIN t : i + 1 \in DOMAIN s /\ i + 1 # 1 /\ t[i] = s[i + 1]
        /\ \A i, j \in DOMAIN t : i + 1 = j + 1 => i = j
        /\ 1 \in DOMAIN s /\ h = s[1]
    BY <1>1
  <1>3. ASSUME NEW i \in DOMAIN s, i # 1
        PROVE  i - 1 \in DOMAIN t /\ t[i - 1] = s[i]
    <2>1. i - 1 \in 1..Len(t) /\ (i - 1) + 1 = i
      BY <1>1, <1>3
    <2> QED
      BY <1>1, <2>1
  <1>4. Range(s) = Range(t) \union {h}
    <2>1. Range(t) \union {h} \subseteq Range(s)
      BY <1>2 DEF Range
    <2>2. ASSUME NEW i \in DOMAIN s PROVE s[i] \in Range(t) \union {h}
      BY <1>2, <1>3 DEF Range
    <2> QED
      BY <2>1, <2>2 DEF Range
  <1>5. ASSUME NEW y, Once(y, s) PROVE Once(y, t) /\ (y = h => y \notin Range(t))
    BY <1>2, <1>5 DEF Once, Range
  <1> QED
    BY <1>1, <1>4, <1>5 DEF t, h

-----------------------------------------------------------------------------
(* Types.                                                                  *)

(* Every frame but shutdown names an execute.                              *)
Addressed(f) == f.kind \in {"execute", "interrupt", "host_reply"} => f.id \in Execs

TypeInv ==
  /\ TypeOK
  /\ \A f \in Range(send) : Addressed(f)
  /\ Addressed(hand)

(* What an event leaves in the pending, or in the history.                 *)
LEMMA NoteType ==
  ASSUME NEW n \in Notes, NEW kind
  PROVE  Note(n, kind) \in Notes
  <1>1. [n EXCEPT !.text = @ + 1] \in Notes
    <2>1. n.text + 1 \in Nat
      BY DEF Notes
    <2> QED
      BY <2>1, Zenon DEF Notes
  <1>2. [n EXCEPT !.err = TRUE] \in Notes
    BY DEF Notes
  <1>3. Note(n, kind) \in {[n EXCEPT !.text = @ + 1], [n EXCEPT !.err = TRUE], n}
    BY DEF Note
  <1> QED
    BY <1>1, <1>2, <1>3

(* The kernel notes what it emits.                                         *)
LEMMA EmitsType ==
  ASSUME TypeInv, NEW e \in Execs, NEW kind \in EventKinds, Emits(kind, e)
  PROVE  /\ out' \in Seq(Events) /\ emitted' \in [Execs -> Notes]
         /\ Frame(kind, e) \in Events
  <1>1. Frame(kind, e) \in Events
    BY DEF Frame, Events
  <1>2. out' \in Seq(Events)
    BY <1>1, Sent DEF Emits, TypeInv, TypeOK
  <1>3. emitted' \in [Execs -> Notes]
    BY NoteType DEF Emits, TypeInv, TypeOK
  <1> QED
    BY <1>1, <1>2, <1>3

(* Sending appends the frame to the channel.                               *)
LEMMA SendsType ==
  ASSUME TypeInv, NEW f \in Requests, Addressed(f), Sends(f)
  PROVE  /\ send' \in Seq(Requests) /\ Range(send') = Range(send) \union {f}
         /\ \A g \in Range(send') : Addressed(g)
  <1>1. send' \in Seq(Requests) /\ Range(send') = Range(send) \union {f}
    BY Sent DEF Sends, TypeInv, TypeOK
  <1> QED
    BY <1>1 DEF TypeInv

(* The kernel refuses an execute with an error and a done event.           *)
LEMMA Refused ==
  ASSUME TypeInv, KernelRefuses
  PROVE  /\ hand.id \in Execs /\ hand = Frame("execute", hand.id)
         /\ Range(out') = Range(out) \union {Frame("error", hand.id), Frame("done", hand.id)}
  <1> DEFINE f == Frame("error", hand.id)
             g == Frame("done", hand.id)
             t == <<f, g>>
  <1>0. hand.id \in Execs /\ hand = Frame("execute", hand.id) /\ out \in Seq(Events)
    BY DEF KernelRefuses, KernelReads, TypeInv, TypeOK, Addressed, Requests, Frame, NoFrame
  <1>1. f \in Events /\ g \in Events /\ out' = out \o t
    BY <1>0 DEF KernelRefuses, Frame, Events, EventKinds
  <1> HIDE DEF f, g
  <1>2. t \in Seq(Events) /\ DOMAIN t = {1, 2} /\ t[1] = f /\ t[2] = g
    BY <1>1
  <1> HIDE DEF t
  <1>3. Range(t) = {f, g}
    BY <1>2 DEF Range
  <1>4. Range(out') = Range(out) \union Range(t)
    BY <1>0, <1>1, <1>2, RangeConcatenation
  <1> QED
    BY <1>0, <1>3, <1>4 DEF f, g

(* The variables keep their types.                                         *)
LEMMA TypeStep == TypeInv /\ [Next]_vars => TypeInv'
  <1> SUFFICES ASSUME TypeInv, [Next]_vars PROVE TypeInv'
    OBVIOUS
  <1> USE DEF TypeInv, Addressed
  <1>1. ASSUME NEW e \in Execs, Execute(e) PROVE TypeInv'
    <2>1. /\ pc' \in [Execs -> Pcs]
          /\ UNCHANGED <<ctxDone, shutPc, hand, line, readerVars, kernelVars, out>>
      BY <1>1 DEF Execute, ExecRegister, ExecAcked, ExecSend, ExecSeesCancel,
                  ExecInterrupt, ExecReturn, ExecKeeps, Goes, TypeOK, Pcs
    <2>2. reg' \in Seq(Execs)
      <3>1. CASE ExecRegister(e)
        BY <3>1, Sent DEF ExecRegister, TypeOK
      <3>2. CASE UNCHANGED reg
        BY <3>2 DEF TypeOK
      <3> QED
        BY <1>1, <3>1, <3>2
           DEF Execute, ExecAcked, ExecSend, ExecSeesCancel, ExecInterrupt, ExecReturn
    <2>3. send' \in Seq(Requests) /\ \A g \in Range(send') : Addressed(g)
      <3>1. CASE ExecSend(e)
        BY <3>1, SendsType DEF ExecSend, Frame, Requests
      <3>2. CASE ExecInterrupt(e)
        BY <3>2, SendsType DEF ExecInterrupt, Frame, Requests
      <3>3. CASE UNCHANGED send
        BY <3>3 DEF TypeOK
      <3> QED
        BY <1>1, <3>1, <3>2, <3>3
           DEF Execute, ExecRegister, ExecAcked, ExecSeesCancel, ExecReturn
    <2> QED
      BY <2>1, <2>2, <2>3 DEF TypeOK, readerVars, kernelVars
  <1>2. CASE (\E e \in Execs : CtxEnds(e)) \/ ShutdownCancel
    BY <1>2 DEF CtxEnds, ShutdownCancel, TypeOK, hostVars, readerVars, kernelVars
  <1>3. CASE ShutdownSend
    <2>1. Frame("shutdown", NoExec) \in Requests /\ Addressed(Frame("shutdown", NoExec))
      BY DEF Frame, Requests
    <2> QED
      BY <1>3, <2>1, SendsType DEF ShutdownSend, TypeOK, readerVars, kernelVars
  <1>4. CASE WriterTakes
    <2>1. /\ Head(send) \in Requests /\ Tail(send) \in Seq(Requests)
          /\ Range(send) = Range(Tail(send)) \union {Head(send)}
      BY <1>4, Received DEF WriterTakes, TypeOK
    <2> QED
      BY <1>4, <2>1 DEF WriterTakes, TypeOK, hostVars, readerVars, kernelVars
  <1>5. CASE PumpScans
    <2>1. Head(out) \in Events /\ Tail(out) \in Seq(Events)
      BY <1>5, Received DEF PumpScans, TypeOK
    <2> QED
      BY <1>5, <2>1 DEF PumpScans, TypeOK, hostVars, readerVars, kernelVars
  <1>6. CASE ReaderRegisters
    <2>1. Head(reg) \in Execs /\ Tail(reg) \in Seq(Execs)
      BY <1>6, Received DEF ReaderRegisters, TypeOK
    <2> QED
      BY <1>6, <2>1 DEF ReaderRegisters, TypeOK, hostVars, kernelVars
  <1>7. CASE ReaderNotes
    <2>1. got' \in [Execs -> Notes]
      BY <1>7, NoteType DEF ReaderNotes, TypeOK
    <2> QED
      BY <1>7, <2>1 DEF ReaderNotes, ReaderTakes, TypeOK, hostVars, kernelVars
  <1>8. CASE ReaderEnds
    BY <1>8 DEF ReaderEnds, ReaderTakes, TypeOK, hostVars, kernelVars
  <1>9. CASE ReaderServes
    BY <1>9 DEF ReaderServes, ReaderTakes, TypeOK, hostVars, kernelVars, Events, NoFrame,
                Frame
  <1>10. CASE ReaderReplies
    <2>1. /\ Frame("host_reply", replyTo) \in Requests
          /\ Addressed(Frame("host_reply", replyTo))
      BY <1>10 DEF ReaderReplies, Frame, Requests, TypeOK
    <2> QED
      BY <1>10, <2>1, SendsType
         DEF ReaderReplies, ReplyKeeps, TypeOK, hostVars, kernelVars
  <1>11. CASE KernelAccepts
    <2>1. hand.id \in Execs /\ backlog' \in Seq(Execs)
      BY <1>11, Sent DEF KernelAccepts, KernelReads, TypeOK
    <2> QED
      BY <1>11, <2>1 DEF KernelAccepts, KernelReads, TypeOK, hostVars, readerVars,
                         NoFrame, Frame
  <1>12. CASE KernelRefuses
    <2>1. hand.id \in Execs
      BY <1>12 DEF KernelRefuses, KernelReads
    <2>2. <<Frame("error", hand.id), Frame("done", hand.id)>> \in Seq(Events)
      BY <2>1 DEF Frame, Events, EventKinds
    <2>3. out' \in Seq(Events)
      BY <1>12, <2>2, ConcatProperties DEF KernelRefuses, TypeOK
    <2>4. emitted' \in [Execs -> Notes]
      BY <1>12, <2>1, NoteType DEF KernelRefuses, TypeOK
    <2> QED
      BY <1>12, <2>3, <2>4 DEF KernelRefuses, KernelReads, TypeOK, hostVars, readerVars,
                               NoFrame, Frame
  <1>13. CASE KernelInterrupted \/ KernelReplied \/ KernelDrains
    <2>1. /\ hand' = NoFrame
          /\ UNCHANGED <<hostVars, send, reg, line, readerVars, running, asked, looping,
                         ended, backlog, emitted, out>>
      BY <1>13 DEF KernelInterrupted, KernelReplied, KernelDrains, KernelReads
    <2>2. replied' \in SUBSET Execs /\ cancelled' \in SUBSET Execs /\ draining' \in BOOLEAN
      BY <1>13 DEF KernelInterrupted, KernelReplied, KernelDrains, KernelReads, TypeOK
    <2> QED
      BY <2>1, <2>2 DEF TypeOK, hostVars, readerVars, NoFrame, Frame
  <1>14. CASE KernelStops
    BY <1>14, EmptySeq DEF KernelStops, TypeOK, hostVars, readerVars
  <1>15. CASE KernelStarts
    <2>1. Head(backlog) \in Execs /\ Tail(backlog) \in Seq(Execs)
      BY <1>15, Received DEF KernelStarts, TypeOK
    <2> QED
      BY <1>15, <2>1 DEF KernelStarts, TypeOK, hostVars, readerVars
  <1>16. ASSUME NEW e \in Execs,
                CellPrints(e) \/ CellRuns(e)
         PROVE  TypeInv'
    <2>1. out' \in Seq(Events) /\ emitted' \in [Execs -> Notes]
      BY <1>16, EmitsType DEF CellPrints, CellRuns, CellAsks, CellFails, CellEnds, EventKinds
    <2>2. /\ running' \in Execs \union {NoExec} /\ asked' \in SUBSET Execs
          /\ ended' \in SUBSET Execs /\ UNCHANGED looping
          /\ CellKeeps
      BY <1>16 DEF CellPrints, CellRuns, CellAsks, CellFails, CellEnds, TypeOK
    <2> QED
      BY <2>1, <2>2 DEF CellKeeps, TypeOK, hostVars, readerVars
  <1>17. CASE (\E e \in Execs : CellLoops(e)) \/ UNCHANGED vars
    BY <1>17 DEF CellLoops, CellKeeps, vars, TypeOK, hostVars, readerVars, kernelVars
  <1> QED
    BY <1>1, <1>2, <1>3, <1>4, <1>5, <1>6, <1>7, <1>8, <1>9, <1>10, <1>11, <1>12,
       <1>13, <1>14, <1>15, <1>16, <1>17 DEF Next, Reader, KernelReader

-----------------------------------------------------------------------------
(* Where an execute is.                                                    *)

(* Its request waits for the writer, is with the kernel's reader, queued.  *)
Sending(e) == Frame("execute", e) \in Range(send)
Handed(e)  == hand = Frame("execute", e)
Queued(e)  == e \in Range(backlog)

(* Its done event is out, or was handled.                                  *)
Ended(e)   == \/ Frame("done", e) \in Range(out)
              \/ line = Frame("done", e)
              \/ e \in closed

(* The kernel has it or has spoken of it.                                  *)
Begun(e)   == \/ Sending(e) \/ Handed(e) \/ Queued(e) \/ running = e \/ Ended(e)
              \/ line.id = e \/ \E f \in Range(out) : f.id = e

(* An execute is requested once and is in one place at a time.  Once its   *)
(* cell has ended the kernel has said so, whatever its goroutines add.     *)
OnePlace(e) ==
  /\ Once(Frame("execute", e), send) /\ Once(e, backlog)
  /\ Sending(e) => ~Handed(e) /\ ~Queued(e) /\ running # e /\ ~Ended(e)
  /\ Handed(e)  => ~Queued(e) /\ running # e /\ ~Ended(e)
  /\ Queued(e)  => running # e /\ ~Ended(e)
  /\ running = e => ~Ended(e)
  /\ e \in ended => Ended(e)

(* It is pending before it is requested and until its done event.          *)
Registered(e) ==
  /\ Once(e, reg)
  /\ e \in Range(reg) => pc[e] = "ack" /\ e \notin acked
  /\ e \in acked => pc[e] # "idle"
  /\ pc[e] = "ack" /\ e \in acked => e \in pendings
  /\ pc[e] = "send" => e \in pendings
  /\ Begun(e) => e \in pendings \union closed /\ pc[e] \notin {"idle", "ack", "send"}
  /\ e \in closed => e \notin pendings
  /\ pc[e] = "returned" => e \in closed

PlaceInv(e) == OnePlace(e) /\ Registered(e)

(* A step keeps each execute in one place.                                 *)
LEMMA PlaceStep ==
  ASSUME TypeInv, [Next]_vars, NEW e \in Execs, PlaceInv(e)
  PROVE  PlaceInv(e)'
  <1> USE DEF PlaceInv, OnePlace, Registered, Begun, Ended, Sending, Handed, Queued
  <1>0. /\ send \in Seq(Requests) /\ reg \in Seq(Execs) /\ out \in Seq(Events)
        /\ backlog \in Seq(Execs) /\ pc \in [Execs -> Pcs]
        /\ NoExec \notin Execs
    BY KernelHostAssumption DEF TypeInv, TypeOK
  <1>1. ASSUME NEW x \in Execs, Execute(x) PROVE PlaceInv(e)'
    <2>1. UNCHANGED <<ctxDone, shutPc, hand, line, readerVars, kernelVars, out>>
      BY <1>1 DEF Execute, ExecRegister, ExecAcked, ExecSend, ExecSeesCancel,
                  ExecInterrupt, ExecReturn, ExecKeeps
    <2>2. CASE ExecRegister(x)
      <3>1. /\ Range(reg') = Range(reg) \union {x} /\ UNCHANGED send
            /\ (e # x \/ e \notin Range(reg)) => Once(e, reg')
        BY <1>0, <2>2, Sent DEF ExecRegister
      <3> QED
        BY <1>0, <2>1, <2>2, <3>1 DEF ExecRegister, Goes, readerVars, kernelVars
    <2>3. CASE ExecSend(x)
      <3>1. /\ Range(send') = Range(send) \union {Frame("execute", x)} /\ UNCHANGED reg
            /\ e # x \/ ~Sending(e) => Once(Frame("execute", e), send')
        <4>1. Frame("execute", x) \in Requests /\ send' = Append(send, Frame("execute", x))
          BY <2>3 DEF ExecSend, Sends, Frame, Requests
        <4>2. Frame("execute", x) # Frame("execute", e) \/ x = e
          BY DEF Frame
        <4>3. UNCHANGED reg
          BY <2>3 DEF ExecSend
        <4> QED
          BY <1>0, <4>1, <4>2, <4>3, Sent
      <3>2. Frame("execute", x) = Frame("execute", e) => x = e
        BY DEF Frame
      <3> QED
        BY <1>0, <2>1, <2>3, <3>1, <3>2 DEF ExecSend, Goes, readerVars, kernelVars
    <2>4. CASE ExecInterrupt(x)
      <3>1. /\ Range(send') = Range(send) \union {Frame("interrupt", x)} /\ UNCHANGED reg
            /\ Once(Frame("execute", e), send')
        <4>1. Frame("interrupt", x) \in Requests /\ send' = Append(send, Frame("interrupt", x))
          BY <2>4 DEF ExecInterrupt, Sends, Frame, Requests
        <4>2. Frame("interrupt", x) # Frame("execute", e)
          BY DEF Frame
        <4>3. UNCHANGED reg
          BY <2>4 DEF ExecInterrupt
        <4> QED
          BY <1>0, <4>1, <4>2, <4>3, Sent
      <3>2. Frame("interrupt", x) # Frame("execute", e)
        BY DEF Frame
      <3> QED
        BY <1>0, <2>1, <2>4, <3>1, <3>2 DEF ExecInterrupt, Goes, readerVars, kernelVars
    <2>5. CASE ExecAcked(x) \/ ExecSeesCancel(x) \/ ExecReturn(x)
      BY <1>0, <2>1, <2>5 DEF ExecAcked, ExecSeesCancel, ExecReturn, Goes, readerVars,
                              kernelVars
    <2> QED
      BY <1>1, <2>2, <2>3, <2>4, <2>5 DEF Execute
  <1>2. CASE \/ \E x \in Execs : CtxEnds(x) \/ CellLoops(x)
             \/ ShutdownCancel \/ UNCHANGED vars
    BY <1>2 DEF CtxEnds, CellLoops, CellKeeps, ShutdownCancel, vars, hostVars, readerVars,
                kernelVars
  <1>3. ASSUME NEW f \in Requests, f.kind # "execute", Sends(f),
               UNCHANGED <<pc, reg, hand, line, pendings, acked, closed, kernelVars, out>>
        PROVE  PlaceInv(e)'
    <2>1. f # Frame("execute", e)
      BY <1>3 DEF Frame
    <2>2. Range(send') = Range(send) \union {f} /\ Once(Frame("execute", e), send')
      BY <1>0, <1>3, <2>1, Sent DEF Sends
    <2> QED
      BY <1>3, <2>1, <2>2 DEF kernelVars
  <1>4. CASE ShutdownSend
    BY <1>3, <1>4 DEF ShutdownSend, Frame, Requests, readerVars
  <1>5. CASE ReaderReplies
    BY <1>3, <1>5 DEF ReaderReplies, ReplyKeeps, Frame, Requests, TypeInv, TypeOK, hostVars
  <1>6. CASE WriterTakes
    <2>1. /\ Range(send) = Range(send') \union {hand'}
          /\ Once(Frame("execute", e), send')
          /\ hand' = Frame("execute", e) => ~Sending(e)'
      BY <1>0, <1>6, Received DEF WriterTakes
    <2> QED
      BY <1>6, <2>1 DEF WriterTakes, hostVars, readerVars, kernelVars
  <1>7. CASE PumpScans
    <2>1. Range(out) = Range(out') \union {line'}
      BY <1>0, <1>7, Received DEF PumpScans
    <2>2. line.id # e
      BY <1>0, <1>7 DEF PumpScans, NoFrame, Frame
    <2> QED
      BY <1>7, <2>1, <2>2 DEF PumpScans, hostVars, readerVars, kernelVars, NoFrame, Frame
  <1>8. CASE ReaderRegisters
    <2>1. /\ Range(reg) = Range(reg') \union {Head(reg)} /\ Once(e, reg')
          /\ e = Head(reg) => e \notin Range(reg')
      BY <1>0, <1>8, Received DEF ReaderRegisters
    <2> QED
      BY <1>8, <2>1 DEF ReaderRegisters, hostVars, kernelVars
  <1>9. CASE ReaderNotes \/ ReaderEnds \/ ReaderServes
    <2>1. line'.id # e /\ line' # Frame("done", e)
      BY <1>0, <1>9 DEF ReaderNotes, ReaderEnds, ReaderServes, ReaderTakes, NoFrame, Frame
    <2>2. UNCHANGED <<hostVars, send, reg, hand, acked, kernelVars, out>>
      BY <1>9 DEF ReaderNotes, ReaderEnds, ReaderServes, ReaderTakes
    <2>3. CASE ReaderNotes \/ ReaderServes
      <3>1. line # Frame("done", e) /\ UNCHANGED <<pendings, closed>>
        BY <2>3 DEF ReaderNotes, ReaderServes, ReaderTakes, Frame
      <3> QED
        BY <2>1, <2>2, <3>1 DEF hostVars, kernelVars
    <2>4. CASE ReaderEnds
      <3>1. line = Frame("done", line.id) /\ line.id \in Execs
        BY <2>4 DEF ReaderEnds, ReaderTakes, TypeInv, TypeOK, Events, Frame, NoFrame
      <3>2. CASE line.id = e
        BY <2>1, <2>2, <2>4, <3>1, <3>2 DEF ReaderEnds, hostVars, kernelVars
      <3>3. CASE line.id # e
        <4>1. line # Frame("done", e)
          BY <3>3 DEF Frame
        <4>2. (e \in pendings' <=> e \in pendings) /\ (e \in closed' <=> e \in closed)
          BY <2>4, <3>3 DEF ReaderEnds
        <4> QED
          BY <2>1, <2>2, <3>3, <4>1, <4>2 DEF hostVars, kernelVars
      <3> QED
        BY <3>2, <3>3
    <2> QED
      BY <1>9, <2>3, <2>4
  <1>10. ASSUME KernelReader PROVE /\ ~Handed(e)' /\ hand' = NoFrame
                                   /\ UNCHANGED <<hostVars, send, reg, line, readerVars,
                                                  running, ended>>
    BY <1>10 DEF KernelReader, KernelAccepts, KernelRefuses, KernelInterrupted,
                 KernelReplied, KernelDrains, KernelReads, NoFrame, Frame
  <1>11. CASE KernelAccepts
    <2>1. hand = Frame("execute", hand.id) /\ hand.id \in Execs
      BY <1>11 DEF KernelAccepts, KernelReads, TypeInv, TypeOK, Addressed, Requests, Frame,
                   NoFrame
    <2>2. /\ Range(backlog') = Range(backlog) \union {hand.id}
          /\ e # hand.id \/ ~Queued(e) => Once(e, backlog')
      BY <1>0, <1>11, <2>1, Sent DEF KernelAccepts
    <2> QED
      BY <1>10, <1>11, <2>1, <2>2 DEF KernelReader, KernelAccepts, hostVars, readerVars
  <1>12. CASE KernelRefuses
    <2>1. /\ hand = Frame("execute", hand.id) /\ hand.id \in Execs
          /\ Range(out') = Range(out) \union {Frame("error", hand.id), Frame("done", hand.id)}
      BY <1>12, Refused
    <2>2. \A x : /\ Frame("error", x).id = x /\ Frame("done", x).id = x
                 /\ Frame("error", x) # Frame("done", e)
                 /\ Frame("done", x) = Frame("done", e) => x = e
      BY DEF Frame
    <2> QED
      BY <1>10, <1>12, <2>1, <2>2 DEF KernelReader, KernelRefuses, hostVars, readerVars
  <1>13. CASE KernelInterrupted \/ KernelReplied \/ KernelDrains
    BY <1>10, <1>13 DEF KernelReader, KernelInterrupted, KernelReplied, KernelDrains,
                        hostVars, readerVars
  <1>14. CASE KernelStops
    <2>1. Range(backlog') = {} /\ Once(e, backlog')
      BY <1>14 DEF KernelStops, Range, Once
    <2> QED
      BY <1>14, <2>1 DEF KernelStops, hostVars, readerVars
  <1>15. CASE KernelStarts
    <2>1. /\ Range(backlog) = Range(backlog') \union {running'} /\ Once(e, backlog')
          /\ e = running' => e \notin Range(backlog')
      BY <1>0, <1>15, Received DEF KernelStarts
    <2> QED
      BY <1>0, <1>15, <2>1 DEF KernelStarts, hostVars, readerVars
  <1>16. ASSUME NEW x \in Execs, CellPrints(x) \/ CellRuns(x) PROVE PlaceInv(e)'
    <2>1. \E kind \in EventKinds :
            /\ out' = Append(out, Frame(kind, x)) /\ Frame(kind, x) \in Events
            /\ kind = "done" => running = x /\ running' = NoExec
            /\ ended' = IF kind = "done" THEN ended \union {x} ELSE ended
      BY <1>16 DEF CellPrints, CellRuns, CellAsks, CellFails, CellEnds, Emits, EventKinds,
                   Frame, Events
    <2>2. PICK kind \in EventKinds :
            /\ Range(out') = Range(out) \union {Frame(kind, x)}
            /\ kind = "done" => running = x /\ running' = NoExec
            /\ ended' = IF kind = "done" THEN ended \union {x} ELSE ended
      BY <1>0, <2>1, Sent
    <2>3. (running = x \/ x \in ended) /\ running' \in {running, NoExec} /\ CellKeeps
      BY <1>16 DEF CellPrints, CellRuns, CellAsks, CellFails, CellEnds
    <2>4. /\ Frame(kind, x).id = x
          /\ Frame(kind, x) = Frame("done", e) <=> (x = e /\ kind = "done")
      BY DEF Frame
    <2> QED
      BY <1>0, <2>2, <2>3, <2>4 DEF CellKeeps, hostVars, readerVars
  <1> QED
    BY <1>1, <1>2, <1>4, <1>5, <1>6, <1>7, <1>8, <1>9, <1>11, <1>12, <1>13, <1>14,
       <1>15, <1>16 DEF Next, Reader, KernelReader

-----------------------------------------------------------------------------
(* What Execute has been told of its cell.                                 *)

(* The notes on execute e after one more event.                            *)
Heard(n, f, e) == IF f.id = e THEN Note(n, f.kind) ELSE n

(* Notes a become notes b by the events of s, one by one, up to the done   *)
(* event, if there is one.  What comes behind it does not count.           *)
Tally(a, s, b, e) ==
  LET done == Frame("done", e) IN
  \E h \in [0..Len(s) -> Notes] :
    /\ h[0] = a /\ (done \in Range(s) \/ h[Len(s)] = b)
    /\ \A i \in 1..Len(s) : /\ \/ \E j \in 1..(i - 1) : s[j] = done
                               \/ h[i] = Heard(h[i - 1], s[i], e)
                            /\ s[i] = done => h[i] = b

(* The notes keep their type.                                              *)
LEMMA HeardType ==
  ASSUME NEW n \in Notes, NEW f, NEW e
  PROVE  Heard(n, f, e) \in Notes /\ (f.kind = "done" => Heard(n, f, e) = n)
  BY NoteType DEF Heard, Note

(* The kernel emits one more event: it counts unless done is out.         *)
LEMMA TallyEmits ==
  ASSUME NEW s \in Seq(Events), NEW f \in Events, NEW e \in Execs, NEW a \in Notes,
         NEW b \in Notes, NEW c \in Notes, Tally(a, s, b, e),
         c = IF Frame("done", e) \in Range(s) THEN b ELSE Heard(b, f, e)
  PROVE  Tally(a, Append(s, f), c, e)
  <1> DEFINE t == Append(s, f)
             d == Frame("done", e)
  <1>0. d.kind = "done" /\ d.id = e
    BY DEF Frame
  <1>1. PICK h \in [0..Len(s) -> Notes] :
          /\ h[0] = a /\ (d \in Range(s) \/ h[Len(s)] = b)
          /\ \A i \in 1..Len(s) : /\ \/ \E j \in 1..(i - 1) : s[j] = d
                                     \/ h[i] = Heard(h[i - 1], s[i], e)
                                  /\ s[i] = d => h[i] = b
    BY DEF Tally
  <1>2. /\ Len(s) \in Nat /\ Len(t) = Len(s) + 1 /\ t[Len(s) + 1] = f
        /\ DOMAIN s = 1..Len(s)
        /\ \A i \in 1..Len(s) : t[i] = s[i]
        /\ Range(t) = Range(s) \union {f}
    BY Sent, AppendProperties, LenProperties
  <1>3. c = IF d \in Range(s) THEN b ELSE Heard(b, f, e)
    OBVIOUS
  <1> HIDE DEF t, d
  <1>4. ASSUME NEW i \in 1..Len(s), s[i] = d PROVE c = b
    BY <1>2, <1>3, <1>4 DEF Range
  <1>5. f = d => c = b
    BY <1>0, <1>3, HeardType
  <1> DEFINE g == [i \in 0..Len(t) |-> IF i = Len(t) THEN c ELSE h[i]]
  <1>6. g \in [0..Len(t) -> Notes] /\ g[0] = a /\ g[Len(t)] = c
    BY <1>1, <1>2
  <1>7. ASSUME NEW i \in 1..Len(t)
        PROVE  /\ \/ \E j \in 1..(i - 1) : t[j] = d
                  \/ g[i] = Heard(g[i - 1], t[i], e)
               /\ t[i] = d => g[i] = c
    <2>1. CASE i = Len(t)
      <3>1. i = Len(s) + 1 /\ Len(s) \in Nat /\ Len(t) = Len(s) + 1
        BY <1>2, <2>1
      <3>2. i - 1 = Len(s) /\ i \in 0..Len(t) /\ i - 1 \in 0..Len(t) /\ i - 1 # Len(t)
        BY ONLY <3>1
      <3>3. t[i] = f
        BY <1>2, <3>1
      <3>4. g[i] = c /\ g[i - 1] = h[i - 1]
        BY <2>1, <3>2
      <3>5. CASE d \in Range(s)
        <4>1. PICK j \in 1..Len(s) : s[j] = d
          BY <1>2, <3>5 DEF Range
        <4>2. j \in 1..(i - 1) /\ t[j] = d
          BY <1>2, <3>2, <4>1
        <4> QED
          BY <3>4, <4>2
      <3>6. CASE d \notin Range(s)
        BY <1>1, <1>3, <3>2, <3>4, <3>6, <3>3
      <3> QED
        BY <3>5, <3>6
    <2>2. CASE i # Len(t)
      <3>1. i \in 1..Len(s) /\ g[i] = h[i] /\ g[i - 1] = h[i - 1] /\ t[i] = s[i]
        BY <1>2, <2>2
      <3>2. ASSUME NEW j \in 1..(i - 1), s[j] = d PROVE t[j] = d
        BY <1>2, <3>1, <3>2
      <3> QED
        BY <1>1, <1>4, <3>1, <3>2
    <2> QED
      BY <2>1, <2>2
  <1> HIDE DEF g
  <1> QED
    BY <1>6, <1>7 DEF Tally, t, d

(* The pump takes the first event.                                         *)
LEMMA TallyScans ==
  ASSUME NEW s \in Seq(Events), s # <<>>, NEW e \in Execs, NEW a \in Notes,
         NEW b \in Notes, Tally(a, s, b, e)
  PROVE  IF Head(s) = Frame("done", e) THEN a = b
         ELSE Tally(Heard(a, Head(s), e), Tail(s), b, e)
  <1> DEFINE t == Tail(s)
             d == Frame("done", e)
  <1>0. d.kind = "done" /\ d.id = e
    BY DEF Frame
  <1>1. PICK h \in [0..Len(s) -> Notes] :
          /\ h[0] = a /\ (d \in Range(s) \/ h[Len(s)] = b)
          /\ \A i \in 1..Len(s) : /\ \/ \E j \in 1..(i - 1) : s[j] = d
                                     \/ h[i] = Heard(h[i - 1], s[i], e)
                                  /\ s[i] = d => h[i] = b
    BY DEF Tally
  <1>2. /\ Len(t) \in Nat /\ Len(s) = Len(t) + 1 /\ Head(s) = s[1]
        /\ \A i \in 1..Len(t) : t[i] = s[i + 1]
        /\ Range(s) = Range(t) \union {Head(s)}
    BY Received
  <1> HIDE DEF t, d
  <1>3. h[1] = Heard(a, Head(s), e) /\ (Head(s) = d => h[1] = b)
    <2>1. 1 \in 1..Len(s) /\ 1 - 1 = 0 /\ 1..0 = {}
      BY <1>2
    <2> QED
      BY <1>1, <1>2, <2>1
  <1>4. CASE Head(s) = d
    BY <1>0, <1>3, <1>4, HeardType DEF d
  <1>5. CASE Head(s) # d
    <2> DEFINE g == [i \in 0..Len(t) |-> h[i + 1]]
    <2>1. g \in [0..Len(t) -> Notes] /\ g[0] = h[1] /\ g[Len(t)] = h[Len(s)]
      BY <1>1, <1>2
    <2>2. d \in Range(t) \/ g[Len(t)] = b
      BY <1>1, <1>2, <1>5, <2>1
    <2>3. ASSUME NEW i \in 1..Len(t)
          PROVE  /\ \/ \E j \in 1..(i - 1) : t[j] = d
                    \/ g[i] = Heard(g[i - 1], t[i], e)
                 /\ t[i] = d => g[i] = b
      <3>1. /\ i + 1 \in 1..Len(s) /\ (i + 1) - 1 = i
            /\ g[i] = h[i + 1] /\ g[i - 1] = h[i] /\ t[i] = s[i + 1]
        BY <1>2
      <3>2. ASSUME NEW j \in 1..i, s[j] = d
            PROVE  j - 1 \in 1..(i - 1) /\ t[j - 1] = d
        <4>1. j # 1
          BY <1>2, <1>5, <3>2
        <4>2. j - 1 \in 1..(i - 1) /\ j - 1 \in 1..Len(t) /\ (j - 1) + 1 = j
          BY <1>2, <4>1
        <4> QED
          BY <1>2, <3>2, <4>2
      <3> QED
        BY <1>1, <3>1, <3>2
    <2> HIDE DEF g
    <2>4. Tally(h[1], t, b, e)
      BY <2>1, <2>2, <2>3 DEF Tally, d
    <2> QED
      BY <1>3, <1>5, <2>4 DEF t, d
  <1> QED
    BY <1>4, <1>5 DEF d

(* Until its done event comes out, what Execute has noted and what is under*)
(* way make up what the kernel said, and then what it has noted does.      *)
Told(e) ==
  IF e \in closed \/ line = Frame("done", e)
  THEN got[e] = emitted[e]
  ELSE Tally(Heard(got[e], line, e), out, emitted[e], e)

(* A step keeps Execute informed.                                          *)
LEMMA ToldStep ==
  ASSUME TypeInv, [Next]_vars, NEW e \in Execs, PlaceInv(e), Told(e)
  PROVE  Told(e)'
  <1>0. /\ out \in Seq(Events) /\ got \in [Execs -> Notes] /\ emitted \in [Execs -> Notes]
        /\ NoExec \notin Execs /\ got[e] \in Notes /\ emitted[e] \in Notes
    BY KernelHostAssumption DEF TypeInv, TypeOK
  <1>1. ASSUME UNCHANGED <<closed, got, line, out, emitted>> PROVE Told(e)'
    BY <1>1 DEF Told
  <1>2. CASE \/ \E x \in Execs : Execute(x) \/ CtxEnds(x) \/ CellLoops(x)
             \/ ShutdownSend \/ ShutdownCancel \/ WriterTakes \/ ReaderRegisters
             \/ ReaderReplies \/ KernelAccepts \/ KernelInterrupted \/ KernelReplied
             \/ KernelDrains \/ KernelStops \/ KernelStarts \/ UNCHANGED vars
    BY <1>1, <1>2
       DEF Execute, ExecRegister, ExecAcked, ExecSend, ExecSeesCancel, ExecInterrupt,
           ExecReturn, ExecKeeps, CtxEnds, CellLoops, CellKeeps, ShutdownSend,
           ShutdownCancel, WriterTakes, ReaderRegisters, ReaderReplies, ReplyKeeps,
           KernelAccepts, KernelInterrupted, KernelReplied, KernelDrains, KernelReads,
           KernelStops, KernelStarts, vars, readerVars, kernelVars
  <1>3. CASE PumpScans
    <2>1. /\ out # <<>> /\ line.id # e /\ line # Frame("done", e)
          /\ line' = Head(out) /\ out' = Tail(out)
          /\ UNCHANGED <<closed, got, emitted>>
      BY <1>0, <1>3 DEF PumpScans, NoFrame, Frame, readerVars, kernelVars
    <2>2. Heard(got[e], line, e) = got[e]
      BY <2>1 DEF Heard
    <2>3. CASE e \in closed
      BY <2>1, <2>3 DEF Told
    <2>4. CASE e \notin closed
      BY <1>0, <2>1, <2>2, <2>4, TallyScans DEF Told
    <2> QED
      BY <2>3, <2>4
  <1>4. CASE ReaderNotes \/ ReaderEnds \/ ReaderServes
    <2>1. /\ line'.id # e /\ line' # Frame("done", e)
          /\ UNCHANGED <<out, emitted>>
      BY <1>0, <1>4
         DEF ReaderNotes, ReaderEnds, ReaderServes, ReaderTakes, NoFrame, Frame, kernelVars
    <2>2. Heard(got'[e], line', e) = got'[e]
      BY <2>1 DEF Heard
    <2>3. closed \subseteq closed' /\ (e \in closed' \ closed => line = Frame("done", e))
      BY <1>0, <1>4
         DEF ReaderNotes, ReaderEnds, ReaderServes, ReaderTakes, TypeInv, TypeOK, Events,
             Frame, NoFrame
    <2>4. CASE e \in closed
      <3>1. e \notin pendings
        BY <2>4 DEF PlaceInv, Registered
      <3>2. got'[e] = got[e]
        BY <1>0, <1>4, <3>1 DEF ReaderNotes, ReaderEnds, ReaderServes
      <3> QED
        BY <2>1, <2>3, <2>4, <3>2 DEF Told
    <2>5. CASE e \notin closed
      <3>1. line.id = e => e \in pendings
        BY <2>5 DEF PlaceInv, Registered, Begun
      <3>2. CASE line = Frame("done", e)
        <4>1. line.kind = "done" /\ line.id = e
          BY <3>2 DEF Frame
        <4>2. ReaderEnds
          BY <1>4, <4>1 DEF ReaderNotes, ReaderServes, ReaderTakes
        <4> QED
          BY <2>1, <3>1, <3>2, <4>1, <4>2 DEF ReaderEnds, Told
      <3>3. CASE line # Frame("done", e)
        <4>1. got'[e] = Heard(got[e], line, e)
          <5>1. CASE ReaderNotes
            BY <1>0, <3>1, <5>1 DEF ReaderNotes, Heard
          <5>2. CASE ReaderEnds
            BY <1>0, <5>2, HeardType DEF ReaderEnds, ReaderTakes
          <5>3. CASE ReaderServes
            BY <1>0, <5>3 DEF ReaderServes, ReaderTakes, Heard, Note
          <5> QED
            BY <1>4, <5>1, <5>2, <5>3
        <4> QED
          BY <2>1, <2>2, <2>3, <2>5, <3>3, <4>1 DEF Told
      <3> QED
        BY <3>2, <3>3
    <2> QED
      BY <2>4, <2>5
  <1>5. ASSUME NEW f \in Events, NEW b,
               b = IF f.id = e /\ Ended(e) THEN emitted[e] ELSE Heard(emitted[e], f, e)
        PROVE  LET t == Append(out, f)
               IN  /\ t \in Seq(Events) /\ b \in Notes
                   /\ IF e \in closed \/ line = Frame("done", e) THEN got[e] = b
                      ELSE Tally(Heard(got[e], line, e), t, b, e)
                   /\ Range(t) = Range(out) \union {f}
    <2>1. Heard(got[e], line, e) \in Notes /\ b \in Notes
      BY <1>0, <1>5, HeardType
    <2>2. CASE e \in closed \/ line = Frame("done", e)
      <3>1. got[e] = b
        BY <1>5, <2>2 DEF Told, Ended, Heard
      <3> QED
        BY <1>0, <2>1, <2>2, <3>1, Sent
    <2>3. CASE ~(e \in closed \/ line = Frame("done", e))
      <3>1. Tally(Heard(got[e], line, e), out, emitted[e], e)
        BY <2>3 DEF Told
      <3>2. b = IF Frame("done", e) \in Range(out) THEN emitted[e]
                                                   ELSE Heard(emitted[e], f, e)
        BY <1>5, <2>3 DEF Ended, Heard
      <3>3. Tally(Heard(got[e], line, e), Append(out, f), b, e)
        BY <1>0, <2>1, <3>1, <3>2, TallyEmits
      <3> QED
        BY <1>0, <2>1, <2>3, <3>3, Sent
    <2> QED
      BY <2>2, <2>3
  <1>6. ASSUME NEW x \in Execs, CellPrints(x) \/ CellRuns(x) PROVE Told(e)'
    <2>1. PICK kind \in EventKinds : Emits(kind, x)
      BY <1>6 DEF CellPrints, CellRuns, CellAsks, CellFails, CellEnds, EventKinds
    <2>2. (running = x \/ x \in ended) /\ UNCHANGED <<closed, got, line>>
      BY <1>6 DEF CellPrints, CellRuns, CellAsks, CellFails, CellEnds, CellKeeps, readerVars
    <2>3. /\ Frame(kind, x) \in Events /\ out' = Append(out, Frame(kind, x))
          /\ Frame(kind, x).id = x /\ Frame(kind, x).kind = kind
      BY <2>1 DEF Emits, Frame, Events
    <2>4. x = e => (x \in ended <=> Ended(e))
      BY <2>2 DEF PlaceInv, OnePlace
    <2>5. emitted'[e] = IF Frame(kind, x).id = e /\ Ended(e) THEN emitted[e]
                        ELSE Heard(emitted[e], Frame(kind, x), e)
      BY <1>0, <2>1, <2>3, <2>4 DEF Emits, Heard
    <2> QED
      BY <1>5, <2>2, <2>3, <2>5 DEF Told
  <1>7. CASE KernelRefuses
    <2> DEFINE x == hand.id
               f == Frame("error", x)
               g == Frame("done", x)
    <2>1. /\ x \in Execs /\ Handed(x)
          /\ out' = out \o <<f, g>>
          /\ emitted' = [emitted EXCEPT ![x] = Note(@, "error")]
          /\ UNCHANGED <<closed, got, line>>
      BY <1>7 DEF KernelRefuses, KernelReads, TypeInv, TypeOK, Addressed, Requests, Frame,
                  NoFrame, Handed, readerVars
    <2>2. /\ f \in Events /\ g \in Events /\ f.id = x /\ g.id = x
          /\ f.kind = "error" /\ g.kind = "done"
      BY <2>1 DEF Frame, Events, EventKinds
    <2>3. x = e => ~Ended(e)
      BY <2>1 DEF PlaceInv, OnePlace
    <2> HIDE DEF x, f, g
    <2>4. emitted'[e] = Heard(emitted[e], f, e)
      BY <1>0, <2>1, <2>2 DEF Heard
    <2> DEFINE t == Append(out, f)
               b == Heard(emitted[e], f, e)
               a == Heard(got[e], line, e)
    <2>5. b = IF f.id = e /\ Ended(e) THEN emitted[e] ELSE Heard(emitted[e], f, e)
      BY <2>2, <2>3
    <2>6. /\ t \in Seq(Events) /\ b \in Notes
          /\ IF e \in closed \/ line = Frame("done", e) THEN got[e] = b
             ELSE Tally(a, t, b, e)
      BY <1>5, <2>2, <2>5
    <2>7. out' = Append(t, g)
      BY <1>0, <2>1, <2>2, <2>6, AppendIsConcat, ConcatProperties
    <2>8. a \in Notes /\ Heard(b, g, e) = b
      BY <1>0, <2>2, <2>6, HeardType
    <2> HIDE DEF t, b, a
    <2>9. Tally(a, t, b, e) => Tally(a, out', b, e)
      BY <2>2, <2>6, <2>7, <2>8, TallyEmits
    <2> QED
      BY <2>1, <2>4, <2>6, <2>9 DEF Told, a, b
  <1> QED
    BY <1>2, <1>3, <1>4, <1>6, <1>7 DEF Next, Reader, KernelReader
-----------------------------------------------------------------------------
(* What an execute in flight waits for.                                    *)

(* A frame on its way to the kernel, an event on its way to the reader.    *)
Rides(f) == f \in Range(send) \/ hand = f
Comes(f) == f \in Range(out) \/ line = f

(* What an execute in flight waits for is somewhere: its acknowledgement,  *)
(* its request, the answer to its cell's question, its interrupt.          *)
AckKept(e) == pc[e] = "ack" => e \in Range(reg) \/ e \in acked
RequestKept(e) ==
  ~draining /\ pc[e] \in {"wait", "interrupt", "settle"} =>
    Sending(e) \/ Handed(e) \/ Queued(e) \/ running = e \/ Ended(e)
QuestionKept(e) ==
  e \in asked => \/ Comes(Frame("host_request", e)) \/ replyTo = e
                 \/ Rides(Frame("host_reply", e)) \/ e \in replied
InterruptKept(e) ==
  pc[e] = "settle" => Rides(Frame("interrupt", e)) \/ e \in cancelled

Kept(e) == AckKept(e) /\ RequestKept(e) /\ QuestionKept(e) /\ InterruptKept(e)

(* A frame rides on until the kernel's reader takes it.                    *)
LEMMA RidesOn ==
  ASSUME TypeInv, [Next]_vars, NEW f, f # NoFrame, Rides(f), ~Rides(f)'
  PROVE  hand = f /\ KernelReader
  <1>0. send \in Seq(Requests)
    BY DEF TypeInv, TypeOK
  <1>1. CASE UNCHANGED <<send, hand>>
    BY <1>1 DEF Rides
  <1>2. ASSUME NEW g \in Requests, Sends(g), UNCHANGED hand PROVE FALSE
    <2>1. Range(send') = Range(send) \union {g}
      BY <1>0, <1>2, Sent DEF Sends
    <2> QED
      BY <1>2, <2>1 DEF Rides
  <1>3. ASSUME NEW e \in Execs, Execute(e) PROVE FALSE
    <2>1. Frame("execute", e) \in Requests /\ Frame("interrupt", e) \in Requests
      BY DEF Frame, Requests
    <2> QED
      BY <1>1, <1>2, <1>3, <2>1
         DEF Execute, ExecRegister, ExecAcked, ExecSend, ExecSeesCancel, ExecInterrupt,
             ExecReturn, ExecKeeps, Rides
  <1>4. CASE ShutdownSend
    <2>1. Frame("shutdown", NoExec) \in Requests
      BY DEF Frame, Requests
    <2> QED
      BY <1>2, <1>4, <2>1 DEF ShutdownSend
  <1>5. CASE ReaderReplies
    <2>1. Frame("host_reply", replyTo) \in Requests
      BY DEF Frame, Requests, TypeInv, TypeOK
    <2> QED
      BY <1>2, <1>5, <2>1 DEF ReaderReplies, ReplyKeeps
  <1>6. CASE WriterTakes
    <2>1. Range(send) = Range(send') \union {hand'} /\ hand = NoFrame
      BY <1>0, <1>6, Received DEF WriterTakes
    <2> QED
      BY <2>1 DEF Rides
  <1>7. CASE KernelReader
    BY <1>7 DEF KernelReader, KernelAccepts, KernelRefuses, KernelInterrupted,
                KernelReplied, KernelDrains, KernelReads, Rides
  <1>8. CASE \/ \E e \in Execs : \/ CtxEnds(e) \/ CellPrints(e)
                                \/ CellLoops(e) \/ CellRuns(e)
             \/ ShutdownCancel \/ PumpScans \/ ReaderRegisters \/ ReaderNotes
             \/ ReaderEnds \/ ReaderServes \/ KernelStarts \/ KernelStops
             \/ UNCHANGED vars
    <2>1. UNCHANGED <<send, hand>>
      BY <1>8 DEF CtxEnds, CellPrints, CellLoops, CellRuns, CellAsks, CellFails, CellEnds, CellKeeps,
                  ShutdownCancel, PumpScans, ReaderRegisters, ReaderNotes, ReaderEnds,
                  ReaderServes, ReaderTakes, KernelStarts, KernelStops, vars
    <2> QED
      BY <2>1 DEF Rides
  <1> QED
    BY <1>3, <1>4, <1>5, <1>6, <1>7, <1>8 DEF Next, Reader

(* An event comes on until the reader takes it.                            *)
LEMMA ComesOn ==
  ASSUME TypeInv, [Next]_vars, NEW f, f # NoFrame, Comes(f), ~Comes(f)'
  PROVE  line = f /\ (ReaderNotes \/ ReaderEnds \/ ReaderServes)
  <1>0. out \in Seq(Events)
    BY DEF TypeInv, TypeOK
  <1>1. ASSUME NEW e \in Execs, NEW kind \in EventKinds, Emits(kind, e), UNCHANGED line
        PROVE  FALSE
    <2>1. Frame(kind, e) \in Events
      BY DEF Frame, Events
    <2>2. Range(out') = Range(out) \union {Frame(kind, e)}
      BY <1>0, <1>1, <2>1, Sent DEF Emits
    <2> QED
      BY <1>1, <2>2 DEF Comes
  <1>2. ASSUME NEW e \in Execs, CellPrints(e) \/ CellRuns(e) PROVE FALSE
    BY <1>1, <1>2 DEF CellPrints, CellRuns, CellAsks, CellFails, CellEnds, CellKeeps,
                      EventKinds
  <1>3. CASE PumpScans
    <2>1. Range(out) = Range(out') \union {line'} /\ line = NoFrame
      BY <1>0, <1>3, Received DEF PumpScans
    <2> QED
      BY <2>1 DEF Comes
  <1>4. CASE ReaderNotes \/ ReaderEnds \/ ReaderServes
    BY <1>4 DEF ReaderNotes, ReaderEnds, ReaderServes, ReaderTakes, Comes
  <1>5. CASE KernelRefuses
    <2>1. Range(out) \subseteq Range(out')
      BY <1>5, Refused
    <2> QED
      BY <1>5, <2>1 DEF KernelRefuses, KernelReads, Comes
  <1>6. CASE \/ \E e \in Execs : Execute(e) \/ CtxEnds(e) \/ CellLoops(e)
             \/ ShutdownSend \/ ShutdownCancel \/ WriterTakes \/ ReaderRegisters
             \/ ReaderReplies \/ KernelAccepts \/ KernelInterrupted \/ KernelReplied
             \/ KernelDrains \/ KernelStops \/ KernelStarts \/ UNCHANGED vars
    <2>1. UNCHANGED <<line, out>>
      BY <1>6 DEF Execute, ExecRegister, ExecAcked, ExecSend, ExecSeesCancel,
                  ExecInterrupt, ExecReturn, ExecKeeps, CtxEnds, CellLoops, CellKeeps, ShutdownSend,
                  ShutdownCancel, WriterTakes, ReaderRegisters, ReaderReplies, ReplyKeeps,
                  KernelAccepts, KernelInterrupted, KernelReplied, KernelDrains,
                  KernelReads, KernelStops, KernelStarts, vars
    <2> QED
      BY <2>1 DEF Comes
  <1> QED
    BY <1>2, <1>3, <1>4, <1>5, <1>6 DEF Next, Reader, KernelReader

(* The step of an execute that moves to another place.                     *)
LEMMA Moves ==
  ASSUME TypeInv, [Next]_vars, NEW e \in Execs, pc'[e] # pc[e]
  PROVE  /\ Execute(e)
         /\ UNCHANGED <<ctxDone, shutPc, hand, line, readerVars, kernelVars, out>>
         /\ \A x \in Execs \ {e} : pc'[x] = pc[x]
  <1>0. pc \in [Execs -> Pcs]
    BY DEF TypeInv, TypeOK
  <1>1. PICK x \in Execs : Execute(x)
    BY DEF Next, CtxEnds, CellPrints, CellLoops, CellRuns, CellAsks, CellFails, CellEnds, CellKeeps,
           ShutdownSend, ShutdownCancel, WriterTakes, PumpScans, Reader, ReaderRegisters,
           ReaderNotes, ReaderEnds, ReaderServes, ReaderReplies, ReplyKeeps, ReaderTakes,
           KernelReader, KernelAccepts, KernelRefuses, KernelInterrupted, KernelReplied,
           KernelDrains, KernelReads, KernelStops, KernelStarts, vars, hostVars
  <1>2. /\ \A y \in Execs \ {x} : pc'[y] = pc[y]
        /\ UNCHANGED <<ctxDone, shutPc, hand, line, readerVars, kernelVars, out>>
    BY <1>0, <1>1 DEF Execute, ExecRegister, ExecAcked, ExecSend, ExecSeesCancel,
                      ExecInterrupt, ExecReturn, ExecKeeps, Goes
  <1> QED
    BY <1>1, <1>2

(* What is acknowledged, closed, asked, replied or cancelled stays so, and *)
(* a kernel that drains drains on.                                         *)
LEMMA Monotone ==
  ASSUME TypeInv, [Next]_vars
  PROVE  /\ acked \subseteq acked' /\ closed \subseteq closed'
         /\ asked \subseteq asked' /\ replied \subseteq replied'
         /\ cancelled \subseteq cancelled' /\ (draining => draining')
  <1>1. CASE \E e \in Execs : \/ Execute(e) \/ CtxEnds(e) \/ CellPrints(e)
                             \/ CellLoops(e) \/ CellRuns(e)
    BY <1>1 DEF Execute, ExecRegister, ExecAcked, ExecSend, ExecSeesCancel, ExecInterrupt,
                ExecReturn, ExecKeeps, CtxEnds, CellPrints, CellLoops, CellRuns, CellAsks, CellFails,
                CellEnds, CellKeeps, readerVars, kernelVars
  <1>2. CASE Reader
    BY <1>2 DEF Reader, ReaderRegisters, ReaderNotes, ReaderEnds, ReaderServes,
                ReaderReplies, ReplyKeeps, ReaderTakes, readerVars, kernelVars
  <1>3. CASE KernelReader \/ KernelStops \/ KernelStarts
    BY <1>3 DEF KernelReader, KernelAccepts, KernelRefuses, KernelInterrupted,
                KernelReplied, KernelDrains, KernelReads, KernelStops, KernelStarts,
                readerVars, TypeInv, TypeOK
  <1>4. CASE ShutdownSend \/ ShutdownCancel \/ WriterTakes \/ PumpScans \/ UNCHANGED vars
    BY <1>4 DEF ShutdownSend, ShutdownCancel, WriterTakes, PumpScans, vars, readerVars,
                kernelVars
  <1> QED
    BY <1>1, <1>2, <1>3, <1>4 DEF Next

(* The acknowledgement does not get lost.                                  *)
LEMMA AckStep ==
  ASSUME TypeInv, [Next]_vars, NEW e \in Execs, AckKept(e)
  PROVE  AckKept(e)'
  <1>0. reg \in Seq(Execs) /\ pc \in [Execs -> Pcs]
    BY DEF TypeInv, TypeOK
  <1>1. CASE pc'[e] # pc[e]
    <2>1. Execute(e) /\ UNCHANGED acked
      BY <1>1, Moves DEF readerVars
    <2>2. CASE ExecRegister(e)
      BY <1>0, <2>2, Sent DEF ExecRegister, AckKept
    <2>3. CASE ~ExecRegister(e)
      BY <1>0, <2>1, <2>3
         DEF Execute, ExecAcked, ExecSend, ExecSeesCancel, ExecInterrupt, ExecReturn, Goes,
             AckKept
    <2> QED
      BY <2>2, <2>3
  <1>2. ASSUME pc'[e] = pc[e], Range(reg) \subseteq Range(reg') \union acked',
               acked \subseteq acked'
        PROVE  AckKept(e)'
    BY <1>2 DEF AckKept
  <1>3. ASSUME NEW x \in Execs, ExecRegister(x), pc'[e] = pc[e] PROVE AckKept(e)'
    BY <1>0, <1>2, <1>3, Sent DEF ExecRegister, ExecKeeps, readerVars
  <1>4. CASE ReaderRegisters
    <2>1. Range(reg) = Range(reg') \union {Head(reg)}
      BY <1>0, <1>4, Received DEF ReaderRegisters
    <2> QED
      BY <1>2, <1>4, <2>1 DEF ReaderRegisters, hostVars
  <1>5. CASE /\ ~ReaderRegisters /\ \A x \in Execs : ~ExecRegister(x)
    <2>1. UNCHANGED <<reg, acked>>
      BY <1>5
         DEF Next, Execute, ExecAcked, ExecSend, ExecSeesCancel, ExecInterrupt, ExecReturn,
             ExecKeeps, CtxEnds, CellPrints, CellLoops, CellRuns, CellAsks, CellFails, CellEnds,
             CellKeeps, ShutdownSend, ShutdownCancel, WriterTakes, PumpScans, Reader,
             ReaderNotes, ReaderEnds, ReaderServes, ReaderReplies, ReplyKeeps, ReaderTakes,
             KernelReader, KernelAccepts, KernelRefuses, KernelInterrupted, KernelReplied,
             KernelDrains, KernelReads, KernelStops, KernelStarts, vars, readerVars
    <2> QED
      BY <1>1, <1>2, <2>1
  <1> QED
    BY <1>1, <1>3, <1>4, <1>5

(* Nor an interrupt.                                                       *)
LEMMA InterruptStep ==
  ASSUME TypeInv, [Next]_vars, NEW e \in Execs, InterruptKept(e)
  PROVE  InterruptKept(e)'
  <1> DEFINE f == Frame("interrupt", e)
  <1>0. send \in Seq(Requests) /\ pc \in [Execs -> Pcs] /\ f # NoFrame /\ f \in Requests
        /\ f.kind = "interrupt" /\ f.id = e
    BY DEF TypeInv, TypeOK, Frame, NoFrame, Requests
  <1> HIDE DEF f
  <1>1. CASE pc'[e] # pc[e]
    <2>1. Execute(e)
      BY <1>1, Moves
    <2>2. CASE ExecInterrupt(e)
      <3>1. Range(send') = Range(send) \union {f}
        BY <1>0, <2>2, Sent DEF ExecInterrupt, Sends, f
      <3> QED
        BY <3>1 DEF InterruptKept, Rides, f
    <2>3. CASE ~ExecInterrupt(e)
      BY <1>0, <2>1, <2>3
         DEF Execute, ExecRegister, ExecAcked, ExecSend, ExecSeesCancel, ExecReturn, Goes,
             InterruptKept
    <2> QED
      BY <2>2, <2>3
  <1>2. CASE pc'[e] = pc[e] /\ pc[e] = "settle"
    <2>1. Rides(f) \/ e \in cancelled
      BY <1>2 DEF InterruptKept, f
    <2>2. cancelled \subseteq cancelled'
      BY Monotone
    <2>3. CASE Rides(f) /\ ~Rides(f)'
      <3>1. hand = f /\ KernelReader
        BY <1>0, <2>3, RidesOn
      <3>2. KernelInterrupted
        BY <1>0, <3>1 DEF KernelReader, KernelAccepts, KernelRefuses, KernelReplied,
                          KernelDrains, KernelReads
      <3> QED
        BY <1>0, <3>1, <3>2 DEF KernelInterrupted, InterruptKept
    <2> QED
      BY <2>1, <2>2, <2>3 DEF InterruptKept, Rides, f
  <1> QED
    BY <1>1, <1>2 DEF InterruptKept

(* Nor a request, before a shutdown.                                       *)
LEMMA RequestStep ==
  ASSUME TypeInv, [Next]_vars, NEW e \in Execs, PlaceInv(e), RequestKept(e)
  PROVE  RequestKept(e)'
  <1> DEFINE f == Frame("execute", e)
             d == Frame("done", e)
  <1>0. /\ send \in Seq(Requests) /\ out \in Seq(Events) /\ backlog \in Seq(Execs)
        /\ pc \in [Execs -> Pcs] /\ NoExec \notin Execs
        /\ f \in Requests /\ f # NoFrame /\ f.kind = "execute" /\ f.id = e
        /\ d \in Events /\ d # NoFrame /\ d.kind = "done" /\ d.id = e
    BY KernelHostAssumption
       DEF TypeInv, TypeOK, Frame, NoFrame, Requests, Events, EventKinds
  <1> HIDE DEF f, d
  <1> SUFFICES ASSUME ~draining', pc'[e] \in {"wait", "interrupt", "settle"}
               PROVE  (Rides(f) \/ Queued(e) \/ running = e \/ Comes(d) \/ e \in closed)'
    BY DEF RequestKept, Sending, Handed, Ended, Rides, Comes, f, d
  <1>1. CASE ExecSend(e)
    <2>1. Range(send') = Range(send) \union {f}
      BY <1>0, <1>1, Sent DEF ExecSend, Sends, f
    <2> QED
      BY <2>1 DEF Rides
  <1>2. CASE ~ExecSend(e)
    <2>1. pc[e] \in {"wait", "interrupt", "settle"}
      <3>1. CASE pc'[e] # pc[e]
        BY <1>0, <1>2, <3>1, Moves
           DEF Execute, ExecRegister, ExecAcked, ExecSeesCancel, ExecInterrupt, ExecReturn,
               Goes
      <3> QED
        BY <3>1
    <2>2. ~draining
      BY Monotone
    <2>3. Rides(f) \/ Queued(e) \/ running = e \/ Comes(d) \/ e \in closed
      BY <2>1, <2>2 DEF RequestKept, Sending, Handed, Ended, Rides, Comes, f, d
    <2>4. CASE Rides(f)
      <3>1. CASE ~Rides(f)'
        <4>1. hand = f /\ KernelReader
          BY <1>0, <2>4, <3>1, RidesOn
        <4>2. KernelAccepts
          BY <1>0, <2>2, <4>1 DEF KernelReader, KernelRefuses, KernelInterrupted,
                                  KernelReplied, KernelDrains, KernelReads
        <4>3. Range(backlog') = Range(backlog) \union {e}
          BY <1>0, <4>1, <4>2, Sent DEF KernelAccepts
        <4> QED
          BY <4>3 DEF Queued
      <3> QED
        BY <3>1
    <2>5. CASE Queued(e)
      <3>1. CASE KernelStarts
        <4>1. Range(backlog) = Range(backlog') \union {running'}
          BY <1>0, <3>1, Received DEF KernelStarts
        <4> QED
          BY <2>5, <4>1 DEF Queued
      <3>2. CASE KernelAccepts
        <4>1. hand.id \in Execs
          BY <3>2 DEF KernelAccepts, KernelReads, TypeInv, Addressed
        <4>2. Range(backlog') = Range(backlog) \union {hand.id}
          BY <1>0, <3>2, <4>1, Sent DEF KernelAccepts
        <4> QED
          BY <2>5, <4>2 DEF Queued
      <3>3. CASE ~KernelStarts /\ ~KernelAccepts
        <4>1. UNCHANGED backlog
          BY <2>2, <3>3
             DEF Next, Execute, ExecRegister, ExecAcked, ExecSend, ExecSeesCancel,
                 ExecInterrupt, ExecReturn, ExecKeeps, CtxEnds, CellPrints, CellLoops, CellRuns,
                 CellAsks, CellFails, CellEnds, CellKeeps, ShutdownSend, ShutdownCancel,
                 WriterTakes, PumpScans, Reader, ReaderRegisters, ReaderNotes, ReaderEnds,
                 ReaderServes, ReaderReplies, ReplyKeeps, ReaderTakes, KernelReader,
                 KernelRefuses, KernelInterrupted, KernelReplied, KernelDrains,
                 KernelReads, KernelStops, vars, kernelVars
        <4> QED
          BY <2>5, <4>1 DEF Queued
      <3> QED
        BY <3>1, <3>2, <3>3
    <2>6. CASE running = e
      <3>1. CASE CellEnds(e)
        <4>1. Range(out') = Range(out) \union {d}
          BY <1>0, <3>1, Sent DEF CellEnds, Emits, d
        <4> QED
          BY <4>1 DEF Comes
      <3>2. CASE ~CellEnds(e)
        <4>1. UNCHANGED running
          BY <1>0, <2>6, <3>2
             DEF Next, Execute, ExecRegister, ExecAcked, ExecSend, ExecSeesCancel,
                 ExecInterrupt, ExecReturn, ExecKeeps, CtxEnds, CellPrints, CellLoops, CellRuns,
                 CellAsks, CellFails, CellEnds, CellKeeps, ShutdownSend, ShutdownCancel,
                 WriterTakes, PumpScans, Reader, ReaderRegisters, ReaderNotes, ReaderEnds,
                 ReaderServes, ReaderReplies, ReplyKeeps, ReaderTakes, KernelReader,
                 KernelAccepts, KernelRefuses, KernelInterrupted, KernelReplied,
                 KernelDrains, KernelReads, KernelStops, KernelStarts, vars, kernelVars
        <4> QED
          BY <2>6, <4>1
      <3> QED
        BY <3>1, <3>2
    <2>7. CASE Comes(d)
      <3>1. CASE ~Comes(d)'
        <4>1. line = d /\ ReaderEnds
          BY <1>0, <2>7, <3>1, ComesOn DEF ReaderNotes, ReaderServes, ReaderTakes
        <4>2. e \in pendings \union closed
          BY <4>1 DEF PlaceInv, Registered, Begun, Ended, d
        <4> QED
          BY <1>0, <4>1, <4>2 DEF ReaderEnds
      <3> QED
        BY <3>1
    <2>8. CASE e \in closed
      BY <2>8, Monotone
    <2> QED
      BY <2>3, <2>4, <2>5, <2>6, <2>7, <2>8
  <1> QED
    BY <1>1, <1>2

(* Nor the question of a cell, on its way to the reader and back.          *)
LEMMA QuestionStep ==
  ASSUME TypeInv, [Next]_vars, NEW e \in Execs, QuestionKept(e)
  PROVE  QuestionKept(e)'
  <1> DEFINE q == Frame("host_request", e)
             r == Frame("host_reply", e)
  <1>0. /\ send \in Seq(Requests) /\ out \in Seq(Events) /\ NoExec \notin Execs
        /\ r \in Requests /\ r # NoFrame /\ r.kind = "host_reply" /\ r.id = e
        /\ q \in Events /\ q # NoFrame /\ q.kind = "host_request" /\ q.id = e
    BY KernelHostAssumption
       DEF TypeInv, TypeOK, Frame, NoFrame, Requests, Events, EventKinds
  <1> HIDE DEF q, r
  <1> SUFFICES ASSUME e \in asked'
               PROVE  (Comes(q) \/ replyTo = e \/ Rides(r) \/ e \in replied)'
    BY DEF QuestionKept, q, r
  <1>1. CASE e \notin asked
    <2>1. CellAsks(e)
      BY <1>1
         DEF Next, Execute, ExecRegister, ExecAcked, ExecSend, ExecSeesCancel,
             ExecInterrupt, ExecReturn, ExecKeeps, CtxEnds, CellPrints, CellLoops, CellRuns, CellAsks,
             CellFails, CellEnds, CellKeeps, ShutdownSend, ShutdownCancel, WriterTakes,
             PumpScans, Reader, ReaderRegisters, ReaderNotes, ReaderEnds, ReaderServes,
             ReaderReplies, ReplyKeeps, ReaderTakes, KernelReader, KernelAccepts,
             KernelRefuses, KernelInterrupted, KernelReplied, KernelDrains, KernelReads,
             KernelStops, KernelStarts, vars, kernelVars
    <2>2. Range(out') = Range(out) \union {q}
      BY <1>0, <2>1, Sent DEF CellAsks, Emits, q
    <2> QED
      BY <2>2 DEF Comes
  <1>2. CASE e \in asked
    <2>1. Comes(q) \/ replyTo = e \/ Rides(r) \/ e \in replied
      BY <1>2 DEF QuestionKept, q, r
    <2>2. CASE Comes(q)
      <3>1. CASE ~Comes(q)'
        BY <1>0, <2>2, <3>1, ComesOn DEF ReaderNotes, ReaderEnds, ReaderServes, ReaderTakes
      <3> QED
        BY <3>1
    <2>3. CASE replyTo = e
      <3>1. CASE ReaderReplies
        <4>1. Range(send') = Range(send) \union {r}
          BY <1>0, <2>3, <3>1, Sent DEF ReaderReplies, Sends, r
        <4> QED
          BY <4>1 DEF Rides
      <3>2. CASE ~ReaderReplies
        <4>1. UNCHANGED replyTo
          BY <1>0, <2>3, <3>2
             DEF Next, Execute, ExecRegister, ExecAcked, ExecSend, ExecSeesCancel,
                 ExecInterrupt, ExecReturn, ExecKeeps, CtxEnds, CellPrints, CellLoops, CellRuns,
                 CellAsks, CellFails, CellEnds, CellKeeps, ShutdownSend, ShutdownCancel,
                 WriterTakes, PumpScans, Reader, ReaderRegisters, ReaderNotes, ReaderEnds,
                 ReaderServes, ReaderTakes, KernelReader, KernelAccepts, KernelRefuses,
                 KernelInterrupted, KernelReplied, KernelDrains, KernelReads, KernelStops,
                 KernelStarts, vars, readerVars
        <4> QED
          BY <2>3, <4>1
      <3> QED
        BY <3>1, <3>2
    <2>4. CASE Rides(r)
      <3>1. CASE ~Rides(r)'
        <4>1. hand = r /\ KernelReader
          BY <1>0, <2>4, <3>1, RidesOn
        <4>2. KernelReplied
          BY <1>0, <4>1 DEF KernelReader, KernelAccepts, KernelRefuses, KernelInterrupted,
                            KernelDrains, KernelReads
        <4> QED
          BY <1>0, <4>1, <4>2 DEF KernelReplied
      <3> QED
        BY <3>1
    <2>5. CASE e \in replied
      BY <2>5, Monotone
    <2> QED
      BY <2>1, <2>2, <2>3, <2>4, <2>5
  <1> QED
    BY <1>1, <1>2

(* As many calls of Execute are under way as were made: finitely many.     *)
LEMMA FlightStep ==
  ASSUME TypeInv, [Next]_vars, IsFiniteSet(InFlight)
  PROVE  IsFiniteSet(InFlight')
  <1>1. PICK x : InFlight' \subseteq InFlight \union {x}
    <2>1. CASE \E e \in Execs : pc'[e] # pc[e]
      BY <2>1, Moves DEF InFlight
    <2>2. CASE ~ \E e \in Execs : pc'[e] # pc[e]
      BY <2>2 DEF InFlight
    <2> QED
      BY <2>1, <2>2
  <1> QED
    BY <1>1, FS_AddElement, FS_Subset

-----------------------------------------------------------------------------
(* The inductive invariant.                                                *)
HostInv ==
  /\ TypeInv
  /\ \A e \in Execs : PlaceInv(e) /\ Told(e) /\ Kept(e)
  /\ IsFiniteSet(InFlight)

(* It holds at the start.                                                  *)
LEMMA HostStart == Init => HostInv
  <1> SUFFICES ASSUME Init PROVE HostInv
    OBVIOUS
  <1>1. /\ Range(<<>>) = {} /\ \A y : Once(y, <<>>)
        /\ \A S : <<>> \in Seq(S)
        /\ NoExec \notin Execs /\ NoNotes \in Notes
    <2>1. DOMAIN <<>> = {}
      BY EmptySeq, LenProperties
    <2> QED
      BY <2>1, EmptySeq, KernelHostAssumption DEF Range, Once, Notes, NoNotes
  <1>2. TypeInv
    BY <1>1 DEF Init, TypeInv, TypeOK, Addressed, NoFrame, Frame, Pcs
  <1>3. ASSUME NEW e \in Execs PROVE PlaceInv(e)
    BY <1>1, <1>3
       DEF Init, PlaceInv, OnePlace, Registered, Begun, Ended, Sending, Handed, Queued,
           NoFrame, Frame
  <1>4. ASSUME NEW e \in Execs PROVE Told(e)
    <2> DEFINE h == [i \in 0..0 |-> NoNotes]
    <2>1. /\ h \in [0..Len(<<>>) -> Notes] /\ h[0] = NoNotes /\ h[Len(<<>>)] = NoNotes
          /\ 1..Len(<<>>) = {}
      BY <1>1
    <2> HIDE DEF h
    <2>2. Tally(NoNotes, <<>>, NoNotes, e)
      BY <2>1 DEF Tally
    <2>3. Heard(NoNotes, line, e) = NoNotes
      BY <1>1, <1>4 DEF Init, Heard, NoFrame, Frame
    <2>4. got[e] = NoNotes /\ emitted[e] = NoNotes /\ out = <<>>
      BY <1>4 DEF Init
    <2> QED
      BY <2>2, <2>3, <2>4 DEF Told
  <1>5. ASSUME NEW e \in Execs PROVE Kept(e)
    BY <1>5 DEF Init, Kept, AckKept, RequestKept, QuestionKept, InterruptKept
  <1>6. InFlight = {}
    BY DEF Init, InFlight
  <1> QED
    BY <1>2, <1>3, <1>4, <1>5, <1>6, FS_EmptySet DEF HostInv

(* Every step keeps it.                                                    *)
LEMMA HostStep == HostInv /\ [Next]_vars => HostInv'
  <1> SUFFICES ASSUME HostInv, [Next]_vars PROVE HostInv'
    OBVIOUS
  <1>1. TypeInv'
    BY TypeStep DEF HostInv
  <1>2. ASSUME NEW e \in Execs PROVE PlaceInv(e)' /\ Told(e)'
    BY PlaceStep, ToldStep DEF HostInv
  <1>3. ASSUME NEW e \in Execs PROVE Kept(e)'
    BY AckStep, RequestStep, QuestionStep, InterruptStep DEF HostInv, Kept
  <1>4. IsFiniteSet(InFlight)'
    BY FlightStep DEF HostInv
  <1> QED
    BY <1>1, <1>2, <1>3, <1>4 DEF HostInv

(* It holds throughout.                                                    *)
THEOREM HostInvariant == Spec => []HostInv
  BY HostStart, HostStep, PTL DEF Spec

(* The state of the host and of the kernel keeps its type: every channel   *)
(* carries only the frames its receiver knows, and every execute, interrupt*)
(* and host reply that reaches the kernel names a call of Execute.         *)
THEOREM HostTypes == Spec => []TypeOK
  <1>1. HostInv => TypeOK
    BY DEF HostInv, TypeInv
  <1> QED
    BY <1>1, HostInvariant, PTL

(* Execute returns everything the kernel said about its cell up to the     *)
(* done event and nothing of what its goroutines print after it, however   *)
(* the writer, the pump, the reader and other calls interleave, whether or *)
(* not it was interrupted or refused, and also around a shutdown.          *)
THEOREM HostResults == Spec => []ResultComplete
  <1>1. HostInv => ResultComplete
    BY DEF HostInv, PlaceInv, Registered, Told, ResultComplete
  <1> QED
    BY <1>1, HostInvariant, PTL
-----------------------------------------------------------------------------
(* Nobody waits in a circle.                                               *)

(* A channel that holds nothing twice holds as many values as its length.  *)
LEMMA OnceCounts ==
  ASSUME NEW S, NEW s \in Seq(S), \A y \in S : Once(y, s)
  PROVE  IsFiniteSet(Range(s)) /\ Cardinality(Range(s)) = Len(s)
  <1>1. Len(s) \in Nat /\ DOMAIN s = 1..Len(s) /\ s \in [1..Len(s) -> S]
    BY LenProperties
  <1>2. \A i, j \in 1..Len(s) : s[i] = s[j] => i = j
    BY <1>1 DEF Once
  <1>3. s \in Injection(1..Len(s), S)
    BY <1>1, <1>2, Fun_IsInj
  <1>4. s \in Bijection(1..Len(s), Range(s))
    BY <1>3, Fun_InjMeansBijImage
  <1>5. ExistsBijection(1..Len(s), Range(s))
    BY <1>4 DEF ExistsBijection
  <1>6. IsFiniteSet(1..Len(s)) /\ Cardinality(1..Len(s)) = Len(s)
    BY <1>1, FS_Interval
  <1> QED
    BY <1>5, <1>6, FS_Bijection

(* The calls whose request the kernel's reader holds, runs or has queued   *)
(* are in flight, each counts once.                                        *)
LEMMA QueueBound ==
  ASSUME TypeInv, \A e \in Execs : PlaceInv(e), IsFiniteSet(InFlight),
         running # NoExec, hand.kind = "execute"
  PROVE  Len(backlog) + 2 <= Cardinality(InFlight)
  <1> DEFINE B == Range(backlog)
             h == hand.id
  <1>0. /\ backlog \in Seq(Execs) /\ running \in Execs /\ h \in Execs /\ Handed(h)
        /\ pc \in [Execs -> Pcs]
    BY DEF TypeInv, TypeOK, Addressed, Handed, Requests, Frame, NoFrame
  <1>1. IsFiniteSet(B) /\ Cardinality(B) = Len(backlog)
    BY <1>0, OnceCounts DEF PlaceInv, OnePlace
  <1>2. B \subseteq Execs
    BY <1>0 DEF Range
  <1>3. ASSUME NEW e \in B \union {running, h} PROVE e \in InFlight
    <2>1. e \in Execs /\ PlaceInv(e) /\ (Queued(e) \/ running = e \/ Handed(e))
      BY <1>0, <1>2, <1>3 DEF Queued
    <2> QED
      BY <1>0, <2>1 DEF PlaceInv, OnePlace, Registered, Begun, Ended, InFlight
  <1>4. running \notin B /\ h \notin B \union {running}
    BY <1>0 DEF PlaceInv, OnePlace, Queued
  <1>5. /\ IsFiniteSet(B \union {running})
        /\ Cardinality(B \union {running}) = Cardinality(B) + 1
    BY <1>1, <1>4, FS_AddElement
  <1> DEFINE C == B \union {running}
  <1>6. /\ IsFiniteSet(C \union {h})
        /\ Cardinality(C \union {h}) = Cardinality(C) + 1
    BY <1>4, <1>5, FS_AddElement
  <1>7. Cardinality(C \union {h}) <= Cardinality(InFlight)
    BY <1>3, FS_Subset
  <1>8. Len(backlog) \in Nat
    BY <1>0, LenProperties
  <1>9. Cardinality(C \union {h}) = Len(backlog) + 2
    BY <1>1, <1>5, <1>6, <1>8
  <1> QED
    BY <1>7, <1>9

(* So somebody can go on.                                                  *)
LEMMA SomebodyMoves ==
  ASSUME TypeInv, \A e \in Execs : PlaceInv(e) /\ Kept(e), IsFiniteSet(InFlight)
  PROVE  NoCircularWait
  <1> SUFFICES ASSUME ~draining, InFlight # {}, Cardinality(InFlight) <= QueueCap + 1,
                      \A e \in Execs : ~ExecuteMoves(e),
                      ~ReaderMoves, ~PipesMove, ~KernelReaderMoves, ~CellMoves,
                      ~looping
               PROVE  running # NoExec /\ Cell[running] = "blocks" /\ running \notin ctxDone
    BY DEF NoCircularWait
  <1>0. /\ send \in Seq(Requests) /\ reg \in Seq(Execs) /\ out \in Seq(Events)
        /\ backlog \in Seq(Execs) /\ pc \in [Execs -> Pcs]
        /\ NoExec \notin Execs /\ running \in Execs \union {NoExec}
        /\ Cell \in [Execs -> CellKinds]
        /\ QueueCap \in Nat \ {0} /\ SendCap \in Nat \ {0} /\ OutCap \in Nat \ {0}
        /\ Len(backlog) \in Nat
    BY KernelHostAssumption, LenProperties DEF TypeInv, TypeOK
  <1>1. hand = NoFrame
    <2> SUFFICES ASSUME hand # NoFrame PROVE FALSE
      OBVIOUS
    <2>1. hand.kind = "execute"
      BY DEF KernelReaderMoves, TypeInv, TypeOK, Requests
    <2>2. ~(Len(backlog) < QueueCap)
      BY <2>1 DEF KernelReaderMoves
    <2>3. backlog # <<>>
      BY <1>0, <2>2, EmptySeq
    <2>4. running # NoExec
      BY <2>3 DEF CellMoves
    <2>5. Len(backlog) + 2 <= Cardinality(InFlight)
      BY <2>1, <2>4, QueueBound
    <2>6. Cardinality(InFlight) \in Nat
      BY FS_CardinalityType
    <2> QED
      BY <1>0, <2>2, <2>5, <2>6
  <1>2. send = <<>> /\ Len(send) < SendCap
    BY <1>0, <1>1 DEF PipesMove
  <1>3. replyTo = NoExec /\ reg = <<>> /\ line = NoFrame
    BY <1>2 DEF ReaderMoves
  <1>4. out = <<>> /\ Len(out) < OutCap
    BY <1>0, <1>3 DEF PipesMove
  <1>5. Range(<<>>) = {}
    BY DEF Range
  <1>6. \A e, k : Frame(k, e) = NoFrame => k = "none"
    BY DEF Frame, NoFrame
  <1>7. ASSUME NEW e \in InFlight
        PROVE  pc[e] \in {"wait", "settle"} /\ (Queued(e) \/ running = e) /\ e \in Execs
    <2>1. e \in Execs /\ Kept(e) /\ ~ExecuteMoves(e)
      BY DEF InFlight
    <2>2. pc[e] \in {"ack", "send", "wait", "interrupt", "settle"}
      BY <1>0, <2>1 DEF InFlight, Pcs
    <2>3. pc[e] \notin {"send", "interrupt"}
      BY <1>2, <2>1 DEF ExecuteMoves
    <2>4. pc[e] # "ack"
      BY <1>3, <1>5, <2>1 DEF ExecuteMoves, Kept, AckKept
    <2>5. pc[e] \in {"wait", "settle"} /\ e \notin closed
      BY <2>1, <2>2, <2>3, <2>4 DEF ExecuteMoves
    <2>6. ~Sending(e) /\ ~Handed(e) /\ ~Ended(e)
      BY <1>1, <1>2, <1>3, <1>4, <1>5, <1>6, <2>5 DEF Sending, Handed, Ended
    <2> QED
      BY <2>1, <2>5, <2>6 DEF Kept, RequestKept
  <1>8. running # NoExec
    <2>1. PICK e \in InFlight : TRUE
      OBVIOUS
    <2>2. CASE Queued(e)
      <3>1. backlog # <<>>
        BY <1>5, <2>2 DEF Queued
      <3> QED
        BY <3>1 DEF CellMoves
    <2> QED
      BY <1>0, <1>7, <2>1, <2>2
  <1> DEFINE r == running
  <1>9. /\ r \in Execs /\ Kept(r) /\ PlaceInv(r) /\ ~ExecuteMoves(r)
        /\ Cell[r] \in CellKinds
        /\ Cell[r] # "quick" /\ r \notin replied \union cancelled
        /\ Cell[r] = "asks" => r \in asked
    BY <1>0, <1>4, <1>8 DEF CellMoves
  <1>10. r \notin asked
    BY <1>1, <1>2, <1>3, <1>4, <1>5, <1>6, <1>8, <1>9
       DEF Kept, QuestionKept, Comes, Rides
  <1>11. r \in InFlight
    BY <1>0, <1>9 DEF PlaceInv, OnePlace, Registered, Begun, Ended, InFlight
  <1>12. pc[r] # "settle"
    BY <1>1, <1>2, <1>5, <1>6, <1>9 DEF Kept, InterruptKept, Rides
  <1> QED
    BY <1>7, <1>8, <1>9, <1>10, <1>11, <1>12 DEF CellKinds, ExecuteMoves

(* Executes never wait for each other in a circle while one more than fit  *)
(* in the kernel's queue are in flight at most and nobody shuts the kernel *)
(* down: the reader that sends a host reply, the kernel's reader that has  *)
(* an execute to queue, the executor and the calls, somebody can go on.    *)
THEOREM HostNeverStuck == Spec => []NoCircularWait
  <1>1. HostInv => NoCircularWait
    BY SomebodyMoves DEF HostInv
  <1> QED
    BY <1>1, HostInvariant, PTL
=============================================================================
