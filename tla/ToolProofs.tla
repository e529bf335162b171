----------------------------- MODULE ToolProofs -----------------------------
(***************************************************************************)
(* The two tools an agent holds: the go-kernel extension, which offers the *)
(* kernel to it, and the edit skill, which cells call.                     *)
(*                                                                         *)
(* The extension, for any number of tool calls of any kind: a call is      *)
(* woken once, by its done event or by the process's end, and says which.  *)
(* The edit skill, for any number of calls, keys and file contents: calls  *)
(* under one key take turns, so none overwrites what it has not read, and  *)
(* temp files are left only by failed renames and dead processes.          *)
(***************************************************************************)
EXTENDS GoKernelExt, EditSkill, SequenceTheorems, TLAPS

-----------------------------------------------------------------------------
(* The extension.                                                          *)

(* What a line or a queue holds once something is added or taken.          *)
LEMMA Extended ==
  ASSUME NEW S, NEW s \in Seq(S), NEW x \in S
  PROVE  Append(s, x) \in Seq(S) /\ Range(Append(s, x)) = Range(s) \union {x}
  <1> DEFINE t == Append(s, x)
  <1>1. /\ t \in Seq(S) /\ Len(s) \in Nat /\ DOMAIN s = 1..Len(s)
        /\ DOMAIN t = 1..(Len(s) + 1) /\ t[Len(s) + 1] = x
        /\ \A i \in 1..Len(s) : t[i] = s[i]
    BY AppendProperties, LenProperties
  <1> HIDE DEF t
  <1>2. \A i \in DOMAIN t : i \in DOMAIN s \/ i = Len(s) + 1
    BY <1>1
  <1>3. Range(t) = Range(s) \union {x}
    BY <1>1, <1>2 DEF Range
  <1> QED
    BY <1>1, <1>3 DEF t

(* Two lines at once.                                                      *)
LEMMA ExtendedTwice ==
  ASSUME NEW S, NEW s \in Seq(S), NEW x \in S, NEW y \in S
  PROVE  s \o <<x, y>> \in Seq(S) /\ Range(s \o <<x, y>>) = Range(s) \union {x, y}
  <1> DEFINE t == Append(s, x)
  <1>1. t \in Seq(S) /\ Range(t) = Range(s) \union {x}
    BY Extended
  <1>2. Append(t, y) = s \o <<x, y>>
    OBVIOUS
  <1> HIDE DEF t
  <1>3. Append(t, y) \in Seq(S) /\ Range(Append(t, y)) = Range(t) \union {y}
    BY <1>1, Extended
  <1> QED
    BY <1>1, <1>2, <1>3

(* Taking the first one away.                                              *)
LEMMA Shortened ==
  ASSUME NEW S, NEW s \in Seq(S), s # <<>>
  PROVE  /\ Head(s) \in S /\ Tail(s) \in Seq(S)
         /\ Head(s) \in Range(s) /\ Range(Tail(s)) \subseteq Range(s)
  <1> DEFINE t == Tail(s)
             h == Head(s)
  <1>1. h \in S /\ t \in Seq(S)
    BY HeadTailProperties
  <1>2. /\ 1 \in DOMAIN s /\ h = s[1]
        /\ \A i \in DOMAIN t : i + 1 \in DOMAIN s /\ t[i] = s[i + 1]
    OBVIOUS
  <1> HIDE DEF t, h
  <1>3. h \in Range(s) /\ Range(t) \subseteq Range(s)
    BY <1>2 DEF Range
  <1> QED
    BY <1>1, <1>3 DEF t, h

(* Of the process: it is started once, and has ended once the exit         *)
(* callback has run; only lines each side knows are on the pipes.          *)
Known ==
  /\ TypeOK
  /\ spawned = 0 <=> ready = "none"
  /\ exitInfo => ~up
  /\ up \/ exitInfo => spawned = 1
  /\ \A l \in Range(stdin) : /\ l.kind \in {"execute", "interrupt", "host_reply"}
                             /\ l.id \in Calls
  /\ \A l \in Range(stdout) :
       l.kind \in {"result", "error", "host_request", "done"} => l.id \in Calls

(* The process has, or had, the cell of e and may still be heard of it.    *)
Speaks(e) == \/ Line("execute", e) \in Range(stdin)
             \/ e \in Range(queue) \/ running = e
             \/ \E l \in Range(stdout) : l.id = e

(* Nothing is known of a call before it is registered; it is woken once,   *)
(* by its done event while the process runs or else by the process's end,  *)
(* and from then on the kernel has nothing more to say to the calls that   *)
(* are still registered.                                                   *)
CallInv(e) ==
  /\ call[e] \in {"idle", "starting", "thrown"} =>
       /\ ~Speaks(e) /\ error[e] = "none"
       /\ e \notin pending \union woken \union finished
  /\ e \in pending => e \notin woken /\ call[e] = "waiting"
  /\ e \in finished => e \in woken
  /\ e \in pending /\ exitInfo => ~Speaks(e)
  /\ e \in woken /\ call[e] = "waiting" => (exitInfo <=> e \notin finished)
  /\ call[e] = "waiting" => error[e] # "KernelDied"
  /\ call[e] = "returned" => /\ error[e] = "none" => e \in finished
                             /\ error[e] = "KernelDied" => e \notin finished

ExtInv == Known /\ \A e \in Calls : CallInv(e)

(* What is written reaches a process that runs.                            *)
LEMMA WritesKnown ==
  ASSUME Known, NEW e \in Calls, NEW kind \in {"execute", "interrupt", "host_reply"},
         Writes(Line(kind, e))
  PROVE  /\ stdin' \in Seq(Lines)
         /\ \A l \in Range(stdin') : l.kind \in {"execute", "interrupt", "host_reply"}
                                     /\ l.id \in Calls
         /\ \A d \in Calls : Line("execute", d) \in Range(stdin') =>
              Line("execute", d) \in Range(stdin) \/ (up /\ kind = "execute" /\ d = e)
  <1> DEFINE m == Line(kind, e)
  <1>1. m \in Lines /\ m.kind = kind /\ m.id = e
    BY DEF Line, Lines
  <1>2. \A d \in Calls : Line("execute", d) = m => kind = "execute" /\ d = e
    BY DEF Line
  <1> HIDE DEF m
  <1>3. CASE up
    <2>1. stdin' \in Seq(Lines) /\ Range(stdin') = Range(stdin) \union {m}
      BY <1>1, <1>3, Extended DEF Writes, Known, TypeOK, m
    <2> QED
      BY <1>1, <1>2, <1>3, <2>1 DEF Known
  <1>4. CASE ~up
    <2>1. stdin' = stdin
      BY <1>4 DEF Writes
    <2> QED
      BY <2>1 DEF Known, TypeOK
  <1> QED
    BY <1>3, <1>4 DEF Known, TypeOK

(* The process and the pipes.                                              *)
LEMMA KnownStep == ExtInv /\ [Next]_vars => Known'
  <1> SUFFICES ASSUME ExtInv, [Next]_vars PROVE Known'
    OBVIOUS
  <1>0. Known
    BY DEF ExtInv
  <1> USE DEF Known
  <1>1. ASSUME NEW e \in Calls, Execute(e) PROVE Known'
    <2>1. /\ call' = [call EXCEPT ![e] = "starting"]
          /\ UNCHANGED <<exitInfo, pending, woken, error, finished, listens, aborted,
                         timedOut, stdin, stdout, greeted, queue, running, interrupted,
                         asked, replied, looping>>
      BY <1>1 DEF Execute, sigVars
    <2>2. CASE ready = "none"
      <3>1. spawned = 0 /\ ~exitInfo
        BY <1>0, <2>2
      <3>2. ready' = "pending" /\ spawned' = 1 /\ up' = TRUE
        BY <1>1, <2>2, <3>1 DEF Execute
      <3> QED
        BY <1>0, <2>1, <3>1, <3>2 DEF TypeOK
    <2>3. CASE ready # "none"
      <3>1. UNCHANGED <<ready, spawned, up>>
        BY <1>1, <2>3 DEF Execute
      <3> QED
        BY <1>0, <2>1, <3>1 DEF TypeOK
    <2> QED
      BY <2>2, <2>3
  <1>2. ASSUME NEW e \in Calls, Registers(e) PROVE Known'
    <2>1. /\ stdin' \in Seq(Lines)
          /\ \A l \in Range(stdin') : l.kind \in {"execute", "interrupt", "host_reply"}
                                      /\ l.id \in Calls
      BY <1>0, <1>2, WritesKnown DEF Registers
    <2> QED
      BY <1>0, <1>2, <2>1 DEF Registers, TypeOK, kernVars
  <1>3. ASSUME NEW e \in Calls, Throws(e) \/ Returns(e) PROVE Known'
    <2>1. /\ call' \in [Calls -> {"idle", "starting", "waiting", "returned", "thrown"}]
          /\ error' \in [Calls -> {"none", "own", "KernelDied"}]
          /\ listens' \in SUBSET Calls
      BY <1>0, <1>3 DEF Throws, Returns, TypeOK, sigVars
    <2>2. UNCHANGED <<ready, exitInfo, pending, woken, finished, aborted, timedOut,
                      spawned, stdin, stdout, up, greeted, queue, running, interrupted,
                      asked, replied, looping>>
      BY <1>3 DEF Throws, Returns, kernVars, sigVars
    <2> QED
      BY <1>0, <2>1, <2>2 DEF TypeOK
  <1>4. ASSUME NEW e \in Calls, Abort(e) \/ CellTimesOut(e) PROVE Known'
    <2>1. /\ stdin' \in Seq(Lines)
          /\ \A l \in Range(stdin') : l.kind \in {"execute", "interrupt", "host_reply"}
                                      /\ l.id \in Calls
      <3>1. CASE UNCHANGED stdin
        BY <1>0, <3>1 DEF TypeOK
      <3>2. CASE Writes(Line("interrupt", e))
        BY <1>0, <3>2, WritesKnown
      <3> QED
        BY <1>4, <3>1, <3>2 DEF Abort, CellTimesOut
    <2> QED
      BY <1>0, <1>4, <2>1 DEF Abort, CellTimesOut, TypeOK, kernVars, extVars
  <1>5. CASE StartTimesOut \/ OnExit
    <2>1. UNCHANGED <<call, error, finished, listens, aborted, timedOut, spawned, stdin,
                      stdout, greeted, queue, running, interrupted, asked,
                      replied, looping>>
      BY <1>5 DEF StartTimesOut, OnExit, kernVars, sigVars
    <2>2. /\ exitInfo' \in BOOLEAN /\ up' \in BOOLEAN
          /\ pending' \in SUBSET Calls /\ woken' \in SUBSET Calls
          /\ ready' \in {ready, "rejected"} /\ (ready' # ready => ready = "pending")
          /\ ~up' /\ spawned = 1
      <3>1. spawned \in 0..1
        BY <1>0 DEF TypeOK
      <3>2. CASE StartTimesOut
        <4>1. spawned # 0
          BY <1>0, <3>2 DEF StartTimesOut
        <4>2. /\ ready = "pending" /\ ready' = "rejected" /\ up' = FALSE
              /\ UNCHANGED <<exitInfo, pending, woken>>
          BY <3>2 DEF StartTimesOut
        <4>3. spawned = 1
          BY <3>1, <4>1
        <4>4. exitInfo \in BOOLEAN /\ pending \in SUBSET Calls /\ woken \in SUBSET Calls
          BY <1>0 DEF TypeOK
        <4> QED
          BY <4>2, <4>3, <4>4
      <3>3. CASE OnExit
        BY <1>0, <3>1, <3>3 DEF OnExit, TypeOK, kernVars
      <3> QED
        BY <1>5, <3>2, <3>3
    <2> QED
      BY <1>0, <2>1, <2>2 DEF TypeOK
  <1>6. CASE OnLine
    <2>1. /\ Head(stdout) \in Range(stdout) /\ stdout' \in Seq(Lines)
          /\ Range(stdout') \subseteq Range(stdout)
          /\ UNCHANGED <<exitInfo, call, sigVars, spawned, kernVars>>
      <3>1. /\ stdout # <<>> /\ stdout' = Tail(stdout)
            /\ UNCHANGED <<exitInfo, call, sigVars, spawned, kernVars>>
        BY <1>6 DEF OnLine, OnReady, OnOutput, OnHostRequest, OnDone, Handles
      <3> QED
        BY <1>0, <3>1, Shortened DEF TypeOK
    <2>2. CASE OnReady \/ OnOutput \/ OnDone
      <3>1. /\ UNCHANGED stdin /\ ready' \in {ready, "resolved"}
            /\ ready' # ready => ready = "pending"
        BY <2>2 DEF OnReady, OnOutput, OnDone
      <3>2. pending' \in SUBSET Calls /\ woken' \in SUBSET Calls /\ finished' \in SUBSET Calls
        BY <1>0, <2>2 DEF OnReady, OnOutput, OnDone, TypeOK
      <3>3. error' \in [Calls -> {"none", "own", "KernelDied"}]
        BY <1>0, <2>2 DEF OnReady, OnOutput, OnDone, TypeOK
      <3> QED
        BY <1>0, <2>1, <3>1, <3>2, <3>3 DEF TypeOK, sigVars, kernVars
    <2>3. CASE OnHostRequest
      <3>1. Head(stdout).id \in Calls
        BY <1>0, <2>1, <2>3 DEF OnHostRequest, Handles
      <3>2. /\ stdin' \in Seq(Lines)
            /\ \A l \in Range(stdin') : l.kind \in {"execute", "interrupt", "host_reply"}
                                        /\ l.id \in Calls
        BY <1>0, <2>3, <3>1, WritesKnown DEF OnHostRequest
      <3> QED
        BY <1>0, <2>1, <2>3, <3>2 DEF OnHostRequest, TypeOK, sigVars, kernVars
    <2> QED
      BY <1>6, <2>2, <2>3 DEF OnLine
  <1>7. CASE KernelGreets
    <2>1. Line("ready", NoCall) \in Lines /\ Line("ready", NoCall).kind = "ready"
      BY DEF Line, Lines
    <2>2. /\ stdout' \in Seq(Lines)
          /\ Range(stdout') = Range(stdout) \union {Line("ready", NoCall)}
      BY <1>0, <1>7, <2>1, Extended DEF KernelGreets, TypeOK
    <2> QED
      BY <1>0, <1>7, <2>1, <2>2 DEF KernelGreets, KernelKeeps, extVars, sigVars, TypeOK
  <1>8. CASE KernelReads
    <2> DEFINE line == Head(stdin)
    <2>1. /\ line \in Range(stdin) /\ stdin' \in Seq(Lines)
          /\ Range(stdin') \subseteq Range(stdin)
      BY <1>0, <1>8, Shortened DEF KernelReads, TypeOK
    <2>2. line.kind \in {"execute", "interrupt", "host_reply"} /\ line.id \in Calls
      BY <1>0, <2>1
    <2>3. /\ queue' \in Seq(Calls) /\ interrupted' \in SUBSET Calls /\ replied' \in SUBSET Calls
      <3>1. Append(queue, line.id) \in Seq(Calls)
        BY <1>0, <2>2, Extended DEF TypeOK
      <3> QED
        BY <1>0, <1>8, <2>2, <3>1 DEF KernelReads, TypeOK
    <2> QED
      BY <1>0, <1>8, <2>1, <2>3 DEF KernelReads, KernelKeeps, extVars, sigVars, TypeOK
  <1>9. CASE KernelRuns
    <2>1. Head(queue) \in Calls /\ Tail(queue) \in Seq(Calls)
      BY <1>0, <1>9, Shortened DEF KernelRuns, TypeOK
    <2> QED
      BY <1>0, <1>9, <2>1 DEF KernelRuns, KernelKeeps, extVars, sigVars, TypeOK
  <1>10. CASE CellAsks
    <2>1. /\ Line("host_request", running) \in Lines
          /\ Line("host_request", running).id \in Calls
          /\ running \in Calls
      BY <1>0, <1>10 DEF CellAsks, Line, Lines, TypeOK
    <2>2. /\ stdout' \in Seq(Lines)
          /\ Range(stdout') = Range(stdout) \union {Line("host_request", running)}
      BY <1>0, <1>10, <2>1, Extended DEF CellAsks, TypeOK
    <2> QED
      BY <1>0, <1>10, <2>1, <2>2 DEF CellAsks, KernelKeeps, extVars, sigVars, TypeOK
  <1>11. ASSUME NEW kind \in {"result", "error"}, CellEnds(kind) PROVE Known'
    <2> DEFINE a == Line(kind, running)
               b == Line("done", running)
    <2>1. a \in Lines /\ b \in Lines /\ a.id \in Calls /\ b.id \in Calls
      BY <1>0, <1>11 DEF CellEnds, Line, Lines, TypeOK
    <2>2. stdout' = stdout \o <<a, b>>
      BY <1>11 DEF CellEnds
    <2> HIDE DEF a, b
    <2>3. stdout' \in Seq(Lines) /\ Range(stdout') = Range(stdout) \union {a, b}
      BY <1>0, <2>1, <2>2, ExtendedTwice DEF TypeOK
    <2> QED
      BY <1>0, <1>11, <2>1, <2>3 DEF CellEnds, KernelKeeps, extVars, sigVars, TypeOK
  <1>12. CASE KernelDies \/ CellLoops \/ UNCHANGED vars
    <2>1. /\ UNCHANGED <<ready, exitInfo, call, pending, woken, error, finished, listens,
                         aborted, timedOut, spawned, stdin, stdout, greeted, queue, running,
                         interrupted, asked, replied>>
      BY <1>12 DEF KernelDies, CellLoops, KernelKeeps, vars, kernVars, extVars, sigVars
    <2>2. CASE KernelDies
      <3>1. up' = FALSE /\ looping' = looping
        BY <2>2 DEF KernelDies
      <3> QED
        BY <1>0, <2>1, <3>1 DEF TypeOK
    <2>3. CASE UNCHANGED vars
      <3>1. up' = up /\ looping' = looping
        BY <2>3 DEF vars, kernVars
      <3> QED
        BY <1>0, <2>1, <3>1 DEF TypeOK
    <2>4. CASE CellLoops
      <3>1. up' = up /\ looping' = TRUE
        BY <2>4 DEF CellLoops
      <3> QED
        BY <1>0, <2>1, <3>1 DEF TypeOK
    <2> QED
      BY <1>12, <2>2, <2>3, <2>4
  <1> QED
    BY <1>1, <1>2, <1>3, <1>4, <1>5, <1>6, <1>7, <1>8, <1>9, <1>10, <1>11, <1>12
       DEF Next, GoesOn, KernelWorks

(* The process hears of a call first when it is registered.                *)
LEMMA SpeaksStep ==
  ASSUME ExtInv, [Next]_vars, NEW e \in Calls, Speaks(e)'
  PROVE  Speaks(e) \/ (up /\ Registers(e))
  <1>0. Known
    BY DEF ExtInv
  <1>10. NoCall \notin Calls
    BY ExtAssumption
  <1> USE DEF Known, Speaks
  <1>1. ASSUME NEW d \in Calls, Registers(d) PROVE Speaks(e) \/ (up /\ Registers(e))
    <2>1. Line("execute", e) \in Range(stdin') =>
            Line("execute", e) \in Range(stdin) \/ (up /\ e = d)
      BY <1>0, <1>1, WritesKnown DEF Registers
    <2> QED
      BY <1>1, <2>1 DEF Registers, kernVars
  <1>2. ASSUME NEW d \in Calls, Abort(d) \/ CellTimesOut(d) PROVE Speaks(e)
    <2>1. Line("execute", e) \in Range(stdin') => Line("execute", e) \in Range(stdin)
      BY <1>0, <1>2, WritesKnown DEF Abort, CellTimesOut
    <2> QED
      BY <1>2, <2>1 DEF Abort, CellTimesOut, kernVars
  <1>3. CASE OnLine
    <2>1. /\ Head(stdout) \in Range(stdout) /\ Range(stdout') \subseteq Range(stdout)
          /\ UNCHANGED <<running, queue>>
      BY <1>0, <1>3, Shortened
         DEF OnLine, OnReady, OnOutput, OnHostRequest, OnDone, Handles, TypeOK, kernVars
    <2>2. Line("execute", e) \in Range(stdin') => Line("execute", e) \in Range(stdin)
      <3>1. CASE UNCHANGED stdin
        BY <3>1
      <3>2. CASE OnHostRequest
        <4>1. Head(stdout).id \in Calls
          BY <1>0, <2>1, <3>2 DEF OnHostRequest, Handles
        <4> QED
          BY <1>0, <3>2, <4>1, WritesKnown DEF OnHostRequest
      <3> QED
        BY <1>3, <3>1, <3>2 DEF OnLine, OnReady, OnOutput, OnDone
    <2> QED
      BY <2>1, <2>2
  <1>4. CASE KernelGreets
    <2>1. Line("ready", NoCall) \in Lines /\ Line("ready", NoCall).id = NoCall
      BY DEF Line, Lines
    <2>2. Range(stdout') = Range(stdout) \union {Line("ready", NoCall)}
      BY <1>0, <1>4, <2>1, Extended DEF KernelGreets, TypeOK
    <2> QED
      BY <1>10, <1>4, <2>1, <2>2 DEF KernelGreets, KernelKeeps
  <1>5. CASE KernelReads
    <2> DEFINE line == Head(stdin)
    <2>1. line \in Range(stdin) /\ line \in Lines /\ Range(stdin') \subseteq Range(stdin)
      BY <1>0, <1>5, Shortened DEF KernelReads, TypeOK
    <2>2. line.kind \in {"execute", "interrupt", "host_reply"} /\ line.id \in Calls
      BY <1>0, <2>1
    <2>3. e \in Range(queue') => e \in Range(queue) \/ (line.kind = "execute" /\ e = line.id)
      <3>1. Range(Append(queue, line.id)) = Range(queue) \union {line.id}
        BY <1>0, <2>2, Extended DEF TypeOK
      <3> QED
        <4>1. IF line.kind = "execute" THEN queue' = Append(queue, line.id)
                                       ELSE queue' = queue
          BY <1>5, <2>2 DEF KernelReads
        <4> QED
          BY <3>1, <4>1
    <2>4. line.kind = "execute" /\ e = line.id => line = Line("execute", e)
      BY <2>1 DEF Lines, Line
    <2> QED
      BY <1>5, <2>1, <2>3, <2>4 DEF KernelReads, KernelKeeps
  <1>6. CASE KernelRuns
    <2>1. Head(queue) \in Range(queue) /\ Range(queue') \subseteq Range(queue)
      BY <1>0, <1>6, Shortened DEF KernelRuns, TypeOK
    <2> QED
      BY <1>6, <2>1 DEF KernelRuns, KernelKeeps
  <1>7. CASE CellAsks
    <2>1. /\ Line("host_request", running) \in Lines
          /\ Line("host_request", running).id = running
      BY <1>0 DEF Line, Lines, TypeOK
    <2>2. Range(stdout') = Range(stdout) \union {Line("host_request", running)}
      BY <1>0, <1>7, <2>1, Extended DEF CellAsks, TypeOK
    <2> QED
      BY <1>7, <2>1, <2>2 DEF CellAsks, KernelKeeps
  <1>8. ASSUME NEW kind \in {"result", "error"}, CellEnds(kind) PROVE Speaks(e)
    <2> DEFINE a == Line(kind, running)
               b == Line("done", running)
    <2>1. a \in Lines /\ b \in Lines /\ a.id = running /\ b.id = running
      BY <1>0 DEF Line, Lines, TypeOK
    <2>2. stdout' = stdout \o <<a, b>>
      BY <1>8 DEF CellEnds
    <2> HIDE DEF a, b
    <2>3. Range(stdout') = Range(stdout) \union {a, b}
      BY <1>0, <2>1, <2>2, ExtendedTwice DEF TypeOK
    <2> QED
      BY <1>10, <1>8, <2>1, <2>3 DEF CellEnds, KernelKeeps
  <1>9. ASSUME UNCHANGED <<stdin, stdout, queue, running>> PROVE Speaks(e)
    BY <1>9
  <1> QED
    BY <1>1, <1>2, <1>3, <1>4, <1>5, <1>6, <1>7, <1>8, <1>9
       DEF Next, GoesOn, KernelWorks, Execute, Throws, Returns, StartTimesOut, OnExit,
           CellLoops, KernelKeeps, KernelDies, vars, kernVars, sigVars, extVars

(* Every call.                                                             *)
LEMMA CallStep ==
  ASSUME ExtInv, [Next]_vars, NEW e \in Calls
  PROVE  CallInv(e)'
  <1>0. Known /\ CallInv(e)
    BY DEF ExtInv
  <1>1. Speaks(e)' => Speaks(e) \/ (up /\ Registers(e))
    BY SpeaksStep
  <1> HIDE DEF Speaks
  <1> USE DEF CallInv
  <1>2. ASSUME UNCHANGED <<call, error, pending, woken, finished, exitInfo>>
        PROVE  CallInv(e)'
    <2>1. ~Registers(e)
      BY <1>0, <1>2 DEF Registers, Known, TypeOK
    <2> QED
      BY <1>0, <1>1, <1>2, <2>1
  <1>3. ASSUME NEW d \in Calls, Execute(d) PROVE CallInv(e)'
    <2>1. ~Registers(e) /\ UNCHANGED <<error, pending, woken, finished, exitInfo>>
      BY <1>0, <1>3 DEF Execute, Registers, Known, TypeOK
    <2>2. call' = [call EXCEPT ![d] = "starting"] /\ call[d] = "idle"
      BY <1>3 DEF Execute
    <2> QED
      BY <1>0, <1>1, <2>1, <2>2 DEF Known, TypeOK
  <1>4. ASSUME NEW d \in Calls, Registers(d) PROVE CallInv(e)'
    <2>1. /\ call' = [call EXCEPT ![d] = "waiting"] /\ call[d] = "starting"
          /\ pending' = pending \union {d}
          /\ UNCHANGED <<error, woken, finished, exitInfo>>
      BY <1>4 DEF Registers
    <2>2. Registers(e) => e = d
      BY <1>0, <2>1 DEF Registers, Known, TypeOK
    <2> QED
      BY <1>0, <1>1, <2>1, <2>2 DEF Known, TypeOK
  <1>5. ASSUME NEW d \in Calls, Throws(d) PROVE CallInv(e)'
    <2>1. /\ call' = [call EXCEPT ![d] = "thrown"] /\ call[d] = "starting"
          /\ UNCHANGED <<error, woken, finished, exitInfo, pending>>
      BY <1>5 DEF Throws
    <2>2. ~Registers(e)
      BY <1>0, <2>1 DEF Registers, Known, TypeOK
    <2> QED
      BY <1>0, <1>1, <2>1, <2>2 DEF Known, TypeOK
  <1>6. ASSUME NEW d \in Calls, Returns(d) PROVE CallInv(e)'
    <2>1. /\ call' = [call EXCEPT ![d] = "returned"] /\ call[d] = "waiting" /\ d \in woken
          /\ error' = IF exitInfo /\ error[d] = "none"
                      THEN [error EXCEPT ![d] = "KernelDied"] ELSE error
          /\ UNCHANGED <<woken, finished, exitInfo, pending>>
      BY <1>6 DEF Returns
    <2>2. ~Registers(e)
      BY <1>0, <2>1 DEF Registers, Known, TypeOK
    <2>3. CASE d = e
      BY <1>0, <1>1, <2>1, <2>2, <2>3 DEF Known, TypeOK
    <2>4. CASE d # e
      BY <1>0, <1>1, <2>1, <2>2, <2>4 DEF Known, TypeOK
    <2> QED
      BY <2>3, <2>4
  <1>7. CASE OnExit
    <2>1. /\ exitInfo' = TRUE /\ woken' = woken \union pending /\ pending' = {}
          /\ UNCHANGED <<call, error, finished>> /\ ~exitInfo
          /\ ~(call[e] = "waiting" /\ e \in woken)
      BY <1>7 DEF OnExit, Settled, MayGoOn
    <2>2. ~Registers(e)
      BY <1>0, <2>1 DEF Registers, Known, TypeOK
    <2> QED
      BY <1>0, <1>1, <2>1, <2>2
  <1>8. CASE OnReady
    BY <1>2, <1>8 DEF OnReady, Handles
  <1>9. CASE OnOutput
    <2>1. /\ UNCHANGED <<call, pending, woken, finished, exitInfo>>
          /\ error'[e] = error[e] \/ (e \in pending /\ error'[e] = "own")
      BY <1>0, <1>9 DEF OnOutput, Handles, Known, TypeOK
    <2>2. ~Registers(e)
      BY <1>0, <2>1 DEF Registers, Known, TypeOK
    <2> QED
      BY <1>0, <1>1, <2>1, <2>2
  <1>10. CASE OnHostRequest
    BY <1>2, <1>10 DEF OnHostRequest, Handles
  <1>11. CASE OnDone
    <2> DEFINE d == Head(stdout).id
    <2>1. /\ UNCHANGED <<call, error, exitInfo>>
          /\ IF d \in pending
             THEN /\ pending' = pending \ {d} /\ woken' = woken \union {d}
                  /\ finished' = finished \union {d}
             ELSE UNCHANGED <<pending, woken, finished>>
      BY <1>11 DEF OnDone, Handles
    <2>2. ~Registers(e)
      BY <1>0, <2>1 DEF Registers, Known, TypeOK
    <2>3. d = e => Speaks(e)
      BY <1>0, <1>11, Shortened DEF OnDone, Handles, Known, TypeOK, Speaks
    <2> HIDE DEF d
    <2> QED
      BY <1>0, <1>1, <2>1, <2>2, <2>3
  <1> QED
    BY <1>2, <1>3, <1>4, <1>5, <1>6, <1>7, <1>8, <1>9, <1>10, <1>11
       DEF Next, GoesOn, OnLine, Abort, CellTimesOut, StartTimesOut, KernelGreets,
           KernelWorks, KernelReads, KernelRuns, CellAsks, CellEnds, CellLoops, KernelDies,
           KernelKeeps, extVars, vars

(* The invariant of the extension.                                         *)
LEMMA ExtInvKept == Spec => []ExtInv
  <1>1. Init => ExtInv
    <2> SUFFICES ASSUME Init PROVE ExtInv
      OBVIOUS
    <2>1. Range(<<>>) = {} /\ \A S : <<>> \in Seq(S)
      BY EmptySeq, LenProperties DEF Range
    <2>2. TypeOK
      <3>1. <<>> \in Seq(Lines) /\ <<>> \in Seq(Calls) /\ 0 \in 0..1
        BY <2>1
      <3> QED
        BY <3>1 DEF Init, TypeOK
    <2>3. Range(stdin) = {} /\ Range(stdout) = {}
      BY <2>1 DEF Init
    <2>4. Known
      BY <2>2, <2>3 DEF Init, Known
    <2>5. ASSUME NEW e \in Calls PROVE CallInv(e)
      BY <2>1, <2>5, ExtAssumption DEF Init, CallInv, Speaks
    <2> QED
      BY <2>4, <2>5 DEF ExtInv
  <1>2. ExtInv /\ [Next]_vars => ExtInv'
    BY KnownStep, CallStep DEF ExtInv
  <1> QED
    BY <1>1, <1>2, PTL DEF Spec

(* The variables of the extension keep their types, for any tool calls,     *)
(* and all of them share one kernel process.                               *)
THEOREM ExtTypes == Spec => []TypeOK
  <1>1. ExtInv => TypeOK
    BY DEF ExtInv, Known
  <1> QED
    BY <1>1, ExtInvKept, PTL

(* However the exit callback races with the last lines, a call returns     *)
(* without an error only when its done event was handled, and one whose    *)
(* done event was handled is not said to have died with the kernel.        *)
THEOREM ExtResults == Spec => []ResultTrue
  <1>1. ExtInv => ResultTrue
    BY DEF ExtInv, CallInv, ResultTrue
  <1> QED
    BY <1>1, ExtInvKept, PTL

-----------------------------------------------------------------------------
(* The edit skill.                                                         *)

(* The calls between Lock and the deferred Unlock.                         *)
Inside == {"read", "create", "write", "rename", "return", "unrenamed"}

(* The calls that have read the file and not yet replaced it.              *)
HasRead(e) == pc[e] \in {"create", "write", "rename"}

(* A key has one mutex, no other key has it, every waiting call waits for  *)
(* it, and a call inside holds it.                                         *)
LockInv ==
  /\ \A k \in Keys : locks[k] # NoEdit => Key[locks[k]] = k
  /\ \A e \in Edits : pc[e] \in Inside \union {"lock"} =>
       /\ mutex[e] \in Edits /\ locks[Key[e]] = mutex[e]
  /\ \A e \in Edits : pc[e] \in Inside => holder[mutex[e]] = e

-----------------------------------------------------------------------------
(* Replacing tokens keeps the text a text.                                 *)
LEMMA ReplacedType ==
  ASSUME NEW e \in Edits, NEW t \in Seq(Tokens)
  PROVE  Replaced(e, t) \in Seq(Tokens)
  <1> DEFINE u == Replaced(e, t)
  <1>1. New[e] \in Tokens
    BY EditAssumption
  <1>2. Len(t) \in Nat /\ DOMAIN t = 1..Len(t) /\ \A i \in DOMAIN t : t[i] \in Tokens
    OBVIOUS
  <1>3. u = [i \in 1..Len(t) |-> IF t[i] = Old[e] THEN New[e] ELSE t[i]]
    BY <1>2 DEF Replaced
  <1>4. u \in [1..Len(t) -> Tokens]
    BY <1>1, <1>2, <1>3
  <1> QED
    BY <1>2, <1>4

(* The variables keep their types, for any edits of any file.              *)
THEOREM EditTypes == EditSpec => []EditTypeOK
  <1>1. EditInit => EditTypeOK
    <2>1. <<>> \in Seq(Tokens)
      OBVIOUS
    <2> QED
      BY <2>1, EditAssumption DEF EditInit, EditTypeOK, Pcs
  <1>2. EditTypeOK /\ [EditNext]_editVars => EditTypeOK'
    <2> SUFFICES ASSUME EditTypeOK, [EditNext]_editVars PROVE EditTypeOK'
      OBVIOUS
    <2> USE DEF EditTypeOK, Pcs, Goes, Unlocks
    <2>1. ASSUME NEW e \in Edits, Run(e) PROVE EditTypeOK'
      <3>1. CASE RefusesEmpty(e)
        BY <3>1 DEF RefusesEmpty
      <3>2. CASE LockFor(e)
        BY <3>2, EditAssumption DEF LockFor
      <3>3. CASE Locks(e)
        BY <3>3 DEF Locks
      <3>4. CASE Reads(e)
        BY <3>4 DEF Reads
      <3>5. CASE ReadFails(e) \/ CreateFails(e) \/ Finishes(e)
        BY <3>5 DEF ReadFails, CreateFails, Finishes
      <3>6. CASE CreatesTemp(e) \/ WritesTemp(e) \/ WriteFails(e) \/ RenameFails(e)
        BY <3>6 DEF CreatesTemp, WritesTemp, WriteFails, RenameFails
      <3>7. CASE Renames(e)
        BY <3>7, ReplacedType DEF Renames, ReadUnderOther
      <3> QED
        BY <2>1, <3>1, <3>2, <3>3, <3>4, <3>5, <3>6, <3>7 DEF Run
    <2>2. ASSUME NEW t \in Foreign, ForeignWrite(t) PROVE EditTypeOK'
      BY <2>2, EditAssumption DEF ForeignWrite
    <2>3. ASSUME NEW k \in Keys, Dies(k) PROVE EditTypeOK'
      BY <2>3 DEF Dies
    <2>4. CASE UNCHANGED editVars
      BY <2>4 DEF editVars
    <2> QED
      BY <2>1, <2>2, <2>3, <2>4 DEF EditNext
  <1> QED
    BY <1>1, <1>2, PTL DEF EditSpec

-----------------------------------------------------------------------------
(* Two calls inside under the same key are one.                            *)
LEMMA OneInside ==
  ASSUME LockInv, NEW d \in Edits, NEW e \in Edits,
         pc[d] \in Inside, pc[e] \in Inside, Key[d] = Key[e]
  PROVE  d = e
  BY DEF LockInv

(* The mutexes stay what LockInv says, whatever fails.                     *)
LEMMA LockStep ==
  ASSUME EditTypeOK, LockInv, EditNext
  PROVE  LockInv'
  <1> USE EditAssumption DEF EditTypeOK, LockInv, Inside, Goes, Unlocks
  <1>1. ASSUME NEW e \in Edits, Run(e) PROVE LockInv'
    <2>1. CASE RefusesEmpty(e)
      BY <2>1 DEF RefusesEmpty
    <2>2. CASE LockFor(e)
      BY <2>2 DEF LockFor
    <2>3. CASE Locks(e)
      BY <2>3 DEF Locks
    <2>4. CASE Reads(e)
      BY <2>4 DEF Reads
    <2>5. CASE ReadFails(e)
      BY <2>5 DEF ReadFails
    <2>6. CASE CreateFails(e)
      BY <2>6 DEF CreateFails
    <2>7. CASE WriteFails(e)
      BY <2>7 DEF WriteFails
    <2>8. CASE Finishes(e)
      BY <2>8 DEF Finishes
    <2>9. CASE CreatesTemp(e) \/ WritesTemp(e) \/ RenameFails(e)
      BY <2>9 DEF CreatesTemp, WritesTemp, RenameFails
    <2>10. CASE Renames(e)
      BY <2>10 DEF Renames
    <2> QED
      BY <1>1, <2>1, <2>2, <2>3, <2>4, <2>5, <2>6, <2>7, <2>8, <2>9, <2>10 DEF Run
  <1>2. ASSUME NEW t \in Foreign, ForeignWrite(t) PROVE LockInv'
    BY <1>2 DEF ForeignWrite
  <1>3. ASSUME NEW k \in Keys, Dies(k) PROVE LockInv'
    BY <1>3 DEF Dies
  <1> QED
    BY <1>1, <1>2, <1>3 DEF EditNext

(* The file stays what a call has read until the call replaces it: the     *)
(* calls that could write it are kept out, or their writes are noted.      *)
LEMMA SerialStep ==
  ASSUME EditTypeOK, LockInv, EditsSerialize, EditNext
  PROVE  EditsSerialize'
  <1> USE DEF EditsSerialize, Goes
  <1>1. ASSUME NEW e \in Edits, Run(e) PROVE EditsSerialize'
    <2>1. CASE Renames(e)
      <3> SUFFICES ASSUME NEW d \in Edits, d \notin crossed', HasRead(d)'
                   PROVE  FALSE
        BY DEF HasRead
      <3>1. d # e /\ HasRead(d)
        BY <2>1 DEF Renames, HasRead, EditTypeOK
      <3>2. Key[d] = Key[e]
        BY <2>1, <3>1 DEF Renames, ReadUnderOther, HasRead
      <3>3. pc[d] \in Inside /\ pc[e] \in Inside
        BY <2>1, <3>1 DEF Renames, HasRead, Inside
      <3> QED
        BY <3>1, <3>2, <3>3, OneInside
    <2>2. CASE Reads(e)
      BY <2>2 DEF Reads, EditTypeOK
    <2>3. CASE ~Renames(e) /\ ~Reads(e)
      BY <1>1, <2>3 DEF Run, RefusesEmpty, LockFor, Locks, ReadFails, CreatesTemp,
            CreateFails, WritesTemp, WriteFails, RenameFails, Finishes, EditTypeOK
    <2> QED
      BY <2>1, <2>2, <2>3
  <1>2. ASSUME NEW t \in Foreign, ForeignWrite(t) PROVE EditsSerialize'
    BY <1>2 DEF ForeignWrite
  <1>3. ASSUME NEW k \in Keys, Dies(k) PROVE EditsSerialize'
    BY <1>3 DEF Dies, EditTypeOK
  <1> QED
    BY <1>1, <1>2, <1>3 DEF EditNext

(* When an edit replaces the file, the file still is what it read, unless  *)
(* somebody wrote it under another key or without the skill.               *)
THEOREM EditsAreSerial == EditSpec => []EditsSerialize
  <1>1. EditInit => LockInv /\ EditsSerialize
    BY EditAssumption DEF EditInit, LockInv, Inside, EditsSerialize
  <1>2. EditTypeOK /\ LockInv /\ EditsSerialize /\ [EditNext]_editVars
          => LockInv' /\ EditsSerialize'
    <2>1. ASSUME EditTypeOK, LockInv, EditsSerialize, UNCHANGED editVars
          PROVE  LockInv' /\ EditsSerialize'
      BY <2>1 DEF editVars, LockInv, EditsSerialize
    <2> QED
      BY <2>1, LockStep, SerialStep
  <1> QED
    BY <1>1, <1>2, EditTypes, PTL DEF EditSpec

(* Only a rename that failed and a process that died leave a temp file.    *)
THEOREM EditsCleanUp == EditSpec => []NoStrayTemps
  <1>1. EditInit => NoStrayTemps
    BY DEF EditInit, NoStrayTemps
  <1>2. EditTypeOK /\ NoStrayTemps /\ [EditNext]_editVars => NoStrayTemps'
    <2> SUFFICES ASSUME EditTypeOK, NoStrayTemps, [EditNext]_editVars PROVE NoStrayTemps'
      OBVIOUS
    <2> USE DEF EditTypeOK, NoStrayTemps, Goes
    <2>1. ASSUME NEW e \in Edits, Run(e) PROVE NoStrayTemps'
      <3>1. CASE WriteFails(e) \/ Renames(e) \/ RenameFails(e)
        BY <3>1 DEF WriteFails, Renames, RenameFails
      <3>2. CASE CreatesTemp(e)
        <4>1. temps' = temps \union {e} /\ pc' = [pc EXCEPT ![e] = "write"]
          BY <3>2 DEF CreatesTemp
        <4> QED
          BY <4>1
      <3>3. CASE WritesTemp(e) \/ Finishes(e)
        BY <3>3 DEF WritesTemp, Finishes
      <3>4. CASE RefusesEmpty(e) \/ LockFor(e) \/ Locks(e)
        BY <3>4 DEF RefusesEmpty, LockFor, Locks
      <3>5. CASE Reads(e) \/ ReadFails(e) \/ CreateFails(e)
        BY <3>5 DEF Reads, ReadFails, CreateFails
      <3> QED
        BY <2>1, <3>1, <3>2, <3>3, <3>4, <3>5 DEF Run
    <2>2. ASSUME NEW t \in Foreign, ForeignWrite(t) PROVE NoStrayTemps'
      BY <2>2 DEF ForeignWrite
    <2>3. ASSUME NEW k \in Keys, Dies(k) PROVE NoStrayTemps'
      BY <2>3 DEF Dies
    <2>4. CASE UNCHANGED editVars
      BY <2>4 DEF editVars
    <2> QED
      BY <2>1, <2>2, <2>3, <2>4 DEF EditNext
  <1> QED
    BY <1>1, <1>2, EditTypes, PTL DEF EditSpec
=============================================================================
