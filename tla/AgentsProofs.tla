---------------------------- MODULE AgentsProofs ----------------------------
(***************************************************************************)
(* The subagent managers and the root's main loop, for any family of       *)
(* sessions, names, messages and capacities: no message the root's inbox   *)
(* accepts is lost or shown twice, and a roster lists the children it says.*)
(***************************************************************************)
EXTENDS Agents, TLAPS

(* The drained messages are all there is between inbox and conversation,   *)
(* and the model has seen the conversation while the loop goes on.         *)
LoopInv ==
  /\ messages \o drained \o inbox[Root] = accepted[Root]
  /\ rootPc = "loop" => drained = <<>>
  /\ Alive => shown = messages
  /\ rootPc = "exited" /\ round < Rounds => drained = <<>> /\ shown = messages

(* A child is asked for once, under one name, before it is born.           *)
SpawnInv ==
  /\ \A s \in Sessions, c \in Children : ask[s] = Spawning(c) =>
       /\ phase[c] = "unborn" /\ name[c] # None
       /\ \A t \in Sessions : ask[t] = Spawning(c) => t = s
  /\ \A c \in Children :
       IF phase[c] = "unborn" THEN parent[c] = None
                              ELSE name[c] # None /\ parent[c] # None

(* A roster lists a child under the name it was asked for under.           *)
ListedAsNamed ==
  \A s \in Sessions, n \in Names : roster[s][n] # None => name[roster[s][n]] = n

-----------------------------------------------------------------------------
(* Sequences of messages.                                                  *)

(* Taking the head of a queue to the end of the sequence before it.        *)
LEMMA MoveHead ==
  ASSUME NEW a \in Seq(Messages), NEW b \in Seq(Messages), NEW c \in Seq(Messages), c # <<>>
  PROVE  a \o Append(b, Head(c)) \o Tail(c) = a \o b \o c
  <1> DEFINE d == Tail(c)
             h == Head(c)
             l == a \o Append(b, h) \o d
             r == a \o b \o c
  <1>1. /\ d \in Seq(Messages) /\ h \in Messages /\ Len(c) = Len(d) + 1 /\ c[1] = h
        /\ \A i \in 1..Len(d) : d[i] = c[i + 1]
        /\ Len(a) \in Nat /\ Len(b) \in Nat /\ Len(d) \in Nat
    OBVIOUS
  <1> HIDE DEF d, h
  <1>2. /\ l \in Seq(Messages) /\ r \in Seq(Messages)
        /\ Len(l) = Len(a) + Len(b) + 1 + Len(d)
        /\ Len(r) = Len(a) + Len(b) + 1 + Len(d)
    <2>1. /\ Append(b, h) \in Seq(Messages) /\ Len(Append(b, h)) = Len(b) + 1
      BY <1>1
    <2>2. /\ a \o Append(b, h) \in Seq(Messages)
          /\ Len(a \o Append(b, h)) = Len(a) + Len(b) + 1
      BY <1>1, <2>1
    <2>3. a \o b \in Seq(Messages) /\ Len(a \o b) = Len(a) + Len(b)
      BY <1>1
    <2>4. Len(c) \in Nat
      OBVIOUS
    <2> QED
      BY <1>1, <2>2, <2>3, <2>4
  <1>3. ASSUME NEW i \in 1..Len(l) PROVE l[i] = r[i]
    <2>1. CASE i <= Len(a)
      BY <1>1, <1>2, <2>1
    <2>2. CASE i > Len(a) /\ i <= Len(a) + Len(b)
      BY <1>1, <1>2, <2>2
    <2>3. CASE i = Len(a) + Len(b) + 1
      BY <1>1, <1>2, <2>3
    <2>4. CASE i > Len(a) + Len(b) + 1
      <3> DEFINE j == i - Len(a) - Len(b) - 1
      <3>1. j \in 1..Len(d) /\ j + 1 \in 1..Len(c)
        BY <1>1, <1>2, <2>4
      <3>2. l[i] = d[j]
        BY <1>1, <2>4, <3>1
      <3>3. r[i] = c[j + 1]
        BY <1>1, <2>4, <3>1
      <3> QED
        BY <1>1, <3>1, <3>2, <3>3
    <2> QED
      BY <1>1, <1>2, <2>1, <2>2, <2>3, <2>4
  <1> HIDE DEF l, r
  <1>4. l = r
    BY <1>2, <1>3
  <1> QED
    BY <1>4 DEF l, r, d, h

(* Appending to the last of three sequences appends to all of them.        *)
LEMMA AppendLast ==
  ASSUME NEW a \in Seq(Messages), NEW b \in Seq(Messages), NEW c \in Seq(Messages), NEW x \in Messages
  PROVE  a \o b \o Append(c, x) = Append(a \o b \o c, x)
  OBVIOUS

(* An empty sequence in the middle changes nothing.                        *)
LEMMA EmptyMiddle ==
  ASSUME NEW a \in Seq(Messages), NEW b \in Seq(Messages)
  PROVE  /\ (a \o b) \o <<>> \o <<>> = a \o b \o <<>>
         /\ <<>> \in Seq(Messages) /\ a \o b \in Seq(Messages)
  OBVIOUS

-----------------------------------------------------------------------------
(* What a cell asks about, by the kind of what it asks.                    *)
LEMMA AskedAbout ==
  ASSUME NEW a \in Asks
  PROVE  /\ a.kind = "spawn_task" => a.about \in Children /\ a = Spawning(a.about)
         /\ a.kind = "to_parent" => a.about \in Messages
         /\ NoAsk \in Asks
  <1>1. CASE \E c \in Children : a = Spawning(c)
    BY <1>1 DEF Spawning, Asks
  <1>2. CASE \E m \in Messages : a = ToParent(m)
    BY <1>2 DEF ToParent, Asks
  <1>3. CASE a = Other \/ a = NoAsk
    BY <1>3 DEF Other, NoAsk, Asks
  <1> QED
    BY <1>1, <1>2, <1>3 DEF Asks

(* The variables keep their types and the inboxes their capacity, and the  *)
(* main loop runs no more rounds than it may.                              *)
THEOREM AgentsTypes == Spec => []TypeOK
  <1>1. Init => TypeOK
    <2>1. <<>> \in Seq(Messages) /\ Len(<<>>) = 0
      OBVIOUS
    <2> QED
      BY <2>1, AgentsAssumption DEF Init, TypeOK, Alive, NoAsk, Asks
  <1>2. TypeOK /\ [Next]_vars => TypeOK'
    <2> SUFFICES ASSUME TypeOK, [Next]_vars PROVE TypeOK'
      OBVIOUS
    <2> USE DEF TypeOK, Alive
    <2>1. ASSUME NEW s \in Sessions, NEW a \in Asks, AskFor(s, a),
                 name' \in [Children -> Names \union {None}],
                 sender' \in [Messages -> Sessions \union {None}]
          PROVE  TypeOK'
      BY <2>1 DEF AskFor, loopVars
    <2>2. ASSUME NEW s \in Sessions, NEW c \in Children, NEW n \in Names,
                 CellSpawns(s, c, n)
          PROVE  TypeOK'
      BY <2>1, <2>2 DEF CellSpawns, Asks
    <2>3. ASSUME NEW s \in Sessions, NEW m \in Messages, CellSends(s, m)
          PROVE  TypeOK'
      BY <2>1, <2>3 DEF CellSends, Asks
    <2>4. ASSUME NEW s \in Sessions, CellAsksOther(s) PROVE TypeOK'
      BY <2>1, <2>4 DEF CellAsksOther, Asks
    <2>5. ASSUME NEW s \in Sessions, Spawn(s) PROVE TypeOK'
      <3>1. ask[s].about \in Children /\ NoAsk \in Asks
        BY <2>5, AskedAbout DEF Spawn, Answers
      <3> QED
        BY <2>5, <3>1 DEF Spawn, Answers, loopVars
    <2>6. ASSUME NEW s \in Sessions, Deliver(s) PROVE TypeOK'
      <3>1. ask[s].about \in Messages /\ NoAsk \in Asks
        BY <2>6, AskedAbout DEF Deliver, Answers
      <3>2. /\ Append(inbox[s], ask[s].about) \in Seq(Messages)
            /\ Append(accepted[s], ask[s].about) \in Seq(Messages)
            /\ Len(Append(inbox[s], ask[s].about)) = Len(inbox[s]) + 1
            /\ Len(inbox[s]) \in Nat
        BY <3>1
      <3> QED
        BY <2>6, <3>1, <3>2, AgentsAssumption DEF Deliver, Answers, loopVars, childVars
    <2>7. ASSUME NEW s \in Sessions, DeliverRefuses(s) \/ AnswersOther(s) PROVE TypeOK'
      BY <2>7 DEF DeliverRefuses, AnswersOther, Answers, Asks, loopVars, childVars
    <2>8. ASSUME NEW c \in Children, ChildEnds(c) \/ ChildForgotten(c) PROVE TypeOK'
      <3>1. CASE ChildEnds(c)
        BY <3>1 DEF ChildEnds, loopVars
      <3>2. CASE ChildForgotten(c)
        BY <3>2 DEF ChildForgotten, loopVars
      <3> QED
        BY <2>8, <3>1, <3>2
    <2>9. CASE RootDrains
      <3>1. Root \in Sessions /\ Head(inbox[Root]) \in Messages
        BY <2>9 DEF RootDrains, Sessions
      <3>2. /\ Tail(inbox[Root]) \in Seq(Messages)
            /\ Len(Tail(inbox[Root])) <= InboxCap
            /\ Append(drained, Head(inbox[Root])) \in Seq(Messages)
        BY <2>9, <3>1, AgentsAssumption DEF RootDrains
      <3> QED
        BY <2>9, <3>1, <3>2 DEF RootDrains, RootKeeps, childVars
    <2>10. CASE RootGoesOn
      <3>1. messages \o drained \in Seq(Messages) /\ <<>> \in Seq(Messages)
        OBVIOUS
      <3>2. round + 1 \in 0..Rounds
        BY <2>10, AgentsAssumption DEF RootGoesOn
      <3> QED
        BY <2>10, <3>1, <3>2 DEF RootGoesOn, RootKeeps, childVars
    <2>11. CASE LoopEnds \/ RootAnswers
      BY <2>11 DEF LoopEnds, RootAnswers, RootKeeps, childVars
    <2>12. CASE UNCHANGED vars
      BY <2>12 DEF vars, loopVars, childVars
    <2> QED
      BY <2>2, <2>3, <2>4, <2>5, <2>6, <2>7, <2>8, <2>9, <2>10, <2>11, <2>12
         DEF Next, Serves, RootLoop
  <1> QED
    BY <1>1, <1>2, PTL DEF Spec

-----------------------------------------------------------------------------
(* Every message the root's inbox accepts reaches its conversation once    *)
(* and in order, and the model sees it unless it came in the last round.   *)
THEOREM AgentsMessages == Spec => []MessagesReachRoot
  <1>1. Init => LoopInv
    <2>1. <<>> \o <<>> \o <<>> = <<>>
      OBVIOUS
    <2> QED
      BY <2>1 DEF Init, LoopInv, Alive, Sessions
  <1>2. TypeOK /\ LoopInv /\ [Next]_vars => LoopInv'
    <2> SUFFICES ASSUME TypeOK, LoopInv, [Next]_vars PROVE LoopInv'
      OBVIOUS
    <2> USE DEF LoopInv, Alive
    <2>0. /\ Root \in Sessions /\ messages \in Seq(Messages) /\ drained \in Seq(Messages)
          /\ inbox[Root] \in Seq(Messages) /\ round \in Nat
      BY AgentsAssumption DEF TypeOK, Sessions
    <2>1. ASSUME UNCHANGED loopVars, inbox'[Root] = inbox[Root],
                 accepted'[Root] = accepted[Root]
          PROVE  LoopInv'
      BY <2>1 DEF loopVars
    <2>2. ASSUME NEW s \in Sessions, NEW a, AskFor(s, a), inbox' = inbox PROVE LoopInv'
      BY <2>1, <2>2 DEF AskFor
    <2>3. ASSUME NEW s \in Sessions, Deliver(s) PROVE LoopInv'
      <3> DEFINE m == ask[s].about
      <3>1. m \in Messages
        BY <2>3, AskedAbout DEF Deliver, Answers, TypeOK
      <3>2. messages \o drained \o Append(inbox[Root], m)
              = Append(messages \o drained \o inbox[Root], m)
        BY <2>0, <3>1, AppendLast, Zenon
      <3>3. CASE s = Root
        BY <2>0, <2>3, <3>2, <3>3 DEF Deliver, Answers, TypeOK, loopVars
      <3>4. CASE s # Root
        BY <2>0, <2>1, <2>3, <3>4 DEF Deliver, Answers, TypeOK
      <3> QED
        BY <3>3, <3>4
    <2>4. ASSUME NEW s \in Sessions, Spawn(s) \/ DeliverRefuses(s) \/ AnswersOther(s)
          PROVE  LoopInv'
      BY <2>1, <2>4 DEF Spawn, DeliverRefuses, AnswersOther, Answers
    <2>5. ASSUME NEW c \in Children, ChildEnds(c) \/ ChildForgotten(c) PROVE LoopInv'
      BY <2>1, <2>5 DEF ChildEnds, ChildForgotten
    <2>6. CASE RootDrains
      <3>0. inbox[Root] # <<>>
        BY <2>6 DEF RootDrains
      <3>1. messages \o Append(drained, Head(inbox[Root])) \o Tail(inbox[Root])
              = messages \o drained \o inbox[Root]
        BY <2>0, <3>0, MoveHead, Zenon
      <3>2. inbox'[Root] = Tail(inbox[Root])
        BY <2>0, <2>6 DEF RootDrains, TypeOK
      <3> QED
        BY <2>6, <3>1, <3>2 DEF RootDrains, RootKeeps
    <2>7. CASE RootGoesOn
      <3>1. (messages \o drained) \o <<>> \o <<>> = messages \o drained \o <<>>
        BY <2>0, EmptyMiddle
      <3>2. round + 1 < Rounds => rootPc' = "loop" /\ shown' = messages'
        BY <2>7 DEF RootGoesOn
      <3>3. ~(round + 1 < Rounds) => rootPc' = "exited"
        BY <2>7 DEF RootGoesOn
      <3> QED
        BY <2>7, <3>1, <3>2, <3>3 DEF RootGoesOn, RootKeeps
    <2>8. CASE LoopEnds \/ RootAnswers
      BY <2>8 DEF LoopEnds, RootAnswers, RootKeeps
    <2>9. CASE UNCHANGED vars
      BY <2>1, <2>9 DEF vars
    <2> QED
      BY <2>2, <2>3, <2>4, <2>5, <2>6, <2>7, <2>8, <2>9
         DEF Next, Serves, RootLoop, CellSpawns, CellSends, CellAsksOther, AskFor
  <1>3. LoopInv => MessagesReachRoot
    BY DEF LoopInv, MessagesReachRoot
  <1> QED
    BY <1>1, <1>2, <1>3, AgentsTypes, PTL DEF Spec

-----------------------------------------------------------------------------
(* A name that a roster holds is the child's own, and the names and        *)
(* parents of children that exist do not change.                           *)
RosterInv == SpawnInv /\ ListedAsNamed /\ RosterAgrees

(* A cell's request adds a name nobody has asked for yet.                  *)
LEMMA AskKeepsRoster ==
  ASSUME TypeOK, RosterInv, NEW s \in Sessions,
         \/ \E c \in Children, n \in Names : CellSpawns(s, c, n)
         \/ \E m \in Messages : CellSends(s, m)
         \/ CellAsksOther(s)
  PROVE  RosterInv'
  <1> USE DEF RosterInv, SpawnInv, ListedAsNamed, RosterAgrees, TypeOK
  <1>1. ASSUME NEW c \in Children, NEW n \in Names, CellSpawns(s, c, n)
        PROVE  RosterInv'
    <2>1. name[c] = None /\ phase[c] = "unborn" /\ n # None
      BY <1>1, AgentsAssumption DEF CellSpawns
    <2>2. \A t \in Sessions : ask[t] # Spawning(c)
      BY <2>1
    <2>3. \A t \in Sessions, n2 \in Names : roster[t][n2] # c
      <3> SUFFICES ASSUME NEW t \in Sessions, NEW n2 \in Names, roster[t][n2] = c
                   PROVE  FALSE
        OBVIOUS
      <3>1. phase[c] \in {"running", "ended"}
        OBVIOUS
      <3> QED
        BY <2>1, <3>1
    <2>4. /\ ask' = [ask EXCEPT ![s] = Spawning(c)] /\ name' = [name EXCEPT ![c] = n]
          /\ UNCHANGED <<roster, phase, parent>>
      BY <1>1 DEF CellSpawns, AskFor
    <2>5. \A d \in Children : Spawning(d) = Spawning(c) => d = c
      BY DEF Spawning
    <2>6. SpawnInv'
      BY <2>1, <2>2, <2>4, <2>5
    <2>7. ListedAsNamed'
      <3> SUFFICES ASSUME NEW t \in Sessions, NEW n2 \in Names, roster[t][n2] # None
                   PROVE  name'[roster[t][n2]] = n2
        BY <2>4
      <3>1. name[roster[t][n2]] = n2 /\ roster[t][n2] \in Children
        OBVIOUS
      <3>2. roster[t][n2] # c
        BY <2>3
      <3> QED
        BY <2>4, <3>1, <3>2
    <2>8. RosterAgrees'
      BY <2>1, <2>3, <2>4
    <2> QED
      BY <2>6, <2>7, <2>8
  <1>2. ASSUME NEW a \in {ToParent(m) : m \in Messages} \union {Other},
               AskFor(s, a), UNCHANGED name
        PROVE  RosterInv'
    <2>1. \A c \in Children : a # Spawning(c)
      BY <1>2 DEF ToParent, Other, Spawning
    <2>2. ask' = [ask EXCEPT ![s] = a] /\ UNCHANGED <<roster, phase, parent>>
      BY <1>2 DEF AskFor
    <2>3. SpawnInv'
      BY <1>2, <2>1, <2>2
    <2> QED
      BY <1>2, <2>2, <2>3
  <1> QED
    BY <1>1, <1>2 DEF CellSends, CellAsksOther

(* Spawning lists the new child, over a sibling of the same name at most.  *)
LEMMA SpawnKeepsRoster ==
  ASSUME TypeOK, RosterInv, NEW s \in Sessions, Spawn(s)
  PROVE  RosterInv'
  <1> DEFINE c == ask[s].about
             n == name[c]
  <1> USE DEF RosterInv, SpawnInv, ListedAsNamed, RosterAgrees, TypeOK
  <1>1. c \in Children /\ ask[s] = Spawning(c)
    BY AskedAbout DEF Spawn, Answers
  <1>2. phase[c] = "unborn" /\ n \in Names /\ s # None
    BY <1>1, AgentsAssumption
  <1>3. /\ ask' = [ask EXCEPT ![s] = NoAsk]
        /\ roster' = [roster EXCEPT ![s][n] = c]
        /\ phase' = [phase EXCEPT ![c] = "running"]
        /\ parent' = [parent EXCEPT ![c] = s]
        /\ UNCHANGED name
    BY DEF Spawn, Answers
  <1>4. \A t \in Sessions, n2 \in Names : roster[t][n2] # c
    BY <1>1, <1>2
  <1>5. \A d \in Children : NoAsk # Spawning(d)
    BY DEF NoAsk, Spawning
  <1>6. \A t \in Sessions, n2 \in Names :
          roster'[t][n2] = IF t = s /\ n2 = n THEN c ELSE roster[t][n2]
    BY <1>2, <1>3
  <1> HIDE DEF c, n
  <1>7. SpawnInv'
    BY <1>1, <1>2, <1>3, <1>5 DEF n
  <1>8. ListedAsNamed'
    BY <1>1, <1>3, <1>6 DEF n
  <1>9. ASSUME NEW d \in Children PROVE RosterAgrees!(d)'
    <2>1. CASE d = c
      BY <1>1, <1>2, <1>3, <1>4, <1>6, <2>1 DEF n
    <2>2. CASE d # c
      <3>1. parent'[d] = parent[d] /\ phase'[d] = phase[d]
        BY <1>1, <1>3, <2>2
      <3>2. ASSUME phase[d] = "running", parent[d] = s, name[d] = n
            PROVE  \E x \in Children \ {d} : parent'[x] = parent'[d] /\ name'[x] = name'[d]
        BY <1>1, <1>3, <2>2, <3>1, <3>2 DEF n
      <3>3. ASSUME phase[d] = "running", ~(parent[d] = s /\ name[d] = n)
            PROVE  \/ roster'[parent'[d]][name'[d]] = d
                   \/ \E x \in Children \ {d} : parent'[x] = parent'[d] /\ name'[x] = name'[d]
        <4>1. parent[d] \in Sessions /\ name[d] \in Names
          BY <3>3
        <4>2. CASE roster[parent[d]][name[d]] = d
          BY <1>3, <1>6, <3>1, <3>3, <4>1, <4>2
        <4>3. CASE \E x \in Children \ {d} : parent[x] = parent[d] /\ name[x] = name[d]
          <5> PICK x \in Children \ {d} : parent[x] = parent[d] /\ name[x] = name[d]
            BY <4>3
          <5>1. x # c
            BY <1>1, <1>2, <3>3, <4>1, AgentsAssumption
          <5> QED
            BY <1>1, <1>3, <3>1, <5>1
        <4> QED
          BY <3>3, <4>2, <4>3
      <3> QED
        BY <1>1, <1>3, <1>6, <2>2, <3>1, <3>2, <3>3
    <2> QED
      BY <2>1, <2>2
  <1> QED
    BY <1>7, <1>8, <1>9

(* A child that ends stays listed until it is forgotten.                   *)
LEMMA EndKeepsRoster ==
  ASSUME TypeOK, RosterInv, NEW c \in Children, ChildEnds(c)
  PROVE  RosterInv'
  <1> USE DEF RosterInv, SpawnInv, ListedAsNamed, RosterAgrees, TypeOK
  <1>1. /\ phase[c] = "running" /\ phase' = [phase EXCEPT ![c] = "ended"]
        /\ UNCHANGED <<ask, roster, parent, name>>
    BY DEF ChildEnds
  <1>2. \A d \in Children : phase'[d] = IF d = c THEN "ended" ELSE phase[d]
    BY <1>1
  <1>3. SpawnInv'
    BY <1>1, <1>2
  <1>4. ListedAsNamed'
    BY <1>1
  <1>5. RosterAgrees'
    BY <1>1, <1>2
  <1> QED
    BY <1>3, <1>4, <1>5

(* Forgetting a child unlists whoever has its name: the child itself or a  *)
(* sibling of that name.                                                   *)
LEMMA ForgetKeepsRoster ==
  ASSUME TypeOK, RosterInv, NEW c \in Children, ChildForgotten(c)
  PROVE  RosterInv'
  <1> DEFINE s == parent[c]
             n == name[c]
  <1> USE DEF RosterInv, SpawnInv, ListedAsNamed, RosterAgrees, TypeOK
  <1>1. /\ phase[c] = "ended" /\ phase' = [phase EXCEPT ![c] = "gone"]
        /\ roster' = [roster EXCEPT ![s][n] = None]
        /\ UNCHANGED <<ask, parent, name>>
    BY DEF ChildForgotten
  <1>2. s \in Sessions /\ n \in Names /\ None \notin Children
    BY <1>1, AgentsAssumption DEF Sessions
  <1>3. \A d \in Children : phase'[d] = IF d = c THEN "gone" ELSE phase[d]
    BY <1>1
  <1>4. \A t \in Sessions, n2 \in Names :
          roster'[t][n2] = IF t = s /\ n2 = n THEN None ELSE roster[t][n2]
    BY <1>1, <1>2
  <1> HIDE DEF s, n
  <1>5. SpawnInv'
    BY <1>1, <1>3
  <1>6. ListedAsNamed'
    BY <1>1, <1>2, <1>4
  <1>7. ASSUME NEW d \in Children, NEW t \in Sessions, NEW n2 \in Names,
               roster'[t][n2] = d
        PROVE  parent'[d] = t /\ phase'[d] \in {"running", "ended"}
    <2>1. ~(t = s /\ n2 = n) /\ roster[t][n2] = d
      BY <1>2, <1>4, <1>7
    <2>2. parent[d] = t /\ phase[d] \in {"running", "ended"}
      BY <2>1
    <2>4. name[d] = n2
      BY <1>2, <2>1
    <2>3. d # c
      BY <2>1, <2>2, <2>4 DEF s, n
    <2> QED
      BY <1>1, <1>3, <2>2, <2>3
  <1>8. ASSUME NEW d \in Children, phase'[d] = "running"
        PROVE  \/ roster'[parent'[d]][name'[d]] = d
               \/ \E x \in Children \ {d} : parent'[x] = parent'[d] /\ name'[x] = name'[d]
    <2>1. d # c /\ phase[d] = "running"
      BY <1>3, <1>8
    <2>2. parent[d] \in Sessions /\ name[d] \in Names
      BY <2>1
    <2>3. CASE parent[d] = s /\ name[d] = n
      BY <1>1, <2>1, <2>3 DEF s, n
    <2>4. CASE ~(parent[d] = s /\ name[d] = n)
      <3>1. roster'[parent[d]][name[d]] = roster[parent[d]][name[d]]
        BY <1>4, <2>2, <2>4
      <3>2. \/ roster[parent[d]][name[d]] = d
            \/ \E x \in Children \ {d} : parent[x] = parent[d] /\ name[x] = name[d]
        BY <2>1
      <3> QED
        BY <1>1, <3>1, <3>2
    <2> QED
      BY <2>3, <2>4
  <1>9. RosterAgrees'
    BY <1>7, <1>8
  <1> QED
    BY <1>5, <1>6, <1>9

(* An answer that changes no child leaves the rosters as they are.         *)
LEMMA AnswerKeepsRoster ==
  ASSUME TypeOK, RosterInv, NEW s \in Sessions,
         Deliver(s) \/ DeliverRefuses(s) \/ AnswersOther(s)
  PROVE  RosterInv'
  <1> USE DEF RosterInv, SpawnInv, ListedAsNamed, RosterAgrees, TypeOK
  <1>1. ask' = [ask EXCEPT ![s] = NoAsk] /\ UNCHANGED <<roster, phase, parent, name>>
    BY DEF Deliver, DeliverRefuses, AnswersOther, Answers, childVars
  <1>2. \A d \in Children : NoAsk # Spawning(d)
    BY DEF NoAsk, Spawning
  <1>3. SpawnInv'
    BY <1>1, <1>2
  <1> QED
    BY <1>1, <1>3

(* What list_agents answers is true: a child it lists has not been         *)
(* forgotten, and a running child is listed unless a sibling has its name. *)
THEOREM AgentsRoster == Spec => []RosterAgrees
  <1>1. Init => RosterInv
    <2> SUFFICES ASSUME Init PROVE RosterInv
      OBVIOUS
    <2>1. \A d \in Children : NoAsk # Spawning(d) /\ d # None
      BY AgentsAssumption DEF NoAsk, Spawning, Sessions
    <2> QED
      BY <2>1, AgentsAssumption
         DEF Init, RosterInv, SpawnInv, ListedAsNamed, RosterAgrees
  <1>2. TypeOK /\ RosterInv /\ [Next]_vars => RosterInv'
    <2> SUFFICES ASSUME TypeOK, RosterInv, [Next]_vars PROVE RosterInv'
      OBVIOUS
    <2>1. ASSUME UNCHANGED <<ask, roster, phase, parent, name>> PROVE RosterInv'
      BY <2>1 DEF RosterInv, SpawnInv, ListedAsNamed, RosterAgrees
    <2>2. CASE RootLoop
      BY <2>1, <2>2 DEF RootLoop, LoopEnds, RootDrains, RootAnswers, RootGoesOn,
                        RootKeeps, childVars
    <2>3. CASE UNCHANGED vars
      BY <2>1, <2>3 DEF vars, childVars
    <2> QED
      BY <2>2, <2>3, AskKeepsRoster, SpawnKeepsRoster, AnswerKeepsRoster,
         EndKeepsRoster, ForgetKeepsRoster DEF Next, Serves
  <1>3. RosterInv => RosterAgrees
    BY DEF RosterInv
  <1> QED
    BY <1>1, <1>2, <1>3, AgentsTypes, PTL DEF Spec
=============================================================================
