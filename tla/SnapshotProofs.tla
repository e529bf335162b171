--------------------------- MODULE SnapshotProofs ---------------------------
(***************************************************************************)
(* Snapshot and restore, for any names, values, sizes and limits: what an  *)
(* answered snapshot saved stays restorable, a name is pruned only once    *)
(* both files are in place, and the plan's loop does to every entry what   *)
(* the limits say of it.                                                   *)
(*                                                                         *)
(* The loop and the sums of sizes are recursive functions.  What holds of  *)
(* them by induction is proved from a least counterexample: a number, or a *)
(* subset of a finite set.                                                 *)
(***************************************************************************)
EXTENDS Snapshot, FiniteSetTheorems, TLAPS

(* The files a request has behind it are written.                          *)
Written ==
  /\ file \in Files
  /\ file = "manifest" /\ pc \in {"stage", "rename"} => payload = plan.saved
  /\ pc = "prune" => payload = plan.saved /\ (manifested => manifest = plan)

(* A request that has not been answered sets out to save its plan.         *)
Trying == pc # "idle" => plan.saved \in tried

PromiseInv == Written /\ Trying /\ PromiseKept

(* A request's steps and all the others keep the promise.                  *)
LEMMA PromiseStep == PromiseInv /\ [Next]_vars => PromiseInv'
  <1> SUFFICES ASSUME PromiseInv, [Next]_vars PROVE PromiseInv'
    OBVIOUS
  <1> USE DEF PromiseInv, Written, Trying, PromiseKept, Files, SnapshotKeeps, reqVars,
              diskVars, histVars
  <1>1. ASSUME NEW l \in Limits, NEW m \in Manifested, SnapshotBegins(l, m)
        PROVE  PromiseInv'
    BY <1>1 DEF SnapshotBegins
  <1>2. CASE Stage \/ StageFails \/ RenameFails
    BY <1>2 DEF Stage, StageFails, RenameFails, Fails
  <1>3. CASE RenamePayload
    BY <1>3 DEF RenamePayload
  <1>4. CASE RenameManifest
    BY <1>4 DEF RenameManifest
  <1>5. CASE SnapshotEnds
    BY <1>5 DEF SnapshotEnds
  <1>6. CASE \/ RestoreMissing \/ RestoreCorrupt \/ Restore
             \/ \E n \in Names, v \in Values : CellSets(n, v)
    BY <1>6 DEF RestoreMissing, RestoreCorrupt, Restore, CellSets, IdleKeeps
  <1>7. CASE HostDamages
    BY <1>7 DEF HostDamages
  <1>8. CASE Restart
    BY <1>8 DEF Restart
  <1>9. CASE UNCHANGED vars
    BY <1>9 DEF vars
  <1> QED
    BY <1>1, <1>2, <1>3, <1>4, <1>5, <1>6, <1>7, <1>8, <1>9 DEF Next

(* It holds in every reachable state.                                      *)
LEMMA PromiseInvKept == Spec => []PromiseInv
  <1>1. Init => PromiseInv
    BY DEF Init, PromiseInv, Written, Trying, PromiseKept, Files
  <1> QED
    BY <1>1, PromiseStep, PTL DEF Spec

(* What an answered snapshot saved stays restorable, through whatever      *)
(* failures and restarts: the payload file is that snapshot's or the       *)
(* complete payload of one that began later.                               *)
THEOREM SnapshotKeepsPromise == Spec => []PromiseKept
  <1>1. PromiseInv => PromiseKept
    BY DEF PromiseInv
  <1> QED
    BY <1>1, PromiseInvKept, PTL

(* A running kernel loses a name only to a snapshot that pruned it and has *)
(* both its files in place.                                                *)
THEOREM SnapshotPrunesWritten == Spec => PrunedOnlyOnceWritten
  <1> DEFINE Justified == \A n \in DOMAIN scope \ DOMAIN scope' :
                            \/ Restart
                            \/ /\ n \in plan.pruned /\ answer' = "ok"
                               /\ payload = plan.saved
                               /\ manifested => manifest = plan
  <1>1. PromiseInv /\ [Next]_vars => Justified \/ UNCHANGED vars
    <2> SUFFICES ASSUME PromiseInv, Next PROVE Justified
      OBVIOUS
    <2>1. ASSUME DOMAIN scope \subseteq DOMAIN scope' PROVE Justified
      BY <2>1
    <2>2. CASE SnapshotEnds
      BY <2>2 DEF SnapshotEnds, PromiseInv, Written
    <2>3. CASE Restart
      BY <2>3
    <2>4. CASE Restore \/ \E n \in Names, v \in Values : CellSets(n, v)
      BY <2>1, <2>4 DEF Restore, CellSets
    <2>5. CASE UNCHANGED scope
      BY <2>1, <2>5
    <2> QED
      BY <2>2, <2>3, <2>4, <2>5
         DEF Next, SnapshotBegins, Stage, StageFails, RenamePayload, RenameManifest,
             RenameFails, SnapshotKeeps, RestoreMissing, RestoreCorrupt, HostDamages
  <1>2. PromiseInv /\ [Next]_vars => [Justified]_vars
    BY <1>1
  <1> QED
    BY <1>2, PromiseInvKept, PTL DEF Spec, PrunedOnlyOnceWritten

-----------------------------------------------------------------------------
(* Least counterexamples.                                                  *)

(* A set of numbers has a least element.                                   *)
LEMMA LeastNumber ==
  ASSUME NEW T \in SUBSET Nat, T # {}
  PROVE  \E n \in T : \A k \in T : n <= k
  <1>1. PICK n \in T : \A k \in T : ~ (<<k, n>> \in OpToRel(<, Nat))
    BY NatLessThanWellFounded, WFMin
  <1>2. \A k \in T : ~ (k < n)
    BY <1>1 DEF OpToRel
  <1> QED
    BY <1>2

(* A family of subsets of a finite set has a least one.                    *)
LEMMA LeastSet ==
  ASSUME NEW S, IsFiniteSet(S), NEW F \in SUBSET (SUBSET S), F # {}
  PROVE  \E s \in F : \A t \in F : t \subseteq s => t = s
  <1>1. F \subseteq FiniteSubsetsOf(S)
    BY FS_Subset DEF FiniteSubsetsOf
  <1>2. PICK s \in F : \A t \in F : ~ (<<t, s>> \in StrictSubsetOrdering(S))
    BY <1>1, FS_StrictSubsetOrderingWellFounded, WFMin
  <1> QED
    BY <1>2 DEF StrictSubsetOrdering

-----------------------------------------------------------------------------
(* Sums of sizes.                                                          *)

(* g[s] is the sum of w[x] over the elements x of s, for the subsets s of  *)
(* S, as MapThenSumSet adds them up.                                       *)
Summand(s) == CHOOSE x \in s : TRUE

Sums(g, S, w) ==
  g = [s \in SUBSET S |->
         IF s = {} THEN 0 ELSE w[Summand(s)] + g[s \ {Summand(s)}]]

(* What is added up first is of the set.                                   *)
LEMMA SummandIn ==
  ASSUME NEW s, s # {}
  PROVE  Summand(s) \in s
  BY DEF Summand

(* Sums over two sets agree on what is in both.                            *)
LEMMA SumsAgree ==
  ASSUME NEW D, IsFiniteSet(D), NEW w, NEW S \in SUBSET D, NEW T \in SUBSET D,
         NEW g, NEW h, Sums(g, S, w), Sums(h, T, w)
  PROVE  \A s \in SUBSET (S \intersect T) : g[s] = h[s]
  <1> DEFINE F == {s \in SUBSET (S \intersect T) : g[s] # h[s]}
  <1> SUFFICES ASSUME F # {} PROVE FALSE
    OBVIOUS
  <1>1. PICK s \in F : \A t \in F : t \subseteq s => t = s
    <2>1. F \in SUBSET (SUBSET D)
      OBVIOUS
    <2> HIDE DEF F
    <2> QED
      BY <2>1, LeastSet
  <1>2. s # {}
    BY DEF Sums
  <1> DEFINE x == Summand(s)
             t == s \ {x}
  <1>3. x \in s /\ t \in SUBSET (S \intersect T) /\ t # s /\ t \subseteq s
    BY <1>2, SummandIn DEF Sums
  <1>4. g[t] = h[t]
    BY <1>1, <1>3
  <1>5. g[s] = w[x] + g[t] /\ h[s] = w[x] + h[t]
    BY <1>2, SummandIn DEF Sums
  <1> QED
    BY <1>4, <1>5

(* There are sums over every set.                                          *)
LEMMA SumsExist ==
  ASSUME NEW D, IsFiniteSet(D), NEW w
  PROVE  \A S \in SUBSET D : \E g : Sums(g, S, w)
  <1> DEFINE F == {S \in SUBSET D : ~ \E g : Sums(g, S, w)}
  <1> SUFFICES ASSUME F # {} PROVE FALSE
    OBVIOUS
  <1>1. PICK S \in F : \A t \in F : t \subseteq S => t = S
    <2>1. F \in SUBSET (SUBSET D)
      OBVIOUS
    <2> HIDE DEF F
    <2> QED
      BY <2>1, LeastSet
  <1> DEFINE G(t) == CHOOSE g : Sums(g, t, w)
  <1>2. ASSUME NEW t \in SUBSET S, t # S PROVE Sums(G(t), t, w)
    BY <1>1, <1>2
  <1> HIDE DEF G, F
  <1> DEFINE Rest(s) == s \ {Summand(s)}
             h == [s \in SUBSET S |->
                     IF s = {} THEN 0 ELSE w[Summand(s)] + G(Rest(s))[Rest(s)]]
  <1>3. ASSUME NEW s \in SUBSET S, s # {}
        PROVE  Rest(s) \in SUBSET S /\ Rest(s) # S /\ Rest(s) \subseteq s
    BY <1>3 DEF Summand
  <1>4. ASSUME NEW s \in SUBSET S, s # {}
        PROVE  h[Rest(s)] = G(Rest(s))[Rest(s)]
    <2> DEFINE u == Rest(s)
    <2>1. u \in SUBSET S /\ u # S /\ Sums(G(u), u, w)
      BY <1>2, <1>3, <1>4
    <2> HIDE DEF u
    <2>2. CASE u = {}
      <3>1. G(u)[{}] = 0
        BY <2>1 DEF Sums
      <3> QED
        BY <2>1, <2>2, <3>1 DEF u
    <2>3. CASE u # {}
      <3> DEFINE v == Rest(u)
      <3>1. v \in SUBSET S /\ v # S /\ v \subseteq u /\ Sums(G(v), v, w)
        BY <1>2, <1>3, <2>1, <2>3
      <3>2. G(u)[u] = w[Summand(u)] + G(u)[v]
        BY <2>1, <2>3, SummandIn DEF Sums
      <3>3. h[u] = w[Summand(u)] + G(v)[v]
        BY <2>1, <2>3
      <3> HIDE DEF v, h
      <3>4. G(u)[v] = G(v)[v]
        <4>1. S \in SUBSET D
          BY <1>1 DEF F
        <4>2. u \in SUBSET D /\ v \in SUBSET D /\ v \in SUBSET (u \intersect v)
          BY <2>1, <3>1, <4>1
        <4> QED
          BY <2>1, <3>1, <4>2, SumsAgree
      <3> QED
        BY <3>2, <3>3, <3>4 DEF u
    <2> QED
      BY <2>2, <2>3
  <1>5. Sums(h, S, w)
    BY <1>4 DEF Sums
  <1> QED
    BY <1>1, <1>5 DEF F

(* Any element may be added up first.                                      *)
LEMMA SumsAdd ==
  ASSUME NEW D, IsFiniteSet(D), NEW w \in [D -> Nat], NEW g, Sums(g, D, w)
  PROVE  \A s \in SUBSET D : /\ g[s] \in Nat
                             /\ \A x \in s : g[s] = w[x] + g[s \ {x}]
  <1> DEFINE F == {s \in SUBSET D : ~ (/\ g[s] \in Nat
                                       /\ \A x \in s : g[s] = w[x] + g[s \ {x}])}
  <1> SUFFICES ASSUME F # {} PROVE FALSE
    OBVIOUS
  <1>1. PICK s \in F : \A t \in F : t \subseteq s => t = s
    <2>1. F \in SUBSET (SUBSET D)
      OBVIOUS
    <2> HIDE DEF F
    <2> QED
      BY <2>1, LeastSet
  <1>2. s # {}
    BY DEF Sums
  <1> DEFINE p == Summand(s)
  <1>3. p \in s /\ g[s] = w[p] + g[s \ {p}]
    BY <1>2, SummandIn DEF Sums
  <1> HIDE DEF p
  <1>4. ASSUME NEW x \in s
        PROVE  /\ g[s \ {x}] \in Nat
               /\ \A y \in s \ {x} : g[s \ {x}] = w[y] + g[(s \ {x}) \ {y}]
    BY <1>1, <1>4
  <1>5. g[s] \in Nat
    <2>1. s \in SUBSET D
      BY <1>1
    <2>2. w[p] \in Nat /\ g[s \ {p}] \in Nat
      BY <1>3, <1>4, <2>1
    <2> HIDE DEF F
    <2> QED
      BY <1>3, <2>2
  <1>6. ASSUME NEW x \in s, x # p PROVE g[s] = w[x] + g[s \ {x}]
    <2>1. (s \ {x}) \ {p} = (s \ {p}) \ {x}
      OBVIOUS
    <2> DEFINE t == (s \ {p}) \ {x}
    <2>2. g[s \ {p}] = w[x] + g[t] /\ g[s \ {x}] = w[p] + g[t]
      <3>1. p \in s \ {x} /\ x \in s \ {p}
        BY <1>3, <1>6
      <3>2. g[s \ {p}] = w[x] + g[t]
        BY <1>3, <1>4, <3>1
      <3>3. g[s \ {x}] = w[p] + g[(s \ {x}) \ {p}]
        BY <1>4, <3>1
      <3> QED
        BY <2>1, <3>2, <3>3
    <2>3. t \in SUBSET D /\ t \subseteq s /\ t # s
      BY <1>6
    <2>4. g[t] \in Nat
      BY <1>1, <2>3
    <2>5. w[x] \in Nat /\ w[p] \in Nat
      BY <1>3
    <2> HIDE DEF t, F
    <2> QED
      BY <1>3, <2>2, <2>4, <2>5
  <1> QED
    BY <1>3, <1>5, <1>6

(* The bytes of a set of entries are those of each of them.                *)
LEMMA SizeOfSums ==
  ASSUME NEW m \in Namespaces
  PROVE  /\ SizeOf({}, m) = 0
         /\ \A S \in SUBSET DOMAIN m :
              /\ SizeOf(S, m) \in Nat
              /\ \A x \in DOMAIN m \ S :
                   SizeOf(S \union {x}, m) = SizeOf(S, m) + Size[m[x]]
  <1> DEFINE D == DOMAIN m
             w == [n \in D |-> Size[m[n]]]
             G(S) == CHOOSE g : Sums(g, S, w)
  <1>1. D \in SUBSET Names /\ IsFiniteSet(D) /\ w \in [D -> Nat]
    <2>1. IsFiniteSet(Names)
      BY FS_Interval, SnapshotAssumption DEF Names
    <2>2. PICK S \in SUBSET Names : m \in [S -> Values]
      BY DEF Namespaces
    <2>3. D = S /\ \A n \in D : m[n] \in Values
      BY <2>2
    <2> QED
      BY <2>1, <2>3, FS_Subset, SnapshotAssumption
  <1>2. ASSUME NEW S \in SUBSET D
        PROVE  SizeOf(S, m) = G(S)[S]
    BY DEF SizeOf, MapThenSumSet, MapThenFoldSet, Sums, Summand
  <1> HIDE DEF w
  <1>3. PICK g : Sums(g, D, w)
    BY <1>1, SumsExist
  <1>4. ASSUME NEW S \in SUBSET D PROVE SizeOf(S, m) = g[S]
    <2>1. Sums(G(S), S, w)
      BY <1>1, SumsExist
    <2> HIDE DEF G
    <2>2. G(S)[S] = g[S]
      <3>1. D \in SUBSET D /\ S \in SUBSET (S \intersect D)
        OBVIOUS
      <3> QED
        BY <1>1, <1>3, <2>1, <3>1, SumsAgree
    <2> QED
      BY <1>2, <2>2
  <1> HIDE DEF G
  <1>5. SizeOf({}, m) = 0
    <2>1. {} \in SUBSET D
      OBVIOUS
    <2>2. g[{}] = 0
      BY <1>3 DEF Sums
    <2> QED
      BY <1>4, <2>1, <2>2
  <1>6. ASSUME NEW S \in SUBSET D, NEW x \in D \ S
        PROVE  SizeOf(S \union {x}, m) = SizeOf(S, m) + Size[m[x]]
    <2>1. (S \union {x}) \ {x} = S /\ S \union {x} \in SUBSET D
      OBVIOUS
    <2>2. g[S \union {x}] = w[x] + g[S]
      BY <1>1, <1>3, <2>1, SumsAdd
    <2>3. w[x] = Size[m[x]]
      BY DEF w
    <2>4. w[x] \in Nat /\ g[S] \in Nat
      BY <1>1, <1>3, SumsAdd
    <2> QED
      BY <1>4, <2>1, <2>2, <2>3, <2>4
  <1> QED
    BY <1>1, <1>3, <1>4, <1>5, <1>6, SumsAdd

-----------------------------------------------------------------------------
(* The loop of planSnapshot.                                               *)

(* f[n] is the plan once the loop has seen the names up to n, for n to k.  *)
Loop(f, k, e, l) ==
  f = [n \in 0..k |-> IF n = 0 THEN EmptyPlan
                      ELSE IF n \in DOMAIN e THEN Take(f[n - 1], n, e[n], l)
                           ELSE f[n - 1]]

(* The loop is defined, however far it goes.                               *)
LEMMA LoopExists ==
  ASSUME NEW e, NEW l
  PROVE  \A k \in Nat : \E f : Loop(f, k, e, l)
  <1> DEFINE T == {k \in Nat : ~ \E f : Loop(f, k, e, l)}
  <1> SUFFICES ASSUME T # {} PROVE FALSE
    OBVIOUS
  <1>1. PICK k \in T : \A i \in T : k <= i
    <2>1. T \in SUBSET Nat
      OBVIOUS
    <2> HIDE DEF T
    <2> QED
      BY <2>1, LeastNumber
  <1>2. CASE k = 0
    <2>1. Loop([n \in 0..0 |-> EmptyPlan], 0, e, l)
      BY DEF Loop
    <2> QED
      BY <1>1, <1>2, <2>1
  <1>3. CASE k # 0
    <2>1. k - 1 \in Nat /\ k - 1 \notin T
      BY <1>1, <1>3
    <2>2. PICK f : Loop(f, k - 1, e, l)
      BY <2>1
    <2> DEFINE g == [n \in 0..k |-> IF n < k THEN f[n]
                                    ELSE IF k \in DOMAIN e THEN Take(f[k - 1], k, e[k], l)
                                         ELSE f[k - 1]]
    <2>3. ASSUME NEW n \in 0..k
          PROVE  g[n] = IF n = 0 THEN EmptyPlan
                        ELSE IF n \in DOMAIN e THEN Take(g[n - 1], n, e[n], l)
                             ELSE g[n - 1]
      <3>1. CASE n = k
        <4>1. n # 0 /\ n - 1 \in 0..k /\ n - 1 < k /\ k \in Nat
          BY <1>1, <1>3, <3>1
        <4>2. g[n - 1] = f[n - 1]
          BY <4>1
        <4> QED
          BY <3>1, <4>1, <4>2
      <3>2. CASE n # k
        <4>1. n \in 0..(k - 1) /\ n < k /\ k \in Nat
          BY <1>1, <3>2
        <4>2. g[n] = f[n] /\ (n # 0 => n - 1 \in 0..k /\ n - 1 < k /\ g[n - 1] = f[n - 1])
          BY <4>1
        <4>3. f[n] = IF n = 0 THEN EmptyPlan
                     ELSE IF n \in DOMAIN e THEN Take(f[n - 1], n, e[n], l)
                          ELSE f[n - 1]
          BY <2>2, <4>1 DEF Loop
        <4> QED
          BY <4>2, <4>3
      <3> QED
        BY <3>1, <3>2
    <2>4. Loop(g, k, e, l)
      BY <2>3 DEF Loop
    <2> QED
      BY <1>1, <2>4
  <1> QED
    BY <1>2, <1>3

(* The plan is where the loop ends.                                        *)
LEMMA PlanIsLoop ==
  ASSUME NEW e, NEW l
  PROVE  \E f : Loop(f, NumNames, e, l) /\ PlanSnapshot(e, l) = f[NumNames]
  <1> DEFINE f == CHOOSE f : Loop(f, NumNames, e, l)
  <1>1. Loop(f, NumNames, e, l)
    BY LoopExists, SnapshotAssumption
  <1>2. PlanSnapshot(e, l) = f[NumNames]
    BY DEF PlanSnapshot, Loop
  <1> HIDE DEF f
  <1> QED
    BY <1>1, <1>2

(* What becomes of an entry, and what is saved up to it.                   *)
Savable(e, i)   == e[i] \notin Unsavable
Small(e, l, i)  == Size[e[i]] <= l.maxVar
Upto(saved, i)  == {m \in saved : m < i} \union {i}
Seen(e, n)      == {i \in DOMAIN e : i <= n}

(* p is the plan for the names up to n.                                    *)
Planned(p, n, e, l) ==
  LET saved == DOMAIN p.saved
  IN /\ saved = {i \in Seen(e, n) : /\ Savable(e, i) /\ Small(e, l, i)
                                    /\ SizeOf(Upto(saved, i), e) <= l.maxTotal}
     /\ p.pruned = {i \in Seen(e, n) : l.prune /\ Savable(e, i) /\ ~Small(e, l, i)}
     /\ p.skipped = Seen(e, n) \ (saved \union p.pruned)
     /\ \A i \in saved : p.saved[i] = e[i]
     /\ p.bytes = SizeOf(saved, e)

(* A small entry there is room for is saved.                               *)
LEMMA TakeSaves ==
  ASSUME NEW p \in Plans, NEW n, NEW v, NEW l, v \notin Unsavable,
         Size[v] \in Nat, l.maxVar \in Nat, l.maxTotal \in Nat,
         Size[v] <= l.maxVar, p.bytes + Size[v] <= l.maxTotal
  PROVE  Take(p, n, v, l) =
           [saved |-> [m \in DOMAIN p.saved \union {n} |-> IF m = n THEN v ELSE p.saved[m]],
            skipped |-> p.skipped, pruned |-> p.pruned, bytes |-> p.bytes + Size[v]]
  <1>1. p.bytes \in Nat
    BY DEF Plans
  <1>2. /\ ~ (Size[v] > l.maxVar)
        /\ ~ (p.bytes + Size[v] > l.maxTotal)
    BY <1>1
  <1>3. Take(p, n, v, l) = [p EXCEPT !.saved = [m \in DOMAIN @ \union {n} |->
                                       IF m = n THEN v ELSE @[m]],
                          !.bytes = @ + Size[v]]
    BY <1>2 DEF Take
  <1> QED
    BY <1>3 DEF Plans

(* An entry too large for the limit is pruned on request.                  *)
LEMMA TakePrunes ==
  ASSUME NEW p \in Plans, NEW n, NEW v, NEW l, v \notin Unsavable,
         Size[v] \in Nat, l.maxVar \in Nat,
         Size[v] > l.maxVar, l.prune
  PROVE  Take(p, n, v, l) =
           [saved |-> p.saved, skipped |-> p.skipped, pruned |-> p.pruned \union {n},
            bytes |-> p.bytes]
  <1>1. ~(Size[v] <= l.maxVar)
    OBVIOUS
  <1>3. Take(p, n, v, l) = [p EXCEPT !.pruned = @ \union {n}]
    BY <1>1 DEF Take
  <1> QED
    BY <1>3 DEF Plans

(* Everything else is skipped.                                             *)
LEMMA TakeSkips ==
  ASSUME NEW p \in Plans, NEW n, NEW v, NEW l,
         Size[v] \in Nat, l.maxVar \in Nat, l.maxTotal \in Nat,
         \/ v \in Unsavable
         \/ Size[v] > l.maxVar /\ ~l.prune
         \/ Size[v] <= l.maxVar /\ p.bytes + Size[v] > l.maxTotal
  PROVE  Take(p, n, v, l) =
           [saved |-> p.saved, skipped |-> p.skipped \union {n}, pruned |-> p.pruned,
            bytes |-> p.bytes]
  <1>1. ~(Size[v] <= l.maxVar /\ Size[v] > l.maxVar)
    OBVIOUS
  <1>3. Take(p, n, v, l) = [p EXCEPT !.skipped = @ \union {n}]
    BY <1>1 DEF Take
  <1> QED
    BY <1>3 DEF Plans

(* Taking one more name sets that name's fate and leaves the others'.      *)
LEMMA TakePlans ==
  ASSUME NEW e \in Namespaces, NEW l \in Limits, NEW n \in Names, n \in DOMAIN e,
         NEW p \in Plans, Planned(p, n - 1, e, l)
  PROVE  Take(p, n, e[n], l) \in Plans /\ Planned(Take(p, n, e[n], l), n, e, l)
  <1> DEFINE q == Take(p, n, e[n], l)
             S == DOMAIN p.saved
             v == e[n]
  <1>0. /\ DOMAIN e \in SUBSET Names /\ e \in [DOMAIN e -> Values]
        /\ \A i \in DOMAIN e : e[i] \in Values /\ Size[e[i]] \in Nat
        /\ l.maxVar \in Nat /\ l.maxTotal \in Nat /\ l.prune \in BOOLEAN
        /\ n \in Nat /\ n - 1 \in Nat /\ Names \in SUBSET Nat
        /\ p.saved \in Namespaces /\ p.bytes \in Nat
        /\ p.skipped \in SUBSET Names /\ p.pruned \in SUBSET Names
        /\ p = [saved |-> p.saved, skipped |-> p.skipped, pruned |-> p.pruned,
                bytes |-> p.bytes]
    <2>1. PICK D \in SUBSET Names : e \in [D -> Values]
      BY DEF Namespaces
    <2>2. DOMAIN e = D
      BY <2>1
    <2>3. \A i \in DOMAIN e : e[i] \in Values /\ Size[e[i]] \in Nat
      BY <2>1, SnapshotAssumption
    <2>4. l.maxVar \in Nat /\ l.maxTotal \in Nat /\ l.prune \in BOOLEAN
      BY SnapshotAssumption
    <2>5. n \in Nat /\ n - 1 \in Nat /\ Names \in SUBSET Nat
      BY SnapshotAssumption DEF Names
    <2> QED
      BY <2>1, <2>2, <2>3, <2>4, <2>5 DEF Plans
  <1>1. Seen(e, n) = Seen(e, n - 1) \union {n} /\ n \notin Seen(e, n - 1)
    BY <1>0 DEF Seen
  <1>2. /\ S \subseteq Seen(e, n - 1) /\ S \in SUBSET DOMAIN e /\ n \notin S
        /\ \A i \in S : i \in Nat /\ i < n
    BY <1>0, <1>1 DEF Planned, Seen
  <1>3. /\ SizeOf(S, e) \in Nat /\ p.bytes = SizeOf(S, e)
        /\ SizeOf(S \union {n}, e) = p.bytes + Size[v]
    <2>1. p.bytes = SizeOf(S, e)
      BY DEF Planned
    <2>2. S \in SUBSET DOMAIN e /\ n \in DOMAIN e \ S
      BY <1>2
    <2>3. SizeOf(S, e) \in Nat /\ SizeOf(S \union {n}, e) = SizeOf(S, e) + Size[v]
      BY <2>2, SizeOfSums
    <2> QED
      BY <2>1, <2>3
  <1>4. Upto(S, n) = S \union {n} /\ Upto(S \union {n}, n) = S \union {n}
    BY <1>0, <1>2 DEF Upto
  <1>5. \A i \in Seen(e, n - 1) : Upto(S \union {n}, i) = Upto(S, i)
    BY <1>0, <1>1 DEF Upto, Seen
  <1>6. /\ S = {i \in Seen(e, n - 1) : /\ Savable(e, i) /\ Small(e, l, i)
                                       /\ SizeOf(Upto(S, i), e) <= l.maxTotal}
        /\ p.pruned = {i \in Seen(e, n - 1) : l.prune /\ Savable(e, i) /\ ~Small(e, l, i)}
        /\ p.skipped = Seen(e, n - 1) \ (S \union p.pruned)
        /\ \A i \in S : p.saved[i] = e[i]
    BY DEF Planned
  <1> DEFINE Saves == Savable(e, n) /\ Small(e, l, n) /\ p.bytes + Size[v] <= l.maxTotal
             Prunes == Savable(e, n) /\ ~Small(e, l, n) /\ l.prune
  <1>7. CASE Saves
    <2> DEFINE f == [m \in S \union {n} |-> IF m = n THEN v ELSE p.saved[m]]
    <2>1. q = [saved |-> f, skipped |-> p.skipped, pruned |-> p.pruned,
               bytes |-> p.bytes + Size[v]]
      BY <1>0, <1>7, TakeSaves DEF Savable, Small
    <2>2. f \in Namespaces
      <3>1. S \union {n} \in SUBSET Names
        BY <1>0, <1>2
      <3>2. f \in [S \union {n} -> Values]
        BY <1>0, <1>2, <1>6
      <3> QED
        BY <3>1, <3>2 DEF Namespaces
    <2>3. p.bytes + Size[v] \in Nat
      BY <1>0
    <2>4. DOMAIN f = S \union {n} /\ \A i \in S \union {n} : f[i] = e[i]
      BY <1>6
    <2> HIDE DEF f, q
    <2>5. q \in Plans
      BY <1>0, <2>1, <2>2, <2>3 DEF Plans
    <2>6. S \union {n} = {i \in Seen(e, n) :
                            /\ Savable(e, i) /\ Small(e, l, i)
                            /\ SizeOf(Upto(S \union {n}, i), e) <= l.maxTotal}
      BY <1>1, <1>3, <1>4, <1>5, <1>6, <1>7
    <2>7. p.pruned = {i \in Seen(e, n) : l.prune /\ Savable(e, i) /\ ~Small(e, l, i)}
      BY <1>1, <1>6, <1>7
    <2>8. p.skipped = Seen(e, n) \ ((S \union {n}) \union p.pruned)
      BY <1>1, <1>6
    <2>9. /\ DOMAIN q.saved = S \union {n} /\ \A i \in S \union {n} : q.saved[i] = e[i]
          /\ q.skipped = p.skipped /\ q.pruned = p.pruned /\ q.bytes = p.bytes + Size[v]
      BY <2>1, <2>4
    <2>10. Planned(q, n, e, l)
      BY <1>3, <2>6, <2>7, <2>8, <2>9 DEF Planned
    <2> QED
      BY <2>5, <2>10 DEF q
  <1>8. ASSUME ~Saves
        PROVE  S = {i \in Seen(e, n) : /\ Savable(e, i) /\ Small(e, l, i)
                                       /\ SizeOf(Upto(S, i), e) <= l.maxTotal}
    <2>1. ~ (Savable(e, n) /\ Small(e, l, n) /\ SizeOf(Upto(S, n), e) <= l.maxTotal)
      BY <1>3, <1>4, <1>8
    <2> QED
      BY <1>1, <1>6, <2>1
  <1>9. CASE Prunes
    <2>1. q = [saved |-> p.saved, skipped |-> p.skipped, pruned |-> p.pruned \union {n},
               bytes |-> p.bytes]
      BY <1>0, <1>9, TakePrunes DEF Savable, Small
    <2> HIDE DEF q
    <2>2. q \in Plans
      BY <1>0, <2>1 DEF Plans
    <2>3. S = {i \in Seen(e, n) : /\ Savable(e, i) /\ Small(e, l, i)
                                  /\ SizeOf(Upto(S, i), e) <= l.maxTotal}
      BY <1>8, <1>9
    <2>4. p.pruned \union {n} =
            {i \in Seen(e, n) : l.prune /\ Savable(e, i) /\ ~Small(e, l, i)}
      BY <1>1, <1>6, <1>9
    <2>5. p.skipped = Seen(e, n) \ (S \union (p.pruned \union {n}))
      BY <1>1, <1>6
    <2>6. /\ q.saved = p.saved /\ q.skipped = p.skipped /\ q.pruned = p.pruned \union {n}
          /\ q.bytes = p.bytes
      BY <2>1
    <2>7. Planned(q, n, e, l)
      BY <1>3, <1>6, <2>3, <2>4, <2>5, <2>6 DEF Planned
    <2> QED
      BY <2>2, <2>7 DEF q
  <1>10. CASE ~Saves /\ ~Prunes
    <2>1. q = [saved |-> p.saved, skipped |-> p.skipped \union {n}, pruned |-> p.pruned,
               bytes |-> p.bytes]
      BY <1>0, <1>10, TakeSkips DEF Savable, Small
    <2> HIDE DEF q
    <2>2. q \in Plans
      BY <1>0, <2>1 DEF Plans
    <2>3. S = {i \in Seen(e, n) : /\ Savable(e, i) /\ Small(e, l, i)
                                  /\ SizeOf(Upto(S, i), e) <= l.maxTotal}
      BY <1>8, <1>10
    <2>4. p.pruned = {i \in Seen(e, n) : l.prune /\ Savable(e, i) /\ ~Small(e, l, i)}
      BY <1>1, <1>6, <1>10
    <2>5. p.skipped \union {n} = Seen(e, n) \ (S \union p.pruned)
      BY <1>1, <1>2, <1>6
    <2>6. /\ q.saved = p.saved /\ q.skipped = p.skipped \union {n} /\ q.pruned = p.pruned
          /\ q.bytes = p.bytes
      BY <2>1
    <2>7. Planned(q, n, e, l)
      BY <1>3, <1>6, <2>3, <2>4, <2>5, <2>6 DEF Planned
    <2> QED
      BY <2>2, <2>7 DEF q
  <1> QED
    BY <1>7, <1>9, <1>10

(* A plan says of every entry what the limits say of it.                   *)
LEMMA PlanIsSound ==
  ASSUME NEW e \in Namespaces, NEW l \in Limits
  PROVE  PlanSnapshot(e, l) \in Plans /\ Planned(PlanSnapshot(e, l), NumNames, e, l)
  <1>1. PICK f : Loop(f, NumNames, e, l) /\ PlanSnapshot(e, l) = f[NumNames]
    BY PlanIsLoop
  <1> DEFINE T == {n \in 0..NumNames : ~ (f[n] \in Plans /\ Planned(f[n], n, e, l))}
  <1>2. SUFFICES ASSUME T # {} PROVE FALSE
    BY <1>1, SnapshotAssumption
  <1>3. PICK n \in T : \A i \in T : n <= i
    <2>1. T \in SUBSET Nat
      BY SnapshotAssumption
    <2> HIDE DEF T
    <2> QED
      BY <1>2, <2>1, LeastNumber
  <1>4. DOMAIN e \in SUBSET Names
    BY DEF Namespaces
  <1>5. n # 0
    <2>1. f[0] = EmptyPlan /\ Seen(e, 0) = {}
      BY <1>1, <1>4, SnapshotAssumption DEF Loop, Seen, Names
    <2>2. SizeOf({}, e) = 0
      BY SizeOfSums
    <2>3. EmptyPlan \in Plans /\ DOMAIN EmptyPlan.saved = {}
      <3>1. Empty \in [{} -> Values] /\ DOMAIN Empty = {}
        BY DEF Empty
      <3>2. Empty \in Namespaces
        BY <3>1 DEF Namespaces
      <3> QED
        BY <3>1, <3>2 DEF EmptyPlan, Plans
    <2>4. Planned(EmptyPlan, 0, e, l)
      BY <2>1, <2>2, <2>3 DEF Planned, EmptyPlan
    <2> QED
      BY <2>1, <2>3, <2>4
  <1>6. /\ n \in Names /\ n - 1 \in 0..NumNames /\ n - 1 \notin T
        /\ n \in 0..NumNames
    BY <1>3, <1>5, SnapshotAssumption DEF Names
  <1>7. f[n - 1] \in Plans /\ Planned(f[n - 1], n - 1, e, l)
    BY <1>6
  <1>8. f[n] \in Plans /\ Planned(f[n], n, e, l)
    <2>1. CASE n \in DOMAIN e
      <3>1. f[n] = Take(f[n - 1], n, e[n], l)
        BY <1>1, <1>5, <1>6, <2>1 DEF Loop
      <3> QED
        BY <1>6, <1>7, <2>1, <3>1, TakePlans
    <2>2. CASE n \notin DOMAIN e
      <3>1. f[n] = f[n - 1]
        BY <1>1, <1>5, <1>6, <2>2 DEF Loop
      <3>2. Seen(e, n) = Seen(e, n - 1)
        BY <1>4, <1>6, <2>2, SnapshotAssumption DEF Seen, Names
      <3> QED
        BY <1>7, <3>1, <3>2 DEF Planned
    <2> QED
      BY <2>1, <2>2
  <1> QED
    BY <1>3, <1>8

-----------------------------------------------------------------------------
(* Types, and the plan of a snapshot under way.                            *)

(* Entries that are set, or left, make a namespace.                        *)
LEMMA IsNamespace ==
  ASSUME NEW S \in SUBSET Names, NEW f, DOMAIN f = S, f \in [S -> Values]
  PROVE  f \in Namespaces
  BY DEF Namespaces

(* A namespace's names and values.                                         *)
LEMMA NamespaceType ==
  ASSUME NEW f \in Namespaces
  PROVE  /\ DOMAIN f \in SUBSET Names /\ f \in [DOMAIN f -> Values]
         /\ \A n \in DOMAIN f : f[n] \in Values
  BY DEF Namespaces

(* The plan of a request is made once, and nothing it rests on changes     *)
(* before the request is answered.                                         *)
LEMMA PlanStep == TypeOK /\ PlanSound /\ [Next]_vars => (TypeOK /\ PlanSound)'
  <1> SUFFICES ASSUME TypeOK, PlanSound, [Next]_vars PROVE TypeOK' /\ PlanSound'
    OBVIOUS
  <1> USE DEF SnapshotKeeps, reqVars, diskVars, histVars
  <1>1. ASSUME pc' = "idle" \/ UNCHANGED <<pc, plan, scope, lim>> PROVE PlanSound'
    BY <1>1 DEF PlanSound
  <1>2. ASSUME NEW l \in Limits, NEW m \in Manifested, SnapshotBegins(l, m)
        PROVE  TypeOK' /\ PlanSound'
    <2>1. plan' \in Plans /\ Planned(plan', NumNames, scope', lim')
      BY <1>2, PlanIsSound DEF SnapshotBegins, TypeOK
    <2>2. Seen(scope', NumNames) = DOMAIN scope'
      <3>1. scope' = scope /\ DOMAIN scope \in SUBSET Names
        BY <1>2, NamespaceType DEF SnapshotBegins, TypeOK
      <3>2. \A i \in Names : i <= NumNames
        BY SnapshotAssumption DEF Names
      <3> QED
        BY <3>1, <3>2 DEF Seen
    <2>3. PlanSound'
      BY <2>1, <2>2 DEF Planned, PlanSound, Savable, Small, Upto
    <2>4. m \in BOOLEAN /\ nSnapshots + 1 \in 0..MaxSnapshots /\ plan'.saved \in Namespaces
      BY <1>2, <2>1, SnapshotAssumption DEF SnapshotBegins, TypeOK, Plans
    <2> QED
      BY <1>2, <2>1, <2>3, <2>4 DEF SnapshotBegins, TypeOK, Files
  <1>3. CASE Stage \/ StageFails \/ RenameFails
    <2>1. PlanSound'
      BY <1>1, <1>3 DEF Stage, StageFails, RenameFails, Fails, PlanSound
    <2> QED
      BY <1>3, <2>1 DEF Stage, StageFails, RenameFails, Fails, TypeOK
  <1>4. CASE RenamePayload \/ RenameManifest
    <2>1. PlanSound'
      BY <1>4 DEF RenamePayload, RenameManifest, PlanSound
    <2>2. plan.saved \in Namespaces
      BY DEF TypeOK, Plans
    <2> QED
      BY <1>4, <2>1, <2>2 DEF RenamePayload, RenameManifest, TypeOK, Files
  <1>5. CASE SnapshotEnds
    <2>1. scope' \in Namespaces
      <3> DEFINE S == DOMAIN scope \ (IF lim.prune THEN plan.pruned ELSE {})
      <3>1. scope' = [n \in S |-> scope[n]]
        BY <1>5 DEF SnapshotEnds
      <3>2. S \in SUBSET Names /\ \A n \in S : scope[n] \in Values
        BY NamespaceType DEF TypeOK
      <3> HIDE DEF S
      <3> QED
        BY <3>1, <3>2, IsNamespace
    <2>2. plan.saved \in Namespaces
      BY DEF TypeOK, Plans
    <2> QED
      BY <1>1, <1>5, <2>1, <2>2 DEF SnapshotEnds, TypeOK
  <1>6. CASE RestoreMissing \/ RestoreCorrupt
    BY <1>1, <1>6 DEF RestoreMissing, RestoreCorrupt, IdleKeeps, TypeOK
  <1>7. CASE Restore
    <2>1. scope' \in Namespaces
      <3> DEFINE S == DOMAIN payload \union DOMAIN scope
      <3>1. scope' = [n \in S |-> IF n \in DOMAIN payload THEN payload[n] ELSE scope[n]]
        BY <1>7 DEF Restore
      <3>2. payload \in Namespaces
        BY <1>7 DEF Restore, TypeOK
      <3>3. /\ S \in SUBSET Names
            /\ \A n \in S : (IF n \in DOMAIN payload THEN payload[n] ELSE scope[n]) \in Values
        BY <3>2, NamespaceType DEF TypeOK
      <3> HIDE DEF S
      <3> QED
        BY <3>1, <3>3, IsNamespace
    <2>2. pc' = "idle"
      BY <1>7 DEF Restore, IdleKeeps
    <2> QED
      BY <1>1, <1>7, <2>1, <2>2 DEF Restore, IdleKeeps, TypeOK
  <1>8. ASSUME NEW n \in Names, NEW v \in Values, CellSets(n, v)
        PROVE  TypeOK' /\ PlanSound'
    <2>1. scope' \in Namespaces
      <3> DEFINE S == DOMAIN scope \union {n}
      <3>1. scope' = [m \in S |-> IF m = n THEN v ELSE scope[m]]
        BY <1>8 DEF CellSets
      <3>2. /\ S \in SUBSET Names
            /\ \A m \in S : (IF m = n THEN v ELSE scope[m]) \in Values
        BY NamespaceType DEF TypeOK
      <3> HIDE DEF S
      <3> QED
        BY <3>1, <3>2, IsNamespace
    <2>2. pc' = "idle"
      BY <1>8 DEF CellSets, IdleKeeps
    <2> QED
      BY <1>1, <1>8, <2>1, <2>2 DEF CellSets, IdleKeeps, TypeOK
  <1>9. CASE HostDamages
    BY <1>1, <1>9 DEF HostDamages, TypeOK
  <1>10. CASE Restart
    <2>1. Empty \in Namespaces
      BY IsNamespace DEF Empty
    <2> QED
      BY <1>1, <1>10, <2>1 DEF Restart, TypeOK
  <1>11. CASE UNCHANGED vars
    BY <1>1, <1>11 DEF vars, TypeOK
  <1> QED
    BY <1>2, <1>3, <1>4, <1>5, <1>6, <1>7, <1>8, <1>9, <1>10, <1>11 DEF Next

(* Both hold in every reachable state.                                     *)
LEMMA PlanInvKept == Spec => [](TypeOK /\ PlanSound)
  <1>1. Init => TypeOK /\ PlanSound
    <2> SUFFICES ASSUME Init PROVE TypeOK /\ PlanSound
      OBVIOUS
    <2>1. Empty \in Namespaces
      BY IsNamespace DEF Empty
    <2>2. EmptyPlan \in Plans
      BY <2>1 DEF EmptyPlan, Plans
    <2>3. (CHOOSE l \in Limits : TRUE) \in Limits
      BY SnapshotAssumption
    <2>4. PlanSound
      BY DEF Init, PlanSound
    <2>5. 0 \in 0..MaxSnapshots
      BY SnapshotAssumption
    <2>6. TypeOK
      BY <2>1, <2>2, <2>3, <2>5 DEF Init, TypeOK, Files
    <2> QED
      BY <2>4, <2>6
  <1> QED
    BY <1>1, PlanStep, PTL DEF Spec

(* Scope, request and files keep their types: whatever is saved, pruned,   *)
(* restored or left behind by a failure, the scope is a namespace and the  *)
(* payload file a complete one, a damaged one or none.                     *)
THEOREM SnapshotTypes == Spec => []TypeOK
  BY PlanInvKept, PTL

(* The plan of a snapshot under way saves exactly the entries that can be  *)
(* saved, are within the limit on one entry and fit beside the saved ones  *)
(* before them, prunes exactly the oversized ones if it is asked to, and   *)
(* skips the others, of the scope as it still is.                          *)
THEOREM SnapshotPlansSoundly == Spec => []PlanSound
  BY PlanInvKept, PTL
=============================================================================
