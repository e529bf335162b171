------------------------------ MODULE Snapshot ------------------------------
(***************************************************************************)
(* Snapshot and restore of the kernel's scope (rlm/snapshot.go, scope.go): *)
(* planning which entries fit the limits, the two temp-and-rename writes,  *)
(* pruning, and the process dying between any two system calls.            *)
(*                                                                         *)
(* The executor runs one request at a time and the scope actor serves its  *)
(* channel in order, so a scope operation is atomic to a request.  Names   *)
(* are 1..NumNames in sort order.  Values are ones JSON gives back as they *)
(* were (strings, or what an earlier restore decoded); Size is the length  *)
(* of their encoding.                                                      *)
(***************************************************************************)
EXTENDS Naturals, FiniteSets, FiniteSetsExt

CONSTANTS
  NumNames,
  Values,
  Size,          \* Size[v]: bytes of v's JSON
  Unsavable,     \* values json.Marshal refuses (a plugged-in evaluator's)
  Limits,        \* the limits requests carry: maxVar, maxTotal, prune
  NoFile,
  Garbage,       \* a file that is not a snapshot
  Manifested,    \* whether requests name a manifest path: choices
  Damages,       \* whether others may overwrite the payload file
  MaxSnapshots   \* bound: snapshot requests

Names == 1..NumNames

ASSUME SnapshotAssumption ==
  /\ NumNames \in Nat /\ MaxSnapshots \in Nat
  /\ Unsavable \subseteq Values
  /\ Size \in [Values -> Nat]
  /\ Limits \subseteq [maxVar : Nat, maxTotal : Nat, prune : BOOLEAN]
  /\ Limits # {}
  /\ Manifested \subseteq BOOLEAN /\ Damages \in BOOLEAN

(* A namespace, as Entries copies it.                                      *)
Namespaces == UNION {[S -> Values] : S \in SUBSET Names}
Empty      == [n \in {} |-> NoFile]

Files == {"payload", "manifest"}

VARIABLES
  scope,     \* the names map of the scope actor
  pc,        \* "idle", or where snapshot is: "stage", "rename", "prune"
  file,      \* the file snapshot is writing
  lim,       \* the request's limits
  manifested,\* whether the request names a manifest path
  plan,      \* the snapshotPlan
  payload,   \* the payload file
  manifest,  \* the manifest file
  temps,     \* temp files on disk
  answer,    \* the done of the last request
  promised,  \* history: what the last answered snapshot saved
  tried,     \* history: what later snapshots set out to save
  nSnapshots

reqVars  == <<file, lim, manifested, plan>>
diskVars == <<payload, manifest, temps>>
histVars == <<promised, tried>>
vars == <<scope, pc, reqVars, diskVars, answer, histVars, nSnapshots>>

-----------------------------------------------------------------------------
(* planSnapshot.                                                           *)

EmptyPlan == [saved |-> Empty, skipped |-> {}, pruned |-> {}, bytes |-> 0]

(* Mutant of Take: an unsavable value counts as oversized.                 *)
TakePrunesUnsavable(p, n, v, l) ==
  CASE v \in Unsavable \/ Size[v] > l.maxVar ->
         IF l.prune THEN [p EXCEPT !.pruned = @ \union {n}]
                    ELSE [p EXCEPT !.skipped = @ \union {n}]
    [] v \notin Unsavable /\ Size[v] <= l.maxVar
         /\ p.bytes + Size[v] > l.maxTotal ->
         [p EXCEPT !.skipped = @ \union {n}]
    [] OTHER -> [p EXCEPT !.saved = [m \in DOMAIN @ \union {n} |->
                                       IF m = n THEN v ELSE @[m]],
                          !.bytes = @ + Size[v]]

(* One turn of the loop, for name n of value v.                            *)
Take(p, n, v, l) ==
  CASE v \in Unsavable -> [p EXCEPT !.skipped = @ \union {n}]
    [] v \notin Unsavable /\ Size[v] > l.maxVar ->
         IF l.prune THEN [p EXCEPT !.pruned = @ \union {n}]
                    ELSE [p EXCEPT !.skipped = @ \union {n}]
    [] v \notin Unsavable /\ Size[v] <= l.maxVar
         /\ p.bytes + Size[v] > l.maxTotal ->
         [p EXCEPT !.skipped = @ \union {n}]
    [] OTHER -> [p EXCEPT !.saved = [m \in DOMAIN @ \union {n} |->
                                       IF m = n THEN v ELSE @[m]],
                          !.bytes = @ + Size[v]]

(* The loop over the names in sorted order.                                *)
PlanSnapshot(entries, l) ==
  LET upTo[n \in 0..NumNames] ==
        IF n = 0 THEN EmptyPlan
        ELSE IF n \in DOMAIN entries
             THEN Take(upTo[n - 1], n, entries[n], l)
             ELSE upTo[n - 1]
  IN upTo[NumNames]

-----------------------------------------------------------------------------
(* The snapshot request.                                                   *)

SnapshotBegins(l, withManifest) ==
  /\ pc = "idle" /\ nSnapshots < MaxSnapshots
  /\ nSnapshots' = nSnapshots + 1
  /\ lim' = l /\ manifested' = withManifest
  /\ plan' = PlanSnapshot(scope, l)
  /\ tried' = tried \union {plan'.saved}
  /\ file' = "payload" /\ pc' = "stage"
  /\ answer' = "none"
  /\ UNCHANGED <<scope, diskVars, promised>>

SnapshotKeeps == UNCHANGED <<scope, lim, manifested, plan, histVars, nSnapshots>>

Fails == pc' = "idle" /\ answer' = "error"

(* Mutant of Stage: the file is written in place.                          *)
StageInPlace ==
  /\ pc = "stage"
  /\ pc' = "rename"
  /\ temps' = temps \union {file}
  /\ payload' = IF file = "payload" THEN Garbage ELSE payload
  /\ SnapshotKeeps /\ UNCHANGED <<file, manifest, answer>>

(* atomicWrite: the temp file is created, written and closed ...           *)
Stage ==
  /\ pc = "stage"
  /\ pc' = "rename"
  /\ temps' = temps \union {file}
  /\ SnapshotKeeps /\ UNCHANGED <<file, payload, manifest, answer>>

(* Mutant of StageFails: the manifest's error is dropped.                  *)
StageFailsOn ==
  /\ pc = "stage"
  /\ IF file = "manifest" THEN pc' = "prune" /\ UNCHANGED answer ELSE Fails
  /\ SnapshotKeeps /\ UNCHANGED <<file, diskVars>>

(* ... or one of these fails (the empty path included) and it is removed.  *)
StageFails ==
  /\ pc = "stage"
  /\ Fails
  /\ SnapshotKeeps /\ UNCHANGED <<file, diskVars>>

RenamePayload ==
  /\ pc = "rename" /\ file = "payload"
  /\ payload' = plan.saved
  /\ temps' = temps \ {"payload"}
  /\ \/ manifested  /\ file' = "manifest" /\ pc' = "stage"
     \/ ~manifested /\ pc' = "prune" /\ UNCHANGED file
  /\ SnapshotKeeps /\ UNCHANGED <<manifest, answer>>

(* Mutant of RenameManifest: the payload's bytes are written again.        *)
RenameManifestPayload ==
  /\ pc = "rename" /\ file = "manifest"
  /\ manifest' = plan.saved
  /\ temps' = temps \ {"manifest"}
  /\ pc' = "prune"
  /\ SnapshotKeeps /\ UNCHANGED <<file, payload, answer>>

RenameManifest ==
  /\ pc = "rename" /\ file = "manifest"
  /\ manifest' = plan
  /\ temps' = temps \ {"manifest"}
  /\ pc' = "prune"
  /\ SnapshotKeeps /\ UNCHANGED <<file, payload, answer>>

(* A rename that fails leaves the temp file behind.                        *)
RenameFails ==
  /\ pc = "rename"
  /\ Fails
  /\ SnapshotKeeps /\ UNCHANGED <<file, diskVars>>

SnapshotEnds ==
  /\ pc = "prune"
  /\ scope' = [n \in DOMAIN scope \ (IF lim.prune THEN plan.pruned ELSE {}) |->
                 scope[n]]
  /\ answer' = "ok" /\ pc' = "idle"
  /\ promised' = plan.saved /\ tried' = {}
  /\ UNCHANGED <<reqVars, diskVars, nSnapshots>>

-----------------------------------------------------------------------------
(* The restore request, cells, the host and the process.                   *)

IdleKeeps == UNCHANGED <<pc, reqVars, diskVars, histVars, nSnapshots>>

RestoreMissing ==
  /\ pc = "idle" /\ payload = NoFile
  /\ answer' = "ok"
  /\ IdleKeeps /\ UNCHANGED scope

RestoreCorrupt ==
  /\ pc = "idle" /\ payload = Garbage
  /\ answer' = "error"
  /\ IdleKeeps /\ UNCHANGED scope

(* The names of the file are set, the others stay as they are.             *)
Restore ==
  /\ pc = "idle" /\ payload \notin {NoFile, Garbage}
  /\ scope' = [n \in DOMAIN payload \union DOMAIN scope |->
                 IF n \in DOMAIN payload THEN payload[n] ELSE scope[n]]
  /\ answer' = "ok"
  /\ IdleKeeps

(* A cell sets a name (Env.Set).                                           *)
CellSets(n, v) ==
  /\ pc = "idle"
  /\ scope' = [m \in DOMAIN scope \union {n} |->
                 IF m = n THEN v ELSE scope[m]]
  /\ answer' = "none"
  /\ IdleKeeps

(* Somebody else overwrites the payload file: all promises are off.        *)
HostDamages ==
  /\ Damages /\ pc = "idle"
  /\ payload' = Garbage
  /\ promised' = NoFile /\ tried' = {}
  /\ answer' = "none"
  /\ UNCHANGED <<scope, pc, reqVars, manifest, temps, nSnapshots>>

(* The process dies (Run gives a drain 5 s) and another kernel starts: the *)
(* files are as the completed system calls left them.                      *)
Restart ==
  /\ scope' = Empty
  /\ pc' = "idle" /\ answer' = "none"
  /\ UNCHANGED <<reqVars, diskVars, histVars, nSnapshots>>

Init ==
  /\ scope = Empty
  /\ pc = "idle" /\ file = "payload"
  /\ lim = (CHOOSE l \in Limits : TRUE) /\ manifested = FALSE /\ plan = EmptyPlan
  /\ payload = NoFile /\ manifest = NoFile /\ temps = {}
  /\ answer = "none"
  /\ promised = NoFile /\ tried = {}
  /\ nSnapshots = 0

Next ==
  \/ \E l \in Limits, m \in Manifested : SnapshotBegins(l, m)
  \/ Stage \/ StageFails \/ RenamePayload \/ RenameManifest \/ RenameFails
  \/ SnapshotEnds
  \/ RestoreMissing \/ RestoreCorrupt \/ Restore
  \/ \E n \in Names, v \in Values : CellSets(n, v)
  \/ HostDamages \/ Restart

Spec == Init /\ [][Next]_vars

-----------------------------------------------------------------------------
(* Properties.                                                             *)

Plans == [saved : Namespaces, skipped : SUBSET Names, pruned : SUBSET Names,
          bytes : Nat]

TypeOK ==
  /\ scope \in Namespaces
  /\ pc \in {"idle", "stage", "rename", "prune"} /\ file \in Files
  /\ lim \in Limits /\ manifested \in BOOLEAN /\ plan \in Plans
  /\ payload \in Namespaces \union {NoFile, Garbage}
  /\ manifest \in Plans \union {NoFile}
  /\ temps \subseteq Files
  /\ answer \in {"none", "ok", "error"}
  /\ promised \in Namespaces \union {NoFile}
  /\ tried \subseteq Namespaces
  /\ nSnapshots \in 0..MaxSnapshots

SizeOf(ns, m) == MapThenSumSet(LAMBDA n : Size[m[n]], ns)

(* The plan of a snapshot under way, against a definition without a loop:  *)
(* a name is saved exactly when its value can be, is within maxVar, and    *)
(* fits beside the saved names before it; it is pruned exactly when it is  *)
(* oversized and the request prunes; every other name is skipped.          *)
PlanSound ==
  pc # "idle" =>
    LET saved == DOMAIN plan.saved
        Savable(n) == scope[n] \notin Unsavable
        Small(n)   == Size[scope[n]] <= lim.maxVar
        Fits(n)    == SizeOf({m \in saved : m < n} \union {n}, scope)
                        <= lim.maxTotal
    IN /\ saved = {n \in DOMAIN scope : Savable(n) /\ Small(n) /\ Fits(n)}
       /\ plan.pruned = {n \in DOMAIN scope :
                           lim.prune /\ Savable(n) /\ ~Small(n)}
       /\ plan.skipped = DOMAIN scope \ (saved \union plan.pruned)
       /\ \A n \in saved : plan.saved[n] = scope[n]
       /\ plan.bytes = SizeOf(saved, scope)

(* What an answered snapshot saved stays restorable through failures and   *)
(* restarts: the payload file is that snapshot's, or the complete payload  *)
(* of one that began later.                                                *)
PromiseKept ==
  promised # NoFile => payload \in tried \union {promised}

(* "A manifest failure means nothing is pruned": a running kernel loses a  *)
(* name only to a snapshot whose files are both in place.                  *)
PrunedOnlyOnceWritten ==
  [][\A n \in DOMAIN scope \ DOMAIN scope' :
       \/ Restart
       \/ /\ n \in plan.pruned /\ answer' = "ok"
          /\ payload = plan.saved
          /\ manifested => manifest = plan]_vars
=============================================================================
