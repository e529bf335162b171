----------------------------- MODULE EditSkill -----------------------------
(***************************************************************************)
(* The edit skill (skills/edit/skill.go): concurrent calls of Run on one   *)
(* file, behind a mutex per path.                                          *)
(*                                                                         *)
(* The mutexes live in the interpreter that loaded the skill, in a map     *)
(* from the path as it was written: Key[e] stands for both, and two edits  *)
(* of the file may have different keys (two spellings, or a parent and a   *)
(* child session).  The file's text is a sequence of tokens; an edit       *)
(* replaces its one occurrence of a token.                                 *)
(***************************************************************************)
EXTENDS Naturals, Sequences, FiniteSets

CONSTANTS
  Edits,     \* the calls of Run on the file
  Keys,      \* interpreter and spelling of the path
  Key, Old, New,
  Tokens,
  Empty,     \* the empty old string
  Missing,   \* the text of a file that does not exist
  Start,     \* the file's text at first
  Foreign,   \* texts somebody else writes to the file, once
  NoEdit

ASSUME EditAssumption ==
  /\ Key \in [Edits -> Keys]
  /\ Old \in [Edits -> Tokens \union {Empty}] /\ New \in [Edits -> Tokens]
  /\ Empty \notin Tokens /\ NoEdit \notin Edits
  /\ Start \in Seq(Tokens)
  /\ \A t \in Foreign : t \in Seq(Tokens) \/ t = Missing

VARIABLES
  pc,       \* pc[e]: where Run is
  locks,    \* locks[k]: the mutex of key k, named after the edit that made it
  mutex,    \* mutex[e]: the one lockFor gave edit e
  holder,   \* holder[m]: the edit that has locked mutex m
  seen,     \* seen[e]: the text edit e read
  text,     \* the file
  temps,    \* edits whose temp file is in the directory
  applied,  \* edits whose rename succeeded
  crossed,  \* history: edits whose file was written under another key since
            \* they read it
  written   \* somebody else has written the file

editVars == <<pc, locks, mutex, holder, seen, text, temps, applied, crossed, written>>

Goes(e, at, to) == pc[e] = at /\ pc' = [pc EXCEPT ![e] = to]

(* strings.Count of the old string.                                        *)
Places(e, t) == {i \in DOMAIN t : t[i] = Old[e]}
Replaced(e, t) == [i \in DOMAIN t |-> IF t[i] = Old[e] THEN New[e] ELSE t[i]]

(* Edits between their read and their rename, other than those by key k.   *)
ReadUnderOther(k) == {d \in Edits : pc[d] \in {"create", "write", "rename"} /\ Key[d] # k}

-----------------------------------------------------------------------------
(* Run.                                                                    *)

RefusesEmpty(e) ==
  /\ Old[e] = Empty /\ Goes(e, "idle", "done")
  /\ UNCHANGED <<locks, mutex, holder, seen, text, temps, applied, crossed, written>>

(* Mutant: the mutex is made anew on every call.                           *)
LockForFresh(e) ==
  /\ Old[e] # Empty /\ Goes(e, "idle", "lock")
  /\ locks' = [locks EXCEPT ![Key[e]] = e]
  /\ mutex' = [mutex EXCEPT ![e] = e]
  /\ UNCHANGED <<holder, seen, text, temps, applied, crossed, written>>

(* lockFor: the mutex of the path, made by the first call.                 *)
LockFor(e) ==
  /\ Old[e] # Empty /\ Goes(e, "idle", "lock")
  /\ locks' = [locks EXCEPT ![Key[e]] = IF @ = NoEdit THEN e ELSE @]
  /\ mutex' = [mutex EXCEPT ![e] = locks'[Key[e]]]
  /\ UNCHANGED <<holder, seen, text, temps, applied, crossed, written>>

Locks(e) ==
  /\ Goes(e, "lock", "read")
  /\ holder[mutex[e]] = NoEdit
  /\ holder' = [holder EXCEPT ![mutex[e]] = e]
  /\ UNCHANGED <<locks, mutex, seen, text, temps, applied, crossed, written>>

(* Every return runs the deferred Unlock.                                  *)
Unlocks(e) == holder' = [holder EXCEPT ![mutex[e]] = NoEdit]

Reads(e) ==
  /\ text # Missing /\ Cardinality(Places(e, text)) = 1
  /\ Goes(e, "read", "create")
  /\ seen' = [seen EXCEPT ![e] = text]
  /\ UNCHANGED <<locks, mutex, holder, text, temps, applied, crossed, written>>

(* Mutant: the return is before the deferred Unlock is set up.             *)
ReadFailsLocked(e) ==
  /\ Goes(e, "read", "done")
  /\ UNCHANGED <<locks, mutex, holder, seen, text, temps, applied, crossed, written>>

(* The file cannot be read, or holds the old string never or twice.        *)
ReadFails(e) ==
  /\ Goes(e, "read", "done")
  /\ Unlocks(e)
  /\ UNCHANGED <<locks, mutex, seen, text, temps, applied, crossed, written>>

CreatesTemp(e) ==
  /\ Goes(e, "create", "write")
  /\ temps' = temps \union {e}
  /\ UNCHANGED <<locks, mutex, holder, seen, text, applied, crossed, written>>

CreateFails(e) ==
  /\ Goes(e, "create", "done")
  /\ Unlocks(e)
  /\ UNCHANGED <<locks, mutex, seen, text, temps, applied, crossed, written>>

(* WriteString and Close, neither of which anybody else can see.           *)
WritesTemp(e) ==
  /\ Goes(e, "write", "rename")
  /\ UNCHANGED <<locks, mutex, holder, seen, text, temps, applied, crossed, written>>

(* Mutant: the temp file is forgotten.                                     *)
WriteFailsForgets(e) ==
  /\ Goes(e, "write", "done")
  /\ Unlocks(e)
  /\ UNCHANGED <<locks, mutex, seen, text, temps, applied, crossed, written>>

(* Either fails: the temp file is removed.                                 *)
WriteFails(e) ==
  /\ Goes(e, "write", "done")
  /\ temps' = temps \ {e}
  /\ Unlocks(e)
  /\ UNCHANGED <<locks, mutex, seen, text, applied, crossed, written>>

(* The file is what the edit read, with the replacement.                   *)
Renames(e) ==
  /\ Goes(e, "rename", "return")
  /\ text' = Replaced(e, seen[e])
  /\ temps' = temps \ {e}
  /\ applied' = applied \union {e}
  /\ crossed' = crossed \union ReadUnderOther(Key[e])
  /\ UNCHANGED <<locks, mutex, holder, seen, written>>

(* The temp file stays, and the answer is one replacement and the error.   *)
RenameFails(e) ==
  /\ Goes(e, "rename", "unrenamed")
  /\ UNCHANGED <<locks, mutex, holder, seen, text, temps, applied, crossed, written>>

Finishes(e) ==
  /\ Goes(e, "return", "done") \/ Goes(e, "unrenamed", "failed")
  /\ Unlocks(e)
  /\ UNCHANGED <<locks, mutex, seen, text, temps, applied, crossed, written>>

(* A call goes on by itself, whatever the system calls answer.             *)
Run(e) ==
  \/ RefusesEmpty(e) \/ LockFor(e) \/ Locks(e) \/ Reads(e) \/ ReadFails(e)
  \/ CreatesTemp(e) \/ CreateFails(e) \/ WritesTemp(e) \/ WriteFails(e)
  \/ Renames(e) \/ RenameFails(e) \/ Finishes(e)

-----------------------------------------------------------------------------
(* Somebody who does not use the skill writes or removes the file.         *)
ForeignWrite(t) ==
  /\ ~written
  /\ text' = t /\ written' = TRUE
  /\ crossed' = crossed \union {d \in Edits : pc[d] \in {"create", "write", "rename"}}
  /\ UNCHANGED <<pc, locks, mutex, holder, seen, temps, applied>>

(* A process ends: its calls stop where they are, and its mutexes are gone *)
(* with it.                                                                *)
Dies(k) ==
  /\ \E e \in Edits : Key[e] = k /\ pc[e] \notin {"done", "failed", "dead"}
  /\ pc' = [e \in Edits |->
              IF Key[e] = k /\ pc[e] \notin {"done", "failed"} THEN "dead" ELSE pc[e]]
  /\ UNCHANGED <<locks, mutex, holder, seen, text, temps, applied, crossed, written>>

EditInit ==
  /\ pc = [e \in Edits |-> "idle"]
  /\ locks = [k \in Keys |-> NoEdit]
  /\ mutex = [e \in Edits |-> NoEdit]
  /\ holder = [e \in Edits |-> NoEdit]
  /\ seen = [e \in Edits |-> <<>>]
  /\ text = Start /\ temps = {} /\ applied = {} /\ crossed = {}
  /\ written = FALSE

EditNext == \/ \E e \in Edits : Run(e)
            \/ \E t \in Foreign : ForeignWrite(t)
            \/ \E k \in Keys : Dies(k)

EditSpec == EditInit /\ [][EditNext]_editVars

(* Every call that has been made goes on; system calls return.             *)
EditFairSpec == EditSpec /\ \A e \in Edits : WF_editVars(pc[e] # "idle" /\ Run(e))

-----------------------------------------------------------------------------
(* Properties.                                                             *)

Pcs == {"idle", "lock", "read", "create", "write", "rename", "return",
        "unrenamed", "done", "failed", "dead"}

(* The variables are typed: no edit works on a file that was not there.    *)
EditTypeOK ==
  /\ pc \in [Edits -> Pcs]
  /\ locks \in [Keys -> Edits \union {NoEdit}]
  /\ mutex \in [Edits -> Edits \union {NoEdit}]
  /\ holder \in [Edits -> Edits \union {NoEdit}]
  /\ seen \in [Edits -> Seq(Tokens)]
  /\ text \in Seq(Tokens) \union {Missing}
  /\ temps \in SUBSET Edits /\ applied \in SUBSET Edits
  /\ crossed \in SUBSET Edits /\ written \in BOOLEAN

(* "Concurrent cells cannot interleave read-modify-write cycles on one     *)
(* file": when an edit replaces the file, the file still is what it read,  *)
(* unless somebody wrote it under another key; so no edit under the same   *)
(* key is lost.                                                            *)
EditsSerialize ==
  \A e \in Edits \ crossed :
    pc[e] \in {"create", "write", "rename"} => seen[e] = text

(* A temp file is left behind only by a rename that failed and by a        *)
(* process that died, whatever else goes wrong.                            *)
NoStrayTemps ==
  \A e \in temps : pc[e] \in {"write", "rename", "unrenamed", "failed", "dead"}

(* An edit that began returns, unless its process dies: no failure keeps   *)
(* the mutex from the edits that wait for it.                              *)
EveryEditReturns ==
  \A e \in Edits : (pc[e] # "idle") ~> (pc[e] \in {"done", "failed", "dead"})
=============================================================================
