----------------------------- MODULE RemoteCall -----------------------------
(***************************************************************************)
(* What a cell may rely on when it calls the host: a call ends at most     *)
(* once, with the first answer the host gave to that very call, or as      *)
(* abandoned after its context ended, or as failed.  Module Bridge         *)
(* implements it.                                                          *)
(***************************************************************************)
EXTENDS Naturals

CONSTANT Calls

VARIABLES status,  \* status[c] \in {"idle", "open", "answered", "abandoned", "failed"}
          got,     \* got[c]: the answer call c ended with, or 0
          offered, \* offered[c]: how many answers the host has given to c
          expired  \* the calls whose context has ended

vars == <<status, got, offered, expired>>

Init ==
  /\ status = [c \in Calls |-> "idle"]
  /\ got = [c \in Calls |-> 0]
  /\ offered = [c \in Calls |-> 0]
  /\ expired = {}

Ends(c, how) ==
  /\ status[c] = "open"
  /\ status' = [status EXCEPT ![c] = how]
  /\ UNCHANGED <<offered, expired>>

Open(c) ==
  /\ status[c] = "idle"
  /\ status' = [status EXCEPT ![c] = "open"]
  /\ UNCHANGED <<got, offered, expired>>

(* The host may answer an open call, one it gave up on, or one it already  *)
(* answered.                                                               *)
Offer(c) ==
  /\ status[c] # "idle"
  /\ offered' = [offered EXCEPT ![c] = @ + 1]
  /\ UNCHANGED <<status, got, expired>>

Expire(c) ==
  /\ expired' = expired \union {c}
  /\ UNCHANGED <<status, got, offered>>

Return(c) ==
  /\ offered[c] > 0
  /\ got' = [got EXCEPT ![c] = 1]
  /\ Ends(c, "answered")

Abandon(c) ==
  /\ c \in expired
  /\ Ends(c, "abandoned")
  /\ UNCHANGED got

Fail(c) ==
  /\ Ends(c, "failed")
  /\ UNCHANGED got

Next == \E c \in Calls :
          Open(c) \/ Offer(c) \/ Expire(c) \/ Return(c) \/ Abandon(c) \/ Fail(c)

Spec == Init /\ [][Next]_vars
=============================================================================
