------------------------------ MODULE Delivery ------------------------------
(***************************************************************************)
(* What a POST with retries promises whoever calls it: the request is      *)
(* carried out at most MaxTimes, also after an answer was given up on; an  *)
(* "ok" means it was carried out; an "error" means nothing.                *)
(***************************************************************************)
EXTENDS Naturals

CONSTANTS Callers, MaxTimes

VARIABLES
    done,   \* done[c]: the attempts of c that were carried out
    reply   \* reply[c]: what c was told

vars == <<done, reply>>

Init ==
    /\ done = [c \in Callers |-> {}]
    /\ reply = [c \in Callers |-> "none"]

CarryOut(c, n) ==
    /\ n \notin done[c]
    /\ done' = [done EXCEPT ![c] = @ \cup {n}]

TellOk(c) ==
    /\ reply[c] = "none" /\ done'[c] # {}
    /\ reply' = [reply EXCEPT ![c] = "ok"]

TellError(c) ==
    /\ reply[c] = "none"
    /\ reply' = [reply EXCEPT ![c] = "error"]

(* The answer may leave in the step that carries the request out. *)
Next == \E c \in Callers :
    /\ UNCHANGED done \/ \E n \in 1..MaxTimes : CarryOut(c, n)
    /\ UNCHANGED reply \/ TellOk(c) \/ TellError(c)

Spec == Init /\ [][Next]_vars
=============================================================================
