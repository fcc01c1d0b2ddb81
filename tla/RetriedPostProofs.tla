------------------------- MODULE RetriedPostProofs -------------------------
(***************************************************************************)
(* The retried POST keeps the promise of Delivery, for any callers and any *)
(* number of attempts.                                                     *)
(***************************************************************************)
EXTENDS RetriedPost, TLAPS

(* How far each caller has got with its attempts. *)
AttemptInv ==
    \A c \in Callers :
        /\ pc[c] = "idle" => attempt[c] = 0
        /\ pc[c] \in {"post", "wait", "sleep"} => attempt[c] \in 1..Retries
        /\ pc[c] = "sleep" => attempt[c] < Retries
        /\ reply[c] # "none" => pc[c] = "done"

(* A request is the one of an attempt made, and it ends once: what was     *)
(* carried out is not in flight, and what is to be sent was not sent yet.  *)
OnceInv ==
    /\ inFlight \cap carriedOut = {}
    /\ \A r \in inFlight \cup carriedOut :
          /\ r.attempt <= attempt[r.caller]
          /\ pc[r.caller] = "post" => r.attempt < attempt[r.caller]

Inv == PostTypeOK /\ AttemptInv /\ OnceInv

LEMMA InitInv == RetriesAssumption /\ PostInit => Inv
  BY DEF RetriesAssumption, PostInit, Inv, PostTypeOK, AttemptInv, OnceInv

(* An attempt that fails moves its caller on; nothing else of it changes. *)
LEMMA AttemptFailsInv ==
  ASSUME RetriesAssumption, Inv, NEW c \in Callers, pc[c] = "wait", AttemptFails(c), UNCHANGED attempt
  PROVE  /\ pc' \in [Callers -> {"idle", "post", "wait", "sleep", "done"}]
         /\ reply' \in [Callers -> {"none", "ok", "error"}]
         /\ AttemptInv'
         /\ \A d \in Callers : pc'[d] = "post" => pc[d] = "post"
  BY DEF RetriesAssumption, Inv, PostTypeOK, AttemptInv, AttemptFails

LEMMA ReturnsInv ==
  ASSUME Inv, NEW c \in Callers, pc[c] = "wait", Returns(c), UNCHANGED attempt
  PROVE  /\ pc' \in [Callers -> {"idle", "post", "wait", "sleep", "done"}]
         /\ reply' \in [Callers -> {"none", "ok", "error"}]
         /\ AttemptInv'
         /\ \A d \in Callers : pc'[d] = "post" => pc[d] = "post"
  BY DEF Inv, PostTypeOK, AttemptInv, Returns

(* The end of a request in flight, whoever waits for it or not. *)
LEMMA CallerGoesOn ==
  ASSUME RetriesAssumption, Inv, NEW r \in inFlight, UNCHANGED attempt,
         \/ Awaited(r) /\ (Returns(r.caller) \/ AttemptFails(r.caller))
         \/ UNCHANGED <<pc, reply>>
  PROVE  /\ pc' \in [Callers -> {"idle", "post", "wait", "sleep", "done"}]
         /\ reply' \in [Callers -> {"none", "ok", "error"}]
         /\ AttemptInv'
         /\ \A d \in Callers : pc'[d] = "post" => pc[d] = "post"
  <1>1. r.caller \in Callers
    BY DEF Inv, PostTypeOK, Requests
  <1>2. CASE UNCHANGED <<pc, reply>>
    BY <1>2 DEF Inv, PostTypeOK, AttemptInv
  <1>3. CASE Awaited(r) /\ Returns(r.caller)
    BY <1>1, <1>3, ReturnsInv DEF Awaited
  <1>4. CASE Awaited(r) /\ AttemptFails(r.caller)
    BY <1>1, <1>4, AttemptFailsInv DEF Awaited
  <1> QED
    BY <1>2, <1>3, <1>4

LEMMA NextInv == RetriesAssumption /\ Inv /\ [Next]_postVars => Inv'
  <1> SUFFICES ASSUME RetriesAssumption, Inv, [Next]_postVars
               PROVE  Inv'
    OBVIOUS
  <1> USE DEF Inv
  <1>1. ASSUME NEW c \in Callers, Begin(c)
        PROVE  Inv'
    <2>1. PostTypeOK' /\ AttemptInv'
      BY <1>1 DEF Begin, PostTypeOK, AttemptInv, RetriesAssumption
    <2>2. \A r \in inFlight \cup carriedOut : r.caller # c
      BY <1>1 DEF Begin, PostTypeOK, OnceInv, AttemptInv, Requests
    <2>3. OnceInv'
      BY <1>1, <2>2 DEF Begin, PostTypeOK, OnceInv, Requests
    <2> QED
      BY <2>1, <2>3
  <1>2. ASSUME NEW c \in Callers, Send(c)
        PROVE  Inv'
    <2> DEFINE q == [caller |-> c, attempt |-> attempt[c]]
    <2>1. q \in Requests
      BY <1>2 DEF Send, AttemptInv, Requests
    <2>2. PostTypeOK' /\ AttemptInv'
      BY <1>2, <2>1 DEF Send, PostTypeOK, AttemptInv
    <2>3. q \notin carriedOut
      BY <1>2 DEF Send, OnceInv, PostTypeOK
    <2>4. OnceInv'
      BY <1>2, <2>3 DEF Send, PostTypeOK, OnceInv, Requests
    <2> QED
      BY <2>2, <2>4
  <1>3. ASSUME NEW c \in Callers, TimesOut(c)
        PROVE  Inv'
    <2>1. PostTypeOK' /\ AttemptInv' /\ \A d \in Callers : pc'[d] = "post" => pc[d] = "post"
      BY <1>3, AttemptFailsInv DEF TimesOut, PostTypeOK
    <2>2. OnceInv'
      BY <1>3, <2>1 DEF TimesOut, OnceInv, PostTypeOK, Requests
    <2> QED
      BY <2>1, <2>2
  <1>4. ASSUME NEW c \in Callers, WakesUp(c)
        PROVE  Inv'
    <2>1. PostTypeOK' /\ AttemptInv'
      BY <1>4 DEF WakesUp, PostTypeOK, AttemptInv, RetriesAssumption
    <2>2. OnceInv'
      BY <1>4 DEF WakesUp, OnceInv, PostTypeOK, Requests, RetriesAssumption
    <2> QED
      BY <2>1, <2>2
  <1>5. ASSUME NEW r \in inFlight, Served(r)
        PROVE  Inv'
    <2>1. AttemptInv' /\ PostTypeOK' /\ \A d \in Callers : pc'[d] = "post" => pc[d] = "post"
      BY <1>5, CallerGoesOn DEF Served, PostTypeOK
    <2>2. OnceInv'
      BY <1>5, <2>1 DEF Served, OnceInv, PostTypeOK, Requests
    <2> QED
      BY <2>1, <2>2
  <1>6. ASSUME NEW r \in inFlight, Refused(r)
        PROVE  Inv'
    <2>1. AttemptInv' /\ PostTypeOK' /\ \A d \in Callers : pc'[d] = "post" => pc[d] = "post"
      BY <1>6, CallerGoesOn DEF Refused, PostTypeOK
    <2>2. OnceInv'
      BY <1>6, <2>1 DEF Refused, OnceInv, PostTypeOK, Requests
    <2> QED
      BY <2>1, <2>2
  <1>7. CASE Crash
    <2>1. PostTypeOK' /\ AttemptInv'
      BY <1>7 DEF Crash, PostTypeOK, AttemptInv, RetriesAssumption
    <2>2. OnceInv'
      BY <1>7 DEF Crash, PostTypeOK, OnceInv, Requests
    <2> QED
      BY <2>1, <2>2
  <1>8. CASE UNCHANGED postVars
    BY <1>8 DEF postVars, PostTypeOK, AttemptInv, OnceInv
  <1> QED
    BY <1>1, <1>2, <1>3, <1>4, <1>5, <1>6, <1>7, <1>8 DEF Next, CallerStep, ReceiverStep

LEMMA InvHolds == Spec => []Inv
  <1>1. RetriesAssumption
    BY RetriesAssumption
  <1> QED
    BY <1>1, InitInv, NextInv, PTL DEF Spec

-----------------------------------------------------------------------------
(* What each step does to the state Delivery speaks of. *)

LEMMA DoneGrowsByServed ==
  ASSUME Inv, NEW r \in inFlight, carriedOut' = carriedOut \cup {r}
  PROVE  /\ r.caller \in Callers /\ r.attempt \in 1..Retries
         /\ r.attempt \notin Done(r.caller)
         /\ [c \in Callers |-> Done(c)]' =
               [[c \in Callers |-> Done(c)] EXCEPT ![r.caller] = @ \cup {r.attempt}]
  <1>1. r \in Requests /\ carriedOut \subseteq Requests
    BY DEF Inv, PostTypeOK
  <1>2. r.caller \in Callers /\ r.attempt \in 1..Retries
    BY <1>1 DEF Requests
  <1>3. r.attempt \notin Done(r.caller)
    <2> SUFFICES ASSUME NEW q \in carriedOut, q.caller = r.caller, q.attempt = r.attempt
                 PROVE  FALSE
      BY DEF Done
    <2>1. q = r
      BY <1>1 DEF Requests
    <2> QED
      BY <2>1 DEF Inv, OnceInv
  <1>4. Done(r.caller)' = Done(r.caller) \cup {r.attempt}
    BY DEF Done
  <1>5. \A c \in Callers : c # r.caller => Done(c)' = Done(c)
    BY DEF Done
  <1> QED
    BY <1>2, <1>3, <1>4, <1>5

LEMMA DoneKept ==
  ASSUME UNCHANGED carriedOut
  PROVE  [c \in Callers |-> Done(c)]' = [c \in Callers |-> Done(c)]
  BY DEF Done

(* A failed attempt tells an error or nothing; the answer was none so far. *)
LEMMA FailureTells ==
  ASSUME Inv, NEW c \in Callers, pc[c] = "wait", AttemptFails(c)
  PROVE  UNCHANGED reply \/ Promise!TellError(c)
  BY DEF Inv, PostTypeOK, AttemptInv, AttemptFails, Promise!TellError

LEMMA NextDelivers == Inv /\ [Next]_postVars => [Promise!Next]_(Promise!vars)
  <1> SUFFICES ASSUME Inv, Next
               PROVE  [Promise!Next]_(Promise!vars)
    BY DoneKept DEF postVars, Promise!vars
  <1>1. ASSUME NEW c \in Callers, TimesOut(c)
        PROVE  [Promise!Next]_(Promise!vars)
    <2>1. UNCHANGED reply \/ Promise!TellError(c)
      BY <1>1, FailureTells DEF TimesOut
    <2>2. UNCHANGED [d \in Callers |-> Done(d)]
      BY <1>1, DoneKept DEF TimesOut
    <2> QED
      BY <2>1, <2>2 DEF Promise!Next
  <1>2. ASSUME NEW r \in inFlight, Served(r)
        PROVE  [Promise!Next]_(Promise!vars)
    <2>1. /\ r.caller \in Callers /\ r.attempt \in 1..Retries
          /\ r.attempt \notin Done(r.caller)
          /\ [c \in Callers |-> Done(c)]' =
                [[c \in Callers |-> Done(c)] EXCEPT ![r.caller] = @ \cup {r.attempt}]
      BY <1>2, DoneGrowsByServed DEF Served
    <2>2. Promise!CarryOut(r.caller, r.attempt)
      BY <2>1 DEF Promise!CarryOut
    <2>3. CASE Awaited(r) /\ Returns(r.caller)
      <3>1. reply[r.caller] = "none"
        BY <2>1, <2>3 DEF Awaited, Inv, AttemptInv
      <3>2. Promise!TellOk(r.caller)
        BY <2>1, <2>3, <3>1 DEF Returns, Promise!TellOk
      <3> QED
        BY <2>1, <2>2, <3>2 DEF Promise!Next
    <2>4. CASE Awaited(r) /\ AttemptFails(r.caller)
      BY <2>1, <2>2, <2>4, FailureTells DEF Awaited, Promise!Next
    <2>5. CASE UNCHANGED reply
      BY <2>1, <2>2, <2>5 DEF Promise!Next
    <2> QED
      BY <1>2, <2>3, <2>4, <2>5 DEF Served
  <1>3. ASSUME NEW r \in inFlight, Refused(r)
        PROVE  [Promise!Next]_(Promise!vars)
    <2>1. UNCHANGED [c \in Callers |-> Done(c)]
      BY <1>3, DoneKept DEF Refused
    <2>2. r.caller \in Callers
      BY DEF Inv, PostTypeOK, Requests
    <2>3. UNCHANGED reply \/ Promise!TellError(r.caller)
      BY <1>3, <2>2, FailureTells DEF Refused, Awaited
    <2> QED
      BY <2>1, <2>2, <2>3 DEF Promise!Next
  <1>4. ASSUME UNCHANGED <<reply, carriedOut>>
        PROVE  [Promise!Next]_(Promise!vars)
    BY <1>4, DoneKept DEF Promise!vars
  <1> QED
    BY <1>1, <1>2, <1>3, <1>4
    DEF Next, Begin, CallerStep, Send, WakesUp, ReceiverStep, Crash, postVars

(* Attempts, requests and answers stay in their types: no caller counts     *)
(* past Retries (_post_with_retries).                                       *)
THEOREM PostTypeCorrect == Spec => []PostTypeOK
  <1>1. Inv => PostTypeOK
    BY DEF Inv
  <1> QED
    BY <1>1, InvHolds, PTL

(* Whatever is lost, late or answered with an error: an "ok" is true, an    *)
(* answer is final, and no attempt beyond Retries is ever carried out.      *)
THEOREM DeliveryImplemented == Spec => ImplementsDelivery
  <1>1. PostInit => Promise!Init
    BY DEF PostInit, Promise!Init, Done
  <1> QED
    BY <1>1, InvHolds, NextDelivers, PTL DEF Spec, ImplementsDelivery, Promise!Spec

LEMMA NextIsQuiet ==
  Inv /\ [Next]_postVars =>
    [\A c \in Callers : reply[c] # "none" =>
        {r \in inFlight' : r.caller = c} \subseteq inFlight]_postVars
  <1> SUFFICES ASSUME Inv, Next, NEW c \in Callers, reply[c] # "none"
               PROVE  {r \in inFlight' : r.caller = c} \subseteq inFlight
    OBVIOUS
  <1>1. pc[c] = "done"
    BY DEF Inv, AttemptInv
  <1>2. ASSUME NEW d \in Callers, Send(d)
        PROVE  d # c
    BY <1>1, <1>2 DEF Send
  <1> QED
    BY <1>2 DEF Next, Begin, CallerStep, Send, TimesOut, WakesUp, ReceiverStep, Served, Refused,
                Crash, postVars

(* A caller that has its answer sends nothing more. *)
THEOREM QuietAfterAnswerHolds == Spec => QuietAfterAnswer
  BY NextIsQuiet, InvHolds, PTL DEF Spec, QuietAfterAnswer
=============================================================================
