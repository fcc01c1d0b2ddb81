---------------------------- MODULE RetriedPost ----------------------------
(***************************************************************************)
(* A POST with retries, as _post_with_retries of the integration service   *)
(* and _post_proxy of the dashboard make it, and the service that receives *)
(* it.  Neither request carries a key the receiver could recognise a       *)
(* repetition by.                                                          *)
(***************************************************************************)
EXTENDS Retrying

CONSTANT Callers    \* the POSTs to be made, one per caller

VARIABLES
    pc, attempt,    \* each caller: what it does, and in which attempt
    reply,          \* what the POST returned or raised
    inFlight,       \* requests sent and not yet at their end
    carriedOut,     \* requests that took effect at the receiver
    crashes

postVars == <<pc, attempt, reply, inFlight, carriedOut, crashes>>

Requests == [caller : Callers, attempt : 1..Retries]

PostTypeOK ==
    /\ pc \in [Callers -> {"idle", "post", "wait", "sleep", "done"}]
    /\ attempt \in [Callers -> 0..Retries]
    /\ reply \in [Callers -> {"none", "ok", "error"}]
    /\ inFlight \subseteq Requests
    /\ carriedOut \subseteq Requests
    /\ crashes \in 0..MaxCrashes

PostInit ==
    /\ pc = [c \in Callers |-> "idle"]
    /\ attempt = [c \in Callers |-> 0]
    /\ reply = [c \in Callers |-> "none"]
    /\ inFlight = {} /\ carriedOut = {}
    /\ crashes = 0

-----------------------------------------------------------------------------
Begin(c) ==
    /\ pc[c] = "idle"
    /\ pc' = [pc EXCEPT ![c] = "post"]
    /\ attempt' = [attempt EXCEPT ![c] = 1]
    /\ UNCHANGED <<reply, inFlight, carriedOut, crashes>>

Send(c) ==
    /\ pc[c] = "post"
    /\ pc' = [pc EXCEPT ![c] = "wait"]
    /\ inFlight' = inFlight \cup {[caller |-> c, attempt |-> attempt[c]]}
    /\ UNCHANGED <<attempt, reply, carriedOut, crashes>>

(* Mutant: the loop goes on after an attempt that succeeded. *)
ReturnsMutant(c) ==
    /\ pc' = [pc EXCEPT ![c] = IF attempt[c] < Retries THEN "sleep" ELSE "done"]
    /\ reply' = [reply EXCEPT ![c] = "ok"]

Returns(c) ==
    /\ pc' = [pc EXCEPT ![c] = "done"]
    /\ reply' = [reply EXCEPT ![c] = "ok"]

(* Mutant: one attempt more than allowed. *)
AttemptFailsMutant(c) ==
    IF attempt[c] <= Retries
    THEN pc' = [pc EXCEPT ![c] = "sleep"] /\ UNCHANGED reply
    ELSE pc' = [pc EXCEPT ![c] = "done"] /\ reply' = [reply EXCEPT ![c] = "error"]

(* Any exception ends the attempt; the last one is raised to the caller. *)
AttemptFails(c) ==
    IF attempt[c] < Retries
    THEN pc' = [pc EXCEPT ![c] = "sleep"] /\ UNCHANGED reply
    ELSE pc' = [pc EXCEPT ![c] = "done"] /\ reply' = [reply EXCEPT ![c] = "error"]

(* Whether the caller still waits for the answer to this request. *)
Awaited(r) == pc[r.caller] = "wait" /\ attempt[r.caller] = r.attempt

(* The receiver carries the request out.  Its answer arrives, or is lost,  *)
(* late or an HTTP 500 raised after the effect.                            *)
Served(r) ==
    /\ r \in inFlight
    /\ inFlight' = inFlight \ {r}
    /\ carriedOut' = carriedOut \cup {r}
    /\ \/ Awaited(r) /\ Returns(r.caller)
       \/ Awaited(r) /\ AttemptFails(r.caller)
       \/ ~Awaited(r) /\ UNCHANGED <<pc, reply>>
    /\ UNCHANGED <<attempt, crashes>>

(* Mutant: raise_for_status is not called. *)
RefusedMutant(r) ==
    /\ r \in inFlight
    /\ inFlight' = inFlight \ {r}
    /\ IF Awaited(r) THEN Returns(r.caller) ELSE UNCHANGED <<pc, reply>>
    /\ UNCHANGED <<attempt, carriedOut, crashes>>

(* The request is lost, or answered with an error before any effect. *)
Refused(r) ==
    /\ r \in inFlight
    /\ inFlight' = inFlight \ {r}
    /\ IF Awaited(r) THEN AttemptFails(r.caller) ELSE UNCHANGED <<pc, reply>>
    /\ UNCHANGED <<attempt, carriedOut, crashes>>

(* Mutant: the client is created without a timeout. *)
TimesOutMutant(c) == pc[c] = "wait" /\ FALSE

(* The client's timeout: the request is still under way. *)
TimesOut(c) ==
    /\ pc[c] = "wait"
    /\ AttemptFails(c)
    /\ UNCHANGED <<attempt, inFlight, carriedOut, crashes>>

WakesUp(c) ==
    /\ pc[c] = "sleep"
    /\ pc' = [pc EXCEPT ![c] = "post"]
    /\ attempt' = [attempt EXCEPT ![c] = @ + 1]
    /\ UNCHANGED <<reply, inFlight, carriedOut, crashes>>

(* The calling service restarts; what it sent goes on. *)
Crash ==
    /\ crashes < MaxCrashes
    /\ crashes' = crashes + 1
    /\ pc' = [c \in Callers |-> IF pc[c] = "idle" THEN "idle" ELSE "done"]
    /\ UNCHANGED <<attempt, reply, inFlight, carriedOut>>

CallerStep(c) == Send(c) \/ TimesOut(c) \/ WakesUp(c)
ReceiverStep  == \E r \in inFlight : Served(r) \/ Refused(r)

PostEnded == (\A c \in Callers : pc[c] = "done") /\ inFlight = {}

Next ==
    \/ \E c \in Callers : Begin(c) \/ CallerStep(c)
    \/ ReceiverStep
    \/ Crash
    \/ PostEnded /\ UNCHANGED postVars

Spec == PostInit /\ [][Next]_postVars

-----------------------------------------------------------------------------
Done(c) == {r.attempt : r \in {q \in carriedOut : q.caller = c}}

Promise == INSTANCE Delivery
    WITH MaxTimes <- Retries, done <- [c \in Callers |-> Done(c)], reply <- reply

(* The retried POST implements Delivery: "ok" is told only of a request    *)
(* that took effect, an answer is never changed, and no more than Retries  *)
(* attempts are ever carried out, late ones included.                      *)
ImplementsDelivery == Promise!Spec

(* Once a caller has its answer it sends nothing more, so what may still   *)
(* take effect for it is what was already under way.                       *)
QuietAfterAnswer ==
    [][\A c \in Callers : reply[c] # "none" =>
          {r \in inFlight' : r.caller = c} \subseteq inFlight]_postVars
=============================================================================
