--------------------------- MODULE DecisionProxy ---------------------------
(***************************************************************************)
(* A person's decision on its way into a workflow: a click in the          *)
(* dashboard becomes a POST of the dashboard's backend (_post_proxy), tried *)
(* up to three times; every attempt that reaches the langgraph service is  *)
(* a call of its own there (WorkflowLifecycle), answered when its handler  *)
(* is through, while the threads it started go on.                         *)
(***************************************************************************)
EXTENDS WorkflowLifecycle

CONSTANTS
    Clicks,      \* the decisions that are clicked; bounds the behaviour
    Attempts,    \* attempts of _post_proxy
    MaxLosses,   \* bound on requests and answers lost or late
    MaxCrashes   \* bound on restarts of the dashboard's backend

(* An attempt is the call it makes at the service; the other calls are made *)
(* there directly.                                                          *)
Requests == [caller : Clicks, attempt : 1..Attempts]

ASSUME ProxyAssumption ==
    /\ Requests \subseteq Calls
    /\ Attempts \in Nat \ {0} /\ MaxLosses \in Nat /\ MaxCrashes \in Nat

VARIABLES
    asked,               \* what each click asks for
    pc, attempt, reply,  \* _post_proxy for it: see RetriedPost
    inFlight,            \* requests sent and not yet at their end
    answer,              \* what the service answered to a request
    losses, crashes

proxyVars == <<asked, pc, attempt, reply, inFlight, answer, losses, crashes>>
allVars   == <<vars, proxyVars>>

(* The requests whose decision is in governance_actions. *)
OnRecord == {r \in Requests : \E g \in governance : g.call = r /\ g.by = "human"}

Post == INSTANCE RetriedPost
            WITH Callers <- Clicks, Retries <- Attempts, carriedOut <- OnRecord

(* The backend has a route for each decision, none for start and resume. *)
Proxied == Endpoints \cap DOMAIN Recorded

ProxyTypeOK ==
    /\ asked \in [Clicks -> {None} \cup Proxied]
    /\ pc \in [Clicks -> {"idle", "post", "wait", "sleep", "done"}]
    /\ attempt \in [Clicks -> 0..Attempts]
    /\ reply \in [Clicks -> {"none", "ok", "error"}]
    /\ inFlight \subseteq Requests
    /\ answer \in [Requests -> {"none", "ok", "error"}]
    /\ losses \in 0..MaxLosses /\ crashes \in 0..MaxCrashes

ProxyInit ==
    /\ Init
    /\ asked = [k \in Clicks |-> None]
    /\ pc = [k \in Clicks |-> "idle"]
    /\ attempt = [k \in Clicks |-> 0]
    /\ reply = [k \in Clicks |-> "none"]
    /\ inFlight = {}
    /\ answer = [r \in Requests |-> "none"]
    /\ losses = 0 /\ crashes = 0

-----------------------------------------------------------------------------
(* The dashboard's backend *)

(* The dashboard offers the workflows that have a row. *)
Click(k, o) ==
    /\ status # None
    /\ asked' = [asked EXCEPT ![k] = o]
    /\ UNCHANGED <<vars, answer, losses>>
    /\ Post!Begin(k)

ProxyStep(k) ==
    /\ UNCHANGED <<vars, asked, answer, losses>>
    /\ Post!Send(k) \/ Post!WakesUp(k)

Loses ==
    /\ losses < MaxLosses
    /\ losses' = losses + 1
    /\ UNCHANGED <<vars, asked, answer>>

(* 15 seconds without an answer: the request is still under way. *)
TimesOut(k) == Loses /\ Post!TimesOut(k)

(* The request is lost before the service has it, or its answer is.  What  *)
(* the service has received it finishes all the same.                      *)
Lost(r) == Loses /\ Post!Refused(r)

(* Mutant: the answer's status is not looked at (raise_for_status). *)
AnsweredMutant(r) ==
    /\ r \in inFlight /\ answer[r] # "none"
    /\ inFlight' = inFlight \ {r}
    /\ IF Post!Awaited(r) THEN Post!Returns(r.caller) ELSE UNCHANGED <<pc, reply>>
    /\ UNCHANGED <<vars, asked, attempt, answer, losses, crashes>>

(* An HTTP 500 is an attempt that failed: raise_for_status. *)
Answered(r) ==
    /\ r \in inFlight /\ answer[r] # "none"
    /\ inFlight' = inFlight \ {r}
    /\ \/ Post!Awaited(r) /\ answer[r] = "ok"    /\ Post!Returns(r.caller)
       \/ Post!Awaited(r) /\ answer[r] = "error" /\ Post!AttemptFails(r.caller)
       \/ ~Post!Awaited(r) /\ UNCHANGED <<pc, reply>>
    /\ UNCHANGED <<vars, asked, attempt, answer, losses, crashes>>

(* The backend restarts; what it sent goes on. *)
ProxyRestarts ==
    /\ UNCHANGED <<vars, asked, answer, losses>>
    /\ Post!Crash

-----------------------------------------------------------------------------
(* The service: WorkflowLifecycle, with the answers of its handlers *)

(* Mutant: an attempt is sent to whichever route comes first. *)
ArrivesMutant(r) ==
    /\ r \in inFlight
    /\ \E o \in Proxied : Receive(r, o)
    /\ UNCHANGED proxyVars

Arrives(r) == r \in inFlight /\ Receive(r, asked[r.caller]) /\ UNCHANGED proxyVars

CalledDirectly(c, o) == c \notin Requests /\ Receive(c, o) /\ UNCHANGED proxyVars

Answers(c, a) ==
    /\ answer' = IF c \in Requests THEN [answer EXCEPT ![c] = a] ELSE answer
    /\ UNCHANGED <<asked, pc, attempt, reply, inFlight, losses, crashes>>

(* approve_workflow ends in "DEPLOY_ON_MERGE and bool(repository)", a name  *)
(* it does not have: with the flag set, an HTTP 500 after all was done.     *)
Response(o) == IF o = "approve" /\ DeployOnMerge THEN "error" ELSE "ok"

HandlerGoesOn(c) ==
    /\ HandlerGovern(c) \/ HandlerStatus(c) \/ HandlerRegistry(c)
    /\ UNCHANGED proxyVars
HandlerReturns(c) == HandlerSpawn(c) /\ Answers(c, Response(op[c]))
HandlerRaises(c)  == HandlerFault(c) /\ Answers(c, "error")

ThreadGoesOn(c) ==
    /\ ThreadStep(c) \/ ExecFault(c) \/ ThreadFault(c)
    /\ UNCHANGED proxyVars

(* The connection of the request in progress breaks. *)
ServiceRestarts ==
    /\ Restart
    /\ answer' = [r \in Requests |-> IF hpc[r] \in {"idle", "done"} THEN answer[r] ELSE "error"]
    /\ UNCHANGED <<asked, pc, attempt, reply, inFlight, losses, crashes>>

(* Nothing is left to be clicked, sent or done. *)
Ended ==
    /\ Quiescent /\ inFlight = {}
    /\ \A k \in Clicks : pc[k] = "done" \/ status = None
    /\ \A c \in Calls \ Requests : hpc[c] = "done"
    /\ UNCHANGED allVars

-----------------------------------------------------------------------------
ProxyNext ==
    \/ \E k \in Clicks, o \in Proxied : Click(k, o)
    \/ \E k \in Clicks : ProxyStep(k) \/ TimesOut(k)
    \/ \E r \in Requests : Lost(r) \/ Answered(r) \/ Arrives(r)
    \/ \E c \in Calls, o \in Endpoints : CalledDirectly(c, o)
    \/ \E c \in Calls : HandlerGoesOn(c) \/ HandlerReturns(c) \/ HandlerRaises(c) \/ ThreadGoesOn(c)
    \/ ProxyRestarts
    \/ ServiceRestarts
    \/ Ended

ProxySpec == ProxyInit /\ [][ProxyNext]_allVars

-----------------------------------------------------------------------------
(* The attempts of a click whose decision is on record. *)
DoneBy(k) == {r.attempt : r \in {q \in OnRecord : q.caller = k}}

Promise == INSTANCE Delivery
    WITH Callers <- Clicks, MaxTimes <- Attempts, reply <- reply,
         done <- [k \in Clicks |-> DoneBy(k)]

(* A click is delivered: whatever is lost, late or restarted between the    *)
(* browser's backend and the database, its decision is recorded at most     *)
(* Attempts times and never twice by one attempt, "ok" is told only of a    *)
(* decision that is in governance_actions, and an answer is final.          *)
ClicksDelivered == Promise!Spec

Approve == {"approve", "release_approve"}

(* Nothing is merged, or tried to be, unless somebody clicked an approval,  *)
(* or made one directly: no retry, late request or restart turns another    *)
(* decision into one.                                                       *)
MergeWasClicked ==
    prMerged \/ mergeCallers # {} =>
        \/ \E k \in Clicks : asked[k] \in Approve
        \/ \E c \in Calls \ Requests : op[c] \in Approve

(* What the requests of a click recorded is what was clicked, and a click   *)
(* that was told "ok" has it on record.                                     *)
ClicksOnRecord ==
    /\ \A g \in governance : g.by = "human" /\ g.call \in Requests =>
          asked[g.call.caller] # None /\ g.decision = Recorded[asked[g.call.caller]]
    /\ \A k \in Clicks : reply[k] = "ok" =>
          \E r \in OnRecord : r.caller = k
=============================================================================
