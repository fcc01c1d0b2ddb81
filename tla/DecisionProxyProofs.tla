------------------------ MODULE DecisionProxyProofs ------------------------
(***************************************************************************)
(* A click and the service behind it, for any clicks, attempts, calls and  *)
(* bounds.  The dashboard's backend drives the service only as             *)
(* WorkflowLifecycle allows, so all that WorkflowLifecycleProofs shows of   *)
(* the service holds here as well and is cited, not proved again.          *)
(***************************************************************************)
EXTENDS DecisionProxy, WorkflowLifecycleProofs

USE DEF None

CallerPcs == {"idle", "post", "wait", "sleep", "done"}
Replies   == {"none", "ok", "error"}

(* How far each click has got; a request in flight is one of a click made. *)
ClickInv ==
    \A k \in Clicks :
        /\ pc[k] = "idle" <=> asked[k] = None
        /\ pc[k] = "idle" => attempt[k] = 0
        /\ pc[k] \in {"post", "wait", "sleep"} => attempt[k] \in 1..Attempts
        /\ pc[k] = "sleep" => attempt[k] < Attempts
        /\ reply[k] # "none" => pc[k] = "done"
FlightInv == \A r \in inFlight : pc[r.caller] # "idle"

CallerInv == ProxyTypeOK /\ ClickInv /\ FlightInv

LEMMA NoneIsNoEndpoint == None \notin Proxied
BY RecordedFacts DEF Proxied

LEMMA InitCaller == ProxyInit => CallerInv
BY ProxyAssumption DEF ProxyInit, CallerInv, ProxyTypeOK, ClickInv, FlightInv

-----------------------------------------------------------------------------
(* The dashboard's backend *)

(* What the end of an attempt changes: its own click, and no idle one. *)
LEMMA AttemptEnds ==
    ASSUME CallerInv, NEW k \in Clicks, pc[k] = "wait",
           Post!AttemptFails(k) \/ Post!Returns(k), UNCHANGED <<asked, attempt>>
    PROVE  /\ pc' \in [Clicks -> CallerPcs] /\ reply' \in [Clicks -> Replies]
           /\ ClickInv'
           /\ \A j \in Clicks : pc[j] # "idle" => pc'[j] # "idle"
           /\ \A j \in Clicks : reply'[j] = "ok" => reply[j] = "ok" \/ (j = k /\ Post!Returns(k))
<1> USE ProxyAssumption DEF CallerInv, ProxyTypeOK, ClickInv, CallerPcs, Replies
<1>1. CASE Post!AttemptFails(k)
  BY <1>1 DEF Post!AttemptFails
<1>2. CASE Post!Returns(k)
  BY <1>2 DEF Post!Returns
<1> QED BY <1>1, <1>2

LEMMA ClickCaller ==
    ASSUME CallerInv, NEW k \in Clicks, NEW o \in Proxied, Click(k, o)
    PROVE  CallerInv'
<1> USE DEF CallerInv, Click, Post!Begin
<1>1. ProxyTypeOK'
  BY ProxyAssumption DEF ProxyTypeOK
<1>2. ClickInv'
  BY ProxyAssumption, NoneIsNoEndpoint DEF ClickInv, ProxyTypeOK
<1>3. FlightInv'
  BY DEF FlightInv, ProxyTypeOK, Requests
<1> QED BY <1>1, <1>2, <1>3

LEMMA StepCaller ==
    ASSUME CallerInv, NEW k \in Clicks, ProxyStep(k)
    PROVE  CallerInv'
<1> USE DEF CallerInv, ProxyStep
<1>1. CASE Post!Send(k)
  <2>1. [caller |-> k, attempt |-> attempt[k]] \in Requests
    BY <1>1 DEF Post!Send, ClickInv, Requests
  <2>2. ProxyTypeOK' /\ ClickInv'
    BY <1>1, <2>1 DEF Post!Send, ProxyTypeOK, ClickInv
  <2>3. FlightInv'
    BY <1>1, <2>1 DEF Post!Send, FlightInv, ProxyTypeOK, Requests
  <2> QED BY <2>2, <2>3
<1>2. CASE Post!WakesUp(k)
  <2>1. ProxyTypeOK' /\ ClickInv'
    BY <1>2, ProxyAssumption DEF Post!WakesUp, ProxyTypeOK, ClickInv
  <2>2. FlightInv'
    BY <1>2 DEF Post!WakesUp, FlightInv, ProxyTypeOK, Requests
  <2> QED BY <2>1, <2>2
<1> QED BY <1>1, <1>2

LEMMA TimesOutCaller ==
    ASSUME CallerInv, NEW k \in Clicks, TimesOut(k)
    PROVE  CallerInv'
<1> USE DEF CallerInv, TimesOut, Loses, Post!TimesOut
<1>1. /\ pc' \in [Clicks -> CallerPcs] /\ reply' \in [Clicks -> Replies] /\ ClickInv'
      /\ \A j \in Clicks : pc[j] # "idle" => pc'[j] # "idle"
  BY AttemptEnds
<1>2. ProxyTypeOK'
  BY <1>1, ProxyAssumption DEF ProxyTypeOK, CallerPcs, Replies
<1>3. FlightInv'
  BY <1>1 DEF FlightInv, ProxyTypeOK, Requests
<1> QED BY <1>1, <1>2, <1>3

(* A request ends: its answer comes, or it is lost. *)
LEMMA RequestEndsCaller ==
    ASSUME CallerInv, NEW r \in Requests, Lost(r) \/ Answered(r)
    PROVE  CallerInv'
<1> USE DEF CallerInv
<1>0. r.caller \in Clicks
  BY DEF Requests
<1>1. \/ /\ pc[r.caller] = "wait" /\ UNCHANGED <<asked, attempt>>
         /\ Post!AttemptFails(r.caller) \/ Post!Returns(r.caller)
      \/ UNCHANGED <<asked, attempt, pc, reply>>
  BY DEF Lost, Loses, Post!Refused, Answered, Post!Awaited
<1>2. /\ pc' \in [Clicks -> CallerPcs] /\ reply' \in [Clicks -> Replies] /\ ClickInv'
      /\ \A j \in Clicks : pc[j] # "idle" => pc'[j] # "idle"
  BY <1>0, <1>1, AttemptEnds DEF ProxyTypeOK, ClickInv, CallerPcs, Replies
<1>3. /\ inFlight' \subseteq inFlight /\ UNCHANGED <<asked, attempt, answer, crashes>>
      /\ losses' \in 0..MaxLosses
  BY ProxyAssumption DEF Lost, Loses, Post!Refused, Answered, ProxyTypeOK
<1>4. ProxyTypeOK' /\ FlightInv'
  BY <1>2, <1>3 DEF ProxyTypeOK, CallerPcs, Replies, FlightInv, Requests
<1> QED BY <1>2, <1>4

LEMMA ProxyRestartsCaller == ASSUME CallerInv, ProxyRestarts PROVE CallerInv'
<1> USE DEF CallerInv, ProxyRestarts, Post!Crash
<1>1. ProxyTypeOK'
  BY ProxyAssumption DEF ProxyTypeOK
<1>2. ClickInv'
  BY DEF ClickInv
<1>3. FlightInv'
  BY DEF FlightInv, ProxyTypeOK, Requests
<1> QED BY <1>1, <1>2, <1>3

(* A step of the service: of the backend's state only the answer changes. *)
ServiceStep ==
    \/ \E r \in Requests : Arrives(r)
    \/ \E c \in Calls, o \in Endpoints : CalledDirectly(c, o)
    \/ \E c \in Calls : HandlerGoesOn(c) \/ HandlerReturns(c) \/ HandlerRaises(c) \/ ThreadGoesOn(c)
    \/ ServiceRestarts

LEMMA ServiceCaller == ASSUME CallerInv, ServiceStep PROVE CallerInv'
<1>1. /\ UNCHANGED <<asked, pc, attempt, reply, inFlight, losses, crashes>>
      /\ answer' \in [Requests -> Replies]
  BY DEF ServiceStep, Arrives, CalledDirectly, HandlerGoesOn, HandlerReturns, HandlerRaises,
     ThreadGoesOn, ServiceRestarts, Answers, Response, proxyVars, CallerInv, ProxyTypeOK, Replies
<1> QED BY <1>1 DEF CallerInv, ProxyTypeOK, ClickInv, FlightInv, Replies

LEMMA NextCaller == CallerInv /\ [ProxyNext]_allVars => CallerInv'
<1>1. ASSUME CallerInv, UNCHANGED allVars PROVE CallerInv'
  BY <1>1 DEF allVars, proxyVars, CallerInv, ProxyTypeOK, ClickInv, FlightInv
<1> QED BY <1>1, ClickCaller, StepCaller, TimesOutCaller, RequestEndsCaller, ProxyRestartsCaller,
           ServiceCaller DEF ProxyNext, ServiceStep, Ended

LEMMA CallerInvHolds == ProxySpec => []CallerInv
BY InitCaller, NextCaller, PTL DEF ProxySpec

(* Every variable of the proxy stays in its type; a click never counts past *)
(* Attempts (_post_proxy), and sends only requests of its own.              *)
THEOREM ProxyTypeCorrect == ProxySpec => []ProxyTypeOK
<1>1. CallerInv => ProxyTypeOK
  BY DEF CallerInv
<1> QED BY <1>1, CallerInvHolds, PTL

-----------------------------------------------------------------------------
(* The service behind the proxy is the service. *)

LEMMA StepOfService ==
    ASSUME CallerInv, [ProxyNext]_allVars
    PROVE  [Next]_vars
<1>1. ASSUME NEW r \in Requests, Arrives(r) PROVE Next
  <2>1. r \in Calls /\ asked[r.caller] \in Endpoints
    BY <1>1, ProxyAssumption
    DEF Arrives, CallerInv, FlightInv, ClickInv, ProxyTypeOK, Requests, Proxied
  <2> QED BY <1>1, <2>1 DEF Arrives, Next
<1>2. ASSUME NEW c \in Calls, NEW o \in Endpoints, CalledDirectly(c, o) PROVE Next
  BY <1>2 DEF CalledDirectly, Next
<1>3. ASSUME NEW c \in Calls,
             HandlerGoesOn(c) \/ HandlerReturns(c) \/ HandlerRaises(c) \/ ThreadGoesOn(c)
      PROVE  Next
  BY <1>3 DEF HandlerGoesOn, HandlerReturns, HandlerRaises, ThreadGoesOn, HandlerStep, Next
<1>4. CASE ServiceRestarts
  BY <1>4 DEF ServiceRestarts, Next
<1>5. ASSUME \/ \E k \in Clicks, o \in Proxied : Click(k, o)
             \/ \E k \in Clicks : ProxyStep(k) \/ TimesOut(k)
             \/ \E r \in Requests : Lost(r) \/ Answered(r)
             \/ ProxyRestarts \/ Ended \/ UNCHANGED allVars
      PROVE  UNCHANGED vars
  BY <1>5 DEF Click, ProxyStep, TimesOut, Lost, Loses, Answered, ProxyRestarts, Ended, allVars
<1> QED BY <1>1, <1>2, <1>3, <1>4, <1>5 DEF ProxyNext

(* The composition is made of the service's own steps, so the theorems of   *)
(* WorkflowLifecycleProofs can be cited below.                              *)
LEMMA ServiceStepsOnly == ProxySpec => Spec
<1>1. ProxyInit => Init
  BY DEF ProxyInit
<1>2. CallerInv /\ [ProxyNext]_allVars => [Next]_vars
  BY StepOfService
<1> QED BY <1>1, <1>2, CallerInvHolds, PTL DEF ProxySpec, Spec

-----------------------------------------------------------------------------
(* What a request has left at the service. *)

(* A request asks for what was clicked. *)
RequestInv ==
    \A r \in Requests : hpc[r] # "idle" =>
        pc[r.caller] # "idle" /\ op[r] = asked[r.caller]

(* Past the first commit, and with an "ok", the decision is on record. *)
RecordInv ==
    /\ \A r \in Requests : hpc[r] \in GovernedPcs \/ answer[r] = "ok" => r \in OnRecord
    /\ \A k \in Clicks : reply[k] = "ok" => \E r \in OnRecord : r.caller = k

(* A person's row was written once, by a handler past its first commit, and *)
(* says what the handler was called for.                                    *)
HumanRowInv ==
    \A g \in governance : g.by = "human" =>
        /\ hpc[g.call] \notin {"idle", "govern"}
        /\ op[g.call] \in DOMAIN Recorded /\ g.decision = Recorded[op[g.call]]

ServiceInv == RequestInv /\ RecordInv /\ HumanRowInv

LEMMA InitService == ProxyInit => ServiceInv
BY ProxyAssumption DEF ProxyInit, Init, ServiceInv, RequestInv, RecordInv, HumanRowInv, GovernedPcs

LEMMA RecordGrows == [Next]_vars => OnRecord \subseteq OnRecord'
BY GovernanceGrows DEF OnRecord

(* Only the commit of a governance endpoint writes a person's row. *)
LEMMA HumanRows ==
    ASSUME Typed, [Next]_vars, NEW g \in governance', g \notin governance, g.by = "human"
    PROVE  \E c \in Calls : HandlerGovern(c)
<1>1. ASSUME NEW c \in Calls, ThreadDefs(c) PROVE FALSE
  <2> USE DEF GraphMovesTo, SetMergeStatus, SetDeployStatus
  <2>1. CASE GraphStep(c)
    BY <2>1 DEF GraphStep, GraphJudge, GraphCleanup
  <2>2. CASE ExecutorStep(c) \/ ExecFault(c)
    BY <2>2 DEF ExecutorStep, ExecStart, ExecInvoke, ExecValidatorFailed, ExecPersist, ExecGovern,
       ExecStatus, ExecRegistry, ExecFailStatus, ExecFailRegistry, ExecFault
  <2>3. CASE ResumerStep(c)
    BY <2>3 DEF ResumerStep, ResumeLoad, ResumeAnswer, ResumeResult, ResumeGovern, ResumeStatus,
       ResumeRegistry, RetestDies
  <2>4. CASE MergerStep(c) \/ ThreadFault(c)
    BY <2>4 DEF MergerStep, MergeStart, MergeCall, MergeRecord, DeployStart, DeployDispatch,
       DeployRecord, ThreadFault
  <2> QED BY <1>1, <2>1, <2>2, <2>3, <2>4, ThreadStepKinds
<1>2. ASSUME NEW c \in Calls, HandlerStep(c) \/ HandlerFault(c), ~HandlerGovern(c) PROVE FALSE
  BY <1>2 DEF HandlerStep, HandlerStatus, HandlerRegistry, HandlerSpawn, HandlerFault
<1>3. CASE UNCHANGED vars
  BY <1>3 DEF vars
<1> QED BY <1>1, <1>2, <1>3 DEF Next, Receive, Restart, Finished, ThreadDefs

LEMMA RowsSay ==
    ASSUME Typed, UnaskedInv, HumanRowInv, [Next]_vars
    PROVE  HumanRowInv'
<1> USE DEF Typed, TypeOK
<1>0. ASSUME NEW g \in governance PROVE g.call \in Calls
  BY DEF GovernanceRow
<1>1. ASSUME NEW c \in Calls, NEW o \in Endpoints, Receive(c, o) PROVE HumanRowInv'
  BY <1>0, <1>1 DEF Receive, HumanRowInv
<1>2. ASSUME NEW c \in Calls, HandlerGovern(c) PROVE HumanRowInv'
  <2>1. ASSUME NEW g \in governance, g.by = "human" PROVE g.call # c
    BY <1>2, <2>1 DEF HumanRowInv, HandlerGovern
  <2>2. op[c] \in DOMAIN Recorded
    BY <1>2 DEF HandlerGovern, PlacesInv, InPlace
  <2> QED BY <1>0, <1>2, <2>1, <2>2 DEF HandlerGovern, HumanRowInv
<1>3. ASSUME NEW c \in Calls, HandlerStep(c) \/ HandlerFault(c), ~HandlerGovern(c)
      PROVE  HumanRowInv'
  <2>1. governance' = governance /\ op' = op
    BY <1>3 DEF HandlerStep, HandlerStatus, HandlerRegistry, HandlerSpawn, HandlerFault
  <2>2. \A d \in Calls : hpc[d] \notin {"idle", "govern"} => hpc'[d] \notin {"idle", "govern"}
    BY <1>3 DEF HandlerStep, HandlerStatus, HandlerRegistry, HandlerSpawn, HandlerFault
  <2> QED BY <1>0, <2>1, <2>2 DEF HumanRowInv
<1>4. ASSUME NEW c \in Calls, ThreadDefs(c) PROVE HumanRowInv'
  <2>1. ~\E d \in Calls : HandlerGovern(d)
    BY <1>4, ThreadTouchesItself DEF HandlerGovern
  <2> QED BY <1>0, <1>4, <2>1, HumanRows, ThreadTouchesItself DEF HumanRowInv
<1>5. CASE Restart
  BY <1>0, <1>5 DEF Restart, HumanRowInv
<1>6. CASE UNCHANGED vars
  BY <1>6 DEF vars, HumanRowInv
<1> QED BY <1>1, <1>2, <1>3, <1>4, <1>5, <1>6 DEF Next, Finished, HandlerStep, ThreadDefs

(* How handlers and threads move on: no call is made by them. *)
LEMMA CallsGoOn ==
    ASSUME Typed, NEW c \in Calls,
           HandlerStep(c) \/ HandlerFault(c) \/ ThreadDefs(c)
    PROVE  /\ op' = op
           /\ \A d \in Calls : hpc'[d] # "idle" => hpc[d] # "idle"
           /\ \A d \in Calls : hpc'[d] \in GovernedPcs =>
                  hpc[d] \in GovernedPcs \/ (d = c /\ HandlerGovern(c))
<1> USE DEF Typed, TypeOK
<1>1. CASE HandlerStep(c) \/ HandlerFault(c)
  BY <1>1 DEF HandlerStep, HandlerGovern, HandlerStatus, HandlerRegistry, HandlerSpawn,
     HandlerFault, GovernedPcs
<1>2. CASE ThreadDefs(c)
  BY <1>2, ThreadTouchesItself
<1> QED BY <1>1, <1>2

(* A person's row is there as soon as the handler is past its commit. *)
LEMMA GovernRecords ==
    ASSUME NEW r \in Requests, HandlerGovern(r)
    PROVE  r \in OnRecord'
<1> DEFINE g == [call |-> r, by |-> "human", decision |-> Recorded[op[r]]]
<1>1. g \in governance'
  BY DEF HandlerGovern
<1>2. g.call = r /\ g.by = "human"
  OBVIOUS
<1> QED BY <1>1, <1>2 DEF OnRecord

(* Steps of the dashboard's backend. *)
LEMMA ClickService ==
    ASSUME CallerInv, ServiceInv, NEW k \in Clicks, NEW o \in Proxied, Click(k, o)
    PROVE  ServiceInv'
<1> USE DEF ServiceInv, Click, Post!Begin, vars
<1>1. RequestInv'
  BY DEF RequestInv, CallerInv, ProxyTypeOK
<1>2. RecordInv' /\ HumanRowInv'
  BY DEF RecordInv, HumanRowInv, OnRecord
<1> QED BY <1>1, <1>2

LEMMA BackendService ==
    ASSUME CallerInv, ServiceInv, UNCHANGED <<vars, asked, answer>>,
           \/ \E k \in Clicks : ProxyStep(k) \/ TimesOut(k)
           \/ \E r \in Requests : Lost(r)
           \/ ProxyRestarts
    PROVE  ServiceInv'
<1> USE DEF ServiceInv
<1>1. /\ \A k \in Clicks : pc[k] # "idle" => pc'[k] # "idle"
      /\ \A k \in Clicks : reply'[k] = "ok" => reply[k] = "ok"
  BY DEF ProxyStep, Post!Send, Post!WakesUp, TimesOut, Post!TimesOut, Loses, Lost, Post!Refused,
     Post!AttemptFails, Post!Awaited, ProxyRestarts, Post!Crash, CallerInv, ProxyTypeOK, Requests
<1>2. RequestInv'
  BY <1>1 DEF RequestInv, vars, Requests
<1>3. RecordInv' /\ HumanRowInv'
  BY <1>1 DEF RecordInv, HumanRowInv, OnRecord, vars
<1> QED BY <1>2, <1>3

LEMMA AnsweredService ==
    ASSUME CallerInv, ServiceInv, NEW r \in Requests, Answered(r)
    PROVE  ServiceInv'
<1> USE DEF ServiceInv
<1>1. /\ r.caller \in Clicks
      /\ UNCHANGED <<vars, asked, answer>>
  BY DEF Answered, Requests
<1>2. /\ \A k \in Clicks : pc[k] # "idle" => pc'[k] # "idle"
      /\ \A k \in Clicks : reply'[k] = "ok" => reply[k] = "ok" \/ (k = r.caller /\ answer[r] = "ok")
  BY <1>1 DEF Answered, Post!Awaited, Post!Returns, Post!AttemptFails, CallerInv, ProxyTypeOK
<1>3. RequestInv'
  BY <1>1, <1>2 DEF RequestInv, vars, Requests
<1>4. RecordInv' /\ HumanRowInv'
  BY <1>1, <1>2 DEF RecordInv, HumanRowInv, OnRecord, vars
<1> QED BY <1>3, <1>4

(* Steps of the service. *)
LEMMA ArrivesService ==
    ASSUME CallerInv, ServiceInv, Typed, NEW c \in Calls,
           (c \in Requests /\ Arrives(c)) \/ \E o \in Endpoints : CalledDirectly(c, o)
    PROVE  RequestInv' /\ RecordInv'
<1> USE ProxyAssumption DEF Typed, TypeOK
<1>0. UNCHANGED <<governance, proxyVars>>
  BY DEF Arrives, CalledDirectly, Receive
<1>1. CASE c \in Requests /\ Arrives(c)
  <2> USE <1>1
  <2>1. c.caller \in Clicks /\ pc[c.caller] # "idle" /\ asked[c.caller] \in Proxied
    BY DEF Arrives, CallerInv, FlightInv, ClickInv, ProxyTypeOK, Requests
  <2>2. asked[c.caller] \notin {"start", "resume"}
    BY <2>1, RecordedFacts DEF Proxied
  <2>3. /\ op' = [op EXCEPT ![c] = asked[c.caller]]
        /\ hpc' = [hpc EXCEPT ![c] = "govern"]
    BY <2>2 DEF Arrives, Receive
  <2>4. RequestInv'
    BY <1>0, <2>1, <2>3 DEF ServiceInv, RequestInv, proxyVars
  <2>5. RecordInv'
    BY <1>0, <2>3 DEF ServiceInv, RecordInv, OnRecord, GovernedPcs, proxyVars
  <2> QED BY <2>4, <2>5
<1>2. CASE \E o \in Endpoints : CalledDirectly(c, o)
  <2>1. /\ c \notin Requests
        /\ \A r \in Requests : op'[r] = op[r] /\ hpc'[r] = hpc[r]
    BY <1>2 DEF CalledDirectly, Receive
  <2> QED BY <1>0, <2>1 DEF ServiceInv, RequestInv, RecordInv, OnRecord, proxyVars
<1> QED BY <1>1, <1>2

LEMMA CallGoesOnService ==
    ASSUME CallerInv, ServiceInv, Typed, [Next]_vars, NEW c \in Calls,
           HandlerGoesOn(c) \/ HandlerReturns(c) \/ HandlerRaises(c) \/ ThreadGoesOn(c)
    PROVE  RequestInv' /\ RecordInv'
<1> USE ProxyAssumption DEF ServiceInv
<1>1. HandlerStep(c) \/ HandlerFault(c) \/ ThreadDefs(c)
  BY DEF HandlerGoesOn, HandlerReturns, HandlerRaises, ThreadGoesOn, HandlerStep, ThreadDefs
<1>2. UNCHANGED <<asked, pc, reply>>
  BY DEF HandlerGoesOn, HandlerReturns, HandlerRaises, ThreadGoesOn, Answers, proxyVars
<1>3. RequestInv'
  BY <1>1, <1>2, CallsGoOn DEF RequestInv
<1>4. ASSUME NEW r \in Requests, hpc'[r] \in GovernedPcs PROVE r \in OnRecord'
  BY <1>1, <1>4, CallsGoOn, GovernRecords, RecordGrows DEF RecordInv
<1>5. ASSUME NEW r \in Requests, answer'[r] = "ok" PROVE r \in OnRecord'
  <2>1. answer[r] = "ok" \/ hpc[r] \in GovernedPcs
    BY <1>5 DEF HandlerGoesOn, HandlerReturns, HandlerRaises, ThreadGoesOn, Answers, proxyVars,
       HandlerSpawn, GovernedPcs, CallerInv, ProxyTypeOK
  <2> QED BY <2>1, RecordGrows DEF RecordInv
<1>6. RecordInv'
  BY <1>2, <1>4, <1>5, RecordGrows DEF RecordInv
<1> QED BY <1>3, <1>6

LEMMA RestartService ==
    ASSUME ServiceInv, ServiceRestarts
    PROVE  RequestInv' /\ RecordInv'
<1>1. \A r \in Requests : /\ hpc'[r] # "idle" => hpc[r] # "idle"
                          /\ hpc'[r] \notin GovernedPcs
                          /\ answer'[r] = "ok" => answer[r] = "ok"
  BY ProxyAssumption DEF ServiceRestarts, Restart, GovernedPcs
<1> QED BY <1>1 DEF ServiceInv, RequestInv, RecordInv, OnRecord, ServiceRestarts, Restart

LEMMA NextService ==
    CallerInv /\ ServiceInv /\ Typed /\ UnaskedInv /\ [ProxyNext]_allVars => ServiceInv'
<1> SUFFICES ASSUME CallerInv, ServiceInv, Typed, UnaskedInv, [ProxyNext]_allVars
             PROVE  ServiceInv'
  OBVIOUS
<1>1. [Next]_vars
  BY StepOfService
<1>2. HumanRowInv'
  BY <1>1, RowsSay DEF ServiceInv
<1>3. CASE \E k \in Clicks, o \in Proxied : Click(k, o)
  BY <1>3, ClickService
<1>4. CASE \/ \E k \in Clicks : ProxyStep(k) \/ TimesOut(k)
           \/ \E r \in Requests : Lost(r)
           \/ ProxyRestarts
  BY <1>4, BackendService DEF ProxyStep, TimesOut, Lost, Loses, ProxyRestarts
<1>5. CASE \E r \in Requests : Answered(r)
  BY <1>5, AnsweredService
<1>6. CASE ServiceStep
  BY <1>1, <1>2, <1>6, ArrivesService, CallGoesOnService, RestartService, ProxyAssumption
  DEF ServiceStep, ServiceInv
<1>7. CASE UNCHANGED allVars
  BY <1>7 DEF allVars, vars, proxyVars, ServiceInv, RequestInv, RecordInv, HumanRowInv, OnRecord
<1> QED BY <1>3, <1>4, <1>5, <1>6, <1>7 DEF ProxyNext, ServiceStep, Ended

LEMMA ServiceInvHolds == ProxySpec => [](CallerInv /\ ServiceInv /\ IInv)
<1>1. ProxySpec => []IInv
  BY ServiceStepsOnly, IInvHolds
<1>2. CallerInv /\ ServiceInv /\ IInv /\ [ProxyNext]_allVars => ServiceInv'
  BY NextService DEF IInv, Typed
<1> QED BY <1>1, <1>2, InitService, CallerInvHolds, PTL DEF ProxySpec

(* What was recorded for a click is what was clicked, and an "ok" of        *)
(* _post_proxy means a row: retries, late requests and restarts of either   *)
(* service included.                                                        *)
THEOREM ClicksOnRecordHolds == ProxySpec => []ClicksOnRecord
<1>1. CallerInv /\ ServiceInv => ClicksOnRecord
  BY DEF CallerInv, ClickInv, ServiceInv, RequestInv, RecordInv, HumanRowInv, ClicksOnRecord, Requests
<1> QED BY <1>1, ServiceInvHolds, PTL

(* A merge goes back to an approval somebody clicked or made directly: what *)
(* WorkflowLifecycle knows of the row (MergeNeedsHuman) is carried on to    *)
(* the person.                                                              *)
THEOREM MergeWasClickedHolds == ProxySpec => []MergeWasClicked
<1>1. CallerInv /\ ServiceInv /\ IInv => MergeWasClicked
  <2> SUFFICES ASSUME CallerInv, ServiceInv, IInv, prMerged \/ mergeCallers # {}
               PROVE  \/ \E k \in Clicks : asked[k] \in Approve
                      \/ \E c \in Calls \ Requests : op[c] \in Approve
    BY DEF MergeWasClicked
  <2>1. PICK g \in governance : g.by = "human" /\ g.decision \in Approving
    BY DEF IInv, HumanInv, NothingApproved, HumanApproved
  <2>2. g.call \in Calls
    BY DEF IInv, TypeOK, GovernanceRow
  <2>3. op[g.call] \in Approve
    BY <2>1, RecordedFacts DEF ServiceInv, HumanRowInv, Approving, Approve
  <2>4. CASE g.call \in Requests
    <3>1. g.call.caller \in Clicks /\ op[g.call] = asked[g.call.caller]
      BY <2>1, <2>4 DEF ServiceInv, HumanRowInv, RequestInv, Requests
    <3> QED BY <2>3, <3>1
  <2> QED BY <2>2, <2>3, <2>4
<1> QED BY <1>1, ServiceInvHolds, PTL

-----------------------------------------------------------------------------
(* What each step does to the state Delivery speaks of. *)

(* A commit puts one more request on record, at most. *)
LEMMA RecordStep ==
    ASSUME Typed, HumanRowInv, [Next]_vars
    PROVE  \/ OnRecord' = OnRecord
           \/ \E r \in Requests : r \notin OnRecord /\ OnRecord' = OnRecord \cup {r}
<1>1. CASE ~\E c \in Calls : HandlerGovern(c)
  <2>1. \A g \in governance' : g.by = "human" => g \in governance
    BY <1>1, HumanRows
  <2> QED BY <2>1, GovernanceGrows DEF OnRecord
<1>2. ASSUME NEW c \in Calls, HandlerGovern(c)
      PROVE  \/ OnRecord' = OnRecord
             \/ \E r \in Requests : r \notin OnRecord /\ OnRecord' = OnRecord \cup {r}
  <2> DEFINE g == [call |-> c, by |-> "human", decision |-> Recorded[op[c]]]
  <2>1. governance' = governance \cup {g} /\ g.call = c /\ g.by = "human"
    BY <1>2 DEF HandlerGovern
  <2>2. c \notin OnRecord
    BY <1>2 DEF HandlerGovern, HumanRowInv, OnRecord
  <2>3. c \in Requests => OnRecord' = OnRecord \cup {c}
    BY <2>1 DEF OnRecord
  <2>4. c \notin Requests => OnRecord' = OnRecord
    BY <2>1 DEF OnRecord
  <2> QED BY <2>2, <2>3, <2>4
<1> QED BY <1>1, <1>2

(* On record once more: the attempt is new among those of its click. *)
LEMMA RecordCarriesOut ==
    ASSUME NEW r \in Requests, r \notin OnRecord, OnRecord' = OnRecord \cup {r}
    PROVE  /\ r.caller \in Clicks
           /\ \E n \in 1..Attempts : Promise!CarryOut(r.caller, n)
<1>1. r.caller \in Clicks /\ r.attempt \in 1..Attempts
  BY DEF Requests
<1>2. r.attempt \notin DoneBy(r.caller)
  <2> SUFFICES ASSUME NEW q \in OnRecord, q.caller = r.caller, q.attempt = r.attempt
               PROVE  FALSE
    BY DEF DoneBy
  <2>1. q = r
    BY DEF OnRecord, Requests
  <2> QED BY <2>1
<1>3. DoneBy(r.caller)' = DoneBy(r.caller) \cup {r.attempt}
  BY DEF DoneBy
<1>4. \A k \in Clicks : k # r.caller => DoneBy(k)' = DoneBy(k)
  BY DEF DoneBy
<1>5. [k \in Clicks |-> DoneBy(k)]' =
          [[k \in Clicks |-> DoneBy(k)] EXCEPT ![r.caller] = @ \cup {r.attempt}]
  BY <1>1, <1>3, <1>4
<1>6. Promise!CarryOut(r.caller, r.attempt)
  BY <1>1, <1>2, <1>5 DEF Promise!CarryOut
<1> QED BY <1>1, <1>6

LEMMA DoneKept == ASSUME OnRecord' = OnRecord PROVE UNCHANGED [k \in Clicks |-> DoneBy(k)]
BY DEF DoneBy

LEMMA FailureTells ==
    ASSUME CallerInv, NEW k \in Clicks, pc[k] = "wait", Post!AttemptFails(k)
    PROVE  UNCHANGED reply \/ Promise!TellError(k)
BY DEF CallerInv, ClickInv, ProxyTypeOK, Post!AttemptFails, Promise!TellError

(* The answer leaves only when nothing is recorded in the same step. *)
LEMMA AnswerTells ==
    ASSUME CallerInv, ServiceInv, [ProxyNext]_allVars
    PROVE  \/ UNCHANGED reply
           \/ /\ OnRecord' = OnRecord
              /\ \E k \in Clicks : Promise!TellOk(k) \/ Promise!TellError(k)
<1>1. ASSUME NEW k \in Clicks, TimesOut(k)
      PROVE  /\ OnRecord' = OnRecord
             /\ UNCHANGED reply \/ Promise!TellError(k)
  BY <1>1, FailureTells DEF TimesOut, Loses, Post!TimesOut, OnRecord, vars
<1>2. ASSUME NEW r \in Requests, Lost(r)
      PROVE  /\ OnRecord' = OnRecord
             /\ UNCHANGED reply \/ Promise!TellError(r.caller)
  BY <1>2, FailureTells DEF Lost, Loses, Post!Refused, Post!Awaited, OnRecord, vars, Requests
<1>3. ASSUME NEW r \in Requests, Answered(r)
      PROVE  /\ OnRecord' = OnRecord
             /\ UNCHANGED reply \/ Promise!TellOk(r.caller) \/ Promise!TellError(r.caller)
  <2>1. r.caller \in Clicks
    BY DEF Requests
  <2>2. OnRecord' = OnRecord
    BY <1>3 DEF Answered, OnRecord, vars
  <2>3. CASE Post!Awaited(r) /\ answer[r] = "ok" /\ Post!Returns(r.caller)
    <3>1. reply[r.caller] = "none"
      BY <2>1, <2>3 DEF Post!Awaited, CallerInv, ClickInv
    <3>2. r.attempt \in DoneBy(r.caller)'
      BY <2>2, <2>3 DEF ServiceInv, RecordInv, DoneBy
    <3>3. Promise!TellOk(r.caller)
      BY <2>1, <2>3, <3>1, <3>2 DEF Post!Returns, Promise!TellOk
    <3> QED BY <2>2, <3>3
  <2>4. CASE Post!Awaited(r) /\ Post!AttemptFails(r.caller)
    BY <2>1, <2>2, <2>4, FailureTells DEF Post!Awaited
  <2> QED BY <1>3, <2>2, <2>3, <2>4 DEF Answered
<1>4. ASSUME NEW r \in Requests PROVE r.caller \in Clicks
  BY DEF Requests
<1>5. ASSUME \/ \E k \in Clicks, o \in Proxied : Click(k, o)
             \/ \E k \in Clicks : ProxyStep(k)
             \/ ProxyRestarts \/ ServiceStep \/ Ended \/ UNCHANGED allVars
      PROVE  UNCHANGED reply
  BY <1>5 DEF Click, Post!Begin, ProxyStep, Post!Send, Post!WakesUp, ProxyRestarts, Post!Crash,
     ServiceStep, Arrives, CalledDirectly, HandlerGoesOn, HandlerReturns, HandlerRaises, ThreadGoesOn,
     ServiceRestarts, Answers, Ended, allVars, proxyVars
<1> QED BY <1>1, <1>2, <1>3, <1>4, <1>5 DEF ProxyNext, ServiceStep

LEMMA NextDelivers ==
    CallerInv /\ ServiceInv /\ IInv /\ [ProxyNext]_allVars => [Promise!Next]_(Promise!vars)
<1> SUFFICES ASSUME CallerInv, ServiceInv, IInv, [ProxyNext]_allVars
             PROVE  [Promise!Next]_(Promise!vars)
  OBVIOUS
<1>1. [Next]_vars /\ Typed /\ HumanRowInv
  BY StepOfService DEF IInv, Typed, ServiceInv
<1>2. CASE OnRecord' = OnRecord
  <2>1. UNCHANGED [k \in Clicks |-> DoneBy(k)]
    BY <1>2, DoneKept
  <2> QED BY <2>1, AnswerTells DEF Promise!Next, Promise!vars
<1>3. ASSUME NEW r \in Requests, r \notin OnRecord, OnRecord' = OnRecord \cup {r}
      PROVE  [Promise!Next]_(Promise!vars)
  <2>1. OnRecord' # OnRecord
    BY <1>3
  <2> QED BY <1>3, <2>1, AnswerTells, RecordCarriesOut DEF Promise!Next
<1> QED BY <1>1, <1>2, <1>3, RecordStep

(* The decision of a click keeps the promise of Delivery all the way from   *)
(* the dashboard to governance_actions: through _post_proxy, the endpoint's *)
(* handler with its separate commits, and restarts of both services.        *)
THEOREM ClicksAreDelivered == ProxySpec => ClicksDelivered
<1>1. ProxyInit => Promise!Init
  BY DEF ProxyInit, Init, Promise!Init, OnRecord, DoneBy
<1> QED BY <1>1, NextDelivers, ServiceInvHolds, PTL DEF ProxySpec, ClicksDelivered, Promise!Spec
=============================================================================
