------------------------ MODULE WebhookIngestProofs ------------------------
(***************************************************************************)
(* The integration service starts only the reviews it was asked for and    *)
(* answers truly, for any deliveries, events, settings and bounds.  What   *)
(* is known of the retried POST is taken over from RetriedPostProofs.      *)
(***************************************************************************)
EXTENDS WebhookIngest, TLAPS

P == INSTANCE RetriedPostProofs WITH Callers <- Deliveries

(* Only an accepted delivery leaves a trace, and a request is one of a     *)
(* delivery that has begun to post.                                        *)
AcceptedInv ==
    /\ \A d \in Deliveries :
          pc[d] # "idle" \/ comment[d] # "none" =>
              event[d] # NoEvent /\ Verdict(event[d]) = "accepted"
    /\ \A r \in inFlight \cup carriedOut : pc[r.caller] # "idle"

(* "ok" is the answer to a request that was carried out. *)
StartedInv == \A d \in Deliveries : reply[d] = "ok" => \E r \in carriedOut : r.caller = d

IngestTypeOK ==
    /\ event \in [Deliveries -> Event \cup {NoEvent}]
    /\ comment \in [Deliveries -> {"none", "scheduled", "posted", "failed"}]

IngestInv == IngestTypeOK /\ AcceptedInv /\ StartedInv

-----------------------------------------------------------------------------
(* The same actions under the names of the two instances. *)
LEMMA PostStep ==
  ASSUME Next
  PROVE  [P!Next]_(P!postVars)
  <1> USE DEF P!Next, P!postVars, P!CallerStep, P!ReceiverStep
  <1>1. ASSUME NEW d \in Deliveries, NEW e \in Events, Receive(d, e)
        PROVE  [P!Next]_(P!postVars)
    BY <1>1 DEF Receive, Post!Begin, P!Begin, postVars
  <1>2. ASSUME NEW d \in Deliveries, Comment(d)
        PROVE  [P!Next]_(P!postVars)
    BY <1>2 DEF Comment, postVars
  <1>3. ASSUME NEW d \in Deliveries, Post!CallerStep(d)
        PROVE  [P!Next]_(P!postVars)
    BY <1>3 DEF Post!CallerStep, Post!Send, P!Send, Post!TimesOut, P!TimesOut,
                Post!AttemptFails, P!AttemptFails, Post!WakesUp, P!WakesUp
  <1>4. CASE Starts
    BY <1>4 DEF Starts, Post!ReceiverStep, Post!Served, P!Served, Post!Refused, P!Refused,
                Post!Returns, P!Returns, Post!AttemptFails, P!AttemptFails,
                Post!Awaited, P!Awaited
  <1>5. CASE Restart
    BY <1>5 DEF Restart, Post!Crash, P!Crash
  <1>6. CASE Ended
    BY <1>6 DEF Ended, vars, postVars
  <1> QED
    BY <1>1, <1>2, <1>3, <1>4, <1>5, <1>6 DEF Next, ServiceStep

LEMMA PostInvHolds == Spec => []P!Inv
  <1>1. P!RetriesAssumption
    BY RetriesAssumption DEF P!RetriesAssumption, RetriesAssumption
  <1>2. Init => P!Inv
    BY <1>1, P!InitInv DEF Init, Post!PostInit, P!PostInit
  <1>3. P!Inv /\ [Next]_vars => P!Inv'
    <2>1. [Next]_vars => [P!Next]_(P!postVars)
      BY PostStep DEF vars, postVars, P!postVars
    <2> QED
      BY <1>1, <2>1, P!NextInv
  <1> QED
    BY <1>2, <1>3, PTL DEF Spec

-----------------------------------------------------------------------------
LEMMA InitIngest == Init => IngestInv
  BY DEF Init, Post!PostInit, IngestInv, IngestTypeOK, AcceptedInv, StartedInv

(* What the actions of the POST do to the parts an ingest invariant reads. *)
LEMMA PostGoesOn ==
  ASSUME P!Inv, NEW d \in Deliveries,
         \/ Post!CallerStep(d)
         \/ \E r \in inFlight : r.caller = d /\ (Post!Served(r) \/ Post!Refused(r))
  PROVE  /\ \A c \in Deliveries : pc'[c] # "idle" <=> pc[c] # "idle"
         /\ carriedOut \subseteq carriedOut'
         /\ \A r \in inFlight' \cup carriedOut' : pc[r.caller] # "idle" \/ r \in inFlight \cup carriedOut
         /\ \A c \in Deliveries : reply'[c] = "ok" =>
               reply[c] = "ok" \/ \E r \in carriedOut' : r.caller = c
  <1> USE DEF P!Inv, P!PostTypeOK, P!Requests
  <1>1. CASE Post!Send(d)
    BY <1>1 DEF Post!Send
  <1>2. CASE Post!TimesOut(d)
    BY <1>2 DEF Post!TimesOut, Post!AttemptFails
  <1>3. CASE Post!WakesUp(d)
    BY <1>3 DEF Post!WakesUp
  <1>4. ASSUME NEW r \in inFlight, r.caller = d, Post!Served(r)
        PROVE  /\ \A c \in Deliveries : pc'[c] # "idle" <=> pc[c] # "idle"
               /\ carriedOut' = carriedOut \cup {r} /\ inFlight' \subseteq inFlight
               /\ \A c \in Deliveries : reply'[c] = "ok" => reply[c] = "ok" \/ c = d
    BY <1>4 DEF Post!Served, Post!Returns, Post!AttemptFails, Post!Awaited
  <1>5. ASSUME NEW r \in inFlight, r.caller = d, Post!Refused(r)
        PROVE  /\ \A c \in Deliveries : pc'[c] # "idle" <=> pc[c] # "idle"
               /\ carriedOut' = carriedOut /\ inFlight' \subseteq inFlight
               /\ \A c \in Deliveries : reply'[c] = "ok" => reply[c] = "ok"
    BY <1>5 DEF Post!Refused, Post!AttemptFails, Post!Awaited
  <1> QED
    BY <1>1, <1>2, <1>3, <1>4, <1>5 DEF Post!CallerStep

LEMMA NextIngest == P!Inv /\ IngestInv /\ [Next]_vars => IngestInv'
  <1> SUFFICES ASSUME P!Inv, IngestInv, [Next]_vars
               PROVE  IngestInv'
    OBVIOUS
  <1> USE DEF IngestInv
  <1>0. inFlight \cup carriedOut \subseteq P!Requests
    BY DEF P!Inv, P!PostTypeOK
  <1>1. ASSUME NEW d \in Deliveries, NEW e \in Events, Receive(d, e)
        PROVE  IngestInv'
    <2>1. e \in Event /\ e # NoEvent
      BY IngestAssumption DEF Event, NoEvent, Endpoints
    <2>2. IngestTypeOK'
      BY <1>1, <2>1 DEF Receive, IngestTypeOK, postVars
    <2>3. pc[d] = "idle" /\ comment[d] = "none"
      BY <1>1 DEF Receive, AcceptedInv
    <2>4. AcceptedInv' /\ StartedInv'
      BY <1>0, <1>1, <2>1, <2>3 DEF Receive, Post!Begin, postVars, AcceptedInv, StartedInv, IngestTypeOK,
         P!Inv, P!PostTypeOK, P!Requests
    <2> QED
      BY <2>2, <2>4
  <1>2. ASSUME NEW d \in Deliveries, Comment(d)
        PROVE  IngestInv'
    BY <1>2 DEF Comment, postVars, IngestTypeOK, AcceptedInv, StartedInv
  <1>3. ASSUME NEW d \in Deliveries, UNCHANGED ingestVars,
               \/ Post!CallerStep(d)
               \/ \E r \in inFlight : r.caller = d /\ (Post!Served(r) \/ Post!Refused(r))
        PROVE  IngestInv'
    <2>1. IngestTypeOK'
      BY <1>3 DEF ingestVars, IngestTypeOK
    <2>2. /\ \A c \in Deliveries : pc'[c] # "idle" <=> pc[c] # "idle"
          /\ carriedOut \subseteq carriedOut'
          /\ \A r \in inFlight' \cup carriedOut' :
                pc[r.caller] # "idle" \/ r \in inFlight \cup carriedOut
          /\ \A c \in Deliveries : reply'[c] = "ok" =>
                reply[c] = "ok" \/ \E r \in carriedOut' : r.caller = c
      BY <1>3, PostGoesOn
    <2>3. \A r \in inFlight' \cup carriedOut' : r.caller \in Deliveries
      BY <1>3, P!NextInv, PostStep, RetriesAssumption
      DEF RetriesAssumption, P!RetriesAssumption, P!Inv, P!PostTypeOK, P!Requests, ingestVars, Next, Starts, ServiceStep, Post!ReceiverStep
    <2>4. AcceptedInv' /\ StartedInv'
      BY <1>3, <2>2, <2>3 DEF ingestVars, AcceptedInv, StartedInv
    <2> QED
      BY <2>1, <2>4
  <1>4. CASE Starts
    <2>1. PICK r \in inFlight : Post!Served(r) \/ Post!Refused(r)
      BY <1>4 DEF Starts, Post!ReceiverStep
    <2> QED
      BY <1>0, <1>3, <1>4, <2>1 DEF Starts, P!Requests
  <1>5. CASE Restart
    BY <1>0, <1>5 DEF Restart, Post!Crash, IngestTypeOK, AcceptedInv, StartedInv, P!Requests
  <1>6. CASE UNCHANGED vars
    BY <1>6 DEF vars, ingestVars, postVars, IngestTypeOK, AcceptedInv, StartedInv
  <1> QED
    BY <1>1, <1>2, <1>3, <1>4, <1>5, <1>6 DEF Next, ServiceStep, Ended

LEMMA IngestInvHolds == Spec => [](P!Inv /\ IngestInv)
  <1>1. P!Inv /\ IngestInv /\ [Next]_vars => IngestInv'
    BY NextIngest
  <1> QED
    BY <1>1, InitIngest, PostInvHolds, PTL DEF Spec

(* Every variable stays in its type, those of the POST included. *)
THEOREM TypeCorrect == Spec => []TypeOK
  <1>1. P!Inv /\ IngestInv => TypeOK
    BY DEF P!Inv, P!PostTypeOK, P!Requests, Post!PostTypeOK, Post!Requests, IngestInv,
           IngestTypeOK, TypeOK
  <1> QED
    BY <1>1, IngestInvHolds, PTL

(* No retry and no late request starts a review that was not asked for. *)
THEOREM NoUninvitedReviewHolds == Spec => []NoUninvitedReview
  <1>1. ASSUME NEW e \in Event, Verdict(e) = "accepted", e.endpoint # "simulate"
        PROVE  e.action # "closed" /\ e.kind # "other" /\ (SecretSet => e.genuine)
    BY <1>1, IngestAssumption
    DEF Verdict, Unverified, Ignored, Malformed, Unnamed, Parsed, Trigger, Event, Endpoints, Actions
  <1>2. P!Inv /\ IngestInv => NoUninvitedReview
    <2> SUFFICES ASSUME P!Inv, IngestInv, NEW r \in inFlight \cup carriedOut,
                        event[r.caller].endpoint # "simulate"
                 PROVE  /\ event[r.caller].action # "closed" /\ event[r.caller].kind # "other"
                        /\ SecretSet => event[r.caller].genuine
      BY DEF NoUninvitedReview
    <2>1. r.caller \in Deliveries
      BY DEF P!Inv, P!PostTypeOK, P!Requests
    <2>2. event[r.caller] \in Event /\ Verdict(event[r.caller]) = "accepted"
      BY <2>1 DEF IngestInv, IngestTypeOK, AcceptedInv
    <2> QED
      BY <1>1, <2>2
  <1> QED
    BY <1>2, IngestInvHolds, PTL

(* Who is told of a workflow has one; who is turned away leaves no trace. *)
THEOREM AnswersAreTrueHolds == Spec => []AnswersAreTrue
  <1>1. P!Inv /\ IngestInv => AnswersAreTrue
    <2> SUFFICES ASSUME P!Inv, IngestInv, NEW d \in Deliveries
                 PROVE  /\ Answer(d) = "workflow_started" => Workflows(d) # {}
                        /\ Answer(d) \in {"unauthorized", "ignored", "bad_request", "server_error"} =>
                              Workflows(d) = {} /\ comment[d] = "none"
      BY DEF AnswersAreTrue
    <2>1. Answer(d) = "workflow_started" => reply[d] = "ok"
      BY DEF Answer, Verdict
    <2>2. Answer(d) \in {"unauthorized", "ignored", "bad_request", "server_error"} =>
              event[d] # NoEvent /\ Verdict(event[d]) # "accepted"
      BY DEF Answer
    <2>3. reply[d] = "ok" => Workflows(d) # {}
      BY DEF IngestInv, StartedInv, Workflows
    <2>4. Verdict(event[d]) # "accepted" => Workflows(d) = {} /\ comment[d] = "none"
      BY DEF IngestInv, AcceptedInv, Workflows
    <2> QED
      BY <2>1, <2>2, <2>3, <2>4
  <1> QED
    BY <1>1, IngestInvHolds, PTL
-----------------------------------------------------------------------------
(* The POST to /workflow/start keeps the promise of Delivery inside this    *)
(* service, where deliveries are filtered and restarts drop tasks as well.  *)
THEOREM DeliveryImplemented == Spec => ImplementsDelivery
  <1>1. Init => P!Promise!Init
    <2>1. Init => P!PostInit
      BY DEF Init, Post!PostInit, P!PostInit
    <2> QED
      BY <2>1 DEF P!PostInit, P!Promise!Init, P!Done
  <1>2. P!Inv /\ [Next]_vars => [P!Promise!Next]_(P!Promise!vars)
    <2>1. [Next]_vars => [P!Next]_(P!postVars)
      BY PostStep DEF vars, postVars, P!postVars
    <2> QED
      BY <2>1, P!NextDelivers, RetriesAssumption DEF RetriesAssumption
  <1>3. Spec => P!Promise!Spec
    BY <1>1, <1>2, PostInvHolds, PTL DEF Spec, P!Promise!Spec
  <1>4. P!Promise!Spec => ImplementsDelivery
    BY PTL DEF ImplementsDelivery, Post!ImplementsDelivery, Post!Promise!Spec, P!Promise!Spec,
       Post!Promise!Init, P!Promise!Init, Post!Promise!Next, P!Promise!Next, Post!Promise!vars,
       P!Promise!vars, Post!Done, P!Done, Post!Promise!CarryOut, P!Promise!CarryOut,
       Post!Promise!TellOk, P!Promise!TellOk, Post!Promise!TellError, P!Promise!TellError
  <1> QED
    BY <1>3, <1>4

(* A sender that has its answer causes no further start request. *)
THEOREM QuietAfterAnswerHolds == Spec => QuietAfterAnswer
  <1> DEFINE Quiet == \A c \in Deliveries : reply[c] # "none" =>
                          {r \in inFlight' : r.caller = c} \subseteq inFlight
  <1>1. P!Inv /\ [Next]_vars => [Quiet]_(Post!postVars)
    <2>1. [Next]_vars => [P!Next]_(P!postVars)
      BY PostStep DEF vars, postVars, P!postVars
    <2> QED
      BY <2>1, P!NextIsQuiet, RetriesAssumption DEF RetriesAssumption, P!postVars, Post!postVars
  <1> QED
    BY <1>1, PostInvHolds, PTL DEF Spec, QuietAfterAnswer, Post!QuietAfterAnswer
=============================================================================
