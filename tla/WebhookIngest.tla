--------------------------- MODULE WebhookIngest ---------------------------
(***************************************************************************)
(* The integration service: a webhook of a git platform, or a manual       *)
(* request, is verified, parsed, filtered by its action, announced on the  *)
(* pull request and turned into a POST to /workflow/start with retries.    *)
(* One delivery is one HTTP request to the service.                        *)
(***************************************************************************)
EXTENDS Retrying

CONSTANTS
    Deliveries,   \* the requests the service receives; bounds the behaviour
    Events,       \* the events they may carry
    SecretSet,    \* the platforms' webhook secrets are configured
    TokenSet      \* the token to comment with is configured

VARIABLES
    event,    \* event[d]: what delivery d carries
    comment,  \* comment[d]: the "Review Started" comment, a task of its own
    pc, attempt, reply, inFlight, carriedOut, crashes

ingestVars == <<event, comment>>
postVars   == <<pc, attempt, reply, inFlight, carriedOut, crashes>>
vars       == <<ingestVars, postVars>>

(* The POST to /workflow/start; a request carried out is a workflow. *)
Post == INSTANCE RetriedPost WITH Callers <- Deliveries

-----------------------------------------------------------------------------
Endpoints == {"gitea", "github", "gitlab", "simulate"}
Actions   == {"missing", "opened", "created", "reopened", "reopen", "open", "update",
              "synchronize", "synchronized", "ready_for_review", "closed"}

(* json: whether the body is JSON; kind: X-Gitea-Event, X-GitHub-Event or   *)
(* GitLab's object_kind; repo: whether the payload names it.                *)
Event == [endpoint : Endpoints, genuine : BOOLEAN, json : BOOLEAN,
          kind : {"pull_request", "other", "missing"}, action : Actions,
          repo : BOOLEAN, number : {"missing", "integer", "other"}]
NoEvent == [endpoint |-> "none", genuine |-> FALSE, json |-> FALSE, kind |-> "none",
            action |-> "none", repo |-> FALSE, number |-> "none"]

ASSUME IngestAssumption ==
    Events \subseteq Event /\ SecretSet \in BOOLEAN /\ TokenSet \in BOOLEAN

Trigger == [gitea  |-> {"opened", "synchronized", "reopened", "created", "reopen"},
            github |-> {"opened", "synchronize", "reopened", "ready_for_review"},
            gitlab |-> {"open", "reopen", "update"}]

(* The action names the parsers hand on. *)
Parsed(e) ==
    CASE e.endpoint = "github" /\ e.action = "ready_for_review" -> "opened"
      [] e.endpoint = "gitlab" /\ e.action = "open"   -> "opened"
      [] e.endpoint = "gitlab" /\ e.action = "reopen" -> "reopened"
      [] e.endpoint = "gitlab" /\ e.action = "update" -> "synchronize"
      [] OTHER -> e.action

Unverified(e) == e.endpoint # "simulate" /\ SecretSet /\ ~e.genuine

(* _parse_gitlab hands on nothing of a payload without object_kind. *)
Unnamed(e) == e.endpoint = "gitlab" /\ e.kind = "missing"

(* Mutant: the action is compared only when the event header is there. *)
IgnoredMutant(e) ==
    /\ e.endpoint # "simulate"
    /\ \/ e.kind = "other"
       \/ e.kind = "pull_request" /\ Parsed(e) # "missing" /\ Parsed(e) \notin Trigger[e.endpoint]

Ignored(e) ==
    /\ e.endpoint # "simulate"
    /\ \/ e.kind = "other"
       \/ ~Unnamed(e) /\ Parsed(e) # "missing" /\ Parsed(e) \notin Trigger[e.endpoint]

(* A manual request without a number is for pull request 1; one whose       *)
(* number is none raises, while a parser makes None of it.                  *)
Raises(e)    == e.endpoint = "simulate" /\ e.number = "other"
Malformed(e) == ~e.repo \/ (e.endpoint # "simulate" /\ (e.number # "integer" \/ Unnamed(e)))

(* In the order of the handlers' returns. *)
Verdict(e) == IF Unverified(e) THEN "unauthorized"
              ELSE IF ~e.json THEN "bad_request"
              ELSE IF Ignored(e) THEN "ignored"
              ELSE IF Raises(e) THEN "server_error"
              ELSE IF Malformed(e) THEN "bad_request" ELSE "accepted"

-----------------------------------------------------------------------------
TypeOK ==
    /\ event \in [Deliveries -> Event \cup {NoEvent}]
    /\ comment \in [Deliveries -> {"none", "scheduled", "posted", "failed"}]
    /\ Post!PostTypeOK

Init ==
    /\ event = [d \in Deliveries |-> NoEvent]
    /\ comment = [d \in Deliveries |-> "none"]
    /\ Post!PostInit

(* Up to its first await the handler runs in one go. *)
Receive(d, e) ==
    /\ event[d] = NoEvent
    /\ event' = [event EXCEPT ![d] = e]
    /\ IF Verdict(e) = "accepted"
       THEN /\ comment' = [comment EXCEPT ![d] = IF e.endpoint = "simulate" THEN "none" ELSE "scheduled"]
            /\ Post!Begin(d)
       ELSE UNCHANGED <<comment, postVars>>

(* The comment task never raises and nobody waits for it. *)
Comment(d) ==
    /\ comment[d] = "scheduled"
    /\ \/ comment' = [comment EXCEPT ![d] = "failed"]
       \/ TokenSet /\ comment' = [comment EXCEPT ![d] = "posted"]
    /\ UNCHANGED <<event, postVars>>

(* What the sender is answered: a platform is told of a start that failed  *)
(* in the body of an HTTP 200.                                             *)
Answer(d) ==
    CASE event[d] = NoEvent -> "none"
      [] event[d] # NoEvent /\ Verdict(event[d]) # "accepted" -> Verdict(event[d])
      [] reply[d] = "ok"    -> "workflow_started"
      [] reply[d] = "error" -> IF event[d].endpoint = "simulate" THEN "bad_gateway" ELSE "error"
      [] OTHER -> "none"

(* A restart of the service drops the handlers and the comment tasks. *)
Restart ==
    /\ Post!Crash
    /\ comment' = [d \in Deliveries |-> IF comment[d] = "scheduled" THEN "failed" ELSE comment[d]]
    /\ UNCHANGED event

(* The start service does what it was asked to, or not. *)
Starts == Post!ReceiverStep /\ UNCHANGED ingestVars

ServiceStep(d) == Comment(d) \/ (Post!CallerStep(d) /\ UNCHANGED ingestVars)

(* A restart cut the delivery off. *)
Lost(d) == pc[d] = "done" /\ reply[d] = "none"

Ended ==
    /\ \A d \in Deliveries : Answer(d) # "none" \/ Lost(d)
    /\ \A d \in Deliveries : comment[d] # "scheduled"
    /\ inFlight = {} /\ UNCHANGED vars

Next ==
    \/ \E d \in Deliveries, e \in Events : Receive(d, e)
    \/ \E d \in Deliveries : ServiceStep(d)
    \/ Starts
    \/ Restart
    \/ Ended

Spec == Init /\ [][Next]_vars
(* Timeouts, sleeps and tasks end; no sender and no start service has to act. *)
FairSpec == Spec /\ \A d \in Deliveries : WF_vars(Comment(d)) /\ WF_vars(Post!CallerStep(d) /\ UNCHANGED ingestVars)

-----------------------------------------------------------------------------
Workflows(d) == {r.attempt : r \in {q \in carriedOut : q.caller = d}}

(* No review is started, or under way to be, for a pull request that was    *)
(* closed, for an event of another kind, or without the platform's          *)
(* signature where a secret is set: retries and late requests included.     *)
NoUninvitedReview ==
    \A r \in inFlight \cup carriedOut :
        LET e == event[r.caller]
        IN  e.endpoint # "simulate" =>
               /\ e.action # "closed" /\ e.kind # "other"
               /\ SecretSet => e.genuine

(* A sender told of a started workflow has one; one that was turned away    *)
(* has neither a workflow nor a comment, now or later.                      *)
AnswersAreTrue ==
    \A d \in Deliveries :
        /\ Answer(d) = "workflow_started" => Workflows(d) # {}
        /\ Answer(d) \in {"unauthorized", "ignored", "bad_request", "server_error"} =>
               Workflows(d) = {} /\ comment[d] = "none"

(* Verified, filtered and cut off by restarts as it is here, the POST of a  *)
(* delivery still implements Delivery: it starts Retries workflows at most, *)
(* "ok" is true and an answer is final.                                     *)
ImplementsDelivery == Post!ImplementsDelivery

(* Once the sender has its answer no further start request is sent: what    *)
(* may still start a workflow is what was already under way.                *)
QuietAfterAnswer == Post!QuietAfterAnswer

(* Each delivery is answered, unless a restart cuts it off, and its comment *)
(* task ends, whatever the start service does.                              *)
EveryDeliverySettles ==
    \A d \in Deliveries : (event[d] # NoEvent) ~>
        ((Answer(d) # "none" \/ Lost(d)) /\ comment[d] # "scheduled")

-----------------------------------------------------------------------------
(* What a document of the repository says, and the code does not do. *)

(* GITEA_WEBHOOK_BEHAVIOR.md:230: open, reopen and update of a GitLab merge *)
(* request trigger a review.                                                *)
GitLabTriggers ==
    \A d \in Deliveries : event[d] # NoEvent =>
        (event[d].endpoint = "gitlab" /\ event[d].action \in {"open", "reopen", "update"}
            => Answer(d) # "ignored")
=============================================================================
