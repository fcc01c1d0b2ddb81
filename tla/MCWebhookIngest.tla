-------------------------- MODULE MCWebhookIngest --------------------------
(* Instances of WebhookIngest for TLC. *)
EXTENDS WebhookIngest

(* A body that is no JSON names nothing. *)
AllEvents == {e \in Event : e.json \/ (e.action = "missing" /\ ~e.repo /\ e.number = "missing")}

Complete(endpoint, action) ==
    [endpoint |-> endpoint, genuine |-> TRUE, json |-> TRUE, kind |-> "pull_request",
     action |-> action, repo |-> TRUE, number |-> "integer"]

GitLabEvents == {Complete("gitlab", a) : a \in Actions}
=============================================================================
