-------------------------- MODULE MCDecisionProxy --------------------------
(* Instances of DecisionProxy for TLC. *)
EXTENDS DecisionProxy

CONSTANT starter

(* One call starts the workflow; all others are the attempts of the clicks. *)
StartAndClicks == {starter} \cup Requests

StartAndReleases == {"start", "reject", "release_approve"}
=============================================================================
