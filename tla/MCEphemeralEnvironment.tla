----------------------- MODULE MCEphemeralEnvironment -----------------------
(* Instances of EphemeralEnvironment for TLC. *)
EXTENDS EphemeralEnvironment, TLC

(* Two reviews of one pull request, as after two pushes. *)
OnePullRequest == [w \in Workflows |-> 1]

Symmetry == Permutations(Runs) \cup Permutations(Workflows)
=============================================================================
