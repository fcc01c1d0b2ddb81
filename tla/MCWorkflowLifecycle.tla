------------------------ MODULE MCWorkflowLifecycle ------------------------
(* Instances of WorkflowLifecycle for TLC. *)
EXTENDS WorkflowInvariants, TLC

(* Calls differ in nothing but their identity. *)
CallSymmetry == Permutations(Calls)

AllEndpoints == Ops
StartAndRetest == {"start", "retest"}
=============================================================================
