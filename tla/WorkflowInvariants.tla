------------------------- MODULE WorkflowInvariants -------------------------
(***************************************************************************)
(* The inductive invariant behind the safety properties of                 *)
(* WorkflowLifecycle.  The properties speak of the database row and of the *)
(* pull request; what keeps them true is where the handlers and threads    *)
(* stand, and what they carry, when they get there.                        *)
(***************************************************************************)
EXTENDS WorkflowLifecycle

Approvers == {"approve", "release_approve"}
Deciders  == Approvers \cup {"reject", "release_reject"}

(* The governance endpoints past their first commit. *)
GovernedPcs == {"status", "registry", "spawn"}

(* The merge threads that merge_pr answered with success and that have not *)
(* dispatched the deploy pipeline.                                         *)
WinnerPcs == {"m_success", "m_merged", "m_dispatch"}

OwnApproval(c) == \E g \in governance :
                     g.call = c /\ g.by # "judge" /\ g.decision \in Approving

Decided == \E g \in governance :
              g.decision \in {"APPROVE", "REJECT", "RELEASE_MANAGER_APPROVE",
                              "RELEASE_MANAGER_REJECT"}

(* Which endpoint a call came from, and what its thread carries, is known   *)
(* from where the handler and the thread stand.                             *)
InPlace(c) ==
    /\ hpc[c] # "done" => tpc[c] = None
    /\ hpc[c] = "govern" => op[c] \in DOMAIN Recorded
    /\ hpc[c] \in GovernedPcs => op[c] \in Ops
    /\ tpc[c] \in ResumerPcs => op[c] \in {"approve", "reject"}
    /\ tpc[c] \in ResumerPcs \ {"r_load"} => UsesLangGraph
    /\ tpc[c] \in {"r_govern", "r_status", "r_registry"} => run[c].human \in {"APPROVE", "REJECT"}
    /\ tpc[c] = "x_graph" => run[c].at = "pipeline" \/ run[c].judge \in JudgeDecisions
    /\ tpc[c] = "x_govern" => run[c].judge \in JudgeDecisions

PlacesInv == \A c \in Calls : InPlace(c)

(* An APPROVE in hand: of a handler, of a thread, of the graph state it    *)
(* works on.  The one SimpleGraph gives itself leads nowhere: it is neither *)
(* saved nor read.                                                         *)
CarriesApproval(c) ==
    \/ hpc[c] \in GovernedPcs /\ op[c] \in Approvers
    \/ tpc[c] \in ResumerPcs /\ op[c] = "approve"
    \/ tpc[c] \in MergerPcs
    \/ run[c].human = "APPROVE" /\ UsesLangGraph

NothingApproved ==
    /\ \A c \in Calls : ~CarriesApproval(c)
    /\ checkpoint.human # "APPROVE"
    /\ ~prMerged /\ mergeCallers = {}

(* Until a person's approval is in the database, nobody has one in hand. *)
HumanInv == HumanApproved \/ NothingApproved

(* A thread gets to the merge with a row of its own. *)
NeedsOwnRow(c) ==
    \/ hpc[c] \in GovernedPcs /\ op[c] = "release_approve"
    \/ tpc[c] \in {"r_status", "r_registry"} /\ run[c].human = "APPROVE"
    \/ tpc[c] \in MergerPcs
    \/ c \in mergeCallers

AuditInv == \A c \in Calls : NeedsOwnRow(c) => OwnApproval(c)

(* Only one thread at a time has the provider's success in hand, and while *)
(* it has, nothing is dispatched.                                          *)
DeployInv ==
    /\ deploys \in {0, 1}
    /\ deploys = 1 => prMerged
    /\ \A c \in Calls : tpc[c] \in WinnerPcs => prMerged /\ deploys = 0
    /\ \A c, d \in Calls : tpc[c] \in WinnerPcs /\ tpc[d] \in WinnerPcs => c = d
    /\ \A c \in Calls : tpc[c] = "m_triggered" => deploys = 1
    /\ mergeStatus = "success" => prMerged
    /\ deployStatus = "triggered" => deploys = 1

(* Whoever is about to write COMPLETED has recorded a decision. *)
WillComplete(c) ==
    \/ hpc[c] \in GovernedPcs /\ op[c] \in Deciders
    \/ tpc[c] = "x_status" /\ run[c].judge \in {"APPROVE", "REJECT"}
    \/ tpc[c] = "r_status"

DecidedInv ==
    status = "COMPLETED" \/ (\E c \in Calls : WillComplete(c)) => Decided

(* A call that was not made yet asks for nothing. *)
UnaskedInv == \A c \in Calls : hpc[c] = "idle" => op[c] = None

(* Every conjunct is preserved by every step, given the others: the proofs *)
(* take it as the hypothesis and as the goal.                              *)
IInv == /\ TypeOK /\ PlacesInv /\ UnaskedInv
        /\ HumanInv /\ AuditInv /\ DeployInv /\ DecidedInv

-----------------------------------------------------------------------------
(* What keeps row and registry together when clients make one call at a     *)
(* time (SequentialSpec): nothing runs beside the call in progress, and     *)
(* where that call stands tells which of the two it has still to write.     *)

Busy(c) == hpc[c] \notin {"idle", "done"} \/ tpc[c] \notin {None, "done"}

Agree == registry \in {None, status}

Consistent(c) ==
    /\ hpc[c] \in {"govern", "status"} => Agree
    /\ hpc[c] = "registry" => status = StatusSetBy(op[c])
    /\ hpc[c] = "spawn" /\ op[c] # "resume" => Agree
    /\ tpc[c] \in {"t_start", "r_load", "r_answer", "r_graph", "r_govern", "r_status"}
            \cup MergerPcs => Agree
    /\ tpc[c] = "r_registry" => status = "COMPLETED"
    /\ tpc[c] = "x_registry" => status = Outcome(run[c])
    /\ tpc[c] \in {"a_govern", "f_registry"} => status = "FAILED"

SequentialInv ==
    /\ \A c, d \in Calls : Busy(c) /\ Busy(d) => c = d
    /\ faults = 0 => /\ \A c \in Calls : Consistent(c)
                     /\ (\A c \in Calls : ~Busy(c)) => Agree
=============================================================================
