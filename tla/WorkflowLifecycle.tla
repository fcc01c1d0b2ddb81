------------------------- MODULE WorkflowLifecycle -------------------------
(***************************************************************************)
(* The life of one workflow run of the langgraph service: its row in       *)
(* PostgreSQL, the in-memory registry, the LangGraph checkpoint, and the   *)
(* pull request on the git provider, as they are changed by the HTTP       *)
(* endpoints of api/workflow_routes.py and by the daemon threads those     *)
(* endpoints start (execute_workflow, resume_workflow_with_decision,       *)
(* _retest_background, _run_merge_and_deploy).                             *)
(*                                                                         *)
(* A call is one HTTP request together with the thread it starts.  The     *)
(* async handlers never suspend between their steps, so at most one is in  *)
(* progress; the threads interleave with it and with each other at every   *)
(* commit, registry update and provider call.                              *)
(***************************************************************************)
EXTENDS Naturals

CONSTANTS
    Calls,          \* the HTTP calls made to the service; bounds the behaviour
    Endpoints,      \* the endpoints these calls may use
    AutoMerge,      \* AUTO_MERGE_ON_APPROVE
    DeployOnMerge,  \* DEPLOY_ON_MERGE
    Engines,        \* the graphs build_graph may have returned
    MaxRestarts,    \* bound on restarts of the service
    MaxFaults       \* bound on exceptions raised inside background threads

None == "none"
Ops == {"start", "approve", "reject", "retest", "release_approve",
        "release_reject", "resume"}

ASSUME ConstantsAssumption ==
    /\ Endpoints \subseteq Ops
    /\ AutoMerge \in BOOLEAN
    /\ DeployOnMerge \in BOOLEAN
    /\ Engines \subseteq {"langgraph", "simple"}
    /\ MaxRestarts \in Nat
    /\ MaxFaults \in Nat

VARIABLES
    (* PostgreSQL: the columns of the workflow_runs row, governance_actions *)
    status, mergeStatus, deployStatus, governance,
    (* memory of the service process: registry entry, MemorySaver thread, *)
    (* and which graph it has: LangGraphWrapper or SimpleGraph            *)
    registry, checkpoint, engine,
    (* each call: endpoint, next step of its handler and of its thread, and *)
    (* the graph state that thread is working on                            *)
    op, hpc, tpc, run,
    (* the pull request on the git provider *)
    prMerged, mergeCallers, deploys,
    (* bounds *)
    restarts, faults

row     == <<status, mergeStatus, deployStatus>>
forge   == <<prMerged, mergeCallers, deploys>>
setting == <<engine, restarts, faults>>
threads == <<tpc, run>>
vars    == <<row, governance, registry, checkpoint, op, hpc, tpc, run, forge, setting>>

UsesLangGraph == engine = "langgraph"

-----------------------------------------------------------------------------
Statuses       == {"RUNNING", "WAITING_HUMAN_APPROVAL", "COMPLETED", "FAILED"}
JudgeDecisions == {"APPROVE", "REJECT", "REVIEW_REQUIRED"}
MergeStates    == {"pending", "success", "failed", "skipped"}
DeployStates   == {"pending", "triggered", "failed", "skipped"}

(* The decision a governance endpoint records for a human. *)
Recorded == [o \in {"approve", "reject", "retest", "release_approve", "release_reject"} |->
                CASE o = "approve"         -> "APPROVE"
                  [] o = "reject"          -> "REJECT"
                  [] o = "retest"          -> "RETEST_REQUESTED"
                  [] o = "release_approve" -> "RELEASE_MANAGER_APPROVE"
                  [] o = "release_reject"  -> "RELEASE_MANAGER_REJECT"]

Decisions == JudgeDecisions \cup {"RETEST_REQUESTED", "RELEASE_MANAGER_APPROVE",
                                  "RELEASE_MANAGER_REJECT"}
(* A governance_actions row; its primary key is the call that wrote it and *)
(* the code that did: the endpoint (human), execute_workflow (judge) or    *)
(* resume_workflow_with_decision (graph).                                  *)
GovernanceRow == [call : Calls, by : {"human", "judge", "graph"}, decision : Decisions]

(* Graph state: the node to run next, the judge's decision and the human's. *)
(* "absent" is a human_decision the state has no key for.                   *)
Nodes == {None, "pipeline", "gate", "cleanup", "end"}
HumanDecisions == {None, "absent", "APPROVE", "REJECT"}
Run == [at : Nodes, judge : {None} \cup JudgeDecisions, human : HumanDecisions]
NoRun == [at |-> None, judge |-> None, human |-> None]

(* Of a saved state, a later resume reads the next node and human_decision. *)
Checkpoint == [at : Nodes, human : HumanDecisions]
Saved(r) == [at |-> r.at, human |-> r.human]

HandlerPcs == {"idle", "govern", "status", "registry", "spawn", "done"}
ExecutorPcs == {"x_start", "x_invoke", "x_graph", "x_govern", "x_status", "x_registry",
                "a_status", "a_govern", "f_status", "f_registry"}
ResumerPcs  == {"r_load", "r_answer", "r_graph", "r_govern", "r_status", "r_registry"}
MergerPcs   == {"m_start", "m_call", "m_failed", "m_success", "m_merged", "m_unmerged",
                "m_dispatch", "m_triggered", "m_dfailed"}
ThreadPcs == {None, "t_start", "done"} \cup ExecutorPcs \cup ResumerPcs \cup MergerPcs

TypeOK ==
    /\ status \in {None} \cup Statuses
    /\ mergeStatus \in {None} \cup MergeStates
    /\ deployStatus \in {None} \cup DeployStates
    /\ governance \subseteq GovernanceRow
    /\ registry \in {None} \cup Statuses
    /\ checkpoint \in Checkpoint
    /\ engine \in Engines
    /\ op \in [Calls -> {None} \cup Ops]
    /\ hpc \in [Calls -> HandlerPcs]
    /\ tpc \in [Calls -> ThreadPcs]
    /\ run \in [Calls -> Run]
    /\ prMerged \in BOOLEAN
    /\ mergeCallers \subseteq Calls
    /\ deploys \in Nat
    /\ restarts \in 0..MaxRestarts
    /\ faults \in 0..MaxFaults

Init ==
    /\ status = None /\ mergeStatus = None /\ deployStatus = None
    /\ governance = {}
    /\ registry = None
    /\ checkpoint = Saved(NoRun)
    /\ engine \in Engines
    /\ op = [c \in Calls |-> None]
    /\ hpc = [c \in Calls |-> "idle"]
    /\ tpc = [c \in Calls |-> None]
    /\ run = [c \in Calls |-> NoRun]
    /\ prMerged = FALSE /\ mergeCallers = {} /\ deploys = 0
    /\ restarts = 0 /\ faults = 0

-----------------------------------------------------------------------------
(* HTTP handlers.  Recording of a decision, status update, registry update  *)
(* and thread start are separate steps; there is no check of the status.    *)

EventLoopFree == \A d \in Calls : hpc[d] \in {"idle", "done"}

(* The client may address the workflow as soon as its row is committed. *)
Receive(c, o) ==
    /\ hpc[c] = "idle" /\ EventLoopFree
    /\ (o = "start") <=> (status = None)
    /\ op' = [op EXCEPT ![c] = o]
    /\ hpc' = [hpc EXCEPT ![c] = IF o \in {"start", "resume"} THEN "status" ELSE "govern"]
    /\ UNCHANGED <<row, governance, registry, checkpoint, threads, forge, setting>>

HandlerGovern(c) ==
    /\ hpc[c] = "govern"
    /\ governance' = governance \cup
            {[call |-> c, by |-> "human", decision |-> Recorded[op[c]]]}
    /\ hpc' = [hpc EXCEPT ![c] = "status"]
    /\ UNCHANGED <<row, registry, checkpoint, op, threads, forge, setting>>

StatusSetBy(o) == IF o \in {"start", "resume", "retest"} THEN "RUNNING" ELSE "COMPLETED"

(* create_workflow_run for start, update_workflow_status for the others. *)
HandlerStatus(c) ==
    /\ hpc[c] = "status"
    /\ status' = StatusSetBy(op[c])
    /\ hpc' = [hpc EXCEPT ![c] = IF op[c] = "resume" THEN "spawn" ELSE "registry"]
    /\ UNCHANGED <<mergeStatus, deployStatus, governance, registry, checkpoint, op,
                   threads, forge, setting>>

HandlerRegistry(c) ==
    /\ hpc[c] = "registry"
    /\ registry' = StatusSetBy(op[c])
    /\ hpc' = [hpc EXCEPT ![c] = "spawn"]
    /\ UNCHANGED <<row, governance, checkpoint, op, threads, forge, setting>>

(* Mutant: the decision of a release override is not looked at. *)
FirstThreadPcMutant(o) ==
    CASE o \in {"start", "resume"}   -> "x_start"
      [] o \in {"approve", "reject"} -> "r_load"
      [] o = "retest"                -> "t_start"
      [] OTHER                       -> "m_start"

FirstThreadPc(o) ==
    CASE o \in {"start", "resume"}   -> "x_start"
      [] o \in {"approve", "reject"} -> "r_load"
      [] o = "retest"                -> "t_start"
      [] o = "release_approve"       -> "m_start"
      [] OTHER                       -> "done"

(* A release override of REJECT only posts a comment: it starts no thread. *)
HandlerSpawn(c) ==
    /\ hpc[c] = "spawn"
    /\ tpc' = [tpc EXCEPT ![c] = FirstThreadPc(op[c])]
    /\ hpc' = [hpc EXCEPT ![c] = "done"]
    /\ UNCHANGED <<row, governance, registry, checkpoint, op, run, forge, setting>>

(* A database error leaves the handler with HTTP 500 where it stands.  The  *)
(* release override also reads the row and the findings before it starts    *)
(* its thread; reject reads the row after it has started its own.           *)
HandlerFault(c) ==
    /\ faults < MaxFaults
    /\ \/ hpc[c] \in {"govern", "status"} /\ UNCHANGED tpc
       \/ hpc[c] = "spawn" /\ op[c] \in {"release_approve", "release_reject"} /\ UNCHANGED tpc
       \/ hpc[c] = "spawn" /\ op[c] = "reject" /\ tpc' = [tpc EXCEPT ![c] = FirstThreadPc(op[c])]
    /\ faults' = faults + 1
    /\ hpc' = [hpc EXCEPT ![c] = "done"]
    /\ UNCHANGED <<row, governance, registry, checkpoint, op, run, forge, restarts, engine>>

HandlerStep(c) ==
    HandlerGovern(c) \/ HandlerStatus(c) \/ HandlerRegistry(c) \/ HandlerSpawn(c)

-----------------------------------------------------------------------------
(* Steps of the graph, run by an executor (x_graph) or a resumer (r_graph). *)
(* MemorySaver keeps, for the workflow's thread_id, the state saved last.   *)

Goto(c, pc)  == tpc' = [tpc EXCEPT ![c] = pc]
(* The graph state goes with the function that holds it. *)
Leave(c, pc) == Goto(c, pc) /\ run' = [run EXCEPT ![c] = NoRun]

GraphMovesTo(c, r) ==
    /\ run' = [run EXCEPT ![c] = r]
    /\ checkpoint' = IF UsesLangGraph THEN Saved(r) ELSE checkpoint
    /\ UNCHANGED <<row, governance, registry, op, hpc, forge, setting>>

InGraph(c) == tpc[c] \in {"x_graph", "r_graph"}

(* The judge's decision leads to cleanup or to human_approval_node, which    *)
(* waits under LangGraph and, without an interrupt to wait in (SimpleGraph), *)
(* approves by itself.                                                       *)
Judged(r, d) ==
    CASE d # "REVIEW_REQUIRED" -> [r EXCEPT !.judge = d, !.at = "cleanup"]
      [] d = "REVIEW_REQUIRED" /\ UsesLangGraph -> [r EXCEPT !.judge = d, !.at = "gate"]
      [] OTHER -> [r EXCEPT !.judge = d, !.at = "cleanup", !.human = "APPROVE"]

(* The nodes up to the judge. *)
GraphJudge(c) ==
    /\ InGraph(c) /\ run[c].at = "pipeline"
    /\ \E d \in JudgeDecisions : GraphMovesTo(c, Judged(run[c], d))
    /\ UNCHANGED tpc

GraphCleanup(c) ==
    /\ InGraph(c) /\ run[c].at = "cleanup"
    /\ GraphMovesTo(c, [run[c] EXCEPT !.at = "end"])
    /\ UNCHANGED tpc

(* invoke() returns at the end and when human_approval_node interrupts. *)
Returned(c) == run[c].at \in {"gate", "end"}

-----------------------------------------------------------------------------
(* execute_workflow *)

ExecStart(c) ==
    /\ tpc[c] = "x_start"
    /\ registry' = "RUNNING"
    /\ Goto(c, "x_invoke")
    /\ UNCHANGED <<row, governance, checkpoint, op, hpc, run, forge, setting>>

(* A new input restarts the thread_id from START, whatever it was doing. *)
ExecInvoke(c) ==
    /\ tpc[c] = "x_invoke"
    /\ GraphMovesTo(c, [NoRun EXCEPT !.at = "pipeline"])
    /\ Goto(c, "x_graph")

(* repo_validator failed.  Only SimpleGraph returns validator_failed: it is *)
(* no key of TuskerState, so the LangGraph state never carries it.          *)
ExecValidatorFailed(c) ==
    /\ tpc[c] = "x_graph" /\ run[c].at = "pipeline" /\ ~UsesLangGraph
    /\ Leave(c, "a_status")
    /\ UNCHANGED <<row, governance, registry, checkpoint, op, hpc, forge, setting>>

ExecPersist(c) ==
    /\ tpc[c] = "x_graph" /\ Returned(c)
    /\ registry' = "RUNNING"
    /\ Goto(c, "x_govern")
    /\ UNCHANGED <<row, governance, checkpoint, op, hpc, run, forge, setting>>

(* The judge's decision, or REJECT when the repository was not accessible. *)
ExecGovern(c) ==
    /\ tpc[c] \in {"x_govern", "a_govern"}
    /\ LET d == IF tpc[c] = "x_govern" THEN run[c].judge ELSE "REJECT"
       IN  governance' = governance \cup {[call |-> c, by |-> "judge", decision |-> d]}
    /\ Goto(c, IF tpc[c] = "x_govern" THEN "x_status" ELSE "f_registry")
    /\ UNCHANGED <<row, registry, checkpoint, op, hpc, run, forge, setting>>

Outcome(r) == IF r.judge \in {"APPROVE", "REJECT"} THEN "COMPLETED"
                                                   ELSE "WAITING_HUMAN_APPROVAL"

(* Mutant: a workflow sent to review is not marked as waiting. *)
ExecStatusMutant(c) ==
    /\ tpc[c] = "x_status"
    /\ status' = IF run[c].judge = "REVIEW_REQUIRED" THEN status ELSE Outcome(run[c])
    /\ Goto(c, "x_registry")
    /\ UNCHANGED <<mergeStatus, deployStatus, governance, registry, checkpoint, op, hpc,
                   run, forge, setting>>

ExecStatus(c) ==
    /\ tpc[c] = "x_status"
    /\ status' = Outcome(run[c])
    /\ Goto(c, "x_registry")
    /\ UNCHANGED <<mergeStatus, deployStatus, governance, registry, checkpoint, op, hpc,
                   run, forge, setting>>

(* Mutant: a judge APPROVE starts the merge thread. *)
ExecRegistryMutant(c) ==
    /\ tpc[c] = "x_registry"
    /\ registry' = Outcome(run[c])
    /\ Leave(c, IF run[c].judge = "APPROVE" /\ AutoMerge THEN "m_start" ELSE "done")
    /\ UNCHANGED <<row, governance, checkpoint, op, hpc, forge, setting>>

ExecRegistry(c) ==
    /\ tpc[c] = "x_registry"
    /\ registry' = Outcome(run[c])
    /\ Leave(c, "done")
    /\ UNCHANGED <<row, governance, checkpoint, op, hpc, forge, setting>>

ExecFailStatus(c) ==
    /\ tpc[c] \in {"a_status", "f_status"}
    /\ status' = "FAILED"
    /\ Goto(c, IF tpc[c] = "a_status" THEN "a_govern" ELSE "f_registry")
    /\ UNCHANGED <<mergeStatus, deployStatus, governance, registry, checkpoint, op, hpc,
                   run, forge, setting>>

(* Mutant: a run that ends early leaves the registry as it was. *)
ExecFailRegistryMutant(c) ==
    /\ tpc[c] = "f_registry"
    /\ Goto(c, "done")
    /\ UNCHANGED <<row, governance, registry, checkpoint, op, hpc, run, forge, setting>>

ExecFailRegistry(c) ==
    /\ tpc[c] = "f_registry"
    /\ registry' = "FAILED"
    /\ Goto(c, "done")
    /\ UNCHANGED <<row, governance, checkpoint, op, hpc, run, forge, setting>>

(* Mutant: the session still works after the governance row was refused. *)
ExecFaultMutant(c) ==
    /\ faults < MaxFaults
    /\ \/ tpc[c] \in {"x_start", "x_invoke", "x_graph"} /\ Leave(c, "f_status")
       \/ tpc[c] = "x_govern" /\ Goto(c, "x_status") /\ UNCHANGED run
    /\ faults' = faults + 1
    /\ UNCHANGED <<row, governance, registry, checkpoint, op, hpc, forge, restarts, engine>>

(* The except clause: update_workflow_status(FAILED) is tried, but fails    *)
(* too and is ignored when the database does not answer or the exception    *)
(* has broken the session.                                                  *)
ExecFault(c) ==
    /\ faults < MaxFaults
    /\ \/ /\ tpc[c] \in {"x_start", "x_invoke", "x_graph"}
          /\ Leave(c, "f_status")
       \/ /\ tpc[c] \in {"x_start", "x_invoke", "x_graph", "x_govern", "x_status",
                         "a_status", "a_govern"}
          /\ Leave(c, "f_registry")
    /\ faults' = faults + 1
    /\ UNCHANGED <<row, governance, registry, checkpoint, op, hpc, forge, restarts, engine>>

-----------------------------------------------------------------------------
(* resume_workflow_with_decision, and the retest thread *)

(* graph.resume loads the checkpoint saved last.  When there is none, as    *)
(* after a restart, LangGraph raises or, reading the Command as an empty    *)
(* input, runs the graph from START: both are accepted by requirements.txt. *)
ResumeLoad(c) ==
    /\ tpc[c] = "r_load"
    /\ \/ /\ UsesLangGraph /\ checkpoint.at # None
          /\ run' = [run EXCEPT ![c] = [NoRun EXCEPT !.at = checkpoint.at, !.human = checkpoint.human]]
          /\ Goto(c, IF checkpoint.at = "gate" THEN "r_answer" ELSE "r_graph")
       \/ /\ UsesLangGraph /\ checkpoint.at = None
          /\ run' = [run EXCEPT ![c] = [at |-> "pipeline", judge |-> None, human |-> "absent"]]
          /\ Goto(c, "r_graph")
       \/ /\ ~UsesLangGraph \/ checkpoint.at = None
          /\ Goto(c, "done")
          /\ UNCHANGED run
    /\ UNCHANGED <<row, governance, registry, checkpoint, op, hpc, forge, setting>>

(* Mutant: the answer is logged and not returned. *)
ResumeAnswerMutant(c) ==
    /\ tpc[c] = "r_answer"
    /\ GraphMovesTo(c, [run[c] EXCEPT !.at = "cleanup"])
    /\ Goto(c, "r_graph")

(* human_approval_node returns the decision the Command carries. *)
ResumeAnswer(c) ==
    /\ tpc[c] = "r_answer"
    /\ GraphMovesTo(c, [run[c] EXCEPT !.at = "cleanup", !.human = Recorded[op[c]]])
    /\ Goto(c, "r_graph")

(* Mutant: no second governance row, the endpoint already wrote one. *)
ResumeResultMutant(c) ==
    /\ tpc[c] = "r_graph" /\ Returned(c)
    /\ IF run[c].human = None
       THEN Leave(c, "done")
       ELSE /\ Goto(c, "r_status")
            /\ run' = [run EXCEPT ![c].human = IF @ = "absent" THEN Recorded[op[c]] ELSE @]
    /\ UNCHANGED <<row, governance, registry, checkpoint, op, hpc, forge, setting>>

(* final = result.get("human_decision", decision).upper(): a stored None    *)
(* raises, which is logged and ends the thread.                             *)
ResumeResult(c) ==
    /\ tpc[c] = "r_graph" /\ Returned(c)
    /\ IF run[c].human = None
       THEN Leave(c, "done")
       ELSE /\ Goto(c, "r_govern")
            /\ run' = [run EXCEPT ![c].human = IF @ = "absent" THEN Recorded[op[c]] ELSE @]
    /\ UNCHANGED <<row, governance, registry, checkpoint, op, hpc, forge, setting>>

ResumeGovern(c) ==
    /\ tpc[c] = "r_govern"
    /\ governance' = governance \cup {[call |-> c, by |-> "graph", decision |-> run[c].human]}
    /\ Goto(c, "r_status")
    /\ UNCHANGED <<row, registry, checkpoint, op, hpc, run, forge, setting>>

ResumeStatus(c) ==
    /\ tpc[c] = "r_status"
    /\ status' = "COMPLETED"
    /\ Goto(c, "r_registry")
    /\ UNCHANGED <<mergeStatus, deployStatus, governance, registry, checkpoint, op, hpc,
                   run, forge, setting>>

(* Mutant: a merge that was begun once is not begun again. *)
ResumeRegistryMutant(c) ==
    /\ tpc[c] = "r_registry"
    /\ registry' = "COMPLETED"
    /\ Leave(c, IF run[c].human = "APPROVE" /\ AutoMerge /\ mergeStatus = None
                THEN "m_start" ELSE "done")
    /\ UNCHANGED <<row, governance, checkpoint, op, hpc, forge, setting>>

(* The last act of the thread is to start the merge thread, which carries  *)
(* on here in its place.                                                   *)
ResumeRegistry(c) ==
    /\ tpc[c] = "r_registry"
    /\ registry' = "COMPLETED"
    /\ Leave(c, IF run[c].human = "APPROVE" /\ AutoMerge THEN "m_start" ELSE "done")
    /\ UNCHANGED <<row, governance, checkpoint, op, hpc, forge, setting>>

(* LangGraphWrapper is not imported in workflow_routes: NameError. *)
RetestDies(c) ==
    /\ tpc[c] = "t_start"
    /\ Goto(c, "done")
    /\ UNCHANGED <<row, governance, registry, checkpoint, op, hpc, run, forge, setting>>

-----------------------------------------------------------------------------
(* _run_merge_and_deploy *)

SetMergeStatus(c, s, pc) ==
    /\ mergeStatus' = s
    /\ Goto(c, pc)
    /\ UNCHANGED <<status, deployStatus, governance, registry, checkpoint, op, hpc, run,
                   forge, setting>>

SetDeployStatus(c, s, pc) ==
    /\ deployStatus' = s
    /\ Goto(c, pc)
    /\ UNCHANGED <<status, mergeStatus, governance, registry, checkpoint, op, hpc, run,
                   forge, setting>>

MergeStart(c) ==
    /\ tpc[c] = "m_start"
    /\ IF AutoMerge THEN SetMergeStatus(c, "pending", "m_call")
                    ELSE SetMergeStatus(c, "skipped", "m_unmerged")

(* merge_pr: the provider merges an open pull request once and refuses the *)
(* call afterwards.  The answer may be lost: merged, yet not a success.    *)
MergeCall(c) ==
    /\ tpc[c] = "m_call"
    /\ mergeCallers' = mergeCallers \cup {c}
    /\ \/ ~prMerged /\ prMerged' = TRUE /\ Goto(c, "m_success")
       \/ prMerged' \in {prMerged, TRUE} /\ Goto(c, "m_failed")
    /\ UNCHANGED <<row, governance, registry, checkpoint, op, hpc, run, deploys, setting>>

(* Mutant: the answer of merge_pr is not looked at. *)
MergeRecordMutant(c) ==
    /\ tpc[c] \in {"m_success", "m_failed"}
    /\ SetMergeStatus(c, "success", "m_merged")

(* Mutant: a merge that failed is not recorded. *)
MergeUnrecordedMutant(c) ==
    \/ tpc[c] = "m_success" /\ SetMergeStatus(c, "success", "m_merged")
    \/ tpc[c] = "m_failed"  /\ SetMergeStatus(c, mergeStatus, "m_unmerged")

MergeRecord(c) ==
    \/ tpc[c] = "m_success" /\ SetMergeStatus(c, "success", "m_merged")
    \/ tpc[c] = "m_failed"  /\ SetMergeStatus(c, "failed", "m_unmerged")

(* Mutant: the deployment does not depend on the merge. *)
DeployStartMutant(c) ==
    /\ tpc[c] \in {"m_merged", "m_unmerged"}
    /\ IF DeployOnMerge THEN SetDeployStatus(c, "pending", "m_dispatch")
                        ELSE SetDeployStatus(c, "skipped", "done")

(* if merged and DEPLOY_ON_MERGE ... elif not DEPLOY_ON_MERGE ... *)
DeployStart(c) ==
    \/ /\ tpc[c] = "m_merged" /\ DeployOnMerge
       /\ SetDeployStatus(c, "pending", "m_dispatch")
    \/ /\ tpc[c] \in {"m_merged", "m_unmerged"} /\ ~DeployOnMerge
       /\ SetDeployStatus(c, "skipped", "done")
    \/ /\ tpc[c] = "m_unmerged" /\ DeployOnMerge
       /\ Goto(c, "done")
       /\ UNCHANGED <<row, governance, registry, checkpoint, op, hpc, run, forge, setting>>

(* trigger_pipeline: each accepted dispatch runs the pipeline once more. *)
DeployDispatch(c) ==
    /\ tpc[c] = "m_dispatch"
    /\ \/ deploys' = deploys + 1 /\ Goto(c, "m_triggered")
       \/ deploys' \in {deploys, deploys + 1} /\ Goto(c, "m_dfailed")
    /\ UNCHANGED <<row, governance, registry, checkpoint, op, hpc, run, prMerged,
                   mergeCallers, setting>>

DeployRecord(c) ==
    \/ tpc[c] = "m_triggered" /\ SetDeployStatus(c, "triggered", "done")
    \/ tpc[c] = "m_dfailed"   /\ SetDeployStatus(c, "failed", "done")

(* An exception in a resumer or a merge thread is logged and ends it. *)
ThreadFault(c) ==
    /\ tpc[c] \in ResumerPcs \cup MergerPcs /\ faults < MaxFaults
    /\ faults' = faults + 1
    /\ Leave(c, "done")
    /\ UNCHANGED <<row, governance, registry, checkpoint, op, hpc, forge, restarts, engine>>

-----------------------------------------------------------------------------
GraphStep(c)    == GraphJudge(c) \/ GraphCleanup(c)
ExecutorStep(c) == \/ ExecStart(c) \/ ExecInvoke(c) \/ ExecValidatorFailed(c)
                   \/ ExecPersist(c) \/ ExecGovern(c) \/ ExecStatus(c) \/ ExecRegistry(c)
                   \/ ExecFailStatus(c) \/ ExecFailRegistry(c)
ResumerStep(c)  == \/ ResumeLoad(c) \/ ResumeAnswer(c) \/ ResumeResult(c) \/ ResumeGovern(c)
                   \/ ResumeStatus(c) \/ ResumeRegistry(c) \/ RetestDies(c)
MergerStep(c)   == \/ MergeStart(c) \/ MergeCall(c) \/ MergeRecord(c)
                   \/ DeployStart(c) \/ DeployDispatch(c) \/ DeployRecord(c)
ThreadStep(c)   == GraphStep(c) \/ ExecutorStep(c) \/ ResumerStep(c) \/ MergerStep(c)

(* The service restarts: daemon threads, the request in progress, the       *)
(* registry and the MemorySaver are gone; the database is not.              *)
Restart ==
    /\ restarts < MaxRestarts
    /\ restarts' = restarts + 1
    /\ hpc' = [c \in Calls |-> IF hpc[c] = "idle" THEN "idle" ELSE "done"]
    /\ tpc' = [c \in Calls |-> IF tpc[c] = None THEN None ELSE "done"]
    /\ run' = [c \in Calls |-> NoRun]
    /\ registry' = None
    /\ checkpoint' = Saved(NoRun)
    /\ UNCHANGED <<row, governance, op, forge, faults, engine>>

Quiescent == /\ \A c \in Calls : hpc[c] \in {"idle", "done"}
             /\ \A c \in Calls : tpc[c] \in {None, "done"}

(* No call is left to be made and nothing is running. *)
Finished == Quiescent /\ (\A c \in Calls : hpc[c] = "done") /\ UNCHANGED vars

Next ==
    \/ \E c \in Calls, o \in Endpoints : Receive(c, o)
    \/ \E c \in Calls : HandlerStep(c) \/ HandlerFault(c)
    \/ \E c \in Calls : ThreadStep(c) \/ ExecFault(c) \/ ThreadFault(c)
    \/ Restart
    \/ Finished

(* The event loop and the thread scheduler run what can run: every external *)
(* call in a handler or thread has a timeout, so each step ends.  A handler *)
(* starts its thread last, so one condition per call covers both.  Clients, *)
(* faults and restarts are not fair.                                        *)
Fairness == \A c \in Calls : WF_vars(HandlerStep(c) \/ ThreadStep(c))

Spec == Init /\ [][Next]_vars
FairSpec == Spec /\ Fairness

(* Clients that wait until all is quiet before they make the next call. *)
OneAtATime == op' # op => Quiescent
SequentialSpec == Init /\ [][Next /\ OneAtATime]_vars

-----------------------------------------------------------------------------
(* What the service promises about a merge: ReleaseContract. *)

Approving == {"APPROVE", "RELEASE_MANAGER_APPROVE"}

HumanApproved == \E g \in governance : g.by = "human" /\ g.decision \in Approving

Contract == INSTANCE ReleaseContract
                WITH approved <- HumanApproved, merged <- prMerged, deploys <- deploys

(* The service implements the contract: no merge before a human approval is *)
(* in the database, no deployment before the merge, and none twice.         *)
ImplementsContract == Contract!Spec

(* The pull request is merged, or was tried to be, only when an approval by *)
(* a person is in governance_actions: neither the judge, nor a decision     *)
(* found in an old checkpoint, nor a run begun anew after a restart merges. *)
MergeNeedsHuman == (prMerged \/ mergeCallers # {}) => HumanApproved

(* Every thread that called merge_pr left its own approving row: a call     *)
(* never merges on the row of another one, so the rows account for each     *)
(* attempt, the repeated ones included.                                     *)
EveryMergeAudited ==
    \A c \in mergeCallers : \E g \in governance :
        g.call = c /\ g.by # "judge" /\ g.decision \in Approving

(* However many approvals race, the deploy pipeline is dispatched at most   *)
(* once, and only for a merged pull request: the provider's single          *)
(* successful answer is what lets one merge thread reach the dispatch.      *)
DeployedOnce == deploys <= 1 /\ (deploys = 1 => prMerged)

(* merge_status and deploy_status never claim what did not happen, whatever *)
(* thread wrote them last.                                                  *)
RecordsAreTrue ==
    /\ mergeStatus = "success" => prMerged
    /\ deployStatus = "triggered" => deploys = 1

(* A workflow is COMPLETED only when a decision that completes one (the     *)
(* judge's, a person's or a release manager's) is in governance_actions,    *)
(* also when a fault or a restart falls between the two commits.            *)
CompletedIsDecided ==
    status = "COMPLETED" => \E g \in governance :
        g.decision \in {"APPROVE", "REJECT", "RELEASE_MANAGER_APPROVE", "RELEASE_MANAGER_REJECT"}

(* The safety half of the two liveness properties, and of what the merge    *)
(* thread owes its columns: until an exception or a restart strikes,        *)
(* whatever shows that something is under way has somebody at work on it.   *)
Undisturbed == faults = 0 /\ restarts = 0

(* A row is RUNNING only while a handler or an executor that will write     *)
(* another status is at work, however many starts, re-runs and decisions    *)
(* write over each other's status; a retest, whose thread dies, excepted.   *)
Settling(c) ==
    \/ op[c] \in {"start", "resume"} /\ hpc[c] \in {"registry", "spawn"}
    \/ tpc[c] \in {"x_start", "x_invoke", "x_graph", "x_govern", "x_status",
                    "a_status", "f_status"}
RunningIsWorkedOn ==
    Undisturbed /\ status = "RUNNING" /\ (\A c \in Calls : op[c] # "retest")
        => \E c \in Calls : Settling(c)

(* A merge_status or deploy_status of pending has a thread that will        *)
(* replace it, although several threads write these columns in turn.        *)
PendingIsUnderWay ==
    Undisturbed =>
        /\ mergeStatus = "pending" =>
              \E c \in Calls : tpc[c] \in {"m_call", "m_success", "m_failed"}
        /\ deployStatus = "pending" =>
              \E c \in Calls : tpc[c] \in {"m_dispatch", "m_triggered", "m_dfailed"}

(* With automatic merge on, an approval on record that the graph confirmed, *)
(* or that a release manager gave, has called merge_pr or is on the way to  *)
(* it: neither the second commit, nor the thread that starts a thread, nor  *)
(* another decision in between loses it.                                    *)
MergesItself(g) ==
    \/ g.by = "graph" /\ g.decision = "APPROVE"
    \/ g.by = "human" /\ g.decision = "RELEASE_MANAGER_APPROVE"
ToTheMerge(c) ==
    \/ op[c] = "release_approve" /\ hpc[c] \in {"status", "registry", "spawn"}
    \/ run[c].human = "APPROVE" /\ tpc[c] \in {"r_status", "r_registry"}
    \/ tpc[c] \in {"m_start", "m_call"}
NoApprovalLost ==
    AutoMerge /\ Undisturbed =>
        \A g \in governance : MergesItself(g) => g.call \in mergeCallers \/ ToTheMerge(g.call)

(* Row and registry agree whenever nothing is running.  True of one client  *)
(* that makes one call after the other (SequentialSpec), whatever it calls  *)
(* and however often the service restarts in between; with two at a time    *)
(* the registry's copy may stay behind for good (update_workflow_status and *)
(* update_workflow are two steps of several threads).                       *)
RowAndRegistryAgree ==
    faults = 0 /\ Quiescent => registry \in {None, status}

(* A workflow does not stay RUNNING: the thread that a start or a re-run    *)
(* launched ends in one of the other states.  Not promised once an          *)
(* exception or a restart struck, or a retest was called.                   *)
RunningSettles ==
    status = "RUNNING" ~> \/ status # "RUNNING"
                          \/ ~Undisturbed
                          \/ \E c \in Calls : op[c] = "retest"

(* With automatic merge on, an approval that answers the interrupted graph  *)
(* gets to call merge_pr, through the resumed graph, the second governance  *)
(* row and the second thread.                                               *)
ApprovalReachesMerge ==
    \A c \in Calls : (AutoMerge /\ op[c] = "approve" /\ tpc[c] = "r_answer")
                        ~> c \in mergeCallers \/ ~Undisturbed

-----------------------------------------------------------------------------
(* What a comment of the repository says, and the code does not do. *)

(* graph_builder.py:1357: a RETEST goes back to the planner for a fresh run. *)
RetestRuns ==
    \A c \in Calls : (op[c] = "retest" /\ hpc[c] = "done") ~> run[c].at # None
=============================================================================
