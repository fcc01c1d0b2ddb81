---------------------- MODULE WorkflowLifecycleProofs ----------------------
(***************************************************************************)
(* Proofs about WorkflowLifecycle, for every set of calls and every value  *)
(* of the other constants.                                                 *)
(***************************************************************************)
EXTENDS WorkflowInvariants, TLAPS

USE DEF None, UsesLangGraph

(* What the decision table holds. *)
LEMMA RecordedFacts ==
    /\ DOMAIN Recorded = {"approve", "reject", "retest", "release_approve", "release_reject"}
    /\ Recorded["approve"] = "APPROVE"
    /\ Recorded["reject"] = "REJECT"
    /\ Recorded["retest"] = "RETEST_REQUESTED"
    /\ Recorded["release_approve"] = "RELEASE_MANAGER_APPROVE"
    /\ Recorded["release_reject"] = "RELEASE_MANAGER_REJECT"
BY DEF Recorded

(* Every endpoint that records, records a decision. *)
LEMMA RecordedDecides == \A o \in DOMAIN Recorded : Recorded[o] \in Decisions
BY RecordedFacts DEF Decisions, JudgeDecisions

(* The graph states a thread can be given. *)
LEMMA RunFacts ==
    /\ NoRun \in Run
    /\ \A r \in Run : Saved(r) \in Checkpoint
    /\ \A r \in Run, n \in Nodes : [r EXCEPT !.at = n] \in Run
BY DEF NoRun, Run, Saved, Checkpoint, Nodes, HumanDecisions, JudgeDecisions

LEMMA JudgedFacts ==
    ASSUME NEW r \in Run, NEW d \in JudgeDecisions
    PROVE  /\ Judged(r, d) \in Run /\ Judged(r, d).judge = d
           /\ UsesLangGraph => Judged(r, d).human = r.human
BY DEF Judged, Run, Nodes, HumanDecisions

-----------------------------------------------------------------------------
(* Type correctness.  PlacesInv comes with it: the decision a handler or a  *)
(* thread writes into governance_actions is looked up by its endpoint.      *)

Typed == TypeOK /\ PlacesInv

LEMMA InitTyped == ConstantsAssumption /\ Init => Typed
<1> SUFFICES ASSUME ConstantsAssumption, Init PROVE Typed
  OBVIOUS
<1>1. TypeOK
  <2>1. NoRun \in Run /\ Saved(NoRun) \in Checkpoint
    BY RunFacts
  <2>2. /\ op \in [Calls -> {None} \cup Ops]
        /\ hpc \in [Calls -> HandlerPcs]
        /\ tpc \in [Calls -> ThreadPcs]
        /\ run \in [Calls -> Run]
    BY <2>1 DEF Init, HandlerPcs, ThreadPcs
  <2>3. restarts \in 0..MaxRestarts /\ faults \in 0..MaxFaults
    BY DEF Init, ConstantsAssumption
  <2> QED BY <2>1, <2>2, <2>3 DEF Init, TypeOK
<1>2. PlacesInv
  BY DEF Init, PlacesInv, InPlace, GovernedPcs, ResumerPcs
<1> QED BY <1>1, <1>2 DEF Typed

(* A step of one call leaves the places of the others as they are. *)
LEMMA OthersInPlace ==
    ASSUME PlacesInv, NEW c \in Calls,
           \A d \in Calls \ {c} : /\ op'[d] = op[d] /\ hpc'[d] = hpc[d]
                                 /\ tpc'[d] = tpc[d] /\ run'[d] = run[d],
           engine' = engine, InPlace(c)'
    PROVE  PlacesInv'
<1> SUFFICES ASSUME NEW d \in Calls, d # c PROVE InPlace(d)'
  BY DEF PlacesInv
<1>1. InPlace(d) /\ op'[d] = op[d] /\ hpc'[d] = hpc[d] /\ tpc'[d] = tpc[d] /\ run'[d] = run[d]
  BY DEF PlacesInv
<1> QED BY <1>1 DEF InPlace

LEMMA ReceiveTyped ==
    ASSUME Typed, NEW c \in Calls, NEW o \in Endpoints, Receive(c, o)
    PROVE  Typed'
<1> USE DEF Typed, TypeOK
<1>1. o \in Ops
  BY ConstantsAssumption DEF ConstantsAssumption
<1>2. o \notin {"start", "resume"} => o \in DOMAIN Recorded
  BY <1>1, RecordedFacts DEF Ops
<1>3. TypeOK'
  BY <1>1 DEF Receive, HandlerPcs, row, forge, setting, threads
<1>4. InPlace(c)'
  <2>1. /\ op'[c] = o /\ tpc' = tpc /\ run' = run /\ InPlace(c) /\ hpc[c] = "idle"
        /\ hpc'[c] = IF o \in {"start", "resume"} THEN "status" ELSE "govern"
    BY DEF Receive, PlacesInv, threads
  <2> QED BY <2>1, <1>1, <1>2 DEF InPlace, GovernedPcs, ResumerPcs
<1>5. PlacesInv'
  BY <1>4, OthersInPlace DEF Receive, threads, setting
<1> QED BY <1>3, <1>5

(* What reject leaves running when it fails after it has started its thread. *)
LEMMA RejectSpawns == FirstThreadPc("reject") = "r_load"
BY DEF FirstThreadPc

LEMMA HandlerTyped ==
    ASSUME Typed, NEW c \in Calls, HandlerStep(c) \/ HandlerFault(c)
    PROVE  Typed'
<1> USE DEF Typed, TypeOK, row, forge, setting, threads
<1>0. InPlace(c)
  BY DEF PlacesInv
<1>1. CASE HandlerGovern(c)
  <2>1. [call |-> c, by |-> "human", decision |-> Recorded[op[c]]] \in GovernanceRow
    BY <1>0, <1>1, RecordedDecides DEF HandlerGovern, InPlace, GovernanceRow
  <2>2. TypeOK'
    BY <1>1, <2>1 DEF HandlerGovern, HandlerPcs
  <2>3. op[c] \in Ops
    BY <1>0, <1>1, RecordedFacts DEF HandlerGovern, InPlace, Ops
  <2>4. PlacesInv'
    BY <1>0, <1>1, <2>3, OthersInPlace DEF HandlerGovern, InPlace, GovernedPcs
  <2> QED BY <2>2, <2>4
<1>2. CASE HandlerStatus(c)
  <2>1. TypeOK'
    BY <1>2 DEF HandlerStatus, HandlerPcs, StatusSetBy, Statuses
  <2>2. PlacesInv'
    BY <1>0, <1>2, OthersInPlace DEF HandlerStatus, InPlace, GovernedPcs
  <2> QED BY <2>1, <2>2
<1>3. CASE HandlerRegistry(c)
  <2>1. TypeOK'
    BY <1>3 DEF HandlerRegistry, HandlerPcs, StatusSetBy, Statuses
  <2>2. PlacesInv'
    BY <1>0, <1>3, OthersInPlace DEF HandlerRegistry, InPlace, GovernedPcs
  <2> QED BY <2>1, <2>2
<1>4. CASE HandlerSpawn(c)
  <2>1. FirstThreadPc(op[c]) \in ThreadPcs
    BY DEF FirstThreadPc, ThreadPcs, ExecutorPcs, ResumerPcs, MergerPcs
  <2>2. FirstThreadPc(op[c]) \notin {"x_graph", "x_govern", "r_govern", "r_status", "r_registry"}
    BY DEF FirstThreadPc
  <2>3. FirstThreadPc(op[c]) \in ResumerPcs =>
            op[c] \in {"approve", "reject"} /\ FirstThreadPc(op[c]) = "r_load"
    BY DEF FirstThreadPc, ResumerPcs
  <2>4. TypeOK'
    BY <1>4, <2>1 DEF HandlerSpawn, HandlerPcs
  <2>5. PlacesInv'
    BY <1>0, <1>4, <2>2, <2>3, OthersInPlace DEF HandlerSpawn, InPlace, GovernedPcs
  <2> QED BY <2>4, <2>5
<1>5. CASE HandlerFault(c)
  <2>0. tpc' = tpc \/ (op[c] = "reject" /\ tpc' = [tpc EXCEPT ![c] = "r_load"])
    BY <1>5, RejectSpawns DEF HandlerFault
  <2>1. TypeOK'
    BY <1>5, <2>0, ConstantsAssumption
       DEF HandlerFault, HandlerPcs, ConstantsAssumption, ThreadPcs, ResumerPcs
  <2>2. InPlace(c)'
    BY <1>0, <1>5, <2>0 DEF HandlerFault, InPlace, GovernedPcs, ResumerPcs
  <2>3. PlacesInv'
    BY <1>5, <2>0, <2>2, OthersInPlace DEF HandlerFault
  <2> QED BY <2>1, <2>3
<1> QED BY <1>1, <1>2, <1>3, <1>4, <1>5 DEF HandlerStep

(* The pcs a thread step leads to are thread pcs. *)
LEMMA PcFacts ==
    /\ ExecutorPcs \cup ResumerPcs \cup MergerPcs \cup {None, "t_start", "done"} \subseteq ThreadPcs
    /\ ExecutorPcs = {"x_start", "x_invoke", "x_graph", "x_govern", "x_status", "x_registry",
                      "a_status", "a_govern", "f_status", "f_registry"}
    /\ ResumerPcs = {"r_load", "r_answer", "r_graph", "r_govern", "r_status", "r_registry"}
    /\ MergerPcs = {"m_start", "m_call", "m_failed", "m_success", "m_merged", "m_unmerged",
                    "m_dispatch", "m_triggered", "m_dfailed"}
BY DEF ThreadPcs, ExecutorPcs, ResumerPcs, MergerPcs

LEMMA GraphTyped ==
    ASSUME Typed, NEW c \in Calls, GraphStep(c)
    PROVE  Typed'
<1> USE DEF Typed, TypeOK, row, forge, setting
<1>0. InPlace(c) /\ run[c] \in Run
  BY DEF PlacesInv
<1>1. ASSUME NEW r \in Run, GraphMovesTo(c, r)
      PROVE  /\ status' = status /\ mergeStatus' = mergeStatus /\ deployStatus' = deployStatus
             /\ run' \in [Calls -> Run] /\ run'[c] = r
             /\ \A d \in Calls \ {c} : run'[d] = run[d]
             /\ checkpoint' \in Checkpoint
             /\ UNCHANGED <<governance, registry, op, hpc, prMerged, mergeCallers, deploys,
                            engine, restarts, faults>>
  BY <1>1, RunFacts DEF GraphMovesTo
<1>2. CASE GraphJudge(c)
  <2>1. PICK d \in JudgeDecisions : GraphMovesTo(c, Judged(run[c], d))
    BY <1>2 DEF GraphJudge
  <2> DEFINE r == Judged(run[c], d)
  <2>2. r \in Run /\ r.judge \in JudgeDecisions
    BY <1>0, JudgedFacts
  <2> HIDE DEF r
  <2>3. GraphMovesTo(c, r)
    BY <2>1 DEF r
  <2>4. tpc' = tpc /\ tpc[c] \in {"x_graph", "r_graph"}
    BY <1>2 DEF GraphJudge, InGraph
  <2>5. TypeOK'
    BY <1>1, <2>2, <2>3, <2>4
  <2>6. InPlace(c)'
    BY <1>0, <1>1, <2>2, <2>3, <2>4 DEF InPlace, GovernedPcs
  <2> QED BY <1>1, <2>2, <2>3, <2>4, <2>5, <2>6, OthersInPlace
<1>3. CASE GraphCleanup(c)
  <2> DEFINE r == [run[c] EXCEPT !.at = "end"]
  <2>1. r \in Run /\ r.judge = run[c].judge /\ r.human = run[c].human /\ run[c].at = "cleanup"
    BY <1>0, <1>3 DEF Run, Nodes, GraphCleanup
  <2>2. GraphMovesTo(c, r) /\ tpc' = tpc /\ tpc[c] \in {"x_graph", "r_graph"}
    BY <1>3 DEF GraphCleanup, InGraph
  <2> HIDE DEF r
  <2>3. TypeOK'
    BY <1>1, <2>1, <2>2
  <2>4. InPlace(c)'
    BY <1>0, <1>1, <2>1, <2>2 DEF InPlace, GovernedPcs
  <2> QED BY <1>1, <2>1, <2>2, <2>3, <2>4, OthersInPlace
<1> QED BY <1>2, <1>3 DEF GraphStep

LEMMA ExecutorTyped ==
    ASSUME Typed, NEW c \in Calls, ExecutorStep(c) \/ ExecFault(c)
    PROVE  Typed'
<1> USE DEF Typed, TypeOK, row, forge, setting, Goto, Leave
<1>0. InPlace(c) /\ run[c] \in Run /\ NoRun \in Run
  BY RunFacts DEF PlacesInv
<1>1. CASE ExecStart(c)
  <2>1. TypeOK' BY <1>1, PcFacts DEF ExecStart, Statuses
  <2>2. PlacesInv'
    BY <1>0, <1>1, PcFacts, OthersInPlace DEF ExecStart, InPlace, GovernedPcs
  <2> QED BY <2>1, <2>2
<1>2. CASE ExecInvoke(c)
  <2> DEFINE r == [NoRun EXCEPT !.at = "pipeline"]
  <2>1. r \in Run /\ Saved(r) \in Checkpoint /\ r.at = "pipeline"
    BY <1>0, RunFacts DEF Nodes, NoRun
  <2>2. GraphMovesTo(c, r) /\ Goto(c, "x_graph") /\ tpc[c] = "x_invoke"
    BY <1>2 DEF ExecInvoke
  <2> HIDE DEF r
  <2>3. TypeOK' BY <2>1, <2>2, PcFacts DEF GraphMovesTo
  <2>4. PlacesInv'
    BY <1>0, <2>1, <2>2, PcFacts, OthersInPlace DEF GraphMovesTo, InPlace, GovernedPcs
  <2> QED BY <2>3, <2>4
<1>3. CASE ExecValidatorFailed(c)
  <2>1. TypeOK' BY <1>0, <1>3, PcFacts DEF ExecValidatorFailed
  <2>2. PlacesInv'
    BY <1>0, <1>3, PcFacts, OthersInPlace DEF ExecValidatorFailed, InPlace, GovernedPcs
  <2> QED BY <2>1, <2>2
<1>4. CASE ExecPersist(c)
  <2>1. TypeOK' BY <1>4, PcFacts DEF ExecPersist, Statuses
  <2>2. PlacesInv'
    BY <1>0, <1>4, PcFacts, OthersInPlace DEF ExecPersist, Returned, InPlace, GovernedPcs
  <2> QED BY <2>1, <2>2
<1>5. CASE ExecGovern(c)
  <2> DEFINE d == IF tpc[c] = "x_govern" THEN run[c].judge ELSE "REJECT"
  <2>1. [call |-> c, by |-> "judge", decision |-> d] \in GovernanceRow
    BY <1>0, <1>5 DEF ExecGovern, InPlace, GovernanceRow, Decisions, JudgeDecisions
  <2>2. TypeOK' BY <1>5, <2>1, PcFacts DEF ExecGovern
  <2>3. PlacesInv'
    BY <1>0, <1>5, PcFacts, OthersInPlace DEF ExecGovern, InPlace, GovernedPcs
  <2> QED BY <2>2, <2>3
<1>6. CASE ExecStatus(c)
  <2>1. TypeOK' BY <1>6, PcFacts DEF ExecStatus, Outcome, Statuses
  <2>2. PlacesInv'
    BY <1>0, <1>6, PcFacts, OthersInPlace DEF ExecStatus, InPlace, GovernedPcs
  <2> QED BY <2>1, <2>2
<1>7. CASE ExecRegistry(c)
  <2>1. TypeOK' BY <1>0, <1>7, PcFacts DEF ExecRegistry, Outcome, Statuses
  <2>2. PlacesInv'
    BY <1>0, <1>7, PcFacts, OthersInPlace DEF ExecRegistry, InPlace, GovernedPcs
  <2> QED BY <2>1, <2>2
<1>8. CASE ExecFailStatus(c)
  <2>1. TypeOK' BY <1>8, PcFacts DEF ExecFailStatus, Statuses
  <2>2. PlacesInv'
    BY <1>0, <1>8, PcFacts, OthersInPlace DEF ExecFailStatus, InPlace, GovernedPcs
  <2> QED BY <2>1, <2>2
<1>9. CASE ExecFailRegistry(c)
  <2>1. TypeOK' BY <1>9, PcFacts DEF ExecFailRegistry, Statuses
  <2>2. PlacesInv'
    BY <1>0, <1>9, PcFacts, OthersInPlace DEF ExecFailRegistry, InPlace, GovernedPcs
  <2> QED BY <2>1, <2>2
<1>10. CASE ExecFault(c)
  <2>1. TypeOK'
    BY <1>0, <1>10, PcFacts, ConstantsAssumption DEF ExecFault, ConstantsAssumption
  <2>2. PlacesInv'
    BY <1>0, <1>10, PcFacts, OthersInPlace DEF ExecFault, InPlace, GovernedPcs
  <2> QED BY <2>1, <2>2
<1> QED BY <1>1, <1>2, <1>3, <1>4, <1>5, <1>6, <1>7, <1>8, <1>9, <1>10 DEF ExecutorStep

LEMMA ResumerTyped ==
    ASSUME Typed, NEW c \in Calls, ResumerStep(c)
    PROVE  Typed'
<1> USE DEF Typed, TypeOK, row, forge, setting, Goto, Leave
<1>0. InPlace(c) /\ run[c] \in Run /\ NoRun \in Run
  BY RunFacts DEF PlacesInv
<1>1. CASE ResumeLoad(c)
  <2>1. checkpoint.at \in Nodes /\ checkpoint.human \in HumanDecisions
    BY DEF Checkpoint
  <2>2. /\ [NoRun EXCEPT !.at = checkpoint.at, !.human = checkpoint.human] \in Run
        /\ [at |-> "pipeline", judge |-> None, human |-> "absent"] \in Run
    BY <2>1 DEF Run, NoRun, Nodes, HumanDecisions
  <2>3. TypeOK' BY <1>1, <2>2, PcFacts DEF ResumeLoad
  <2>4. PlacesInv'
    BY <1>0, <1>1, PcFacts, OthersInPlace DEF ResumeLoad, InPlace, GovernedPcs
  <2> QED BY <2>3, <2>4
<1>2. CASE ResumeAnswer(c)
  <2> DEFINE r == [run[c] EXCEPT !.at = "cleanup", !.human = Recorded[op[c]]]
  <2>0. Recorded[op[c]] \in {"APPROVE", "REJECT"}
    BY <1>0, <1>2, RecordedFacts, PcFacts DEF ResumeAnswer, InPlace
  <2>1. r \in Run /\ Saved(r) \in Checkpoint
    <3>1. r \in Run
      BY <1>0, <2>0 DEF Run, Nodes, HumanDecisions
    <3> QED BY <3>1, RunFacts
  <2>2. GraphMovesTo(c, r) /\ Goto(c, "r_graph") /\ tpc[c] = "r_answer"
    BY <1>2 DEF ResumeAnswer
  <2> HIDE DEF r
  <2>3. TypeOK' BY <2>1, <2>2, PcFacts DEF GraphMovesTo
  <2>4. PlacesInv'
    BY <1>0, <2>1, <2>2, PcFacts, OthersInPlace DEF GraphMovesTo, InPlace, GovernedPcs
  <2> QED BY <2>3, <2>4
<1>3. CASE ResumeResult(c)
  <2>1. CASE run[c].human = None
    <3>1. TypeOK' BY <1>0, <1>3, <2>1, PcFacts DEF ResumeResult
    <3>2. PlacesInv'
      BY <1>0, <1>3, <2>1, PcFacts, OthersInPlace DEF ResumeResult, InPlace, GovernedPcs
    <3> QED BY <3>1, <3>2
  <2>2. CASE run[c].human # None
    <3> DEFINE h == IF run[c].human = "absent" THEN Recorded[op[c]] ELSE run[c].human
               r == [run[c] EXCEPT !.human = h]
    <3>1. h \in {"APPROVE", "REJECT"}
      BY <1>0, <1>3, <2>2, RecordedFacts, PcFacts DEF ResumeResult, InPlace, Run, HumanDecisions
    <3>2. r \in Run /\ r.human = h
      BY <1>0, <3>1 DEF Run, HumanDecisions
    <3>3. /\ run' = [run EXCEPT ![c] = r] /\ Goto(c, "r_govern") /\ tpc[c] = "r_graph"
          /\ UNCHANGED <<row, governance, registry, checkpoint, op, hpc, forge, setting>>
      BY <1>3, <2>2 DEF ResumeResult
    <3> HIDE DEF h, r
    <3>4. TypeOK' BY <3>2, <3>3, PcFacts
    <3>5. PlacesInv'
      BY <1>0, <3>1, <3>2, <3>3, PcFacts, OthersInPlace DEF InPlace, GovernedPcs
    <3> QED BY <3>4, <3>5
  <2> QED BY <2>1, <2>2
<1>4. CASE ResumeGovern(c)
  <2>1. [call |-> c, by |-> "graph", decision |-> run[c].human] \in GovernanceRow
    BY <1>0, <1>4 DEF ResumeGovern, InPlace, GovernanceRow, Decisions, JudgeDecisions
  <2>2. TypeOK' BY <1>4, <2>1, PcFacts DEF ResumeGovern
  <2>3. PlacesInv'
    BY <1>0, <1>4, PcFacts, OthersInPlace DEF ResumeGovern, InPlace, GovernedPcs
  <2> QED BY <2>2, <2>3
<1>5. CASE ResumeStatus(c)
  <2>1. TypeOK' BY <1>5, PcFacts DEF ResumeStatus, Statuses
  <2>2. PlacesInv'
    BY <1>0, <1>5, PcFacts, OthersInPlace DEF ResumeStatus, InPlace, GovernedPcs
  <2> QED BY <2>1, <2>2
<1>6. CASE ResumeRegistry(c)
  <2>1. TypeOK' BY <1>0, <1>6, PcFacts DEF ResumeRegistry, Statuses
  <2>2. PlacesInv'
    BY <1>0, <1>6, PcFacts, OthersInPlace DEF ResumeRegistry, InPlace, GovernedPcs
  <2> QED BY <2>1, <2>2
<1>7. CASE RetestDies(c)
  <2>1. TypeOK' BY <1>7, PcFacts DEF RetestDies
  <2>2. PlacesInv'
    BY <1>0, <1>7, PcFacts, OthersInPlace DEF RetestDies, InPlace, GovernedPcs
  <2> QED BY <2>1, <2>2
<1> QED BY <1>1, <1>2, <1>3, <1>4, <1>5, <1>6, <1>7 DEF ResumerStep

LEMMA MergerTyped ==
    ASSUME Typed, NEW c \in Calls, MergerStep(c) \/ ThreadFault(c)
    PROVE  Typed'
<1> USE DEF Typed, TypeOK, row, forge, setting, Goto, Leave
<1>0. InPlace(c) /\ run[c] \in Run /\ NoRun \in Run
  BY RunFacts DEF PlacesInv
<1>1. ASSUME tpc[c] \in MergerPcs, NEW pc \in MergerPcs \cup {"done"}, NEW s \in MergeStates,
             SetMergeStatus(c, s, pc)
      PROVE  Typed'
  <2>1. TypeOK' BY <1>1, PcFacts DEF SetMergeStatus
  <2>2. PlacesInv'
    BY <1>0, <1>1, PcFacts, OthersInPlace DEF SetMergeStatus, InPlace, GovernedPcs
  <2> QED BY <2>1, <2>2
<1>2. ASSUME tpc[c] \in MergerPcs, NEW pc \in MergerPcs \cup {"done"}, NEW s \in DeployStates,
             SetDeployStatus(c, s, pc)
      PROVE  Typed'
  <2>1. TypeOK' BY <1>2, PcFacts DEF SetDeployStatus
  <2>2. PlacesInv'
    BY <1>0, <1>2, PcFacts, OthersInPlace DEF SetDeployStatus, InPlace, GovernedPcs
  <2> QED BY <2>1, <2>2
<1>3. CASE MergeStart(c)
  BY <1>1, <1>3, PcFacts DEF MergeStart, MergeStates
<1>4. CASE MergeCall(c)
  <2>1. TypeOK' BY <1>4, PcFacts DEF MergeCall
  <2>2. PlacesInv'
    BY <1>0, <1>4, PcFacts, OthersInPlace DEF MergeCall, InPlace, GovernedPcs
  <2> QED BY <2>1, <2>2
<1>5. CASE MergeRecord(c)
  BY <1>1, <1>5, PcFacts DEF MergeRecord, MergeStates
<1>6. CASE DeployStart(c)
  <2>1. CASE tpc[c] = "m_unmerged" /\ DeployOnMerge
    <3>1. TypeOK' BY <1>6, <2>1, PcFacts DEF DeployStart
    <3>2. PlacesInv'
      BY <1>0, <1>6, <2>1, PcFacts, OthersInPlace DEF DeployStart, InPlace, GovernedPcs
    <3> QED BY <3>1, <3>2
  <2>2. CASE ~(tpc[c] = "m_unmerged" /\ DeployOnMerge)
    BY <1>2, <1>6, <2>2, PcFacts DEF DeployStart, DeployStates
  <2> QED BY <2>1, <2>2
<1>7. CASE DeployDispatch(c)
  <2>1. TypeOK' BY <1>7, PcFacts DEF DeployDispatch
  <2>2. PlacesInv'
    BY <1>0, <1>7, PcFacts, OthersInPlace DEF DeployDispatch, InPlace, GovernedPcs
  <2> QED BY <2>1, <2>2
<1>8. CASE DeployRecord(c)
  BY <1>2, <1>8, PcFacts DEF DeployRecord, DeployStates
<1>9. CASE ThreadFault(c)
  <2>1. TypeOK' BY <1>0, <1>9, PcFacts, ConstantsAssumption DEF ThreadFault, ConstantsAssumption
  <2>2. PlacesInv'
    BY <1>0, <1>9, PcFacts, OthersInPlace DEF ThreadFault, InPlace, GovernedPcs
  <2> QED BY <2>1, <2>2
<1> QED BY <1>3, <1>4, <1>5, <1>6, <1>7, <1>8, <1>9 DEF MergerStep

LEMMA RestartTyped == ASSUME Typed, Restart PROVE Typed'
<1> USE DEF Typed, TypeOK, row, forge, Restart
<1>1. NoRun \in Run /\ Saved(NoRun) \in Checkpoint
  BY RunFacts
<1>2. TypeOK'
  <2>1. restarts' \in 0..MaxRestarts
    BY ConstantsAssumption DEF ConstantsAssumption
  <2>2. /\ hpc' \in [Calls -> HandlerPcs]
        /\ tpc' \in [Calls -> ThreadPcs]
        /\ run' \in [Calls -> Run]
    BY <1>1, PcFacts DEF HandlerPcs
  <2> QED BY <1>1, <2>1, <2>2
<1>3. PlacesInv'
  BY PcFacts DEF PlacesInv, InPlace, GovernedPcs
<1> QED BY <1>2, <1>3

LEMMA NextTyped == Typed /\ [Next]_vars => Typed'
<1> SUFFICES ASSUME Typed, [Next]_vars PROVE Typed'
  OBVIOUS
<1>1. ASSUME NEW c \in Calls, ThreadStep(c) PROVE Typed'
  BY <1>1, GraphTyped, ExecutorTyped, ResumerTyped, MergerTyped DEF ThreadStep
<1>2. CASE UNCHANGED vars
  BY <1>2 DEF vars, row, forge, setting, Typed, TypeOK, PlacesInv, InPlace
<1>3. CASE Finished
  BY <1>2, <1>3 DEF Finished
<1> QED BY <1>1, <1>2, <1>3, ReceiveTyped, HandlerTyped, ExecutorTyped, MergerTyped, RestartTyped
        DEF Next

(* Every variable keeps its type: in particular nothing but a decision of   *)
(* the endpoints, the judge or the graph gets into governance_actions.      *)
THEOREM TypeCorrect == Spec => []TypeOK
<1>1. Init => Typed
  BY InitTyped, ConstantsAssumption
<1>2. Typed /\ [Next]_vars => Typed'
  BY NextTyped
<1>3. Typed => TypeOK
  BY DEF Typed
<1> QED BY <1>1, <1>2, <1>3, PTL DEF Spec

-----------------------------------------------------------------------------
(* Nothing is ever deleted from governance_actions.                         *)

ThreadDefs(c) == ThreadStep(c) \/ ExecFault(c) \/ ThreadFault(c)

LEMMA ThreadStepKinds ==
    ASSUME NEW c \in Calls, ThreadDefs(c)
    PROVE  \/ GraphStep(c) \/ ExecutorStep(c) \/ ResumerStep(c) \/ MergerStep(c)
           \/ ExecFault(c) \/ ThreadFault(c)
BY DEF ThreadDefs, ThreadStep

LEMMA GovernanceGrows == [Next]_vars => governance \subseteq governance'
<1> SUFFICES ASSUME [Next]_vars PROVE governance \subseteq governance'
  OBVIOUS
<1>1. ASSUME NEW c \in Calls, ThreadDefs(c) PROVE governance \subseteq governance'
  <2> USE DEF GraphMovesTo, SetMergeStatus, SetDeployStatus
  <2>1. CASE GraphStep(c)
    BY <2>1 DEF GraphStep, GraphJudge, GraphCleanup
  <2>2. CASE ExecutorStep(c) \/ ExecFault(c)
    BY <2>2 DEF ExecutorStep, ExecStart, ExecInvoke, ExecValidatorFailed, ExecPersist, ExecGovern,
       ExecStatus, ExecRegistry, ExecFailStatus, ExecFailRegistry, ExecFault
  <2>3. CASE ResumerStep(c)
    BY <2>3 DEF ResumerStep, ResumeLoad, ResumeAnswer, ResumeResult, ResumeGovern, ResumeStatus,
       ResumeRegistry, RetestDies
  <2>4. CASE MergerStep(c) \/ ThreadFault(c)
    BY <2>4 DEF MergerStep, MergeStart, MergeCall, MergeRecord, DeployStart, DeployDispatch,
       DeployRecord, ThreadFault
  <2> QED BY <1>1, <2>1, <2>2, <2>3, <2>4, ThreadStepKinds
<1>2. ASSUME NEW c \in Calls, HandlerStep(c) \/ HandlerFault(c) PROVE governance \subseteq governance'
  BY <1>2 DEF HandlerStep, HandlerGovern, HandlerStatus, HandlerRegistry, HandlerSpawn, HandlerFault
<1>3. CASE UNCHANGED vars
  BY <1>3 DEF vars
<1> QED BY <1>1, <1>2, <1>3 DEF Next, Receive, Restart, Finished, ThreadDefs

LEMMA RowsStay ==
    ASSUME governance \subseteq governance'
    PROVE  /\ HumanApproved => HumanApproved'
           /\ \A c \in Calls : OwnApproval(c) => OwnApproval(c)'
           /\ Decided => Decided'
BY DEF HumanApproved, OwnApproval, Decided

-----------------------------------------------------------------------------
(* A merge needs a person.  While no approving row is in the database,      *)
(* every step leaves NothingApproved as it is; the step that changes this   *)
(* commits the row.                                                         *)

LEMMA OthersCarryNothing ==
    ASSUME NEW c \in Calls, \A d \in Calls : ~CarriesApproval(d),
           \A d \in Calls \ {c} : /\ op'[d] = op[d] /\ hpc'[d] = hpc[d]
                                 /\ tpc'[d] = tpc[d] /\ run'[d] = run[d],
           engine' = engine, ~CarriesApproval(c)'
    PROVE  \A d \in Calls : ~CarriesApproval(d)'
BY DEF CarriesApproval

LEMMA HandlerNothingApproved ==
    ASSUME Typed, NothingApproved, ~HumanApproved', NEW c \in Calls,
           HandlerStep(c) \/ HandlerFault(c)
    PROVE  NothingApproved'
<1> USE DEF Typed, TypeOK, NothingApproved, row, forge, setting, threads
<1>0. ~CarriesApproval(c) /\ InPlace(c)
  BY DEF PlacesInv
<1>1. CASE HandlerGovern(c)
  <2> DEFINE g == [call |-> c, by |-> "human", decision |-> Recorded[op[c]]]
  <2>1. g \in governance'
    BY <1>1 DEF HandlerGovern
  <2>2. op[c] \notin Approvers
    <3> SUFFICES ASSUME op[c] \in Approvers PROVE FALSE
      OBVIOUS
    <3>1. g.by = "human" /\ g.decision \in Approving
      BY RecordedFacts DEF Approvers, Approving
    <3> QED BY <2>1, <3>1 DEF HumanApproved
  <2>3. ~CarriesApproval(c)'
    BY <1>0, <1>1, <2>2 DEF HandlerGovern, CarriesApproval, GovernedPcs
  <2> QED BY <1>1, <2>3, OthersCarryNothing DEF HandlerGovern
<1>2. CASE HandlerStatus(c) \/ HandlerRegistry(c) \/ HandlerFault(c)
  <2>1. ~CarriesApproval(c)'
    BY <1>0, <1>2, RejectSpawns, PcFacts
       DEF HandlerStatus, HandlerRegistry, HandlerFault, CarriesApproval, GovernedPcs
  <2> QED BY <1>2, <2>1, OthersCarryNothing DEF HandlerStatus, HandlerRegistry, HandlerFault
<1>3. CASE HandlerSpawn(c)
  <2>1. op[c] \notin Approvers
    BY <1>0, <1>3 DEF HandlerSpawn, CarriesApproval, GovernedPcs
  <2>2. FirstThreadPc(op[c]) \notin MergerPcs
    BY <2>1, PcFacts DEF FirstThreadPc, Approvers
  <2>3. ~CarriesApproval(c)'
    BY <1>0, <1>3, <2>1, <2>2 DEF HandlerSpawn, CarriesApproval, GovernedPcs, Approvers
  <2> QED BY <1>3, <2>3, OthersCarryNothing DEF HandlerSpawn
<1> QED BY <1>1, <1>2, <1>3 DEF HandlerStep

LEMMA ExecutorNothingApproved ==
    ASSUME Typed, NothingApproved, NEW c \in Calls,
           GraphStep(c) \/ ExecutorStep(c) \/ ExecFault(c)
    PROVE  NothingApproved'
<1> USE DEF Typed, TypeOK, NothingApproved, row, forge, setting, Goto, Leave
<1>0. ~CarriesApproval(c) /\ run[c] \in Run
  OBVIOUS
<1>1. ASSUME NEW r \in Run, UsesLangGraph => r.human # "APPROVE", GraphMovesTo(c, r),
             tpc' = tpc \/ tpc' = [tpc EXCEPT ![c] = "x_graph"]
      PROVE  NothingApproved'
  <2>1. ~CarriesApproval(c)'
    BY <1>0, <1>1, PcFacts DEF GraphMovesTo, CarriesApproval
  <2> QED BY <1>1, <2>1, OthersCarryNothing DEF GraphMovesTo, Saved
<1>2. CASE GraphJudge(c)
  <2>1. PICK d \in JudgeDecisions : GraphMovesTo(c, Judged(run[c], d))
    BY <1>2 DEF GraphJudge
  <2> DEFINE r == Judged(run[c], d)
  <2>2. r \in Run /\ (UsesLangGraph => r.human = run[c].human)
    BY <1>0, JudgedFacts
  <2> QED BY <1>0, <1>1, <1>2, <2>1, <2>2 DEF GraphJudge, CarriesApproval
<1>3. CASE GraphCleanup(c)
  <2> DEFINE r == [run[c] EXCEPT !.at = "end"]
  <2>1. r \in Run /\ r.human = run[c].human
    BY <1>0 DEF Run, Nodes
  <2> QED BY <1>0, <1>1, <1>3, <2>1 DEF GraphCleanup, CarriesApproval
<1>4. CASE ExecInvoke(c)
  <2> DEFINE r == [NoRun EXCEPT !.at = "pipeline"]
  <2>1. r \in Run /\ r.human # "APPROVE"
    BY DEF Run, Nodes, NoRun, HumanDecisions
  <2> QED BY <1>1, <1>4, <2>1 DEF ExecInvoke
<1>5. CASE ExecStart(c) \/ ExecValidatorFailed(c) \/ ExecPersist(c) \/ ExecGovern(c)
           \/ ExecStatus(c) \/ ExecRegistry(c) \/ ExecFailStatus(c) \/ ExecFailRegistry(c)
           \/ ExecFault(c)
  <2> USE DEF ExecStart, ExecValidatorFailed, ExecPersist, ExecGovern, ExecStatus, ExecRegistry,
              ExecFailStatus, ExecFailRegistry, ExecFault
  <2>1. PICK pc \in ExecutorPcs \cup {"done"} : tpc' = [tpc EXCEPT ![c] = pc]
    BY <1>5, PcFacts
  <2>2. run' = run \/ run' = [run EXCEPT ![c] = NoRun]
    BY <1>5
  <2>3. UNCHANGED <<op, hpc, checkpoint, prMerged, mergeCallers, engine>>
    BY <1>5
  <2>4. ~CarriesApproval(c)'
    BY <1>0, <2>1, <2>2, <2>3, PcFacts DEF CarriesApproval, NoRun
  <2> QED BY <2>1, <2>2, <2>3, <2>4, OthersCarryNothing
<1> QED BY <1>2, <1>3, <1>4, <1>5 DEF GraphStep, ExecutorStep

LEMMA ResumerNothingApproved ==
    ASSUME Typed, NothingApproved, NEW c \in Calls, ResumerStep(c)
    PROVE  NothingApproved'
<1> USE DEF Typed, TypeOK, NothingApproved, row, forge, setting, Goto, Leave
<1>0. ~CarriesApproval(c) /\ run[c] \in Run /\ InPlace(c)
  BY DEF PlacesInv
<1>1. tpc[c] \in ResumerPcs => Recorded[op[c]] = "REJECT"
  BY <1>0, RecordedFacts DEF CarriesApproval, InPlace
<1>2. CASE ResumeAnswer(c)
  <2> DEFINE r == [run[c] EXCEPT !.at = "cleanup", !.human = Recorded[op[c]]]
  <2>1. r.human = "REJECT"
    BY <1>0, <1>1, <1>2, PcFacts DEF ResumeAnswer, Run
  <2>2. GraphMovesTo(c, r) /\ tpc' = [tpc EXCEPT ![c] = "r_graph"] /\ tpc[c] = "r_answer"
    BY <1>2 DEF ResumeAnswer
  <2> HIDE DEF r
  <2>3. ~CarriesApproval(c)'
    BY <1>0, <2>1, <2>2, PcFacts DEF GraphMovesTo, CarriesApproval
  <2> QED BY <2>1, <2>2, <2>3, OthersCarryNothing DEF GraphMovesTo, Saved
<1>3. CASE ResumeLoad(c) \/ ResumeResult(c)
  <2>1. /\ UNCHANGED <<op, hpc, checkpoint, prMerged, mergeCallers, engine>>
        /\ \A d \in Calls \ {c} : tpc'[d] = tpc[d] /\ run'[d] = run[d]
        /\ tpc[c] \in ResumerPcs /\ tpc'[c] \in ResumerPcs \cup {"done"}
    BY <1>3, PcFacts DEF ResumeLoad, ResumeResult
  <2>2. UsesLangGraph => run'[c].human # "APPROVE"
    <3>0. SUFFICES ASSUME UsesLangGraph PROVE run'[c].human # "APPROVE"
      OBVIOUS
    <3>1. CASE ResumeLoad(c)
      <4>1. \/ run' = run
            \/ run' = [run EXCEPT ![c] = [NoRun EXCEPT !.at = checkpoint.at, !.human = checkpoint.human]]
            \/ run' = [run EXCEPT ![c] = [at |-> "pipeline", judge |-> None, human |-> "absent"]]
        BY <3>1 DEF ResumeLoad
      <4>2. [NoRun EXCEPT !.at = checkpoint.at, !.human = checkpoint.human].human = checkpoint.human
        BY DEF NoRun
      <4>3. run[c].human # "APPROVE" /\ checkpoint.human # "APPROVE"
        BY <1>0, <3>0 DEF CarriesApproval
      <4>4. CASE run' = run
        BY <4>3, <4>4
      <4>5. CASE run' # run
        <5> DEFINE loaded == [NoRun EXCEPT !.at = checkpoint.at, !.human = checkpoint.human]
                   fresh  == [at |-> "pipeline", judge |-> None, human |-> "absent"]
        <5>1. loaded.human # "APPROVE" /\ fresh.human # "APPROVE"
          BY <4>2, <4>3
        <5>2. run'[c] = loaded \/ run'[c] = fresh
          <6> HIDE DEF loaded, fresh
          <6> QED BY <4>1, <4>5 DEF loaded, fresh
        <5> HIDE DEF loaded, fresh
        <5> QED BY <5>1, <5>2
      <4> QED BY <4>4, <4>5
    <3>2. CASE ResumeResult(c)
      BY <1>0, <1>1, <3>0, <3>2, PcFacts DEF ResumeResult, CarriesApproval, NoRun, Run
    <3> QED BY <1>3, <3>1, <3>2
  <2>3. ~CarriesApproval(c)'
    BY <1>0, <2>1, <2>2, PcFacts DEF CarriesApproval
  <2> QED BY <2>1, <2>3, OthersCarryNothing
<1>4. CASE ResumeGovern(c) \/ ResumeStatus(c) \/ ResumeRegistry(c) \/ RetestDies(c)
  <2> USE DEF ResumeGovern, ResumeStatus, ResumeRegistry, RetestDies
  <2>1. /\ UNCHANGED <<op, hpc, checkpoint, prMerged, mergeCallers, engine>>
        /\ run' = run \/ run' = [run EXCEPT ![c] = NoRun]
    BY <1>4
  <2>2. /\ \A d \in Calls \ {c} : tpc'[d] = tpc[d]
        /\ tpc'[c] = "done" \/ (tpc[c] \in ResumerPcs /\ tpc'[c] \in ResumerPcs)
    <3>1. tpc[c] = "r_registry" => run[c].human # "APPROVE"
      BY <1>0, PcFacts DEF CarriesApproval, InPlace
    <3>2. PICK pc \in ResumerPcs \cup {"done"} : tpc' = [tpc EXCEPT ![c] = pc]
      BY <1>4, <3>1, PcFacts
    <3>3. tpc[c] \in ResumerPcs \/ tpc'[c] = "done"
      BY <1>4, PcFacts
    <3> QED BY <3>2, <3>3
  <2>3. ~CarriesApproval(c)'
    BY <1>0, <2>1, <2>2, PcFacts DEF CarriesApproval, NoRun
  <2> QED BY <2>1, <2>2, <2>3, OthersCarryNothing
<1> QED BY <1>2, <1>3, <1>4 DEF ResumerStep

(* A thread is at the merge only when an approval was in hand. *)
LEMMA MergerNothingApproved ==
    ASSUME Typed, NothingApproved, NEW c \in Calls, MergerStep(c) \/ ThreadFault(c)
    PROVE  NothingApproved'
<1> USE DEF Typed, TypeOK, NothingApproved, row, forge, setting, Goto, Leave
<1>0. ~CarriesApproval(c) /\ tpc[c] \notin MergerPcs
  BY DEF CarriesApproval
<1>1. ~MergerStep(c)
  BY <1>0, PcFacts DEF MergerStep, MergeStart, MergeCall, MergeRecord, DeployStart, DeployDispatch,
     DeployRecord
<1>2. CASE ThreadFault(c)
  <2>1. ~CarriesApproval(c)'
    BY <1>0, <1>2, PcFacts DEF ThreadFault, CarriesApproval, NoRun
  <2> QED BY <1>2, <2>1, OthersCarryNothing DEF ThreadFault
<1> QED BY <1>1, <1>2

LEMMA NextHuman == Typed /\ HumanInv /\ [Next]_vars => HumanInv'
<1> SUFFICES ASSUME Typed, HumanInv, [Next]_vars, ~HumanApproved' PROVE NothingApproved'
  BY DEF HumanInv
<1>1. NothingApproved
  BY GovernanceGrows, RowsStay DEF HumanInv
<1>2. ASSUME NEW c \in Calls, ThreadDefs(c) PROVE NothingApproved'
  BY <1>1, <1>2, ThreadStepKinds, ExecutorNothingApproved, ResumerNothingApproved,
     MergerNothingApproved
<1>3. ASSUME NEW c \in Calls, NEW o \in Endpoints, Receive(c, o) PROVE NothingApproved'
  <2>1. ~CarriesApproval(c)'
    <3>1. /\ hpc'[c] = "govern" \/ (o \in {"start", "resume"} /\ op'[c] = o)
          /\ tpc[c] = None /\ tpc' = tpc /\ run' = run /\ engine' = engine
          /\ UsesLangGraph => run[c].human # "APPROVE"
      BY <1>1, <1>3 DEF Receive, threads, setting, Typed, TypeOK, PlacesInv, InPlace,
         NothingApproved, CarriesApproval
    <3> QED BY <3>1, PcFacts DEF CarriesApproval, GovernedPcs, Approvers
  <2> QED BY <1>1, <1>3, <2>1, OthersCarryNothing DEF Receive, threads, forge, setting, Typed,
             TypeOK, NothingApproved
<1>4. CASE Restart
  <2>1. \A d \in Calls : ~CarriesApproval(d)'
    BY <1>4, PcFacts DEF Restart, CarriesApproval, GovernedPcs, NoRun
  <2> QED BY <1>1, <1>4, <2>1 DEF Restart, forge, NothingApproved, Saved, NoRun
<1>5. CASE UNCHANGED vars
  BY <1>1, <1>5 DEF vars, forge, setting, NothingApproved, CarriesApproval
<1> QED BY <1>1, <1>2, <1>3, <1>4, <1>5, HandlerNothingApproved DEF Next, Finished, ThreadDefs

(* The pull request is merged only when an approval by a person is in the   *)
(* database, whatever calls, faults and restarts interleave: for every      *)
(* number of calls and both graphs.                                         *)
THEOREM MergeNeedsHumanHolds == Spec => []MergeNeedsHuman
<1>1. Init => Typed /\ HumanInv
  <2>1. Init => NothingApproved
    BY PcFacts DEF Init, NothingApproved, CarriesApproval, GovernedPcs, NoRun, Saved
  <2> QED BY <2>1, InitTyped, ConstantsAssumption DEF HumanInv
<1>2. Typed /\ HumanInv /\ [Next]_vars => (Typed /\ HumanInv)'
  BY NextTyped, NextHuman
<1>3. Typed /\ HumanInv => MergeNeedsHuman
  BY DEF HumanInv, NothingApproved, MergeNeedsHuman
<1> QED BY <1>1, <1>2, <1>3, PTL DEF Spec

-----------------------------------------------------------------------------
(* Every merge attempt has a row of its own.                                *)

LEMMA ThreadTouchesItself ==
    ASSUME Typed, NEW c \in Calls, ThreadDefs(c)
    PROVE  /\ UNCHANGED <<op, hpc>>
           /\ \A d \in Calls \ {c} : tpc'[d] = tpc[d] /\ run'[d] = run[d]
<1> USE DEF Typed, TypeOK, Goto, Leave, GraphMovesTo, SetMergeStatus, SetDeployStatus
<1>1. CASE GraphStep(c)
  BY <1>1 DEF GraphStep, GraphJudge, GraphCleanup
<1>2. CASE ExecutorStep(c) \/ ExecFault(c)
  BY <1>2 DEF ExecutorStep, ExecStart, ExecInvoke, ExecValidatorFailed, ExecPersist, ExecGovern,
     ExecStatus, ExecRegistry, ExecFailStatus, ExecFailRegistry, ExecFault
<1>3. CASE ResumerStep(c)
  BY <1>3 DEF ResumerStep, ResumeLoad, ResumeAnswer, ResumeResult, ResumeGovern, ResumeStatus,
     ResumeRegistry, RetestDies
<1>4. CASE MergerStep(c) \/ ThreadFault(c)
  BY <1>4 DEF MergerStep, MergeStart, MergeCall, MergeRecord, DeployStart, DeployDispatch,
     DeployRecord, ThreadFault
<1> QED BY <1>1, <1>2, <1>3, <1>4, ThreadStepKinds

LEMMA HandlerTouchesItself ==
    ASSUME Typed, NEW c \in Calls, HandlerStep(c) \/ HandlerFault(c)
    PROVE  /\ UNCHANGED <<op, run, checkpoint, prMerged, mergeCallers, deploys,
                          mergeStatus, deployStatus>>
           /\ \A d \in Calls \ {c} : hpc'[d] = hpc[d] /\ tpc'[d] = tpc[d]
BY DEF Typed, TypeOK, HandlerStep, HandlerGovern, HandlerStatus, HandlerRegistry, HandlerSpawn,
   HandlerFault, row, forge, threads

LEMMA OthersAudited ==
    ASSUME AuditInv, [Next]_vars, NEW c \in Calls,
           mergeCallers' \subseteq mergeCallers \cup {c},
           \A d \in Calls \ {c} : /\ op'[d] = op[d] /\ hpc'[d] = hpc[d]
                                 /\ tpc'[d] = tpc[d] /\ run'[d] = run[d],
           NeedsOwnRow(c)' => NeedsOwnRow(c) \/ OwnApproval(c)'
    PROVE  AuditInv'
<1>1. \A d \in Calls : OwnApproval(d) => OwnApproval(d)'
  BY GovernanceGrows, RowsStay
<1>2. \A d \in Calls \ {c} : NeedsOwnRow(d)' => NeedsOwnRow(d)
  BY DEF NeedsOwnRow
<1> QED BY <1>1, <1>2 DEF AuditInv

LEMMA HandlerAudited ==
    ASSUME Typed, AuditInv, [Next]_vars, NEW c \in Calls, HandlerStep(c) \/ HandlerFault(c)
    PROVE  AuditInv'
<1> USE DEF Typed, TypeOK
<1>1. SUFFICES NeedsOwnRow(c)' => NeedsOwnRow(c) \/ OwnApproval(c)'
  BY HandlerTouchesItself, OthersAudited
<1>2. CASE HandlerGovern(c)
  <2> DEFINE g == [call |-> c, by |-> "human", decision |-> Recorded[op[c]]]
  <2>1. g \in governance' /\ g.call = c /\ g.by # "judge"
    BY <1>2 DEF HandlerGovern
  <2>2. op[c] = "release_approve" => g.decision \in Approving
    BY RecordedFacts DEF Approving
  <2>3. op[c] = "release_approve" => OwnApproval(c)'
    BY <2>1, <2>2 DEF OwnApproval
  <2> QED BY <1>2, <2>3 DEF HandlerGovern, NeedsOwnRow, threads, forge
<1>3. CASE HandlerStatus(c) \/ HandlerRegistry(c) \/ HandlerFault(c)
  BY <1>3, RejectSpawns, PcFacts
     DEF HandlerStatus, HandlerRegistry, HandlerFault, NeedsOwnRow, GovernedPcs, threads, forge
<1>4. CASE HandlerSpawn(c)
  <2>1. FirstThreadPc(op[c]) \in MergerPcs => op[c] = "release_approve"
    BY PcFacts DEF FirstThreadPc
  <2>2. FirstThreadPc(op[c]) \notin {"r_status", "r_registry"}
    BY DEF FirstThreadPc
  <2> QED BY <1>4, <2>1, <2>2 DEF HandlerSpawn, NeedsOwnRow, GovernedPcs, forge
<1> QED BY <1>2, <1>3, <1>4 DEF HandlerStep

LEMMA ThreadAudited ==
    ASSUME Typed, AuditInv, [Next]_vars, NEW c \in Calls, ThreadDefs(c)
    PROVE  AuditInv'
<1> USE DEF Typed, TypeOK, Goto, Leave, GraphMovesTo, SetMergeStatus, SetDeployStatus, forge
<1>1. mergeCallers' \subseteq mergeCallers \cup {c}
  <2>1. CASE GraphStep(c) \/ ExecutorStep(c) \/ ExecFault(c)
    BY <2>1 DEF GraphStep, GraphJudge, GraphCleanup, ExecutorStep, ExecStart, ExecInvoke,
       ExecValidatorFailed, ExecPersist, ExecGovern, ExecStatus, ExecRegistry, ExecFailStatus,
       ExecFailRegistry, ExecFault
  <2>2. CASE ResumerStep(c) \/ MergerStep(c) \/ ThreadFault(c)
    BY <2>2 DEF ResumerStep, ResumeLoad, ResumeAnswer, ResumeResult, ResumeGovern, ResumeStatus,
       ResumeRegistry, RetestDies, MergerStep, MergeStart, MergeCall, MergeRecord, DeployStart,
       DeployDispatch, DeployRecord, ThreadFault
  <2> QED BY <2>1, <2>2, ThreadStepKinds
<1>2. SUFFICES NeedsOwnRow(c)' => NeedsOwnRow(c) \/ OwnApproval(c)'
  BY <1>1, ThreadTouchesItself, OthersAudited
<1>3. CASE GraphStep(c)
  BY <1>3, PcFacts DEF GraphStep, GraphJudge, GraphCleanup, InGraph, NeedsOwnRow
<1>4. CASE ExecutorStep(c) \/ ExecFault(c)
  <2>1. tpc'[c] \in ExecutorPcs \cup {"done"} /\ mergeCallers' = mergeCallers /\ hpc' = hpc
    BY <1>4, PcFacts DEF ExecutorStep, ExecStart, ExecInvoke, ExecValidatorFailed, ExecPersist,
       ExecGovern, ExecStatus, ExecRegistry, ExecFailStatus, ExecFailRegistry, ExecFault
  <2> QED BY <2>1, ThreadTouchesItself, PcFacts DEF NeedsOwnRow
<1>5. CASE ResumeGovern(c)
  <2> DEFINE g == [call |-> c, by |-> "graph", decision |-> run[c].human]
  <2>1. g \in governance' /\ g.call = c /\ g.by # "judge" /\ g.decision = run[c].human
    BY <1>5 DEF ResumeGovern
  <2>2. run[c].human = "APPROVE" => OwnApproval(c)'
    BY <2>1 DEF OwnApproval, Approving
  <2> QED BY <1>5, <2>2, PcFacts DEF ResumeGovern, NeedsOwnRow
<1>6. CASE ResumeLoad(c) \/ ResumeAnswer(c) \/ ResumeResult(c) \/ RetestDies(c) \/ ThreadFault(c)
  <2>1. tpc'[c] \in {"r_answer", "r_graph", "r_govern", "done"} /\ mergeCallers' = mergeCallers
    BY <1>6 DEF ResumeLoad, ResumeAnswer, ResumeResult, RetestDies, ThreadFault
  <2> QED BY <2>1, ThreadTouchesItself, PcFacts DEF NeedsOwnRow
<1>7. CASE ResumeStatus(c) \/ ResumeRegistry(c)
  BY <1>7, PcFacts DEF ResumeStatus, ResumeRegistry, NeedsOwnRow
<1>8. CASE MergerStep(c)
  <2>1. tpc[c] \in MergerPcs
    BY <1>8, PcFacts DEF MergerStep, MergeStart, MergeCall, MergeRecord, DeployStart,
       DeployDispatch, DeployRecord
  <2> QED BY <2>1 DEF NeedsOwnRow
<1> QED BY <1>3, <1>4, <1>5, <1>6, <1>7, <1>8, ThreadStepKinds DEF ResumerStep

LEMMA NextAudited == Typed /\ AuditInv /\ [Next]_vars => AuditInv'
<1> SUFFICES ASSUME Typed, AuditInv, [Next]_vars PROVE AuditInv'
  OBVIOUS
<1>1. \A d \in Calls : OwnApproval(d) => OwnApproval(d)'
  BY GovernanceGrows, RowsStay
<1>2. ASSUME NEW c \in Calls, NEW o \in Endpoints, Receive(c, o) PROVE AuditInv'
  <2>1. NeedsOwnRow(c)' => NeedsOwnRow(c)
    BY <1>2 DEF Receive, NeedsOwnRow, GovernedPcs, threads, forge, Typed, TypeOK
  <2> QED BY <1>2, <2>1, OthersAudited DEF Receive, threads, forge, Typed, TypeOK
<1>3. CASE Restart
  <2>1. \A d \in Calls : NeedsOwnRow(d)' => NeedsOwnRow(d)
    BY <1>3, PcFacts DEF Restart, NeedsOwnRow, GovernedPcs, forge
  <2> QED BY <1>1, <2>1 DEF AuditInv
<1>4. CASE UNCHANGED vars
  BY <1>4 DEF vars, forge, AuditInv, NeedsOwnRow, OwnApproval
<1> QED BY <1>2, <1>3, <1>4, HandlerAudited, ThreadAudited DEF Next, Finished, ThreadDefs

(* No merge attempt rides on another call's decision: the rows of           *)
(* governance_actions account for each thread that called merge_pr.         *)
THEOREM EveryMergeAuditedHolds == Spec => []EveryMergeAudited
<1>1. Init => Typed /\ AuditInv
  <2>1. Init => AuditInv
    BY PcFacts DEF Init, AuditInv, NeedsOwnRow, GovernedPcs
  <2> QED BY <2>1, InitTyped, ConstantsAssumption
<1>2. Typed /\ AuditInv /\ [Next]_vars => (Typed /\ AuditInv)'
  BY NextTyped, NextAudited
<1>3. Typed /\ AuditInv => EveryMergeAudited
  BY DEF Typed, TypeOK, AuditInv, NeedsOwnRow, OwnApproval, EveryMergeAudited
<1> QED BY <1>1, <1>2, <1>3, PTL DEF Spec

-----------------------------------------------------------------------------
(* One deployment.  merge_pr answers with success once, so that one thread  *)
(* at most is between that answer and the dispatch.                         *)

DeployPlaces == WinnerPcs \cup {"m_triggered"}

(* A step that leaves the merge and the deployment alone, and brings nobody *)
(* to them.                                                                 *)
LEMMA DeployUndisturbed ==
    ASSUME Typed, DeployInv,
           UNCHANGED <<prMerged, deploys, mergeStatus, deployStatus>>,
           \A d \in Calls : tpc'[d] \in DeployPlaces => tpc'[d] = tpc[d]
    PROVE  DeployInv'
BY DEF DeployInv, DeployPlaces

LEMMA MergerDeploy ==
    ASSUME Typed, DeployInv, NEW c \in Calls, MergerStep(c)
    PROVE  DeployInv'
<1> USE DEF Typed, TypeOK, Goto, SetMergeStatus, SetDeployStatus, row, forge, setting, WinnerPcs
<1>1. CASE MergeStart(c)
  BY <1>1 DEF MergeStart, DeployInv
<1>2. CASE MergeCall(c)
  <2>1. CASE ~prMerged /\ prMerged' = TRUE /\ Goto(c, "m_success")
    <3>1. \A d \in Calls : tpc[d] \notin WinnerPcs
      BY <2>1 DEF DeployInv
    <3>2. deploys = 0 /\ deploys' = 0
      BY <1>2, <2>1 DEF MergeCall, DeployInv
    <3>3. \A d \in Calls : tpc'[d] \in WinnerPcs => d = c
      BY <2>1, <3>1
    <3>4. \A d \in Calls : tpc'[d] # "m_triggered"
      BY <2>1, <3>2 DEF DeployInv
    <3> HIDE DEF WinnerPcs
    <3> QED BY <1>2, <2>1, <3>2, <3>3, <3>4 DEF MergeCall, DeployInv
  <2>2. CASE prMerged' \in {prMerged, TRUE} /\ Goto(c, "m_failed")
    BY <1>2, <2>2 DEF MergeCall, DeployInv
  <2> QED BY <1>2, <2>1, <2>2 DEF MergeCall
<1>3. CASE MergeRecord(c)
  BY <1>3 DEF MergeRecord, DeployInv
<1>4. CASE DeployStart(c)
  BY <1>4 DEF DeployStart, DeployInv
<1>5. CASE DeployDispatch(c)
  <2>1. tpc[c] = "m_dispatch" /\ prMerged /\ deploys = 0
        /\ \A d \in Calls \ {c} : tpc[d] \notin WinnerPcs /\ tpc[d] # "m_triggered"
    BY <1>5 DEF DeployDispatch, DeployInv
  <2>2. deploys' \in {0, 1} /\ prMerged' = prMerged /\ UNCHANGED <<mergeStatus, deployStatus>>
    BY <1>5, <2>1 DEF DeployDispatch
  <2>3. \/ tpc' = [tpc EXCEPT ![c] = "m_triggered"] /\ deploys' = 1
        \/ tpc' = [tpc EXCEPT ![c] = "m_dfailed"]
    BY <1>5, <2>1 DEF DeployDispatch
  <2>4. deployStatus # "triggered"
    BY <2>1 DEF DeployInv
  <2>5. \A d \in Calls : tpc'[d] \notin WinnerPcs /\ (tpc'[d] = "m_triggered" => deploys' = 1)
    BY <2>1, <2>3
  <2> QED BY <2>1, <2>2, <2>4, <2>5 DEF DeployInv
<1>6. CASE DeployRecord(c)
  BY <1>6 DEF DeployRecord, DeployInv
<1> QED BY <1>1, <1>2, <1>3, <1>4, <1>5, <1>6 DEF MergerStep

LEMMA NextDeploy == Typed /\ DeployInv /\ [Next]_vars => DeployInv'
<1> SUFFICES ASSUME Typed, DeployInv, [Next]_vars PROVE DeployInv'
  OBVIOUS
<1> USE DEF DeployPlaces, WinnerPcs
<1>1. ASSUME NEW c \in Calls, NEW o \in Endpoints, Receive(c, o) PROVE DeployInv'
  BY <1>1, DeployUndisturbed DEF Receive, row, forge, threads
<1>2. ASSUME NEW c \in Calls, HandlerStep(c) \/ HandlerFault(c) PROVE DeployInv'
  <2>1. tpc'[c] \in DeployPlaces => tpc'[c] = tpc[c]
    BY <1>2 DEF HandlerStep, HandlerGovern, HandlerStatus, HandlerRegistry, HandlerSpawn,
       HandlerFault, FirstThreadPc, threads, Typed, TypeOK
  <2> QED BY <1>2, <2>1, HandlerTouchesItself, DeployUndisturbed
<1>3. ASSUME NEW c \in Calls,
             GraphStep(c) \/ ExecutorStep(c) \/ ExecFault(c) \/ ResumerStep(c) \/ ThreadFault(c)
      PROVE  DeployInv'
  <2> USE DEF Typed, TypeOK, Goto, Leave, GraphMovesTo, row, forge
  <2>1. CASE GraphStep(c)
    BY <2>1, DeployUndisturbed DEF GraphStep, GraphJudge, GraphCleanup
  <2>2. CASE ExecutorStep(c) \/ ExecFault(c)
    <3>1. UNCHANGED <<prMerged, deploys, mergeStatus, deployStatus>>
          /\ tpc'[c] \notin DeployPlaces
      BY <2>2 DEF ExecutorStep, ExecStart, ExecInvoke, ExecValidatorFailed, ExecPersist,
         ExecGovern, ExecStatus, ExecRegistry, ExecFailStatus, ExecFailRegistry, ExecFault
    <3> QED BY <2>2, <3>1, ThreadTouchesItself, DeployUndisturbed DEF ThreadDefs, ThreadStep
  <2>3. CASE ResumerStep(c) \/ ThreadFault(c)
    <3>1. UNCHANGED <<prMerged, deploys, mergeStatus, deployStatus>>
          /\ tpc'[c] \notin DeployPlaces
      BY <2>3 DEF ResumerStep, ResumeLoad, ResumeAnswer, ResumeResult, ResumeGovern, ResumeStatus,
         ResumeRegistry, RetestDies, ThreadFault
    <3> QED BY <2>3, <3>1, ThreadTouchesItself, DeployUndisturbed DEF ThreadDefs, ThreadStep
  <2> QED BY <1>3, <2>1, <2>2, <2>3
<1>4. CASE Restart
  BY <1>4, DeployUndisturbed DEF Restart, row, forge
<1>5. CASE UNCHANGED vars
  BY <1>5, DeployUndisturbed DEF vars, row, forge
<1> QED BY <1>1, <1>2, <1>3, <1>4, <1>5, MergerDeploy DEF Next, Finished, ThreadStep

LEMMA InitDeploy == Init => DeployInv
BY DEF Init, DeployInv, WinnerPcs

(* Racing approvals, overrides and re-runs dispatch the deploy pipeline at  *)
(* most once, and never for an unmerged pull request.                       *)
THEOREM DeployedOnceHolds == Spec => []DeployedOnce
<1>1. Init => Typed /\ DeployInv
  BY InitTyped, InitDeploy, ConstantsAssumption
<1>2. Typed /\ DeployInv /\ [Next]_vars => (Typed /\ DeployInv)'
  BY NextTyped, NextDeploy
<1>3. DeployInv => DeployedOnce
  BY DEF DeployInv, DeployedOnce
<1> QED BY <1>1, <1>2, <1>3, PTL DEF Spec

(* What the two status columns claim has happened, whichever of several     *)
(* merge threads wrote them last.                                           *)
THEOREM RecordsAreTrueHolds == Spec => []RecordsAreTrue
<1>1. Init => Typed /\ DeployInv
  BY InitTyped, InitDeploy, ConstantsAssumption
<1>2. Typed /\ DeployInv /\ [Next]_vars => (Typed /\ DeployInv)'
  BY NextTyped, NextDeploy
<1>3. DeployInv => RecordsAreTrue
  BY DEF DeployInv, RecordsAreTrue
<1> QED BY <1>1, <1>2, <1>3, PTL DEF Spec

-----------------------------------------------------------------------------
(* The service implements ReleaseContract.                                  *)

(* The abstract state changes in three places only. *)
LEMMA ForgeSteps ==
    ASSUME Typed, [Next]_vars,
           \A c \in Calls : ~MergeCall(c) /\ ~DeployDispatch(c)
    PROVE  UNCHANGED <<prMerged, deploys>>
<1> USE DEF forge
<1>1. ASSUME NEW c \in Calls, ThreadDefs(c) PROVE UNCHANGED <<prMerged, deploys>>
  <2> USE DEF GraphMovesTo, SetMergeStatus, SetDeployStatus
  <2>1. CASE GraphStep(c) \/ ExecutorStep(c) \/ ExecFault(c)
    BY <2>1 DEF GraphStep, GraphJudge, GraphCleanup, ExecutorStep, ExecStart, ExecInvoke,
       ExecValidatorFailed, ExecPersist, ExecGovern, ExecStatus, ExecRegistry, ExecFailStatus,
       ExecFailRegistry, ExecFault
  <2>2. CASE ResumerStep(c) \/ ThreadFault(c)
    BY <2>2 DEF ResumerStep, ResumeLoad, ResumeAnswer, ResumeResult, ResumeGovern, ResumeStatus,
       ResumeRegistry, RetestDies, ThreadFault
  <2>3. CASE MergerStep(c)
    BY <2>3 DEF MergerStep, MergeStart, MergeRecord, DeployStart, DeployRecord
  <2> QED BY <1>1, <2>1, <2>2, <2>3, ThreadStepKinds
<1>2. ASSUME NEW c \in Calls, HandlerStep(c) \/ HandlerFault(c)
      PROVE  UNCHANGED <<prMerged, deploys>>
  BY <1>2, HandlerTouchesItself
<1> QED BY <1>1, <1>2 DEF Next, Receive, Restart, Finished, ThreadDefs, vars

LEMMA NextContract ==
    Typed /\ HumanInv /\ DeployInv /\ DeployInv' /\ [Next]_vars => [Contract!Next]_(Contract!vars)
<1> SUFFICES ASSUME Typed, HumanInv, DeployInv, DeployInv', [Next]_vars
             PROVE  [Contract!Next]_(Contract!vars)
  OBVIOUS
<1>0. HumanApproved => HumanApproved'
  BY GovernanceGrows, RowsStay
<1> USE DEF Contract!Next, Contract!vars, Contract!Approve, Contract!Merge, Contract!Deploy
<1>1. ASSUME NEW c \in Calls, MergeCall(c) PROVE [Contract!Next]_(Contract!vars)
  <2>1. HumanApproved
    BY <1>1, PcFacts DEF MergeCall, HumanInv, NothingApproved, CarriesApproval
  <2>2. governance' = governance /\ deploys' = deploys
    BY <1>1 DEF MergeCall
  <2>3. HumanApproved' = HumanApproved
    BY <2>2 DEF HumanApproved
  <2>4. prMerged' = prMerged \/ (~prMerged /\ prMerged' = TRUE)
    BY <1>1 DEF MergeCall, Typed, TypeOK
  <2> QED BY <2>1, <2>2, <2>3, <2>4
<1>2. ASSUME NEW c \in Calls, DeployDispatch(c) PROVE [Contract!Next]_(Contract!vars)
  <2>1. prMerged /\ deploys = 0
    BY <1>2 DEF DeployDispatch, DeployInv, WinnerPcs
  <2>2. governance' = governance /\ prMerged' = prMerged /\ deploys' \in {deploys, deploys + 1}
    BY <1>2 DEF DeployDispatch
  <2>3. HumanApproved' = HumanApproved
    BY <2>2 DEF HumanApproved
  <2> QED BY <2>1, <2>2, <2>3
<1>3. CASE \A c \in Calls : ~MergeCall(c) /\ ~DeployDispatch(c)
  <2>1. UNCHANGED <<prMerged, deploys>>
    BY <1>3, ForgeSteps
  <2>2. HumanApproved \in BOOLEAN /\ HumanApproved' \in BOOLEAN
    BY DEF HumanApproved
  <2> QED BY <1>0, <2>1, <2>2
<1> QED BY <1>1, <1>2, <1>3

(* The service implements ReleaseContract: approval, then merge, then one   *)
(* deployment, each once and in this order.                                 *)
THEOREM ContractImplemented == Spec => ImplementsContract
<1>1. Init => Typed /\ HumanInv /\ DeployInv /\ Contract!Init
  <2>1. Init => NothingApproved
    BY PcFacts DEF Init, NothingApproved, CarriesApproval, GovernedPcs, NoRun, Saved
  <2>2. Init => Contract!Init
    BY DEF Init, Contract!Init, HumanApproved
  <2> QED BY <2>1, <2>2, InitTyped, InitDeploy, ConstantsAssumption DEF HumanInv
<1>2. Typed /\ HumanInv /\ DeployInv /\ [Next]_vars => (Typed /\ HumanInv /\ DeployInv)'
  BY NextTyped, NextHuman, NextDeploy
<1>3. Typed /\ HumanInv /\ DeployInv /\ [Next]_vars => [Contract!Next]_(Contract!vars)
  BY NextDeploy, NextContract
<1> QED BY <1>1, <1>2, <1>3, PTL DEF Spec, ImplementsContract, Contract!Spec

-----------------------------------------------------------------------------
(* COMPLETED has a decision behind it.                                      *)

(* A step of call c that writes COMPLETED only when c was about to, and     *)
(* brings c no nearer to it without a row.                                  *)
LEMMA StepDecided ==
    ASSUME DecidedInv, [Next]_vars, NEW c \in Calls,
           \A d \in Calls \ {c} : /\ op'[d] = op[d] /\ hpc'[d] = hpc[d]
                                 /\ tpc'[d] = tpc[d] /\ run'[d] = run[d],
           status' = "COMPLETED" => status = "COMPLETED" \/ WillComplete(c),
           WillComplete(c)' => WillComplete(c) \/ Decided'
    PROVE  DecidedInv'
<1>1. Decided => Decided'
  BY GovernanceGrows, RowsStay
<1>2. \A d \in Calls \ {c} : WillComplete(d)' => WillComplete(d)
  BY DEF WillComplete
<1> QED BY <1>1, <1>2 DEF DecidedInv

LEMMA HandlerDecided ==
    ASSUME Typed, DecidedInv, [Next]_vars, NEW c \in Calls, HandlerStep(c) \/ HandlerFault(c)
    PROVE  DecidedInv'
<1> USE DEF Typed, TypeOK, row, threads
<1>0. InPlace(c)
  BY DEF PlacesInv
<1>1. SUFFICES /\ status' = "COMPLETED" => status = "COMPLETED" \/ WillComplete(c)
               /\ WillComplete(c)' => WillComplete(c) \/ Decided'
  BY HandlerTouchesItself, StepDecided
<1>2. CASE HandlerGovern(c)
  <2> DEFINE g == [call |-> c, by |-> "human", decision |-> Recorded[op[c]]]
  <2>1. g \in governance' /\ g.decision = Recorded[op[c]]
    BY <1>2 DEF HandlerGovern
  <2> HIDE DEF g
  <2>2. op[c] \in Deciders => Decided'
    BY <2>1, RecordedFacts DEF Decided, Deciders, Approvers
  <2> QED BY <1>2, <2>2 DEF HandlerGovern, WillComplete
<1>3. CASE HandlerStatus(c)
  <2>1. op[c] \in Ops /\ hpc[c] = "status"
    BY <1>0, <1>3 DEF HandlerStatus, InPlace, GovernedPcs
  <2>2. StatusSetBy(op[c]) = "COMPLETED" => op[c] \in Deciders
    BY <2>1 DEF StatusSetBy, Ops, Deciders, Approvers
  <2> QED BY <1>3, <2>1, <2>2 DEF HandlerStatus, WillComplete, GovernedPcs
<1>4. CASE HandlerRegistry(c) \/ HandlerFault(c)
  BY <1>4, RejectSpawns DEF HandlerRegistry, HandlerFault, WillComplete, GovernedPcs
<1>5. CASE HandlerSpawn(c)
  <2>1. FirstThreadPc(op[c]) \notin {"x_status", "r_status"}
    BY DEF FirstThreadPc
  <2> QED BY <1>5, <2>1 DEF HandlerSpawn, WillComplete, GovernedPcs
<1> QED BY <1>2, <1>3, <1>4, <1>5 DEF HandlerStep

LEMMA ThreadDecided ==
    ASSUME Typed, DecidedInv, [Next]_vars, NEW c \in Calls, ThreadDefs(c)
    PROVE  DecidedInv'
<1> USE DEF Typed, TypeOK, row, Goto, Leave, GraphMovesTo, SetMergeStatus, SetDeployStatus
<1>0. InPlace(c)
  BY DEF PlacesInv
<1>1. SUFFICES /\ status' = "COMPLETED" => status = "COMPLETED" \/ WillComplete(c)
               /\ WillComplete(c)' => WillComplete(c) \/ Decided'
  BY ThreadTouchesItself, StepDecided
<1>2. CASE ExecGovern(c)
  <2>1. CASE tpc[c] = "x_govern" /\ run[c].judge \in {"APPROVE", "REJECT"}
    <3> DEFINE g == [call |-> c, by |-> "judge", decision |-> run[c].judge]
    <3>1. g \in governance' /\ g.decision \in {"APPROVE", "REJECT"}
      BY <1>2, <2>1 DEF ExecGovern
    <3>2. Decided' BY <3>1 DEF Decided
    <3> QED BY <1>2, <3>2 DEF ExecGovern
  <2>2. CASE ~(tpc[c] = "x_govern" /\ run[c].judge \in {"APPROVE", "REJECT"})
    BY <1>2, <2>2 DEF ExecGovern, WillComplete
  <2> QED BY <2>1, <2>2
<1>3. CASE ExecStatus(c)
  BY <1>3 DEF ExecStatus, Outcome, WillComplete
<1>4. CASE ResumeGovern(c)
  <2> DEFINE g == [call |-> c, by |-> "graph", decision |-> run[c].human]
  <2>1. g \in governance' /\ g.decision \in {"APPROVE", "REJECT"}
    BY <1>0, <1>4 DEF ResumeGovern, InPlace
  <2>2. Decided' BY <2>1 DEF Decided
  <2> QED BY <1>4, <2>2 DEF ResumeGovern
<1>5. CASE ResumeStatus(c)
  BY <1>5 DEF ResumeStatus, WillComplete
<1>6. CASE GraphStep(c)
  BY <1>6 DEF GraphStep, GraphJudge, GraphCleanup, InGraph, WillComplete
<1>7. CASE ExecStart(c) \/ ExecInvoke(c) \/ ExecValidatorFailed(c) \/ ExecPersist(c)
           \/ ExecRegistry(c) \/ ExecFailStatus(c) \/ ExecFailRegistry(c) \/ ExecFault(c)
  BY <1>7 DEF ExecStart, ExecInvoke, ExecValidatorFailed, ExecPersist, ExecRegistry,
     ExecFailStatus, ExecFailRegistry, ExecFault, WillComplete
<1>8. CASE ResumeLoad(c) \/ ResumeAnswer(c) \/ ResumeResult(c) \/ ResumeRegistry(c) \/ RetestDies(c)
  BY <1>8 DEF ResumeLoad, ResumeAnswer, ResumeResult, ResumeRegistry, RetestDies, WillComplete
<1>9. CASE MergerStep(c) \/ ThreadFault(c)
  BY <1>9 DEF MergerStep, MergeStart, MergeCall, MergeRecord, DeployStart, DeployDispatch,
     DeployRecord, ThreadFault, WillComplete
<1> QED BY <1>2, <1>3, <1>4, <1>5, <1>6, <1>7, <1>8, <1>9, ThreadStepKinds
        DEF ExecutorStep, ResumerStep

LEMMA NextDecided == Typed /\ DecidedInv /\ [Next]_vars => DecidedInv'
<1> SUFFICES ASSUME Typed, DecidedInv, [Next]_vars PROVE DecidedInv'
  OBVIOUS
<1>1. ASSUME NEW c \in Calls, NEW o \in Endpoints, Receive(c, o) PROVE DecidedInv'
  <2>1. WillComplete(c)' => WillComplete(c) \/ (o \in {"start", "resume"} /\ op'[c] = o)
    BY <1>1 DEF Receive, WillComplete, GovernedPcs, threads, Typed, TypeOK
  <2>2. WillComplete(c)' => WillComplete(c)
    BY <1>1, <2>1 DEF Receive, WillComplete, Deciders, Approvers, threads
  <2> QED BY <1>1, <2>2, StepDecided DEF Receive, row, threads, Typed, TypeOK
<1>2. CASE Restart
  <2>1. \A d \in Calls : ~WillComplete(d)'
    BY <1>2 DEF Restart, WillComplete, GovernedPcs
  <2>2. status' = status /\ (Decided => Decided')
    BY <1>2, GovernanceGrows, RowsStay DEF Restart, row
  <2> QED BY <2>1, <2>2 DEF DecidedInv
<1>3. CASE UNCHANGED vars
  BY <1>3 DEF vars, row, DecidedInv, WillComplete, Decided
<1> QED BY <1>1, <1>2, <1>3, HandlerDecided, ThreadDecided DEF Next, Finished, ThreadDefs

(* COMPLETED is never written ahead of the decision it stands for, also     *)
(* when an exception or a restart falls between the two commits.            *)
THEOREM CompletedIsDecidedHolds == Spec => []CompletedIsDecided
<1>1. Init => Typed /\ DecidedInv
  <2>1. Init => DecidedInv
    BY DEF Init, DecidedInv, WillComplete, GovernedPcs
  <2> QED BY <2>1, InitTyped, ConstantsAssumption
<1>2. Typed /\ DecidedInv /\ [Next]_vars => (Typed /\ DecidedInv)'
  BY NextTyped, NextDecided
<1>3. DecidedInv => CompletedIsDecided
  BY DEF DecidedInv, Decided, CompletedIsDecided
<1> QED BY <1>1, <1>2, <1>3, PTL DEF Spec

(* A call that was not made yet asks for nothing: what Receive asks is new. *)
LEMMA NextUnasked == Typed /\ UnaskedInv /\ [Next]_vars => UnaskedInv'
<1> SUFFICES ASSUME Typed, UnaskedInv, [Next]_vars PROVE UnaskedInv'
  OBVIOUS
<1> USE DEF UnaskedInv, Typed, TypeOK
<1>1. ASSUME NEW c \in Calls, NEW o \in Endpoints, Receive(c, o) PROVE UnaskedInv'
  BY <1>1 DEF Receive
<1>2. ASSUME NEW c \in Calls, HandlerStep(c) \/ HandlerFault(c) PROVE UnaskedInv'
  BY <1>2 DEF HandlerStep, HandlerGovern, HandlerStatus, HandlerRegistry, HandlerSpawn, HandlerFault
<1>3. ASSUME NEW c \in Calls, ThreadDefs(c) PROVE UnaskedInv'
  BY <1>3, ThreadTouchesItself
<1>4. CASE Restart
  BY <1>4 DEF Restart
<1>5. CASE UNCHANGED vars
  BY <1>5 DEF vars
<1> QED BY <1>1, <1>2, <1>3, <1>4, <1>5 DEF Next, Finished, ThreadDefs

(* The parts together: what TLC checks on an instance holds of every one.  *)
THEOREM IInvHolds == Spec => []IInv
<1>1. Init => IInv
  <2>1. Init => NothingApproved
    BY PcFacts DEF Init, NothingApproved, CarriesApproval, GovernedPcs, NoRun, Saved
  <2>2. Init => AuditInv
    BY PcFacts DEF Init, AuditInv, NeedsOwnRow, GovernedPcs
  <2>3. Init => DecidedInv
    BY DEF Init, DecidedInv, WillComplete, GovernedPcs
  <2>4. Init => UnaskedInv
    BY DEF Init, UnaskedInv
  <2> QED BY <2>1, <2>2, <2>3, <2>4, InitTyped, InitDeploy, ConstantsAssumption
          DEF IInv, HumanInv, Typed
<1>2. IInv /\ [Next]_vars => IInv'
  BY NextTyped, NextUnasked, NextHuman, NextAudited, NextDeploy, NextDecided DEF IInv, Typed
<1> QED BY <1>1, <1>2, PTL DEF Spec
-----------------------------------------------------------------------------
(* Whatever shows that something is under way has somebody at work on it.   *)

(* No step of a handler or a thread that works counts as a disturbance. *)
LEMMA StepsDisturbNothing ==
    ASSUME NEW c \in Calls, HandlerStep(c) \/ ThreadStep(c)
    PROVE  UNCHANGED <<faults, restarts>>
<1> USE DEF setting, GraphMovesTo, SetMergeStatus, SetDeployStatus
<1>1. CASE GraphStep(c) \/ ExecutorStep(c)
  BY <1>1 DEF GraphStep, GraphJudge, GraphCleanup, ExecutorStep, ExecStart, ExecInvoke,
     ExecValidatorFailed, ExecPersist, ExecGovern, ExecStatus, ExecRegistry, ExecFailStatus,
     ExecFailRegistry
<1>2. CASE ResumerStep(c) \/ MergerStep(c)
  BY <1>2 DEF ResumerStep, ResumeLoad, ResumeAnswer, ResumeResult, ResumeGovern, ResumeStatus,
     ResumeRegistry, RetestDies, MergerStep, MergeStart, MergeCall, MergeRecord, DeployStart,
     DeployDispatch, DeployRecord
<1>3. CASE HandlerStep(c)
  BY <1>3 DEF HandlerStep, HandlerGovern, HandlerStatus, HandlerRegistry, HandlerSpawn
<1> QED BY <1>1, <1>2, <1>3 DEF ThreadStep

(* Faults and restarts are counted up: what is undisturbed now always was. *)
LEMMA FaultsGrow ==
    ASSUME Typed, [Next]_vars
    PROVE  /\ faults' = 0 => /\ faults = 0
                             /\ \A c \in Calls : ~HandlerFault(c) /\ ~ExecFault(c) /\ ~ThreadFault(c)
           /\ restarts' = 0 => restarts = 0 /\ ~Restart
<1> USE DEF Typed, TypeOK
<1>1. faults \in Nat /\ restarts \in Nat
  BY ConstantsAssumption DEF ConstantsAssumption
<1>2. ASSUME NEW c \in Calls, HandlerFault(c) \/ ExecFault(c) \/ ThreadFault(c)
      PROVE  faults' = faults + 1 /\ restarts' = restarts
  BY <1>2 DEF HandlerFault, ExecFault, ThreadFault
<1>3. Restart => faults' = faults /\ restarts' = restarts + 1
  BY DEF Restart
<1>4. CASE ~Restart /\ \A c \in Calls : ~HandlerFault(c) /\ ~ExecFault(c) /\ ~ThreadFault(c)
  <2>1. UNCHANGED <<faults, restarts>>
    BY <1>4, StepsDisturbNothing DEF Next, Receive, Finished, vars, setting
  <2> QED BY <1>4, <2>1
<1> QED BY <1>1, <1>2, <1>3, <1>4

LEMMA DisturbanceStays ==
    ASSUME Typed, [Next]_vars, Undisturbed'
    PROVE  /\ Undisturbed /\ ~Restart
           /\ \A c \in Calls : ~HandlerFault(c) /\ ~ExecFault(c) /\ ~ThreadFault(c)
BY FaultsGrow DEF Undisturbed

(* A step of call c that leaves a RUNNING row and the other calls alone     *)
(* keeps somebody at work on it, unless c was the one and gives up.         *)
LEMMA StepWorkedOn ==
    ASSUME RunningIsWorkedOn, Undisturbed, NEW c \in Calls,
           \A d \in Calls \ {c} : /\ op'[d] = op[d] /\ hpc'[d] = hpc[d] /\ tpc'[d] = tpc[d],
           op'[c] # "retest" => op[c] # "retest",
           status' = "RUNNING" /\ op'[c] # "retest"
               => Settling(c)' \/ (status = "RUNNING" /\ ~Settling(c))
    PROVE  RunningIsWorkedOn'
<1> SUFFICES ASSUME status' = "RUNNING", \A d \in Calls : op'[d] # "retest"
             PROVE  \E d \in Calls : Settling(d)'
  BY DEF RunningIsWorkedOn
<1>1. CASE Settling(c)'
  BY <1>1
<1>2. CASE status = "RUNNING" /\ ~Settling(c)
  <2>1. PICK d \in Calls : Settling(d)
    BY <1>2 DEF RunningIsWorkedOn
  <2>2. Settling(d)'
    BY <1>2, <2>1 DEF Settling
  <2> QED BY <2>2
<1> QED BY <1>1, <1>2

LEMMA HandlerWorkedOn ==
    ASSUME Typed, RunningIsWorkedOn, Undisturbed, NEW c \in Calls, HandlerStep(c)
    PROVE  RunningIsWorkedOn'
<1> USE DEF Typed, TypeOK, row, threads, Settling
<1>0. InPlace(c)
  BY DEF PlacesInv
<1>1. op' = op /\ \A d \in Calls \ {c} : hpc'[d] = hpc[d] /\ tpc'[d] = tpc[d]
  BY HandlerTouchesItself
<1>2. SUFFICES status' = "RUNNING" /\ op[c] # "retest"
                   => Settling(c)' \/ (status = "RUNNING" /\ ~Settling(c))
  BY <1>1, StepWorkedOn
<1>3. CASE HandlerGovern(c)
  BY <1>0, <1>3 DEF HandlerGovern, InPlace
<1>4. CASE HandlerStatus(c)
  BY <1>0, <1>4 DEF HandlerStatus, StatusSetBy, InPlace
<1>5. CASE HandlerRegistry(c)
  BY <1>0, <1>5 DEF HandlerRegistry, InPlace
<1>6. CASE HandlerSpawn(c)
  BY <1>0, <1>6 DEF HandlerSpawn, FirstThreadPc, InPlace
<1> QED BY <1>3, <1>4, <1>5, <1>6 DEF HandlerStep

LEMMA ThreadWorkedOn ==
    ASSUME Typed, RunningIsWorkedOn, Undisturbed, NEW c \in Calls, ThreadStep(c)
    PROVE  RunningIsWorkedOn'
<1> USE DEF Typed, TypeOK, row, Goto, Leave, GraphMovesTo, SetMergeStatus, SetDeployStatus, Settling
<1>0. InPlace(c)
  BY DEF PlacesInv
<1>1. op' = op /\ hpc' = hpc /\ \A d \in Calls \ {c} : tpc'[d] = tpc[d]
  BY ThreadTouchesItself DEF ThreadDefs
<1>2. SUFFICES status' = "RUNNING" => Settling(c)' \/ (status = "RUNNING" /\ ~Settling(c))
  BY <1>1, StepWorkedOn
<1>3. CASE GraphStep(c)
  BY <1>3 DEF GraphStep, GraphJudge, GraphCleanup
<1>4. CASE ExecutorStep(c)
  BY <1>0, <1>4 DEF ExecutorStep, ExecStart, ExecInvoke, ExecValidatorFailed, ExecPersist,
     ExecGovern, ExecStatus, ExecRegistry, ExecFailStatus, ExecFailRegistry, Outcome, InPlace
<1>5. CASE ResumerStep(c)
  BY <1>0, <1>5 DEF ResumerStep, ResumeLoad, ResumeAnswer, ResumeResult, ResumeGovern,
     ResumeStatus, ResumeRegistry, RetestDies, InPlace
<1>6. CASE MergerStep(c)
  BY <1>0, <1>6 DEF MergerStep, MergeStart, MergeCall, MergeRecord, DeployStart, DeployDispatch,
     DeployRecord, InPlace
<1> QED BY <1>3, <1>4, <1>5, <1>6 DEF ThreadStep

LEMMA NextWorkedOn ==
    Typed /\ UnaskedInv /\ RunningIsWorkedOn /\ [Next]_vars => RunningIsWorkedOn'
<1> SUFFICES ASSUME Typed, UnaskedInv, RunningIsWorkedOn, [Next]_vars, Undisturbed'
             PROVE  RunningIsWorkedOn'
  BY DEF RunningIsWorkedOn
<1>0. Undisturbed
  BY DisturbanceStays
<1>1. ASSUME NEW c \in Calls, NEW o \in Endpoints, Receive(c, o) PROVE RunningIsWorkedOn'
  <2>1. /\ status' = status /\ hpc[c] = "idle" /\ op[c] = None /\ tpc[c] = None
        /\ \A d \in Calls \ {c} : op'[d] = op[d] /\ hpc'[d] = hpc[d] /\ tpc'[d] = tpc[d]
    BY <1>1 DEF Receive, UnaskedInv, Typed, TypeOK, PlacesInv, InPlace, row, threads
  <2>2. ~Settling(c)
    BY <2>1 DEF Settling
  <2> QED BY <1>0, <2>1, <2>2, StepWorkedOn
<1>2. CASE UNCHANGED vars
  BY <1>2 DEF vars, row, RunningIsWorkedOn, Undisturbed, setting, Settling
<1> QED BY <1>0, <1>1, <1>2, HandlerWorkedOn, ThreadWorkedOn, DisturbanceStays DEF Next, Finished

(* A RUNNING row has somebody at work on it: the thread that will settle it *)
(* is never missing while nothing broke, whatever starts, re-runs and       *)
(* decisions overlap.                                                       *)
THEOREM RunningIsWorkedOnHolds == Spec => []RunningIsWorkedOn
<1>1. Init => Typed /\ UnaskedInv /\ RunningIsWorkedOn
  BY InitTyped, ConstantsAssumption DEF Init, UnaskedInv, RunningIsWorkedOn
<1>2. Typed /\ UnaskedInv /\ RunningIsWorkedOn /\ [Next]_vars
         => (Typed /\ UnaskedInv /\ RunningIsWorkedOn)'
  BY NextTyped, NextUnasked, NextWorkedOn
<1> QED BY <1>1, <1>2, PTL DEF Spec
-----------------------------------------------------------------------------
(* A merge or a deployment that is pending is in some thread's hands.       *)

MergePlaces    == {"m_call", "m_success", "m_failed"}
DispatchPlaces == {"m_dispatch", "m_triggered", "m_dfailed"}

LEMMA StepPending ==
    ASSUME PendingIsUnderWay, Undisturbed, NEW c \in Calls,
           \A d \in Calls \ {c} : tpc'[d] = tpc[d],
           mergeStatus' = "pending"
               => tpc'[c] \in MergePlaces \/ (mergeStatus = "pending" /\ tpc[c] \notin MergePlaces),
           deployStatus' = "pending"
               => tpc'[c] \in DispatchPlaces
                  \/ (deployStatus = "pending" /\ tpc[c] \notin DispatchPlaces)
    PROVE  PendingIsUnderWay'
<1>1. ASSUME mergeStatus' = "pending" PROVE \E d \in Calls : tpc'[d] \in MergePlaces
  BY <1>1 DEF PendingIsUnderWay, MergePlaces
<1>2. ASSUME deployStatus' = "pending" PROVE \E d \in Calls : tpc'[d] \in DispatchPlaces
  BY <1>2 DEF PendingIsUnderWay, DispatchPlaces
<1> QED BY <1>1, <1>2 DEF PendingIsUnderWay, MergePlaces, DispatchPlaces

LEMMA NextPending == Typed /\ PendingIsUnderWay /\ [Next]_vars => PendingIsUnderWay'
<1> SUFFICES ASSUME Typed, PendingIsUnderWay, [Next]_vars, Undisturbed'
             PROVE  PendingIsUnderWay'
  BY DEF PendingIsUnderWay
<1>0. Undisturbed
  BY DisturbanceStays
<1> USE DEF MergePlaces, DispatchPlaces
<1>1. ASSUME NEW c \in Calls, NEW o \in Endpoints, Receive(c, o) PROVE PendingIsUnderWay'
  BY <1>1 DEF Receive, PendingIsUnderWay, Undisturbed, row, threads, setting
<1>2. ASSUME NEW c \in Calls, HandlerStep(c) PROVE PendingIsUnderWay'
  <2>1. UNCHANGED <<mergeStatus, deployStatus>> /\ \A d \in Calls \ {c} : tpc'[d] = tpc[d]
    BY <1>2, HandlerTouchesItself
  <2>2. tpc'[c] = tpc[c] \/ (hpc[c] = "spawn" /\ tpc[c] = None)
    BY <1>2 DEF HandlerStep, HandlerGovern, HandlerStatus, HandlerRegistry, HandlerSpawn, threads,
       Typed, PlacesInv, InPlace
  <2> QED BY <1>0, <2>1, <2>2, StepPending
<1>3. ASSUME NEW c \in Calls, ThreadStep(c) PROVE PendingIsUnderWay'
  <2> USE DEF Typed, TypeOK, row, Goto, Leave, GraphMovesTo, SetMergeStatus, SetDeployStatus
  <2>1. \A d \in Calls \ {c} : tpc'[d] = tpc[d]
    BY <1>3, ThreadTouchesItself DEF ThreadDefs
  <2>2. CASE GraphStep(c) \/ ExecutorStep(c) \/ ResumerStep(c)
    <3>1. UNCHANGED <<mergeStatus, deployStatus>> /\ tpc[c] \notin MergerPcs
      <4>1. CASE GraphStep(c) \/ ExecutorStep(c)
        BY <4>1, PcFacts DEF GraphStep, GraphJudge, GraphCleanup, InGraph, ExecutorStep, ExecStart,
           ExecInvoke, ExecValidatorFailed, ExecPersist, ExecGovern, ExecStatus, ExecRegistry,
           ExecFailStatus, ExecFailRegistry
      <4>2. CASE ResumerStep(c)
        BY <4>2, PcFacts DEF ResumerStep, ResumeLoad, ResumeAnswer, ResumeResult, ResumeGovern,
           ResumeStatus, ResumeRegistry, RetestDies
      <4> QED BY <2>2, <4>1, <4>2
    <3> QED BY <1>0, <2>1, <3>1, PcFacts, StepPending
  <2>3. CASE MergerStep(c)
    <3>1. mergeStatus' = "pending" => tpc'[c] \in MergePlaces
                                      \/ (mergeStatus = "pending" /\ tpc[c] \notin MergePlaces)
      BY <2>3 DEF MergerStep, MergeStart, MergeCall, MergeRecord, DeployStart, DeployDispatch,
         DeployRecord
    <3>2. deployStatus' = "pending" => tpc'[c] \in DispatchPlaces
                                      \/ (deployStatus = "pending" /\ tpc[c] \notin DispatchPlaces)
      BY <2>3 DEF MergerStep, MergeStart, MergeCall, MergeRecord, DeployStart, DeployDispatch,
         DeployRecord
    <3> QED BY <1>0, <2>1, <3>1, <3>2, StepPending
  <2> QED BY <1>3, <2>2, <2>3 DEF ThreadStep
<1>4. CASE UNCHANGED vars
  BY <1>4 DEF vars, row, threads, PendingIsUnderWay, Undisturbed, setting
<1> QED BY <1>1, <1>2, <1>3, <1>4, DisturbanceStays DEF Next, Finished

(* A pending merge_status or deploy_status has a thread that will replace   *)
(* it, although several threads write these columns in turn.                *)
THEOREM PendingIsUnderWayHolds == Spec => []PendingIsUnderWay
<1>1. Init => Typed /\ PendingIsUnderWay
  BY InitTyped, ConstantsAssumption DEF Init, PendingIsUnderWay
<1>2. Typed /\ PendingIsUnderWay /\ [Next]_vars => (Typed /\ PendingIsUnderWay)'
  BY NextTyped, NextPending
<1> QED BY <1>1, <1>2, PTL DEF Spec

-----------------------------------------------------------------------------
(* No approval is lost on its way to the merge.                             *)

LEMMA MergeCallersGrow ==
    ASSUME Typed, [Next]_vars PROVE mergeCallers \subseteq mergeCallers'
<1> USE DEF forge
<1>1. ASSUME NEW c \in Calls, ThreadDefs(c) PROVE mergeCallers \subseteq mergeCallers'
  <2> USE DEF GraphMovesTo, SetMergeStatus, SetDeployStatus
  <2>1. CASE GraphStep(c) \/ ExecutorStep(c) \/ ExecFault(c)
    BY <2>1 DEF GraphStep, GraphJudge, GraphCleanup, ExecutorStep, ExecStart, ExecInvoke,
       ExecValidatorFailed, ExecPersist, ExecGovern, ExecStatus, ExecRegistry, ExecFailStatus,
       ExecFailRegistry, ExecFault
  <2>2. CASE ResumerStep(c) \/ ThreadFault(c)
    BY <2>2 DEF ResumerStep, ResumeLoad, ResumeAnswer, ResumeResult, ResumeGovern, ResumeStatus,
       ResumeRegistry, RetestDies, ThreadFault
  <2>3. CASE MergerStep(c)
    BY <2>3 DEF MergerStep, MergeStart, MergeCall, MergeRecord, DeployStart, DeployDispatch,
       DeployRecord
  <2> QED BY <1>1, <2>1, <2>2, <2>3, ThreadStepKinds
<1>2. ASSUME NEW c \in Calls, HandlerStep(c) \/ HandlerFault(c)
      PROVE  mergeCallers \subseteq mergeCallers'
  BY <1>2, HandlerTouchesItself
<1> QED BY <1>1, <1>2 DEF Next, Receive, Restart, Finished, ThreadDefs, vars

(* Rows appear in governance_actions with the call on its way to the merge, *)
(* and a call on its way gets there.                                        *)
LEMMA StepNoApprovalLost ==
    ASSUME Typed, NoApprovalLost, Undisturbed, AutoMerge, [Next]_vars, NEW c \in Calls,
           \A d \in Calls \ {c} : /\ op'[d] = op[d] /\ hpc'[d] = hpc[d]
                                 /\ tpc'[d] = tpc[d] /\ run'[d] = run[d],
           ToTheMerge(c) => ToTheMerge(c)' \/ c \in mergeCallers',
           \A g \in governance' \ governance :
               MergesItself(g) => g.call = c /\ ToTheMerge(c)'
    PROVE  NoApprovalLost'
<1> SUFFICES ASSUME NEW g \in governance', MergesItself(g)
             PROVE  g.call \in mergeCallers' \/ ToTheMerge(g.call)'
  BY DEF NoApprovalLost, MergesItself
<1>1. CASE g \in governance
  <2>1. g.call \in Calls
    BY <1>1 DEF Typed, TypeOK, GovernanceRow
  <2>2. g.call \in mergeCallers \/ ToTheMerge(g.call)
    BY <1>1 DEF NoApprovalLost
  <2>3. mergeCallers \subseteq mergeCallers'
    BY MergeCallersGrow
  <2>4. CASE g.call = c
    BY <2>2, <2>3, <2>4
  <2>5. CASE g.call # c
    <3>1. ToTheMerge(g.call) => ToTheMerge(g.call)'
      BY <2>1, <2>5 DEF ToTheMerge
    <3> QED BY <2>2, <2>3, <3>1
  <2> QED BY <2>4, <2>5
<1>2. CASE g \notin governance
  BY <1>2
<1> QED BY <1>1, <1>2

LEMMA HandlerNoApprovalLost ==
    ASSUME Typed, NoApprovalLost, Undisturbed, AutoMerge, [Next]_vars,
           NEW c \in Calls, HandlerStep(c)
    PROVE  NoApprovalLost'
<1> USE DEF Typed, TypeOK, threads
<1>0. InPlace(c)
  BY DEF PlacesInv
<1>1. SUFFICES /\ ToTheMerge(c) => ToTheMerge(c)'
               /\ \A g \in governance' \ governance : MergesItself(g) => g.call = c /\ ToTheMerge(c)'
  BY HandlerTouchesItself, StepNoApprovalLost
<1>2. CASE HandlerGovern(c)
  <2>1. op[c] \in DOMAIN Recorded /\ hpc'[c] = "status" /\ op' = op
    BY <1>0, <1>2 DEF HandlerGovern, InPlace
  <2>2. ASSUME NEW g \in governance' \ governance, MergesItself(g)
        PROVE  g.call = c /\ op[c] = "release_approve"
    <3>1. g = [call |-> c, by |-> "human", decision |-> Recorded[op[c]]]
      BY <1>2 DEF HandlerGovern
    <3>2. g.call = c /\ Recorded[op[c]] = "RELEASE_MANAGER_APPROVE"
      BY <2>2, <3>1 DEF MergesItself
    <3> QED BY <2>1, <3>2, RecordedFacts
  <2> QED BY <1>2, <2>1, <2>2 DEF HandlerGovern, ToTheMerge
<1>3. CASE HandlerStatus(c) \/ HandlerRegistry(c)
  BY <1>3 DEF HandlerStatus, HandlerRegistry, ToTheMerge
<1>4. CASE HandlerSpawn(c)
  BY <1>0, <1>4 DEF HandlerSpawn, FirstThreadPc, ToTheMerge, InPlace
<1> QED BY <1>2, <1>3, <1>4 DEF HandlerStep

LEMMA ThreadNoApprovalLost ==
    ASSUME Typed, NoApprovalLost, Undisturbed, AutoMerge, [Next]_vars,
           NEW c \in Calls, ThreadStep(c)
    PROVE  NoApprovalLost'
<1> USE DEF Typed, TypeOK, Goto, Leave, GraphMovesTo, SetMergeStatus, SetDeployStatus, forge
<1>0. InPlace(c)
  BY DEF PlacesInv
<1>1. SUFFICES /\ ToTheMerge(c) => ToTheMerge(c)' \/ c \in mergeCallers'
               /\ \A g \in governance' \ governance : MergesItself(g) => g.call = c /\ ToTheMerge(c)'
  BY ThreadTouchesItself, StepNoApprovalLost DEF ThreadDefs
<1>2. hpc' = hpc /\ op' = op /\ ~(hpc[c] \in {"status", "registry", "spawn"} /\ tpc[c] # None)
  BY <1>0, ThreadTouchesItself DEF ThreadDefs, InPlace
<1>3. CASE GraphStep(c)
  BY <1>2, <1>3 DEF GraphStep, GraphJudge, GraphCleanup, InGraph, ToTheMerge
<1>4. CASE ExecutorStep(c)
  <2>1. ~ToTheMerge(c)
    BY <1>2, <1>4 DEF ToTheMerge, ExecutorStep, ExecStart, ExecInvoke, ExecValidatorFailed,
       ExecPersist, ExecGovern, ExecStatus, ExecRegistry, ExecFailStatus, ExecFailRegistry
  <2>2. \A g \in governance' \ governance : g.by = "judge"
    BY <1>4 DEF ExecutorStep, ExecStart, ExecInvoke, ExecValidatorFailed, ExecPersist, ExecGovern,
       ExecStatus, ExecRegistry, ExecFailStatus, ExecFailRegistry
  <2> QED BY <2>1, <2>2 DEF MergesItself
<1>5. CASE ResumeGovern(c)
  <2>1. ~ToTheMerge(c)
    BY <1>2, <1>5 DEF ResumeGovern, ToTheMerge
  <2>2. ASSUME NEW g \in governance' \ governance, MergesItself(g)
        PROVE  g.call = c /\ run[c].human = "APPROVE"
    <3>1. g = [call |-> c, by |-> "graph", decision |-> run[c].human]
      BY <1>5 DEF ResumeGovern
    <3> QED BY <2>2, <3>1 DEF MergesItself
  <2> QED BY <1>5, <2>1, <2>2 DEF ResumeGovern, ToTheMerge
<1>6. CASE ResumeLoad(c) \/ ResumeAnswer(c) \/ ResumeResult(c) \/ RetestDies(c)
  <2>1. ~ToTheMerge(c) /\ governance' = governance
    BY <1>2, <1>6 DEF ResumeLoad, ResumeAnswer, ResumeResult, RetestDies, ToTheMerge
  <2> QED BY <2>1
<1>7. CASE ResumeStatus(c) \/ ResumeRegistry(c)
  BY <1>2, <1>7 DEF ResumeStatus, ResumeRegistry, ToTheMerge
<1>8. CASE MergerStep(c)
  BY <1>2, <1>8 DEF MergerStep, MergeStart, MergeCall, MergeRecord, DeployStart, DeployDispatch,
     DeployRecord, ToTheMerge
<1> QED BY <1>3, <1>4, <1>5, <1>6, <1>7, <1>8 DEF ThreadStep, ResumerStep

LEMMA NextNoApprovalLost == Typed /\ NoApprovalLost /\ [Next]_vars => NoApprovalLost'
<1> SUFFICES ASSUME Typed, NoApprovalLost, [Next]_vars, Undisturbed', AutoMerge
             PROVE  NoApprovalLost'
  BY DEF NoApprovalLost
<1>0. Undisturbed
  BY DisturbanceStays
<1>1. ASSUME NEW c \in Calls, NEW o \in Endpoints, Receive(c, o) PROVE NoApprovalLost'
  <2>1. /\ governance' = governance
        /\ \A d \in Calls \ {c} : /\ op'[d] = op[d] /\ hpc'[d] = hpc[d]
                                 /\ tpc'[d] = tpc[d] /\ run'[d] = run[d]
    BY <1>1 DEF Receive, threads, Typed, TypeOK
  <2>2. ~ToTheMerge(c)
    BY <1>1 DEF Receive, ToTheMerge, Typed, PlacesInv, InPlace
  <2> QED BY <1>0, <2>1, <2>2, StepNoApprovalLost
<1>2. CASE UNCHANGED vars
  BY <1>2 DEF vars, threads, forge, setting, NoApprovalLost, Undisturbed, ToTheMerge
<1> QED BY <1>0, <1>1, <1>2, HandlerNoApprovalLost, ThreadNoApprovalLost, DisturbanceStays
        DEF Next, Finished

(* With automatic merge on, an approval on record has called merge_pr or is *)
(* on the way to it: whatever the other calls commit in between.            *)
THEOREM NoApprovalLostHolds == Spec => []NoApprovalLost
<1>1. Init => Typed /\ NoApprovalLost
  BY InitTyped, ConstantsAssumption DEF Init, NoApprovalLost
<1>2. Typed /\ NoApprovalLost /\ [Next]_vars => (Typed /\ NoApprovalLost)'
  BY NextTyped, NextNoApprovalLost
<1> QED BY <1>1, <1>2, PTL DEF Spec
-----------------------------------------------------------------------------
(* Row and registry agree when clients make one call after the other.       *)

(* A step of the call in progress: the others are not busy before and after *)
(* it, so that only what c leaves behind has to be looked at.               *)
LEMMA StepSequential ==
    ASSUME SequentialInv, NEW c \in Calls, \A d \in Calls : Busy(d) => d = c,
           \A d \in Calls \ {c} : hpc'[d] = hpc[d] /\ tpc'[d] = tpc[d],
           faults' = 0 => Consistent(c)' /\ (~Busy(c)' => Agree')
    PROVE  SequentialInv'
<1>1. \A d \in Calls \ {c} : ~Busy(d)'
  BY DEF Busy
<1>2. \A d \in Calls : ~Busy(d)' => Consistent(d)'
  BY PcFacts DEF Busy, Consistent
<1> QED BY <1>1, <1>2 DEF SequentialInv

LEMMA HandlerSequential ==
    ASSUME Typed, SequentialInv, [Next]_vars, NEW c \in Calls, HandlerStep(c) \/ HandlerFault(c)
    PROVE  SequentialInv'
<1> USE DEF Typed, TypeOK, row, threads, Consistent, Agree, Busy
<1>0. InPlace(c)
  BY DEF PlacesInv
<1>1. Busy(c)
  BY <1>0 DEF HandlerStep, HandlerGovern, HandlerStatus, HandlerRegistry, HandlerSpawn, HandlerFault
<1>2. \A d \in Calls : Busy(d) => d = c
  BY <1>1 DEF SequentialInv
<1>3. SUFFICES ASSUME faults' = 0 PROVE Consistent(c)' /\ (~Busy(c)' => Agree')
  BY <1>2, HandlerTouchesItself, StepSequential
<1>4. faults = 0 /\ ~HandlerFault(c)
  BY <1>3, FaultsGrow
<1>5. Consistent(c)
  BY <1>4 DEF SequentialInv
<1>6. CASE HandlerGovern(c)
  BY <1>0, <1>5, <1>6, PcFacts DEF HandlerGovern, InPlace
<1>7. CASE HandlerStatus(c)
  BY <1>0, <1>5, <1>7, PcFacts DEF HandlerStatus, InPlace
<1>8. CASE HandlerRegistry(c)
  BY <1>0, <1>5, <1>8, PcFacts DEF HandlerRegistry, InPlace
<1>9. CASE HandlerSpawn(c)
  <2>1. hpc'[c] = "done" /\ tpc'[c] = FirstThreadPc(op[c]) /\ UNCHANGED <<status, registry, op>>
    BY <1>9 DEF HandlerSpawn
  <2>2. CASE op[c] = "resume"
    BY <2>1, <2>2, PcFacts DEF FirstThreadPc
  <2>3. CASE op[c] # "resume"
    <3>1. Agree'
      BY <1>5, <1>9, <2>1, <2>3 DEF HandlerSpawn
    <3>2. FirstThreadPc(op[c]) \notin {"r_registry", "x_registry", "a_govern", "f_registry"}
      BY DEF FirstThreadPc
    <3> QED BY <2>1, <3>1, <3>2
  <2> QED BY <2>2, <2>3
<1> QED BY <1>4, <1>6, <1>7, <1>8, <1>9 DEF HandlerStep

LEMMA ThreadSequential ==
    ASSUME Typed, SequentialInv, [Next]_vars, NEW c \in Calls, ThreadDefs(c)
    PROVE  SequentialInv'
<1> USE DEF Typed, TypeOK, row, Goto, Leave, GraphMovesTo, SetMergeStatus, SetDeployStatus
<1>0. InPlace(c) /\ op' = op /\ hpc' = hpc
  BY ThreadTouchesItself DEF PlacesInv
<1>1. tpc[c] \notin {None, "done"}
  <2>1. CASE GraphStep(c) \/ ExecutorStep(c) \/ ExecFault(c)
    BY <2>1 DEF GraphStep, GraphJudge, GraphCleanup, InGraph, ExecutorStep, ExecStart, ExecInvoke,
       ExecValidatorFailed, ExecPersist, ExecGovern, ExecStatus, ExecRegistry, ExecFailStatus,
       ExecFailRegistry, ExecFault
  <2>2. CASE ResumerStep(c) \/ MergerStep(c) \/ ThreadFault(c)
    BY <2>2, PcFacts DEF ResumerStep, ResumeLoad, ResumeAnswer, ResumeResult, ResumeGovern,
       ResumeStatus, ResumeRegistry, RetestDies, MergerStep, MergeStart, MergeCall, MergeRecord,
       DeployStart, DeployDispatch, DeployRecord, ThreadFault
  <2> QED BY <2>1, <2>2, ThreadStepKinds
<1>2. hpc[c] = "done" /\ \A d \in Calls : Busy(d) => d = c
  BY <1>0, <1>1 DEF SequentialInv, Busy, InPlace
<1>3. SUFFICES ASSUME faults' = 0 PROVE Consistent(c)' /\ (~Busy(c)' => Agree')
  BY <1>2, ThreadTouchesItself, StepSequential
<1>4. faults = 0 /\ ~ExecFault(c) /\ ~ThreadFault(c)
  BY <1>3, FaultsGrow
<1>5. Consistent(c) /\ hpc'[c] = "done"
  BY <1>0, <1>2, <1>4 DEF SequentialInv
<1> USE DEF Consistent, Agree, Busy
<1>6. CASE GraphStep(c)
  BY <1>5, <1>6, PcFacts DEF GraphStep, GraphJudge, GraphCleanup, InGraph
<1>7. CASE ExecStart(c) \/ ExecInvoke(c) \/ ExecValidatorFailed(c) \/ ExecPersist(c)
  BY <1>5, <1>7, PcFacts DEF ExecStart, ExecInvoke, ExecValidatorFailed, ExecPersist
<1>8. CASE ExecGovern(c) \/ ExecStatus(c) \/ ExecFailStatus(c)
  BY <1>4, <1>5, <1>8, PcFacts DEF ExecGovern, ExecStatus, ExecFailStatus
<1>9. CASE ExecRegistry(c) \/ ExecFailRegistry(c)
  BY <1>5, <1>9, PcFacts DEF ExecRegistry, ExecFailRegistry
<1>10. CASE ResumeLoad(c) \/ ResumeAnswer(c) \/ ResumeResult(c) \/ RetestDies(c)
  BY <1>5, <1>10, PcFacts DEF ResumeLoad, ResumeAnswer, ResumeResult, RetestDies
<1>11. CASE ResumeGovern(c) \/ ResumeStatus(c) \/ ResumeRegistry(c)
  BY <1>5, <1>11, PcFacts DEF ResumeGovern, ResumeStatus, ResumeRegistry
<1>12. CASE MergerStep(c)
  <2>1. UNCHANGED <<status, registry>> /\ tpc[c] \in MergerPcs
        /\ tpc'[c] \in MergerPcs \cup {"done"}
    BY <1>12, PcFacts DEF MergerStep, MergeStart, MergeCall, MergeRecord, DeployStart,
       DeployDispatch, DeployRecord
  <2> QED BY <1>5, <2>1, PcFacts
<1> QED BY <1>4, <1>6, <1>7, <1>8, <1>9, <1>10, <1>11, <1>12, ThreadStepKinds
        DEF ExecutorStep, ResumerStep

LEMMA NextSequential ==
    Typed /\ UnaskedInv /\ SequentialInv /\ [Next /\ OneAtATime]_vars => SequentialInv'
<1> SUFFICES ASSUME Typed, UnaskedInv, SequentialInv, [Next /\ OneAtATime]_vars
             PROVE  SequentialInv'
  OBVIOUS
<1>0. [Next]_vars
  OBVIOUS
<1>1. ASSUME NEW c \in Calls, NEW o \in Endpoints, Receive(c, o), OneAtATime
      PROVE  SequentialInv'
  <2>1. o # None
    BY ConstantsAssumption DEF ConstantsAssumption, Ops
  <2>2. op' # op
    BY <1>1, <2>1 DEF Receive, UnaskedInv, Typed, TypeOK
  <2>3. \A d \in Calls : ~Busy(d)
    BY <1>1, <2>2 DEF OneAtATime, Quiescent, Busy
  <2>4. hpc'[c] \in {"status", "govern"} /\ tpc'[c] = None
        /\ \A d \in Calls \ {c} : hpc'[d] = hpc[d] /\ tpc'[d] = tpc[d]
    BY <1>1 DEF Receive, threads, Typed, TypeOK, PlacesInv, InPlace
  <2>5. faults' = 0 => Agree'
    BY <1>1, <2>3 DEF SequentialInv, Receive, setting, row, Agree
  <2> QED BY <2>3, <2>4, <2>5, PcFacts, StepSequential DEF Consistent, Busy
<1>2. CASE Restart
  <2>1. \A d \in Calls : ~Busy(d)' /\ Consistent(d)'
    BY <1>2, PcFacts DEF Restart, Busy, Consistent
  <2> QED BY <1>2, <2>1 DEF Restart, SequentialInv, Agree
<1>3. CASE UNCHANGED vars
  BY <1>3 DEF vars, row, setting, threads, SequentialInv, Busy, Consistent, Agree
<1> QED BY <1>0, <1>1, <1>2, <1>3, HandlerSequential, ThreadSequential
        DEF Next, Finished, ThreadDefs

(* The invariant of SequentialSpec that the next theorem rests on.          *)
THEOREM SequentialInvHolds == SequentialSpec => [](Typed /\ UnaskedInv /\ SequentialInv)
<1>1. Init => Typed /\ UnaskedInv /\ SequentialInv
  <2>1. Init => UnaskedInv /\ SequentialInv
    BY PcFacts DEF Init, UnaskedInv, SequentialInv, Busy, Consistent, Agree
  <2> QED BY <2>1, InitTyped, ConstantsAssumption
<1>2. Typed /\ UnaskedInv /\ SequentialInv /\ [Next /\ OneAtATime]_vars
         => (Typed /\ UnaskedInv /\ SequentialInv)'
  BY NextTyped, NextUnasked, NextSequential
<1> QED BY <1>1, <1>2, PTL DEF SequentialSpec

(* Clients that make one call after the other find row and registry in      *)
(* agreement whenever nothing is running, restarts included: it takes two   *)
(* calls at a time to leave the registry behind.                            *)
THEOREM RowAndRegistryAgreeHolds == SequentialSpec => []RowAndRegistryAgree
<1>1. SequentialInv => RowAndRegistryAgree
  BY DEF SequentialInv, RowAndRegistryAgree, Quiescent, Busy, Agree
<1> QED BY <1>1, SequentialInvHolds, PTL
=============================================================================
