----------------------------- MODULE ReviewGraph -----------------------------
(***************************************************************************)
(* One workflow's review: execute_workflow runs the graph of agents, stores *)
(* what they found and closes the row or leaves it to a person.  LangGraph  *)
(* keeps the state of a workflow between passes and stops at the gate;      *)
(* SimpleGraph, its stand-in, starts afresh and stops nowhere.              *)
(***************************************************************************)
EXTENDS ReviewAgents

CONSTANTS
    Engines,        \* what build_graph may return
    DemoMode,       \* AUTO_APPROVE_DEMO
    MaxPasses,      \* bound on start and resume
    MaxDeviations   \* bound on agents that do not report the usual

ASSUME GraphAssumption ==
    /\ Engines \subseteq {"langgraph", "simple"}
    /\ DemoMode \in BOOLEAN
    /\ MaxPasses \in Nat
    /\ MaxDeviations \in Nat

VARIABLES
    engine, node,       \* the compiled graph and the node whose turn it is
    findings, challenges, fid, keys,    \* channels of the graph's state
    risk, decision, human,
    docker,             \* what this workflow has on the Docker host
    thread, status,     \* execute_workflow, and the row's status
    stored, disputes,   \* rows it wrote for findings and challenges
    returned,           \* history: findings in the state that the graph returned
    refused, judgedBy,  \* history: what the validator said; who decided
    silent,             \* history: witnesses of this pass that reported as a crash does
    pass, deviations    \* bounds

state  == <<findings, challenges, fid, keys, risk, decision, human>>
outer  == <<thread, status, stored, disputes, returned>>
vars   == <<engine, node, state, docker, outer, refused, judgedBy, silent, pass, deviations>>

Agents == {"repo_validator", "planner", "builder", "deployer", "backend", "frontend",
           "security", "sre", "tester", "api_validator", "security_runtime",
           "runtime_analyzer", "log_inspector", "correlator", "challenger", "qa_lead",
           "judge"}
Nodes == Agents \cup {"gate", "cleanup", "end"}
(* The agents whose keys say whether the application works. *)
Witnesses == {"builder", "deployer", "tester", "runtime_analyzer"}
Decisions == {"", "APPROVE", "REJECT", "REVIEW_REQUIRED"}

Host == {"workspace", "image", "container"}

Entry == [id : Nat, sev : Severities, latency : BOOLEAN]
(* The finding_id a challenge carries, and the place of the finding it was *)
(* raised against.                                                          *)
Challenge == [id : Nat, of : Nat]

TypeOK ==
    /\ engine \in Engines
    /\ node \in Nodes
    /\ findings \in Seq(Entry)
    /\ challenges \subseteq Challenge
    /\ fid \in Nat
    /\ keys \in Keys
    /\ risk \in {"HIGH", "MEDIUM", "LOW"}
    /\ decision \in Decisions
    /\ human \in {"none", "APPROVE", "REJECT"}
    /\ docker \subseteq Host
    /\ thread \in {"graph", "done"}
    /\ status \in {"RUNNING", "FAILED", "COMPLETED", "WAITING_HUMAN_APPROVAL"}
    /\ stored \subseteq Nat
    /\ disputes \subseteq [row : Nat, of : Nat]
    /\ returned \in Nat
    /\ refused \in BOOLEAN
    /\ judgedBy \in {"nobody", "demo", "model", "rules", "nothing"}
    /\ silent \subseteq Witnesses
    /\ pass \in Nat
    /\ deviations \in Nat

Init ==
    /\ engine \in Engines
    /\ node = "repo_validator"
    /\ findings = <<>> /\ challenges = {} /\ fid = 1 /\ keys = NoKeys
    /\ risk = "LOW" /\ decision = "" /\ human = "none"
    /\ docker = {}
    /\ thread = "graph" /\ status = "RUNNING"
    /\ stored = {} /\ disputes = {} /\ returned = 0
    /\ refused = FALSE /\ judgedBy = "nobody" /\ silent = {}
    /\ pass = 1 /\ deviations = 0

-----------------------------------------------------------------------------
(* Edges of the two graphs: they differ in the planner's place. *)
Following ==
    [planner          |-> IF engine = "simple" THEN "backend" ELSE "builder",
     builder          |-> "deployer",
     deployer         |-> IF engine = "simple" THEN "planner" ELSE "backend",
     backend          |-> "frontend",         frontend         |-> "security",
     security         |-> "sre",              sre              |-> "tester",
     tester           |-> "api_validator",    api_validator    |-> "security_runtime",
     security_runtime |-> "runtime_analyzer", runtime_analyzer |-> "log_inspector",
     log_inspector    |-> "correlator",       correlator       |-> "challenger",
     challenger       |-> "qa_lead",          qa_lead          |-> "judge"]

Deviate(rare) ==
    IF rare THEN deviations < MaxDeviations /\ deviations' = deviations + 1
    ELSE UNCHANGED deviations

(* The partial state a node returns is merged into the graph's state: lists *)
(* are appended to, the rest is replaced.                                   *)
Merge(report) ==
    /\ findings' = findings \o
            [i \in DOMAIN report.found |-> [id      |-> fid + i - 1,
                                            sev     |-> report.found[i].sev,
                                            latency |-> report.found[i].latency]]
    /\ fid' = fid + report.bump
    /\ keys' = report.keys
    /\ silent' = IF node \in Witnesses /\ report = Crash(keys) THEN silent \cup {node}
                 ELSE silent

Quiet == UNCHANGED <<engine, outer, pass>>

(* An agent that has nothing to do with the Docker host. *)
Turn(agent, usual, seldom) ==
    /\ node = agent
    /\ \E rare \in BOOLEAN, report \in usual \cup seldom :
        /\ report \in IF rare THEN seldom \ usual ELSE usual
        /\ Deviate(rare)
        /\ Merge(report)
    /\ node' = Following[agent]
    /\ UNCHANGED <<challenges, risk, decision, human, docker, refused, judgedBy>>
    /\ Quiet

-----------------------------------------------------------------------------
(* repo_validator says no: validator_failed is no key of TuskerState, so    *)
(* LangGraph drops it before route_after_validator reads it.                *)
RepoValidator ==
    /\ node = "repo_validator"
    /\ \E fails \in BOOLEAN :
        /\ Deviate(fails)
        /\ Merge(Plain(IF fails THEN High ELSE None, keys))
        /\ refused' = fails
        /\ node' = IF engine = "simple" THEN IF fails THEN "end" ELSE "builder"
                   ELSE "planner"
    /\ UNCHANGED <<challenges, risk, decision, human, docker, judgedBy>>
    /\ Quiet

(* The diff goes into the state; a diff that cannot be had is no finding. *)
Planner == Turn("planner", {Plain(None, keys)}, {})

(* The clone is refused where a former pass left its directory; only docker *)
(* build makes an image, and one that is killed for its time may have.      *)
RunBuilder ==
    /\ node = "builder"
    /\ \/ /\ "workspace" \notin docker
          /\ Merge(Built(keys))
          /\ docker' = docker \cup {"workspace", "image"}
          /\ UNCHANGED deviations
       \/ /\ "workspace" \notin docker
          /\ Deviate(TRUE)
          /\ \E report \in Builder(keys), made \in SUBSET {"workspace", "image"} :
                /\ "image" \in made => "workspace" \in made /\ report = BreaksOff(keys)
                /\ Merge(report)
                /\ docker' = docker \cup made
       \/ /\ "workspace" \in docker
          /\ \E rare \in BOOLEAN, report \in CloneFails(keys) :
                /\ ~rare => report = Plain(High, Unbuilt(keys))
                /\ Deviate(rare)
                /\ Merge(report)
          /\ UNCHANGED docker
    /\ node' = Following["builder"]
    /\ UNCHANGED <<challenges, risk, decision, human, refused, judgedBy>>
    /\ Quiet

RunDeployer ==
    LET image == "image" \in docker
        free  == "container" \notin docker
        usual == DeployerUsual(keys, image, free)
    IN  /\ node = "deployer"
        /\ \/ /\ Merge(usual)
              /\ docker' = docker \cup IF usual.keys.deployed THEN {"container"} ELSE {}
              /\ UNCHANGED deviations
           \/ /\ Deviate(TRUE)
              /\ \E report \in Deployer(keys, image, free) \ {usual} : Merge(report)
              /\ \E started \in SUBSET IF keys.tag /\ image THEN {"container"} ELSE {} :
                    docker' = docker \cup started
        /\ node' = Following["deployer"]
        /\ UNCHANGED <<challenges, risk, decision, human, refused, judgedBy>>
        /\ Quiet

RunBackend  == Turn("backend", BackendUsual(keys), Backend(keys))
RunFrontend == Turn("frontend", FrontendUsual(keys), Frontend(keys))
RunSecurity == Turn("security", SecurityUsual(keys), Security(keys))
RunSre      == Turn("sre", SreUsual(keys), Sre(keys))
RunTester   == Turn("tester", TesterUsual(keys), Tester(keys))
RunApiValidator    == Turn("api_validator", ApiValidatorUsual(keys), ApiValidator(keys))
RunSecurityRuntime == Turn("security_runtime", SecurityRuntimeUsual(keys), SecurityRuntime(keys))
RunRuntimeAnalyzer == Turn("runtime_analyzer", RuntimeAnalyzerUsual(keys), RuntimeAnalyzer(keys))
RunLogInspector    == Turn("log_inspector", LogInspectorUsual(keys), LogInspector(keys))
RunCorrelator      == Turn("correlator", CorrelatorUsual(keys), Correlator(keys))

(* The agent passes every finding by; its stand-in in the node, when the    *)
(* module is missing, disputes every latency finding.                       *)
Challenger ==
    /\ node = "challenger"
    /\ \E disputed \in {{}, {i \in DOMAIN findings : findings[i].latency}} :
        challenges' = challenges \cup {[id |-> findings[i].id, of |-> i] : i \in disputed}
    /\ node' = Following["challenger"]
    /\ UNCHANGED <<findings, fid, keys, risk, decision, human, docker, refused, judgedBy,
                   silent, deviations>>
    /\ Quiet

(* A QA lead that crashes or is missing reports no risk. *)
QaLead ==
    /\ node = "qa_lead"
    /\ \E rare \in BOOLEAN :
        /\ Deviate(rare)
        /\ risk' = IF rare THEN "LOW" ELSE Risk(findings)
    /\ node' = Following["qa_lead"]
    /\ UNCHANGED <<findings, challenges, fid, keys, decision, human, docker, refused, judgedBy,
                   silent>>
    /\ Quiet

(* Mutant: a model's bare REVIEW is passed on as it stands. *)
VerdictsMutant == {[says |-> "REVIEW", by |-> "model", rare |-> FALSE]}

(* A model's answer is its first of APPROVE, REJECT and REVIEW; no answer or *)
(* none of the three words leaves it to the rules.  Without the module the   *)
(* node asks a model itself, and approves what is not disputed.              *)
Verdicts ==
    IF DemoMode THEN {[says |-> "APPROVE", by |-> "demo", rare |-> FALSE]}
    ELSE    {[says |-> Rules(findings, challenges, risk, keys), by |-> "rules", rare |-> FALSE]}
       \cup IF Ollama THEN {[says |-> d, by |-> "model", rare |-> FALSE] : d \in Decisions \ {""}}
            ELSE {}
Misfits ==
    {[says |-> "REVIEW_REQUIRED", by |-> "nothing", rare |-> TRUE],
     [says |-> IF challenges # {} THEN "REVIEW_REQUIRED" ELSE "APPROVE", by |-> "nothing",
      rare |-> TRUE]}
    \cup IF Ollama THEN {[says |-> d, by |-> "model", rare |-> TRUE] : d \in {"APPROVE", "REJECT"}}
         ELSE {}

Judge ==
    /\ node = "judge"
    /\ \E verdict \in Verdicts \cup Misfits :
        /\ Deviate(verdict.rare)
        /\ decision' = verdict.says
        /\ judgedBy' = verdict.by
        /\ node' = IF verdict.says \in {"APPROVE", "REJECT"} THEN "cleanup" ELSE "gate"
    /\ UNCHANGED <<findings, challenges, fid, keys, risk, human, docker, refused, silent>>
    /\ Quiet

(* Without LangGraph there is no interrupt to wait in. *)
AutoApprove ==
    /\ node = "gate" /\ engine = "simple"
    /\ human' = "APPROVE"
    /\ node' = "cleanup"
    /\ UNCHANGED <<findings, challenges, fid, keys, risk, decision, docker, refused, judgedBy,
                   silent, deviations>>
    /\ Quiet

(* An image is removed by the tag in the state. *)
Untagged == IF keys.tag THEN {} ELSE docker \cap {"image"}

(* What cleanup could not remove it reports: MEDIUM or HIGH, by what went    *)
(* wrong, or nothing at all about an image.                                 *)
Cleanup ==
    /\ node = "cleanup"
    /\ \/ /\ docker' = Untagged
          /\ UNCHANGED <<findings, fid, keys, silent, deviations>>
       \/ /\ Deviate(TRUE)
          /\ docker' \in SUBSET docker \ {Untagged}
          /\ Untagged \subseteq docker'
          /\ \E found \in {None, Medium, High} :
                /\ found = None => docker' = {"image"}
                /\ Merge(Plain(found, keys))
    /\ node' = "end"
    /\ UNCHANGED <<challenges, risk, decision, human, refused, judgedBy>>
    /\ Quiet

-----------------------------------------------------------------------------
(* execute_workflow after graph.invoke has returned: at the end of the      *)
(* graph, or, under LangGraph, at the gate.                                 *)
InvokeReturned ==
    /\ thread = "graph"
    /\ node = "end" \/ (node = "gate" /\ engine = "langgraph")

(* Mutant: the first finding keeps an identifier. *)
IdMapMutant(id) ==
    CHOOSE i \in DOMAIN findings :
        /\ findings[i].id = id
        /\ \A j \in DOMAIN findings : findings[j].id = id => i <= j

(* The last finding stored under an identifier is the one id_map names. *)
IdMap(id) ==
    CHOOSE i \in DOMAIN findings :
        /\ findings[i].id = id
        /\ \A j \in DOMAIN findings : findings[j].id = id => j <= i

(* SimpleGraph keeps validator_failed in the state it returns. *)
Abort ==
    /\ InvokeReturned /\ refused /\ engine = "simple"
    /\ status' = "FAILED"
    /\ thread' = "done"
    /\ returned' = Len(findings)
    /\ UNCHANGED <<engine, node, state, docker, stored, disputes, refused, judgedBy, silent,
                   pass, deviations>>

(* Mutant: the session is rolled back, and a failed insert skips its row.   *)
StoreMutant(fails, good, filed) ==
    /\ fails \/ (good = Len(findings) /\ filed = challenges)
    /\ stored' = 1..good
    /\ disputes' = {[row |-> IdMap(c.id), of |-> c.of] : c \in filed}
    /\ status' = IF decision \in {"APPROVE", "REJECT"} THEN "COMPLETED"
                 ELSE "WAITING_HUMAN_APPROVAL"

(* Findings, then challenges, between agent logs and summaries.  An insert   *)
(* of any of them that fails leaves the session in need of a rollback that   *)
(* never comes: every later insert fails, and so do both status updates.     *)
Store(fails, good, filed) ==
    /\ good < Len(findings) => filed = {}
    /\ fails \/ (good = Len(findings) /\ filed = challenges)
    /\ stored' = 1..good
    /\ disputes' = {[row |-> IdMap(c.id), of |-> c.of] : c \in filed}
    /\ status' = IF fails THEN status
                 ELSE IF decision \in {"APPROVE", "REJECT"} THEN "COMPLETED"
                 ELSE "WAITING_HUMAN_APPROVAL"

Persist ==
    /\ InvokeReturned /\ ~(refused /\ engine = "simple")
    /\ \E fails \in BOOLEAN, good \in 0..Len(findings), filed \in SUBSET challenges :
        Deviate(fails) /\ Store(fails, good, filed)
    /\ thread' = "done"
    /\ returned' = Len(findings)
    /\ UNCHANGED <<engine, node, state, docker, refused, judgedBy, silent, pass>>

-----------------------------------------------------------------------------
(* POST /approve or /reject, which the review UI offers for a row that      *)
(* waits: the interrupted graph resumes.                                    *)
Person ==
    /\ status = "WAITING_HUMAN_APPROVAL" /\ thread = "done"
    /\ node = "gate"
    /\ human' \in {"APPROVE", "REJECT"}
    /\ status' = "COMPLETED"
    /\ node' = "cleanup"
    /\ UNCHANGED <<engine, findings, challenges, fid, keys, risk, decision, docker, thread,
                   stored, disputes, returned, refused, judgedBy, silent, pass, deviations>>

(* POST /resume: execute_workflow again.  LangGraph appends the empty lists *)
(* of the initial state to what its checkpoint holds and keeps the keys the *)
(* initial state does not name.                                             *)
Again ==
    /\ thread = "done" /\ node \in {"gate", "end"} /\ pass < MaxPasses
    /\ pass' = pass + 1
    /\ thread' = "graph" /\ status' = "RUNNING"
    /\ node' = "repo_validator"
    /\ fid' = 1 /\ risk' = "LOW" /\ decision' = "" /\ human' = "none"
    /\ IF engine = "langgraph" THEN UNCHANGED <<findings, challenges, keys>>
       ELSE findings' = <<>> /\ challenges' = {} /\ keys' = NoKeys
    /\ stored' = {} /\ disputes' = {} /\ returned' = 0
    /\ refused' = FALSE /\ judgedBy' = "nobody" /\ silent' = {}
    /\ UNCHANGED <<engine, docker, deviations>>

Finished ==
    /\ thread = "done" /\ node \in {"gate", "end"}
    /\ UNCHANGED vars

Next ==
    \/ RepoValidator \/ Planner \/ RunBuilder \/ RunDeployer
    \/ RunBackend \/ RunFrontend \/ RunSecurity \/ RunSre
    \/ RunTester \/ RunApiValidator \/ RunSecurityRuntime \/ RunRuntimeAnalyzer
    \/ RunLogInspector \/ RunCorrelator
    \/ Challenger \/ QaLead \/ Judge
    \/ AutoApprove \/ Cleanup \/ Abort \/ Persist
    \/ Person \/ Again \/ Finished

Spec == Init /\ [][Next]_vars

-----------------------------------------------------------------------------
(* No HIGH finding, so every step on the way to it was a success: a         *)
(* rule-based approval (judge_agent, _rule_based_decision) is never given   *)
(* to a pull request that was not deployed, answered all four API calls     *)
(* (tester_agent) and was found healthy (runtime_analyzer_agent), although  *)
(* the rules read only findings, the risk and the runtime analysis.         *)
ApprovedMeansPassed ==
    decision = "APPROVE" /\ judgedBy = "rules" =>
        keys.deployed /\ keys.tests /\ keys.passed = 4 /\ keys.health = "good"

(* An approval by the rules rests on what this pass has found: although the  *)
(* state keeps the keys of a former pass for an agent that crashes in this   *)
(* one, its crash alone keeps the rules from approving (graph_builder.py,    *)
(* the handlers of the nodes; _rule_based_decision).                         *)
ApprovedOnThisPass == decision = "APPROVE" /\ judgedBy = "rules" => silent = {}

(* In a first pass every challenge is stored against the finding it was     *)
(* raised against, although agents that report a timeout without counting  *)
(* it hand their finding's number on to the next agent (_persist_results,   *)
(* id_map).                                                                 *)
ChallengesHitTheirFinding ==
    pass = 1 => \A d \in disputes : d.row = d.of

(* A row that shows a result, COMPLETED or waiting for a person, has every  *)
(* finding the graph returned and every challenge: execute_workflow cannot  *)
(* close a row after an insert that failed.                                 *)
ResultIsRecorded ==
    thread = "done" /\ status \in {"COMPLETED", "WAITING_HUMAN_APPROVAL"} =>
        stored = 1..returned /\ {d.of : d \in disputes} = {c.of : c \in challenges}

(* Documentation: "LangGraph routes directly to END (skipping all other     *)
(* agents)" when the repository cannot be validated.                        *)
RefusedMeansEnd == refused => node \in {"repo_validator", "end"}
=============================================================================
