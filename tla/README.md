# TuskerSquad: specifications, model checking and proofs

TuskerSquad reviews pull requests. A webhook starts a *workflow*; a graph of
agents (build, deploy to a throw-away container, probe, analyse, judge)
decides APPROVE, REJECT or REVIEW_REQUIRED; in the last case a person decides;
an approval may merge the pull request and dispatch a deploy pipeline.

These modules model what is hard to test in that program: HTTP handlers and
daemon threads that write one database row, one in-memory registry and one
checkpoint without looking at each other; decisions repeated or contradicted;
exceptions between two commits; restarts; provider answers that get lost;
containers, images and directories that several reviews make and remove on one
host; agents that time out, crash or contradict each other; asyncio primitives
that threads share; a diff parser that tells lines apart by how they begin.

## 1. Inventory

| Component | State it keeps | Operations | Talks to |
|---|---|---|---|
| Workflow API `services/langgraph_api/api/workflow_routes.py` | none of its own; writes the row, governance rows, registry | start, approve, reject, retest, release, resume; reads | starts daemon threads; repositories; registry |
| Workflow execution `workflows/pr_review_workflow.py` | `_graph` (one per process) | `execute_workflow`, `resume_workflow_with_decision`, `_persist_results` | graph, repositories, registry, git provider |
| Orchestration `workflows/graph_builder.py`, `state/workflow_state.py` | LangGraph checkpoint per workflow (MemorySaver), reduced state keys | 19 nodes, routes, `invoke`, `resume`; `SimpleGraph` as fallback | agents, LLM client, git provider |
| Merge and deploy worker `_run_merge_and_deploy` | merge and deploy columns | merge, dispatch, record | git provider, row |
| Registry `core/workflow_registry.py` | dict of cached workflow fields | register, update, get, list | API, execution |
| Repositories `repositories/`, `db/` | PostgreSQL | one commit per operation | all of the above |
| Integration service `services/integration_service/main.py` | none | webhooks of Gitea, GitHub, GitLab, simulate, test-parse | retried POST to `/workflow/start`; PR comment |
| Dashboard BFF `services/dashboard/main.py` | none | list (row with the registry laid over it), governance proxies with retries | Workflow API |
| Review UI `apps/frontend` | last polled state | polling, decision buttons | BFF |
| LLM client `core/llm_client.py` | singleton: active model, DB callback, asyncio lock and semaphore | generate, ensure_model_loaded, set_db_log_callback | Ollama |
| Agents `agents/` | none (builder, deployer, cleanup: Docker containers, workspace) | one runner each | Docker, probed application, LLM client |
| Git providers `core/*_client.py`, `*_provider.py` | none | merge, dispatch, label, comment, diff | Gitea, GitHub, GitLab |
| Diff parser and analyzer `core/git_provider.py`, `core/diff_analyzer.py` | none (locals of the parser's loop) | `parse_unified_diff`, `summarise_diff`, `annotate_findings_with_diff` | providers, planner, judge |
| Demo shop and microservices `apps/` | carts, orders, users | the application under review | - |

What makes each correct, and where it is hard:

* **API, execution, merge worker, registry.** A merge only after a person's
  approval, each attempt accounted for, one deployment, COMPLETED only with a
  decision, no workflow left RUNNING, registry and row in agreement. Hard
  because no endpoint checks the status it replaces, because each handler and
  thread writes in several commits, and because decisions may be repeated,
  contradict each other or arrive while the graph runs.
* **Orchestration.** Each review routes to a gate or to cleanup, a decision
  resumes the graph that waits, the container is removed, list-valued keys hold
  each finding once. Hard because of checkpoints, reducers and re-invocations.
* **Integration service and BFF.** One event starts one workflow; one click
  makes one decision. Hard because both retry requests that are not idempotent.
* **LLM client.** Nothing stays locked, no way through a call goes round its log,
  every call with a timer comes back. Hard because one object, made for one event loop,
  serves threads with event loops of their own, and `wait_for` may cancel a call
  at any await.
* **Builder, deployer, cleanup.** A review touches only what it made, its
  container is there while a person looks at it, and nothing is left afterwards.
  Hard because two reviews of one pull request share the host, passes of one
  workflow share names, and a restart forgets the names.
* **Other agents, judge.** A decision by rules rests on what really happened.
  Hard because each agent has half a dozen ways to fail and the judge sees only
  findings and three keys.
* **Diff parser.** Lines, counts and relevance are those of the diff. Hard
  because the parser keeps no count of a hunk's lines and knows them by their
  first characters.

The hazards are listed with their lines in `PROJECT.json`.

## 2. Plan

Done, in this order:

1. `WorkflowLifecycle` with `ReleaseContract` and its proofs.
2. `RetriedPost`, the POST with three attempts that the integration service
   and the BFF share, with `Delivery` and its proofs; `WebhookIngest` over it.
3. `EphemeralEnvironment`: what builder, deployer and cleanup do on the Docker
   host, for overlapping runs of several workflows.
4. `ReviewAgents` and `ReviewGraph`: what every agent may report and how the
   graph, `execute_workflow` and the tables put it together.
5. `LlmClient`: the shared client, await by await.
6. `UnifiedDiff`: parser and lookup beside the meaning of the diff.
7. `DecisionProxy`, which composes `RetriedPost` and `WorkflowLifecycle`: a click in
   the dashboard, its retries, and the handlers and threads each attempt starts.

Left: the labels on the pull request, the lazy `get_graph`, the registry laid over
the list; a proof of `ReviewGraph`'s rules over `EphemeralEnvironment`'s commands
(today `docker` in `ReviewGraph` stands for them).

## 3. Modules

| Module | Contents |
|---|---|
| `WorkflowLifecycle` | one workflow: handlers, threads, graph, provider, restart |
| `ReleaseContract` | what it promises of the pull request: approve, merge, deploy once |
| `WorkflowInvariants` | the inductive invariant `IInv`, in named parts |
| `WorkflowLifecycleProofs` | theorems and proofs |
| `Retrying` | the constants of a POST with retries |
| `RetriedPost` | a POST with retries and the service that receives it |
| `Delivery` | what it promises its caller |
| `RetriedPostProofs` | theorems and proofs |
| `WebhookIngest` | the integration service; an instance of `RetriedPost` is its POST |
| `WebhookIngestProofs` | theorems and proofs, on top of those of `RetriedPost` |
| `DecisionProxy` | the dashboard's decision routes; extends `WorkflowLifecycle`, an instance of `RetriedPost` is their POST |
| `DecisionProxyProofs` | theorems and proofs, on top of those of `WorkflowLifecycle` |
| `EphemeralEnvironment` | directories, images and containers on the Docker host |
| `EphemeralEnvironmentProofs` | types, isolation, and that the container lives as long as it must and nothing is left |
| `ReviewAgents` | what each agent may report; no state |
| `ReviewGraph` | the agents one after the other, `execute_workflow` and its rows; extends the former |
| `ReviewGraphProofs` | theorems and proofs |
| `LlmClient`, `LlmClientProofs` | the client all agents share |
| `UnifiedDiff`, `UnifiedDiffProofs` | the diff parser and the relevance of a finding |
| `MC*` | sets and symmetry for TLC |

How they fit together: `WorkflowLifecycle` sees the graph as one step with a
decision as its result, a gate and a cleanup; `ReviewGraph` is what happens
inside that step, for one workflow that nobody disturbs; `EphemeralEnvironment`
is what its builder, deployer and cleanup do to the host when several workflows
run. `LlmClient` stands behind every "a model answers" of `ReviewAgents`, which
takes any answer, or none, as possible. `UnifiedDiff` is what `planner` puts
into the state; no decision depends on it. `DecisionProxy` joins the dashboard's backend to
the service: each attempt of a click that arrives is a call of `WorkflowLifecycle`.

### WorkflowLifecycle

One workflow; a *call* is one HTTP request with the thread it starts.

| Model | Code |
|---|---|
| `status`, `mergeStatus`, `deployStatus` | columns of `workflow_runs` |
| `governance` | rows of `governance_actions`, told apart by who wrote them |
| `registry` | `status` in the registry entry; `None`: no entry |
| `checkpoint` | the MemorySaver's state of the workflow's `thread_id` |
| `op`, `hpc`, `tpc`, `run` | endpoint, next step of the handler, next step of its thread, graph state it works on |
| `prMerged`, `mergeCallers`, `deploys` | the pull request and pipeline at the provider |
| `engine` | what `build_graph` found: LangGraph or the fallback `SimpleGraph`; constant in a behaviour |
| `restarts`, `faults` | how often the bounded environment struck |

Grain: each commit, each registry update, each provider call and each graph
node that matters is a step; a thread interleaves with handlers and threads
between any two. Handlers are `async` functions that never really suspend and
the service runs one uvicorn worker, so `EventLoopFree` lets one handler run at
a time.

Handlers: `Receive`, `HandlerGovern`, `HandlerStatus`, `HandlerRegistry`,
`HandlerSpawn`, `HandlerFault`. Executors (`execute_workflow`): `ExecStart`,
`ExecInvoke`, the graph, then `ExecPersist`, `ExecGovern`, `ExecStatus`,
`ExecRegistry`; the early exit of a failed validation and the `except` clause
through `ExecFailStatus`, `ExecFailRegistry`, `ExecFault`. A failed commit
leaves a SQLAlchemy session unusable, so after a fault in the database part
only the registry says FAILED; after one in the graph, where the commit of FAILED may fail
in its turn, either both do or the registry alone. A handler may raise before its thread is
spawned and, a reject, after. Resumers (`resume_workflow_with_decision`):
`ResumeLoad` to `ResumeRegistry`. Merge threads (`_run_merge_and_deploy`):
`MergeStart` to `DeployRecord`; a resumer's last act is to start one, so it goes
on in its place. The retest thread is `RetestDies`: `workflow_routes.py:543`
names a class the module does not import.

LangGraph is not part of the repository; it is modelled as the code uses it.
The state is saved after each node and the last save wins. A new input starts
the thread over. `Command(resume)` on a waiting thread answers the interrupt; on
a finished one it returns the stored state, whose `human_decision` is the earlier
one; on an unfinished one it runs the nodes that are left; on an unknown one it
raises or starts with an empty input, and the model allows both. On `SimpleGraph`
there is no interrupt to wait in, and the gate sets `human_decision` to APPROVE by
itself (`Judged`): an approval of nobody, which must not merge.

The provider merges an open pull request once and refuses afterwards; any answer
may be lost after the effect. A dispatch may likewise succeed and be reported as failed.

Left out of this module: labels, comments, the demo container's restart
(nothing reads them back); the registry's other fields; the `approved` flag's
second commit; requests for unknown workflows; the agent nodes, which are one step
with the judge's decision as its result.

### RetriedPost and WebhookIngest

| Model | Code |
|---|---|
| `pc`, `attempt` | where `_post_with_retries` is in its loop |
| `reply` | what it returned or raised |
| `inFlight`, `carriedOut` | requests at the receiver, before and after their effect |
| `event` | the request a delivery brought: endpoint, signature, kind, action, which fields are there |
| `comment` | the task made by `asyncio.create_task` |

`_post_with_retries` and `_post_proxy` have the same loop; waiting times are
left out, so a timeout may come at any moment after sending. A request ends in
one of two ways: carried out (`Served`: answered, or its answer lost or an error
after the effect) or not (`Refused`). Each may happen while the caller waits,
after it gave up, or after it restarted.

A handler runs in one go up to the first await, which is the POST; so `Receive` does the
signature, the parsing, the filter, the creation of the comment task and the entry into the
loop. The order of the checks is that of the code: signature, JSON, event kind, action,
repository and number; a manual request whose number is none raises, where
a parser makes None of it (`Raises`). Actions are the names the code mentions and `closed`, for all
others. The simulate endpoint checks no signature and posts no comment.

### DecisionProxy

| Model | Code |
|---|---|
| `asked` | what a click in the dashboard asks for |
| `pc`, `attempt`, `reply`, `inFlight` | `_post_proxy` for that click, as in `RetriedPost` |
| `answer` | how the service answered a request: its HTTP status |
| `OnRecord` | requests whose decision is in `governance_actions`: what `RetriedPost` calls carried out |

`Calls` of `WorkflowLifecycle` contains one call per click and attempt; the others (a start, a
decision without the dashboard) are made directly. A request is carried out in two steps here, the
commit of its row (`HandlerGovern`) and the answer (`HandlerReturns`, `HandlerRaises`), between which
a timeout, a restart or the exception of a later step may come. An HTTP 500 is an attempt that
failed; with DEPLOY_ON_MERGE every approval is answered by one (`Response`: `repository` is no name of
`approve_workflow`). The backend forgets its clicks when it restarts (`ProxyRestarts`), the service its
threads, checkpoint and registry (`ServiceRestarts`).

### EphemeralEnvironment

| Model | Code |
|---|---|
| `at`, `wf`, `keys` | where a daemon thread is, its workflow, its copy of `deploy_container`, `build_artifacts` and the like |
| `checkpoint` | MemorySaver: next node and the keys, per workflow |
| `host` | directories, images and containers, with who made them and what is in them |
| `passes`, `disturbed`, `killed` | history: passes begun; workflows whose passes overlapped or whose cleanup broke; those with a docker build killed after it tagged |

Each command of `builder_agent`, `deployer_agent` and `cleanup_agent` is a step:
makedirs, clone with fetch and checkout, build, run, health loop, stop with rm, rmi,
rmtree, orphan search. Each has its failures: a clone refused by a directory
with contents, a tag reported with no new image behind it, a name in use, a `docker run`
that times out and leaves a container, a `docker build` killed at its timeout after it
tagged (`BuildKilled`). Names are made as in the code, of pull request and
workflow id. `Invoke` may come at any time, also while another run works on the
workflow; `Resume` is a decision. A restart loses threads and checkpoints and
keeps the host. DEPLOY_HOST is the local one. A resume of a thread that is not in the
checkpointer is left out: LangGraph raises, or starts it with an empty input (both in
`WorkflowLifecycle`), and then the nodes run with no workflow id and no repository, on
names that belong to no workflow.

### ReviewAgents and ReviewGraph

| Model | Code |
|---|---|
| `findings`, `challenges`, `fid`, `keys`, `risk`, `decision`, `human` | channels of `TuskerState` |
| `docker` | what this workflow has on the host |
| `thread`, `status`, `stored`, `disputes` | `execute_workflow`, its row and the rows it inserts |
| `refused`, `judgedBy`, `silent`, `returned` | history: was the repository refused, who judged, which agents of this pass reported as a crash does, how much the graph returned |

`ReviewAgents` has, per agent, the set of reports it may give: findings by
severity, the keys it sets, and by how much it moves `_fid` (timeouts and
exceptions do not move it). Text, titles and probes are abstracted to which of their
outcomes occurs. Where agents read the state, the report depends on it: the tester on the
URL, the runtime analyzer on the URL and the test results, the deployer on the tag. Of each
agent the *usual* report is told apart from the others: `MaxDeviations` bounds in
TLC how many agents of a behaviour give another one. The proofs know no such bound.

`ReviewGraph` runs the nodes in the order of either engine. LangGraph appends
lists, replaces other keys, drops keys that `TuskerState` does not name, keeps the
state between passes and stops at the gate. `SimpleGraph` starts afresh and
approves at the gate by itself. `Judge` has the rules, the model's answer (the
first of APPROVE, REJECT, REVIEW in its text), the demo mode and the node's
stand-in. `Persist` stores findings and challenges through `id_map`; an insert
that fails, of a finding, a challenge or a row between them, spoils the session, so everything
after it fails too. The build runs docker, npm, pip and maven one after the other, and each may
fail; a docker build killed after it tagged leaves an image that the state does not name,
and cleanup does not find it (`Untagged`).

### LlmClient

Calls of `generate`, each on an event loop of its own, share `model_lock`, the
semaphore and the callback. A step is the code between two awaits; the test
whether the lock is free is one step, taking it or joining its queue another, since
threads are switched between any two instructions: two may take it together, and
a release between test and queue wakes nobody. asyncio's primitives are external and modelled as in
Python 3.11: bound to the loop that first has to wait, refusing every other loop that
has to, handing a permit to a waiter whether or not its thread is awake. `Timeout` is
`wait_for`; `late` are the calls that woke by their own timer. Logging is best-effort, in
the words of `pr_review_workflow.py:334`: a workflow may fail to set the callback (`Register`), the
session or the insert inside it may fail, and the call goes on without its row (`Log`; `lost`
remembers it).

### UnifiedDiff

| Model | Code |
|---|---|
| `files`, `file`, `hunk`, `lineNo` | result, `current_file`, `current_hunk`, `new_line_no` of `parse_unified_diff` |
| `sections`, `line`, `at` | what the text says: files, added lines, counts; what kind of line was last |
| `provider` | whether git wrote the text or `gitlab_client.get_pr_diff` put it together |

A step is one line of the text. Lines that the parser takes for something else
are steps of their own: a removed line that begins with `-- ` and an added one
with `++ ` (*disguised*: read as a file header, with any path), and a line that is no
line of the file (*stray*: `\ No newline at end of file`, which reads as context, and what
`splitlines` cuts off at a form feed, which may read as context, added, removed or a
hunk's header). `Relevance` is `annotate_findings_with_diff` for a finding that
names file and line.

### Properties

Safety, over every interleaving:

* `MergeNeedsHuman`, `EveryMergeAudited`, `DeployedOnce`, `RecordsAreTrue`,
  `CompletedIsDecided`; `ImplementsContract` is refinement to `ReleaseContract`, with
  "approved" mapped to "a row of a person with an approving decision exists".
* `RunningIsWorkedOn`, `PendingIsUnderWay`, `NoApprovalLost`: until an exception or a restart, what
  shows as under way has somebody at work on it, whichever handlers and threads wrote over each
  other, and a confirmed approval has called `merge_pr` or is on the way.
* `RowAndRegistryAgree`: with one call after the other (`SequentialSpec`), row and registry
  agree whenever nothing runs.
* `ClicksDelivered`: `Delivery`, from the click to `governance_actions`. `ClicksOnRecord`: what is
  recorded for a click is what was clicked. `MergeWasClicked`: no retry, late request, exception or
  restart makes a merge of another decision.
* `ImplementsDelivery`: an ok is true, an answer is final, effects are bounded, also those
  that come after the answer. `QuietAfterAnswer`: what may still happen was already sent.
* `NoUninvitedReview`, `AnswersAreTrue`: a review, late ones included, has an
  event that asked for it; an answer agrees with what happened.
* `Isolation`: only threads of a workflow add, replace or remove what it has on the
  host. `AliveForReview`: the container of a first pass is there while a person
  decides. `ContainersGone`, `HostClean`: what is left when the graph has ended. The
  last three leave out workflows whose passes overlapped or whose cleanup broke, and `HostClean`
  the image of a killed docker build; the first leaves out nothing.
* `ApprovedMeansPassed`: an approval by the rules rests on a deployment that answered
  every call and was found healthy. `ApprovedOnThisPass`: and on no agent that crashed in this pass,
  for which the state may hold another pass's keys. `ChallengesHitTheirFinding`: challenges of a first
  pass are stored against the finding they were raised against. `ResultIsRecorded`: a row
  that shows a result has all of it.
* `NothingHeld`, `LoggedUnlessLost`: between calls lock and permit are back; a call that got past
  `ensure_model_loaded` has one log row or a write that failed, any other no row.
* `ChangedLinesAreTrue`, `ChangesCounted`, `RelevanceTrue`: lines, counts and relevance are
  those of the diff as far as no disguised or stray line came before, and what such
  a line spoils stays in its hunk or its count.

Liveness: `RunningSettles`, `ApprovalReachesMerge`, `EveryDeliverySettles`, `CallsEnd`.

## 4. Runs

| Run | Question | Bounds |
|---|---|---|
| `lifecycle_safety` | can racing decisions break the contract? is `IInv` true of the reachable states? | 3 calls, all endpoints, both engines, 1 restart |
| `lifecycle_faults` | what do exceptions leave behind? does every run and every approval arrive otherwise? | 2 calls, all endpoints, both engines, 2 faults, 1 restart, DEPLOY_ON_MERGE off |
| `lifecycle_sequential` | do row and registry agree for a client that waits? | 3 calls, all endpoints, both engines, 1 restart |
| `decision_proxy` | is a click delivered, and as what was clicked? | 1 start, 1 click (reject, release) of 2 attempts, SimpleGraph, 1 loss, 1 fault, 1 restart of either side |
| `ingest` | which events start a review? do answers agree with what happened? does the POST keep `Delivery`'s promise? | 1 delivery, all 1608 events, 3 attempts, 1 restart |
| `environment` | do reviews keep out of each other's way and clean up? | 3 threads, 2 workflows of one pull request, 1 restart, 1 fault |
| `review_graph` | is a decision what the agents found, and is it recorded? | 2 passes, both engines, 2 deviating agents, up to 2 failed API calls |
| `llm_client` | do cancelled and refused calls leave the client usable? | 3 calls of 3 workflows, 2 models, 1 call without a timer |
| `unified_diff` | does the parser report what the diff says? | 2 files, hunks that begin up to line 2, 3 lines in hunks, both providers |
| `finding_*` | what a document says and the code does not do | the least that shows it |

Why they are enough: the first call must be a start, so three calls leave two
decisions that race with each other and with the executor (approve against
reject, approve against override, approve twice). With two calls a decision races
with the executor, which is all a fault needs. One restart separates the state
before from the state after it; nothing depends on how many there were. Calls are
interchangeable, hence `SYMMETRY`, in safety runs only. The theorems hold for every
set of calls and every bound.

Three threads on two workflows are two that overlap on one workflow beside a
second workflow, or three passes and decisions of one after the other. Two deviating agents
are one whose failure is hidden by another; two passes show what LangGraph keeps. Three
callers of the model are one that holds, one that waits and one that is refused, or two that
took the lock together. Three lines are a disguised or stray line before an added one
and an added one in the next hunk or file. Of API failures 0, 1 and 2 are enough because
all four calls have to succeed.

Three is the number of attempts in the code. Deliveries share nothing but the restart, so one
is enough for `ingest`; that the attempts of one do not disturb another's is what the theorems
say, which know no number of callers.

`decision_proxy` multiplies the dashboard with all of `WorkflowLifecycle`, so its bounds are
narrow: a start and two attempts that overlap, which is the least with a late request, a repeated
decision and a run beside them. On SimpleGraph the decision of a resumer ends at once; what comes
after the row is in `lifecycle_safety`, and the theorems of `DecisionProxyProofs` are of every
engine, flag, decision and number of clicks, attempts and calls.

Deadlock is checked in every run but one: `Finished` (`Ended`) is the only way to stop,
when all calls are answered, no thread runs, the text is read. In `llm_client` it is not: a call
outside `wait_for` may wait for ever (`graph_builder.py:1237`), and `CallsEnd` says what must not.

### Fairness

`Fairness` is weak, per call, over handler and thread steps: the event loop and
the scheduler run what can run, and each external call has a timeout. Clients,
faults and restarts are not fair: nobody has to approve, nothing has to break.
`RunningSettles` and `ApprovalReachesMerge` ask nothing once a fault or a restart struck, since
the code promises nothing then (a restart leaves the row RUNNING for good), and the first asks
nothing of a workflow that was retested, whose thread's death is a finding.

`FairSpec` of `WebhookIngest` is weak, per delivery, over sending, timing out
and waking up, which `httpx`'s timeout and `asyncio.sleep` see to, and over the comment
task, whose client has a timeout too. The receiver need never answer and no sender has to send.

`LlmClient` is weakly fair, per call, for calls under `wait_for`: the thread runs, and a loop
that sleeps is woken by its 90 s timer. A call without a timer is promised nothing, since
no other thread wakes its loop; workflows need not call.

## 5. Findings

| Run | The code | The document |
|---|---|---|
| `finding_retest` | the retest thread dies with a NameError (`workflow_routes.py:543`) | `graph_builder.py:1357` |
| `finding_gitlab_trigger` | GitLab's actions are renamed before they are compared (`integration_service/main.py:324`, `:54`) | `GITEA_WEBHOOK_BEHAVIOR.md:230` |
| `finding_validator` | `validator_failed` is no key of `TuskerState`: LangGraph runs every agent on a repository it cannot read | `pr_review_workflow.py:360-361`, `graph_builder.py:1326` |

Seen while modelling, without a run of its own:

* a judge's APPROVE completes the row and merges nothing (`pr_review_workflow.py:433`;
  `E2E_WORKFLOW_TEST_GUIDE.md:97-99` expects a merge);
* row and registry may end with different statuses (`E2E_WORKFLOW_TEST_GUIDE.md:247`): an approval
  between the executor's last two writes (`pr_review_workflow.py:442-443`) is overwritten in the registry
  alone, and the dashboard's list shows the registry's. With one call at a time they agree
  (`RowAndRegistryAgree`);
* with DEPLOY_ON_MERGE an approval takes effect and answers HTTP 500 (`workflow_routes.py:498`, against
  `test_tuskersquad_e2e.py:187-189`), so the dashboard makes it three times and then reports an
  error; what the repetitions do is within `ClicksDelivered` and `DeployedOnce`;
* an override never resumes the graph: no cleanup (`E2E_WORKFLOW_TEST_GUIDE.md:153-155`);
* a start whose answer is lost is repeated (`integration_service/main.py:117`;
  `GITEA_WEBHOOK_BEHAVIOR.md:209`);
* a restart loses the checkpoint that `E2E_WORKFLOW_TEST_GUIDE.md:303-306` counts on
  (`graph_builder.py:1459`), and with it the names of what cleanup has to remove;
* a merge that fails under DEPLOY_ON_MERGE leaves `deploy_status` NULL
  (`DEBUGGING_WORKFLOW_ISSUES.md:243`);
* Gitea's trigger set has `synchronized` (`main.py:52`), as `BUG_FIX_IMPORT_WEBHOOK.md:43` says,
  where `GITEA_WEBHOOK_BEHAVIOR.md:55` says `synchronize`;
* a failed fetch or checkout is not noticed: the default branch is reviewed
  (`builder_agent.py:126`); a `docker stop` that times out skips the rm (`cleanup_agent.py:64`);
* a model may approve HIGH findings (`judge_agent.py:222`, against the comment at `:210` and
  `E2E_WORKFLOW_TEST_GUIDE.md:205`);
* a second pass under LangGraph stores the first one's findings again and, since `_fid` begins
  at 1 again, files challenges against findings of the other pass (`graph_builder.py:1501`);
* without LangGraph the gate approves by itself, the container is removed, and then the row
  waits for a person (`graph_builder.py:1276`);
* with two workflows running, the log of a model call may be filed under the other one
  (`llm_client.py:99`);
* a docker build that its timeout kills after it tagged leaves its image: the agent reports none,
  and cleanup looks for the fallback tag (`builder_agent.py:298`, `cleanup_agent.py:88`);
* after `\ No newline at end of file` the lines a hunk adds next are numbered one too high
  (`git_provider.py:208-211`, against the docstring at `:69`): git writes that line
  between the removed and the added last line of a file;
* a removed line that begins with `-- `, a comment in SQL, is read as a file header: it is not
  counted, and a deleted SQL file is listed under the comment's text; an added line that begins
  with `++ ` renames its file (`git_provider.py:149-166`);
* `status` becomes "modified" for the last file only (`git_provider.py:217`); a renamed or binary
  file without text is listed under no path;
* no agent sets `line_number`, so no finding is ever "direct".

## 6. Proofs

`WorkflowLifecycleProofs` proves, for either engine, every set of calls and every value of the flags
and bounds (`ConstantsAssumption` only types the constants), `TypeCorrect`,
`MergeNeedsHumanHolds`, `EveryMergeAuditedHolds`, `DeployedOnceHolds`,
`RecordsAreTrueHolds`, `CompletedIsDecidedHolds`, `ContractImplemented`, `RunningIsWorkedOnHolds`,
`PendingIsUnderWayHolds`, `NoApprovalLostHolds`, for all parts of the invariant together `IInvHolds`, and
of `SequentialSpec` `RowAndRegistryAgreeHolds`.

None of the properties is inductive: each speaks of the row and of the pull
request, and what keeps it true is what handlers, threads and the checkpoint
carry. `IInv` says that, in parts:

* `PlacesInv`: from where a call stands follows which endpoint it came from and
  what its graph state holds.
* `HumanInv`: a person's approval is recorded, or nobody holds an APPROVE: no handler,
  no thread, no graph state, not the checkpoint. The last one matters: a checkpoint
  outlives the thread that wrote it and a later decision may bring its APPROVE back. Only
  LangGraph's APPROVE counts (`CarriesApproval`): `SimpleGraph` sets it without a person, but it has no
  checkpoint and no resumer that could carry it on, which `PlacesInv` says.
* `AuditInv`: who is on the way to the merge has a row of its own.
* `DeployInv`: at most one thread has the provider's success in hand, and until it
  dispatches nothing is dispatched.
* `DecidedInv`: who is about to write COMPLETED has recorded a decision.
* `UnaskedInv`: a call that was not made asks for nothing. It is what a new call must not disturb
  in statements about all calls of an endpoint.

Each part is preserved given typing and places: one lemma per group of actions, one
step per action. `ContractImplemented` maps a step that records a person's approval to
Approve, a successful `MergeCall` to Merge, an accepted `DeployDispatch` to Deploy and
every other step to a stutter.

`RunningIsWorkedOn`, `PendingIsUnderWay` and `NoApprovalLost` are inductive given typing and `UnaskedInv`: the proof
goes action by action and names, for each that ends somebody's work, the write that came with it
or the thread that takes over. `RowAndRegistryAgree` is not: it speaks of quiet states only.
`SequentialInv` (`SequentialInvHolds`) adds that one call at most is busy and what that call, from where it
stands, has still to write to row or registry; `OneAtATime` gives that a new call finds nobody busy.

`RetriedPostProofs` proves `PostTypeCorrect`, `DeliveryImplemented` and `QuietAfterAnswerHolds`. Its invariant adds to
the types how far a caller has got (`AttemptInv`) and that a request is sent and ends
once (`OnceInv`): otherwise carrying out an attempt would not be a step of `Delivery`.

`WebhookIngestProofs` proves `TypeCorrect`, `NoUninvitedReviewHolds`, `AnswersAreTrueHolds`,
`DeliveryImplemented` and `QuietAfterAnswerHolds`. Each step of the service is a step of the POST or a
stutter (`PostStep`), so the invariant of `RetriedPostProofs` holds here too, and a step that maps to
one of `Delivery` there does so here. `AcceptedInv` adds that only an accepted delivery leaves a
trace and that a request belongs to a delivery past its `idle`; `StartedInv`, that an ok has
its workflow. `IngestAssumption` and `RetriesAssumption` type the constants.

`DecisionProxyProofs` proves `ProxyTypeCorrect`, `ClicksOnRecordHolds`,
`MergeWasClickedHolds` and `ClicksAreDelivered`. Each step is, by its definition, a step of
`WorkflowLifecycle` or leaves the service alone (the lemma `ServiceStepsOnly`): that says nothing of
the code, but lets all theorems about the service be cited here. `CallerInv` follows a click through its attempts (`ClickInv`) and says
that a request in flight has a click (`FlightInv`). `ServiceInv` ties the service to it: a call of a
request asks for what was clicked (`RequestInv`); from its first commit on its decision is on record, and
an ok was answered only with it (`RecordInv`); a person's row was written once, by a handler past that
commit, and says what the handler was called for (`HumanRowInv`). `MergeWasClicked` then
follows from `MergeNeedsHumanHolds`: the approving row is of a request, whose click asked for it, or of a
direct call. For `ClicksDelivered` the commit of a request's row is CarryOut, an answer that ends the
click TellOk or TellError, all else a stutter. `ProxyAssumption` says that each attempt is one of `Calls`.

`EphemeralEnvironmentProofs` proves `TypeCorrect` and `IsolationHolds`: things on the host carry
the name of their maker, threads and checkpoints hold names of their own workflow only
(`OwnKeys`), names of two workflows differ and the fallback tag is the name of none.

It also proves `AliveForReviewHolds`, `ContainersGoneHolds` and `HostCleanHolds`.
`Tidy`, of a workflow that was not disturbed: a thread that has not come to cleanup is
alone and the checkpoint is at its node; the state names the image and the directory
that are there (`Known`); a URL in the state of a first pass has its container; what a
cleanup step was to remove is gone for the steps after it, also when two cleanups run side by
side. A step of another workflow leaves all of it alone (`OthersKeep`, from isolation).

`ReviewGraphProofs` proves `TypeCorrect`, `ApprovedMeansPassedHolds`, `ApprovedOnThisPassHolds`,
`ChallengesHitTheirFindingHolds` and `ResultIsRecordedHolds`, for any number of passes and
deviations. One lemma per agent says what its reports have in common. `Successes`: after the
deployer, the tester and the runtime analyzer either there is a HIGH finding or the key that
says success is set and stays set; so rules that approve have all three.
`Counted`: in a first pass the numbers of findings that may be disputed only grow, because only
reports without such findings are not counted; so the last finding of a number is the disputed
one, which is the one `id_map` names. `Raised` ties a challenge to the finding it came from.

`LlmClientProofs` proves `TypeCorrect`, `NothingHeldHolds` and `LoggedUnlessLostHolds`. `Permits`: the
permits in the semaphore, in requests and on their way to a waiter add up to one (the value
drops below zero when two threads took the permit together). `LockHeld`: a locked lock has a
call inside it. `Logged`: a call is logged, or its row lost, on its way from `log` to `ended` and
nowhere else.

`UnifiedDiffProofs` proves `TypeCorrect`, `ChangedLinesAreTrueHolds`, `ChangesCountedHolds` and
`RelevanceTrueHolds` for diffs of any length. `InHand`: a file is in hand exactly while a section is
read, a hunk exactly inside one. `InStep`: parser and diff count alike up to the first odd line,
and no line has been added beyond the one counted to. `Agreement`: each record agrees with its
section. `NameInv`: without disguised lines a record has the names of its section, and no other
section has them.

Every invariant, every action property and every refinement of a run has its theorem. Only
model-checked: liveness (fairness and ENABLED are beyond the prover) and the violations. TLC checks the
`IInv` of `WorkflowInvariants` itself in `lifecycle_safety`. The assumptions on constants
(`ConstantsAssumption`, `RetriesAssumption`, `IngestAssumption`, `ProxyAssumption`, `EnvironmentAssumption`, `AgentsAssumption`,
`GraphAssumption`, `LlmAssumption`, `DiffAssumption`, `NoneAssumption`) only type them and
keep model values apart.

## 7. Not modelled

* The dashboard's list, its polling and its read-only proxies, the read-only endpoints of the API, labels and
  comments on pull requests: they change nothing that any decision reads. The overlay of
  registry over row is in "Seen while modelling".
* What agents measure, match and write: probes, thresholds, texts and prompts are the choice of one
  of their outcomes. The summary of a review and the planner's text are left out.
* Of the diff analyzer the match of a finding's words with file names, counts by extension and risk
  flags: they depend on texts only.
* `get_graph` without a lock: the models have one graph. A checkpoint in a second graph is
  as lost as after a restart, which is modelled.
* In `UnifiedDiff` a path is read as it is meant: the quotes git puts around unusual paths and
  the TAB after a path with blanks stay in the parser's paths (`git_provider.py:149-166`) and
  would make such a file one under another name. What a form feed cuts off and that begins like
  the header of a file (`diff --git`, `--- `, `+++ `, `new file`, `deleted file`, `rename`) is left out too.
* A remote DEPLOY_HOST, on which cleanup, always local, removes nothing.
* The demo shop (the application under review), the review UI (polling and layout), schema,
  infrastructure and scripts.
