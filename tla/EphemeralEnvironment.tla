------------------------ MODULE EphemeralEnvironment ------------------------
(***************************************************************************)
(* What reviews leave on the Docker host: the builder agent clones a pull  *)
(* request and tags an image, the deployer starts a container of it for    *)
(* the probing agents and for the person at the gate, the cleanup agent    *)
(* removes all three.                                                      *)
(*                                                                         *)
(* A run is one thread that works on the graph of a workflow: a pass from  *)
(* the first node on (start, resume) or the rest of a pass after a         *)
(* decision.  Runs of one workflow share its LangGraph checkpoint, runs of *)
(* all workflows share the host.  Every command an agent issues is a step. *)
(***************************************************************************)
EXTENDS Naturals

CONSTANTS
    Runs,           \* threads; bounds the behaviour
    Workflows,
    PullRequest,    \* the pull request a workflow reviews
    MaxRestarts,    \* bound on restarts of the service
    MaxFaults       \* bound on nodes and cleanup commands that break

ASSUME EnvironmentAssumption ==
    /\ "build" \notin Workflows
    /\ MaxRestarts \in Nat
    /\ MaxFaults \in Nat

VARIABLES
    at, wf, keys,       \* each run: its next step, its workflow, its copy of the state
    checkpoint,         \* MemorySaver: per workflow the next node and the state
    host,               \* directories, images and containers of the host
    passes, disturbed,  \* history: passes begun; workflows whose passes overlapped
                        \* or whose cleanup broke
    killed,             \* history: workflows whose docker build was killed after it tagged
    restarts, faults    \* bounds

vars == <<at, wf, keys, checkpoint, host, passes, disturbed, killed, restarts,
          faults>>

-----------------------------------------------------------------------------
(* No directory, tag or container. *)
Nothing == <<>>
None == "none"
PullRequests == {PullRequest[w] : w \in Workflows}

(* Mutant: the names before fixes B-2 and B-3. *)
NameMutant(w) == <<PullRequest[w], "build">>
(* Directory, image tag and container of a workflow carry its pull request *)
(* and its id.                                                             *)
Name(w) == <<PullRequest[w], w>>
(* The tag cleanup falls back on when no image is in the state. *)
FallbackTag(w) == <<PullRequest[w], "build">>
Names == PullRequests \X (Workflows \cup {"build"})

(* A thing on the host, the workflow that made it, and what is in it: whole *)
(* is the head of the pull request or, when get_pr_info, fetch or checkout  *)
(* fail, which nothing notices, the default branch.                         *)
Contents == {"empty", "partial", "whole"}
Things == [kind : {"workspace", "image", "container"}, name : Names, by : Workflows,
           code : Contents]
Thing(kind, w, code) == [kind |-> kind, name |-> Name(w), by |-> w, code |-> code]
Named(kind, name) == {x \in host : x.kind = kind /\ x.name = name}

(* The state keys that name things; url stands for deploy_url and public_url. *)
Keys == [workspace : Names \cup {Nothing}, image : Names \cup {Nothing},
         container : Names \cup {Nothing}, url : Names \cup {Nothing}]
NoKeys == [workspace |-> Nothing, image |-> Nothing, container |-> Nothing, url |-> Nothing]

Nodes == {"builder", "deployer", "judge", "gate", "cleanup", "end"}
Checkpoints == [next : Nodes \cup {None}, keys : Keys]
NoCheckpoint == [next |-> None, keys |-> NoKeys]

CleanupSteps == {"cleanup", "rmi", "rmtree", "orphans"}
Steps == {"idle", "builder", "clone", "build", "deployer", "health", "judge", "done"}
            \cup CleanupSteps

TypeOK ==
    /\ at \in [Runs -> Steps]
    /\ wf \in [Runs -> Workflows \cup {None}]
    /\ \A r \in Runs : at[r] \in Steps \ {"idle", "done"} => wf[r] \in Workflows
    /\ keys \in [Runs -> Keys]
    /\ checkpoint \in [Workflows -> Checkpoints]
    /\ host \subseteq Things
    /\ passes \in [Workflows -> Nat]
    /\ disturbed \subseteq Workflows
    /\ killed \subseteq Workflows
    /\ restarts \in Nat
    /\ faults \in Nat

Init ==
    /\ at = [r \in Runs |-> "idle"]
    /\ wf = [r \in Runs |-> None]
    /\ keys = [r \in Runs |-> NoKeys]
    /\ checkpoint = [w \in Workflows |-> NoCheckpoint]
    /\ host = {}
    /\ passes = [w \in Workflows |-> 0]
    /\ disturbed = {}
    /\ killed = {}
    /\ restarts = 0
    /\ faults = 0

-----------------------------------------------------------------------------
Active(w) == \E r \in Runs : wf[r] = w /\ at[r] \notin {"idle", "done"}

Enter(r, w, node) ==
    /\ at[r] = "idle"
    /\ at' = [at EXCEPT ![r] = node]
    /\ wf' = [wf EXCEPT ![r] = w]
    /\ keys' = [keys EXCEPT ![r] = checkpoint[w].keys]

(* POST /workflow/start, or /workflow/{id}/resume at any time: execute_workflow *)
(* invokes the graph.  The input names none of these keys, so those a former    *)
(* pass left in the checkpoint stay.                                            *)
Invoke(r, w) ==
    /\ Enter(r, w, "builder")
    /\ checkpoint' = [checkpoint EXCEPT ![w].next = "builder"]
    /\ passes' = [passes EXCEPT ![w] = @ + 1]
    /\ disturbed' = IF Active(w) THEN disturbed \cup {w} ELSE disturbed
    /\ UNCHANGED <<host, killed, restarts, faults>>

(* Mutant: resumes the gate itself. *)
ResumeMutant(r, w) ==
    /\ checkpoint[w].next \notin {None, "end"}
    /\ Enter(r, w, checkpoint[w].next)
    /\ UNCHANGED <<checkpoint, host, passes, disturbed, killed, restarts, faults>>
(* approve or reject: the resumed graph goes on after the gate or, when the *)
(* pass has not got there, runs the nodes that are left a second time.  A   *)
(* thread without a checkpoint would run them with no workflow id and no    *)
(* repository, on names no workflow has: it is left out.                    *)
Resume(r, w) ==
    /\ checkpoint[w].next \notin {None, "end"}
    /\ Enter(r, w, IF checkpoint[w].next = "gate" THEN "cleanup" ELSE checkpoint[w].next)
    /\ disturbed' = IF Active(w) /\ checkpoint[w].next \notin {"gate", "cleanup"}
                    THEN disturbed \cup {w} ELSE disturbed
    /\ UNCHANGED <<checkpoint, host, passes, killed, restarts, faults>>

GoTo(r, step) == at' = [at EXCEPT ![r] = step]

(* A node returns: its keys go into the state and the checkpoint is saved. *)
(* A thread that ends takes its copy of the state with it.                 *)
Return(r, node, k) ==
    /\ IF node \in {"gate", "end"}
       THEN /\ GoTo(r, "done")
            /\ wf' = [wf EXCEPT ![r] = None]
            /\ keys' = [keys EXCEPT ![r] = NoKeys]
       ELSE /\ GoTo(r, node)
            /\ keys' = [keys EXCEPT ![r] = k]
            /\ UNCHANGED wf
    /\ checkpoint' = [checkpoint EXCEPT ![wf[r]] = [next |-> node, keys |-> k]]

Quiet == UNCHANGED <<passes, disturbed, killed, restarts, faults>>
-----------------------------------------------------------------------------
(* builder_agent *)

MakeDir(r) ==
    /\ at[r] = "builder"
    /\ host' = IF Named("workspace", Name(wf[r])) = {}
               THEN host \cup {Thing("workspace", wf[r], "empty")} ELSE host
    /\ GoTo(r, "clone")
    /\ UNCHANGED <<wf, keys, checkpoint>> /\ Quiet

(* git clone refuses a directory that has something in it. *)
Clone(r) ==
    /\ at[r] = "clone"
    /\ \A x \in Named("workspace", Name(wf[r])) : x.code = "empty"
    /\ host' = (host \ Named("workspace", Name(wf[r])))
                    \cup {Thing("workspace", wf[r], "whole")}
    /\ GoTo(r, "build")
    /\ UNCHANGED <<wf, keys, checkpoint>> /\ Quiet

Built(r, image) ==
    Return(r, "deployer", [keys[r] EXCEPT !.workspace = Name(wf[r]), !.image = image])

(* Refused, or unreachable, or killed after 300 s with half the files there. *)
CloneFails(r) ==
    /\ at[r] = "clone"
    /\ LET there == Named("workspace", Name(wf[r])) IN
        \/ host' = host
        \/ /\ \A x \in there : x.code = "empty"
           /\ host' = (host \ there) \cup {Thing("workspace", wf[r], "partial")}
    /\ Built(r, Nothing)
    /\ Quiet

(* docker build tags a new image; when it fails, or there is no Dockerfile, *)
(* npm, pip or maven may still succeed: then the tag is reported all the    *)
(* same, with no new image behind it.                                       *)
Build(r) ==
    /\ at[r] = "build"
    /\ LET sources == {x \in Named("workspace", Name(wf[r])) : x.code = "whole"} IN
        \/ \E x \in sources :
            /\ host' = (host \ Named("image", Name(wf[r])))
                            \cup {Thing("image", wf[r], x.code)}
            /\ Built(r, Name(wf[r]))
        \/ host' = host /\ sources # {} /\ Built(r, Name(wf[r]))
        \/ host' = host /\ Built(r, Nothing)
    /\ Quiet

(* docker build is killed at its timeout after it has tagged; the agent     *)
(* reports no image.                                                        *)
BuildKilled(r) ==
    /\ at[r] = "build"
    /\ \E x \in Named("workspace", Name(wf[r])) :
        /\ x.code = "whole"
        /\ host' = (host \ Named("image", Name(wf[r])))
                        \cup {Thing("image", wf[r], x.code)}
    /\ Built(r, Nothing)
    /\ faults < MaxFaults
    /\ faults' = faults + 1
    /\ killed' = killed \cup {wf[r]}
    /\ UNCHANGED <<passes, disturbed, restarts>>

-----------------------------------------------------------------------------
(* deployer_agent *)

Deployed(r, container, url) ==
    [keys[r] EXCEPT !.container = container, !.url = url]

(* The early return names no container. *)
NothingToDeploy(r) ==
    /\ at[r] = "deployer"
    /\ keys[r].image = Nothing
    /\ Return(r, "judge", Deployed(r, Nothing, Nothing))
    /\ UNCHANGED host /\ Quiet

DockerRun(r) ==
    /\ at[r] = "deployer"
    /\ Named("container", Name(wf[r])) = {}
    /\ \E image \in Named("image", keys[r].image) :
        host' = host \cup {Thing("container", wf[r], image.code)}
    /\ keys' = [keys EXCEPT ![r] = Deployed(r, Name(wf[r]), Name(wf[r]))]
    /\ GoTo(r, "health")
    /\ UNCHANGED <<wf, checkpoint>> /\ Quiet

(* Mutant: sets the URL before it looks at the return code. *)
DeployFailsMutant(r) ==
    /\ at[r] = "deployer"
    /\ keys[r].image # Nothing
    /\ Return(r, "judge", Deployed(r, Name(wf[r]), Name(wf[r])))
    /\ UNCHANGED host /\ Quiet
(* No such image, the name in use, a refusal or timeout of docker run; the *)
(* latter may leave a container behind.                                    *)
DeployFails(r) ==
    /\ at[r] = "deployer"
    /\ keys[r].image # Nothing
    /\ \/ host' = host
       \/ /\ Named("container", Name(wf[r])) = {}
          /\ \E image \in Named("image", keys[r].image) :
                host' = host \cup {Thing("container", wf[r], image.code)}
    /\ Return(r, "judge", Deployed(r, Name(wf[r]), Nothing))
    /\ Quiet

(* Port readback and health loop, a minute at most; the URL stays in the   *)
(* state whatever they find.                                               *)
HealthCheck(r) ==
    /\ at[r] = "health"
    /\ Return(r, "judge", keys[r])
    /\ UNCHANGED host /\ Quiet

(* The probing and judging nodes; the thread ends at the gate. *)
Judge(r) ==
    /\ at[r] = "judge"
    /\ \E node \in {"gate", "cleanup"} : Return(r, node, keys[r])
    /\ UNCHANGED host /\ Quiet

-----------------------------------------------------------------------------
(* cleanup_agent *)

Advance(r, step, next) ==
    /\ at[r] = step
    /\ IF next = "done" THEN Return(r, "end", keys[r])
       ELSE GoTo(r, next) /\ UNCHANGED <<wf, keys, checkpoint>>

Removes(r, step, next, things) ==
    /\ Advance(r, step, next)
    /\ host' = host \ things
    /\ Quiet

StopContainer(r) == Removes(r, "cleanup", "rmi", Named("container", keys[r].container))

(* Mutant: the tag before fix A-3. *)
RemoveImageMutant(r) == Removes(r, "rmi", "rmtree", Named("image", FallbackTag(wf[r])))
RemoveImage(r) ==
    LET tag == IF keys[r].image = Nothing THEN FallbackTag(wf[r]) ELSE keys[r].image
    IN  Removes(r, "rmi", "rmtree", Named("image", tag))

RemoveWorkspace(r) == Removes(r, "rmtree", "orphans", Named("workspace", keys[r].workspace))

(* Mutant: looks for no orphans. *)
OrphansMutant(r) == {}
(* docker ps by workflow id, which leaves out the container of the state. *)
Orphans(r) == {x \in host : /\ x.kind = "container"
                            /\ x.name[2] = wf[r]
                            /\ x.name # keys[r].container}
RemoveOrphans(r) == Removes(r, "orphans", "done", Orphans(r))

(* A command of cleanup fails or times out; the next one is tried.  A stop *)
(* that times out skips the rm.                                            *)
CleanupFails(r) ==
    /\ \/ Advance(r, "cleanup", "rmi") \/ Advance(r, "rmi", "rmtree")
       \/ Advance(r, "rmtree", "orphans") \/ Advance(r, "orphans", "done")
    /\ faults < MaxFaults
    /\ faults' = faults + 1
    /\ disturbed' = disturbed \cup {wf[r]}
    /\ UNCHANGED <<host, passes, killed, restarts>>

-----------------------------------------------------------------------------
(* An agent is missing or raises (makedirs without permission, a full disk): *)
(* its node reports a finding, sets no key, and the graph goes on.           *)
NodeFails(r) ==
    /\ faults < MaxFaults
    /\ faults' = faults + 1
    /\ \/ at[r] = "builder" /\ Return(r, "deployer", keys[r]) /\ UNCHANGED disturbed
       \/ at[r] = "deployer" /\ Return(r, "judge", keys[r]) /\ UNCHANGED disturbed
       \/ /\ at[r] = "cleanup" /\ Return(r, "end", keys[r])
          /\ disturbed' = disturbed \cup {wf[r]}
    /\ UNCHANGED <<host, passes, killed, restarts>>

(* The service restarts: threads and checkpoints are gone, the host is not. *)
Restart ==
    /\ restarts < MaxRestarts
    /\ restarts' = restarts + 1
    /\ at' = [r \in Runs |-> IF at[r] = "idle" THEN "idle" ELSE "done"]
    /\ wf' = [r \in Runs |-> None]
    /\ keys' = [r \in Runs |-> NoKeys]
    /\ checkpoint' = [w \in Workflows |-> NoCheckpoint]
    /\ UNCHANGED <<host, passes, disturbed, killed, faults>>

Finished ==
    /\ \A r \in Runs : at[r] = "done"
    /\ UNCHANGED vars

Step(r) ==
    \/ MakeDir(r) \/ Clone(r) \/ CloneFails(r) \/ Build(r) \/ BuildKilled(r)
    \/ NothingToDeploy(r) \/ DockerRun(r) \/ DeployFails(r) \/ HealthCheck(r)
    \/ Judge(r)
    \/ StopContainer(r) \/ RemoveImage(r) \/ RemoveWorkspace(r) \/ RemoveOrphans(r)
    \/ CleanupFails(r) \/ NodeFails(r)

Next ==
    \/ \E r \in Runs, w \in Workflows : Invoke(r, w) \/ Resume(r, w)
    \/ \E r \in Runs : Step(r)
    \/ Restart
    \/ Finished

Spec == Init /\ [][Next]_vars

-----------------------------------------------------------------------------
(* What a workflow has on the host is made, replaced and removed by its own *)
(* threads only, two reviews of one pull request included (fixes B-2, B-3   *)
(* and A-3).                                                                *)
OwnThingsOnly ==
    \A x \in (host \ host') \cup (host' \ host) :
        \E r \in Runs : at'[r] # at[r] /\ wf[r] = x.by
Isolation == [][OwnThingsOnly]_vars

(* While a person decides on a first pass, the container the link leads to *)
(* is there and holds what this workflow built (graph_builder.py:1436).    *)
AliveForReview ==
    \A w \in Workflows \ disturbed :
        /\ checkpoint[w].next = "gate" /\ checkpoint[w].keys.url # Nothing
        /\ passes[w] = 1 /\ ~Active(w)
        => \E x \in Named("container", checkpoint[w].keys.url) : x.by = w

(* When no thread works on a workflow any more and its graph has ended, no *)
(* container of it is left, however many passes and decisions it has seen, *)
(* one after the other.                                                    *)
ContainersGone ==
    \A w \in Workflows \ disturbed :
        checkpoint[w].next = "end" /\ ~Active(w)
        => \A x \in host : x.by = w => x.kind # "container"

(* A review of one pass leaves neither image nor directory either, but for *)
(* the image of a docker build killed after it tagged: the state names no  *)
(* image, so cleanup looks for the fallback tag (builder_agent.py:298,     *)
(* cleanup_agent.py:88).                                                   *)
HostClean ==
    \A w \in Workflows \ disturbed :
        checkpoint[w].next = "end" /\ ~Active(w) /\ passes[w] = 1
        => \A x \in host : x.by = w => x.kind = "image" /\ w \in killed
=============================================================================
