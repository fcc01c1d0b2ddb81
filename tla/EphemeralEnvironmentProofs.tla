--------------------- MODULE EphemeralEnvironmentProofs ---------------------
(***************************************************************************)
(* Type correctness of EphemeralEnvironment, the isolation of reviews, and *)
(* that they clean up: whatever the workflows, pull requests, threads,     *)
(* faults and restarts, a thread touches on the host only what its own     *)
(* workflow has there, the container outlives the person's decision, and   *)
(* an undisturbed workflow leaves nothing.                                 *)
(***************************************************************************)
EXTENDS EphemeralEnvironment, TLAPS

USE EnvironmentAssumption

(* A state names nothing but the things of its workflow. *)
OwnKeys(k, w) ==
    /\ k.workspace \in {Nothing, Name(w)}
    /\ k.image \in {Nothing, Name(w)}
    /\ k.container \in {Nothing, Name(w)}
    /\ k.url \in {Nothing, Name(w)}

Busy(r) == at[r] \notin {"idle", "done"}

ThreadInv ==
    /\ at \in [Runs -> Steps]
    /\ wf \in [Runs -> Workflows \cup {None}]
    /\ keys \in [Runs -> Keys]
    /\ checkpoint \in [Workflows -> Checkpoints]
    /\ \A r \in Runs : Busy(r) => wf[r] \in Workflows /\ OwnKeys(keys[r], wf[r])
    /\ \A w \in Workflows : OwnKeys(checkpoint[w].keys, w)

HostInv ==
    /\ host \subseteq Things
    /\ \A x \in host : x.name = Name(x.by)

CountInv ==
    /\ passes \in [Workflows -> Nat]
    /\ disturbed \subseteq Workflows
    /\ killed \subseteq Workflows
    /\ restarts \in Nat
    /\ faults \in Nat

(* What makes isolation inductive: things carry the name of their maker,  *)
(* threads and checkpoints hold names of their own workflow only.         *)
IInv == ThreadInv /\ HostInv /\ CountInv

-----------------------------------------------------------------------------
(* Names tell workflows apart; a fallback tag is the name of none. *)
LEMMA NamesDiffer ==
    ASSUME NEW v \in Workflows, NEW w \in Workflows
    PROVE  /\ Name(v) \in Names
           /\ FallbackTag(v) \in Names
           /\ Name(v) = Name(w) => v = w
           /\ Name(v) # Nothing
           /\ Name(v) # FallbackTag(w)
BY DEF Name, Names, FallbackTag, PullRequests, Nothing

(* A thread of w that looks a thing up by a name it may hold finds its own. *)
LEMMA FindsOwn ==
    ASSUME HostInv, NEW w \in Workflows, NEW kind, NEW name \in {Nothing, Name(w), FallbackTag(w)},
           NEW x \in Named(kind, name)
    PROVE  x.by = w
<1>1. x \in host /\ x.name = name /\ x.name = Name(x.by) /\ x.by \in Workflows
  BY DEF Named, HostInv, Things
<1> QED
  BY <1>1, NamesDiffer

LEMMA HostGrows ==
    ASSUME HostInv, NEW w \in Workflows, NEW kind \in {"workspace", "image", "container"},
           NEW code \in Contents,
           host' \subseteq host \cup {Thing(kind, w, code)}
    PROVE  HostInv'
<1>1. Thing(kind, w, code) \in Things
  BY NamesDiffer DEF Thing, Things
<1>2. Thing(kind, w, code).name = Name(Thing(kind, w, code).by)
  BY DEF Thing
<1> QED
  BY <1>1, <1>2 DEF HostInv, Name

LEMMA HostShrinks ==
    ASSUME HostInv, host' \subseteq host
    PROVE  HostInv'
BY DEF HostInv, Name

(* A step that changes nothing but where a thread stands. *)
LEMMA GoToKeeps ==
    ASSUME ThreadInv, NEW r \in Runs, Busy(r), NEW step \in Steps, GoTo(r, step),
           UNCHANGED <<wf, keys, checkpoint>>
    PROVE  ThreadInv'
BY DEF ThreadInv, GoTo, Busy, OwnKeys, Name

LEMMA NoKeysOwn ==
    /\ NoKeys \in Keys
    /\ \A w : OwnKeys(NoKeys, w)
BY DEF NoKeys, Keys, OwnKeys

LEMMA ReturnKeeps ==
    ASSUME ThreadInv, NEW r \in Runs, Busy(r),
           NEW node \in {"deployer", "judge", "gate", "cleanup", "end"},
           NEW k \in Keys, OwnKeys(k, wf[r]), Return(r, node, k)
    PROVE  ThreadInv'
<1>0. wf[r] \in Workflows
  BY DEF ThreadInv
<1>1. checkpoint' = [checkpoint EXCEPT ![wf[r]] = [next |-> node, keys |-> k]]
  BY DEF Return
<1>2. [next |-> node, keys |-> k] \in Checkpoints
  BY DEF Checkpoints, Nodes
<1>3. /\ checkpoint' \in [Workflows -> Checkpoints]
      /\ \A w \in Workflows : OwnKeys(checkpoint'[w].keys, w)
  BY <1>0, <1>1, <1>2 DEF ThreadInv
<1>4. CASE node \in {"gate", "end"}
  <2>1. /\ at' = [at EXCEPT ![r] = "done"]
        /\ wf' = [wf EXCEPT ![r] = None]
        /\ keys' = [keys EXCEPT ![r] = NoKeys]
    BY <1>4 DEF Return, GoTo
  <2> QED
    BY <2>1, <1>3, NoKeysOwn DEF ThreadInv, Busy, Steps, OwnKeys, Name
<1>5. CASE node \notin {"gate", "end"}
  <2>1. /\ at' = [at EXCEPT ![r] = node]
        /\ wf' = wf
        /\ keys' = [keys EXCEPT ![r] = k]
    BY <1>5 DEF Return, GoTo
  <2> QED
    BY <2>1, <1>0, <1>3, <1>5 DEF ThreadInv, Busy, Steps, CleanupSteps, OwnKeys, Name
<1> QED
  BY <1>4, <1>5

-----------------------------------------------------------------------------
LEMMA InitInv == Init => IInv
BY NoKeysOwn DEF Init, IInv, ThreadInv, HostInv, CountInv, Steps, Checkpoints,
                 NoCheckpoint, Busy

LEMMA EnterKeeps ==
    ASSUME ThreadInv, NEW r \in Runs, NEW w \in Workflows, NEW node \in Steps,
           Enter(r, w, node)
    PROVE  /\ at' \in [Runs -> Steps]
           /\ wf' \in [Runs -> Workflows \cup {None}]
           /\ keys' \in [Runs -> Keys]
           /\ \A q \in Runs : Busy(q)' => wf'[q] \in Workflows /\ OwnKeys(keys'[q], wf'[q])
BY DEF ThreadInv, Enter, Busy, OwnKeys, Name, Checkpoints

LEMMA StartInv ==
    ASSUME IInv, NEW r \in Runs, NEW w \in Workflows, Invoke(r, w) \/ Resume(r, w)
    PROVE  IInv' /\ OwnThingsOnly
<1>1. host' = host /\ OwnThingsOnly /\ HostInv'
  BY DEF Invoke, Resume, OwnThingsOnly, IInv, HostInv, Name
<1>2. CountInv'
  BY DEF Invoke, Resume, IInv, CountInv
<1>3. CASE Invoke(r, w)
  <2>1. /\ checkpoint' \in [Workflows -> Checkpoints]
        /\ \A v \in Workflows : checkpoint'[v].keys = checkpoint[v].keys
    BY <1>3 DEF Invoke, IInv, ThreadInv, Checkpoints, Nodes
  <2>2. ThreadInv'
    BY <1>3, <2>1, EnterKeeps DEF Invoke, IInv, ThreadInv, Steps, OwnKeys, Name
  <2> QED
    BY <1>1, <1>2, <2>2 DEF IInv
<1>4. CASE Resume(r, w)
  <2> DEFINE node == IF checkpoint[w].next = "gate" THEN "cleanup" ELSE checkpoint[w].next
  <2>1. node \in Steps
    BY <1>4 DEF Resume, IInv, ThreadInv, Checkpoints, Nodes, Steps, CleanupSteps
  <2>2. ThreadInv'
    BY <1>4, <2>1, EnterKeeps DEF Resume, IInv, ThreadInv, OwnKeys, Name
  <2> QED
    BY <1>1, <1>2, <2>2 DEF IInv
<1> QED
  BY <1>3, <1>4

(* A thread that moves on may have touched what its workflow owns. *)
LEMMA OwnStep ==
    ASSUME IInv, NEW r \in Runs, Busy(r), at'[r] # at[r],
           \A x \in (host \ host') \cup (host' \ host) : x.by = wf[r]
    PROVE  OwnThingsOnly
BY DEF OwnThingsOnly

LEMMA BuilderInv ==
    ASSUME IInv, NEW r \in Runs,
           MakeDir(r) \/ Clone(r) \/ CloneFails(r) \/ Build(r) \/ BuildKilled(r)
    PROVE  IInv' /\ OwnThingsOnly
<1> DEFINE w == wf[r]
           there == Named("workspace", Name(w))
<1>0. Busy(r) /\ w \in Workflows /\ keys[r] \in Keys /\ OwnKeys(keys[r], w) /\ Name(w) \in Names
  BY NamesDiffer DEF MakeDir, Clone, CloneFails, Build, BuildKilled, Busy, IInv, ThreadInv
<1>1. CountInv'
  <2>1. w \in Workflows
    BY <1>0
  <2> QED
    BY <2>1 DEF MakeDir, Clone, CloneFails, Build, BuildKilled, Quiet, IInv, CountInv
<1>2. /\ \A x \in there : x.by = w
      /\ \A x \in Named("image", Name(w)) : x.by = w
      /\ \A kind, code : Thing(kind, w, code).by = w
  BY <1>0, FindsOwn DEF IInv, Thing
<1>3. CASE MakeDir(r)
  <2>1. host' \subseteq host \cup {Thing("workspace", w, "empty")} /\ host \subseteq host'
    BY <1>3 DEF MakeDir
  <2>2. HostInv'
    BY <1>0, <2>1, HostGrows DEF IInv, Contents
  <2>3. ThreadInv'
    BY <1>0, <1>3, GoToKeeps DEF MakeDir, IInv, Steps
  <2>4. at'[r] # at[r]
    BY <1>3 DEF MakeDir, GoTo, IInv, ThreadInv
  <2> QED
    BY <1>0, <1>1, <1>2, <2>1, <2>2, <2>3, <2>4, OwnStep DEF IInv
<1>4. CASE Clone(r)
  <2>1. host' = (host \ there) \cup {Thing("workspace", w, "whole")}
    BY <1>4 DEF Clone
  <2>2. HostInv'
    BY <1>0, <2>1, HostGrows DEF IInv, Contents
  <2>3. ThreadInv'
    BY <1>0, <1>4, GoToKeeps DEF Clone, IInv, Steps
  <2>4. at'[r] # at[r]
    BY <1>4 DEF Clone, GoTo, IInv, ThreadInv
  <2> QED
    BY <1>0, <1>1, <1>2, <2>1, <2>2, <2>3, <2>4, OwnStep DEF IInv
<1>5. ASSUME NEW image \in {Nothing, Name(w)}, Built(r, image), at[r] # "deployer"
      PROVE  ThreadInv' /\ at'[r] # at[r]
  <2> DEFINE k == [keys[r] EXCEPT !.workspace = Name(w), !.image = image]
  <2>1. k \in Keys /\ OwnKeys(k, w)
    BY <1>0 DEF Keys, OwnKeys
  <2>2. Return(r, "deployer", k)
    BY <1>5 DEF Built
  <2> HIDE DEF k
  <2>3. ThreadInv'
    BY <1>0, <2>1, <2>2, ReturnKeeps DEF IInv
  <2>4. at'[r] # at[r]
    BY <1>5, <2>2 DEF Return, GoTo, IInv, ThreadInv
  <2> QED
    BY <2>3, <2>4
<1>6. CASE CloneFails(r)
  <2>1. \/ host' = host
        \/ host' = (host \ there) \cup {Thing("workspace", w, "partial")}
    BY <1>6 DEF CloneFails
  <2>2. HostInv'
    BY <1>0, <2>1, HostGrows, HostShrinks DEF IInv, Contents
  <2>3. ThreadInv' /\ at'[r] # at[r]
    BY <1>5, <1>6 DEF CloneFails
  <2> QED
    BY <1>0, <1>1, <1>2, <2>1, <2>2, <2>3, OwnStep DEF IInv
<1>7. CASE Build(r)
  <2>1. \/ host' = host
        \/ \E code \in Contents :
              host' = (host \ Named("image", Name(w))) \cup {Thing("image", w, code)}
    BY <1>7 DEF Build, Contents
  <2>2. HostInv'
    <3>1. CASE host' = host
      BY <3>1, HostShrinks DEF IInv
    <3>2. ASSUME NEW code \in Contents,
                 host' = (host \ Named("image", Name(w))) \cup {Thing("image", w, code)}
          PROVE  HostInv'
      BY <1>0, <3>2, HostGrows DEF IInv
    <3> QED
      BY <2>1, <3>1, <3>2
  <2>3. ThreadInv' /\ at'[r] # at[r]
    BY <1>5, <1>7 DEF Build
  <2> QED
    BY <1>0, <1>1, <1>2, <2>1, <2>2, <2>3, OwnStep DEF IInv
<1>8. CASE BuildKilled(r)
  <2>1. host' = (host \ Named("image", Name(w))) \cup {Thing("image", w, "whole")}
    BY <1>8 DEF BuildKilled
  <2>2. HostInv'
    BY <1>0, <2>1, HostGrows DEF IInv, Contents
  <2>3. ThreadInv' /\ at'[r] # at[r]
    BY <1>5, <1>8 DEF BuildKilled
  <2> QED
    BY <1>0, <1>1, <1>2, <2>1, <2>2, <2>3, OwnStep DEF IInv
<1> QED
  BY <1>3, <1>4, <1>6, <1>7, <1>8

(* A node that returns keys of its own workflow. *)
LEMMA ReturnMoves ==
    ASSUME IInv, NEW r \in Runs, Busy(r),
           NEW node \in {"deployer", "judge", "gate", "cleanup", "end"}, node # at[r],
           NEW k \in Keys, OwnKeys(k, wf[r]), Return(r, node, k)
    PROVE  ThreadInv' /\ at'[r] # at[r]
<1>1. ThreadInv'
  BY ReturnKeeps DEF IInv
<1>2. at'[r] # at[r]
  BY DEF Return, GoTo, IInv, ThreadInv, Busy
<1> QED
  BY <1>1, <1>2

LEMMA DeployerInv ==
    ASSUME IInv, NEW r \in Runs,
           NothingToDeploy(r) \/ DockerRun(r) \/ DeployFails(r) \/ HealthCheck(r) \/ Judge(r)
    PROVE  IInv' /\ OwnThingsOnly
<1> DEFINE w == wf[r]
<1>0. Busy(r) /\ w \in Workflows /\ keys[r] \in Keys /\ OwnKeys(keys[r], w) /\ Name(w) \in Names
  BY NamesDiffer DEF NothingToDeploy, DockerRun, DeployFails, HealthCheck, Judge, Busy, IInv,
                     ThreadInv
<1>1. CountInv'
  BY DEF NothingToDeploy, DockerRun, DeployFails, HealthCheck, Judge, Quiet, IInv, CountInv
<1>2. \A c \in {Nothing, Name(w)}, u \in {Nothing, Name(w)} :
          Deployed(r, c, u) \in Keys /\ OwnKeys(Deployed(r, c, u), w)
  <2> TAKE c \in {Nothing, Name(w)}, u \in {Nothing, Name(w)}
  <2> QED
    BY <1>0 DEF Deployed, Keys, OwnKeys
<1>3. \A code : Thing("container", w, code).by = w
  BY DEF Thing
<1>4. ASSUME host' = host, ThreadInv', at'[r] # at[r]
      PROVE  IInv' /\ OwnThingsOnly
  BY <1>0, <1>1, <1>4, HostShrinks, OwnStep DEF IInv
<1>5. ASSUME NEW image \in host, host' = host \cup {Thing("container", w, image.code)},
             ThreadInv', at'[r] # at[r]
      PROVE  IInv' /\ OwnThingsOnly
  <2>1. image.code \in Contents
    BY DEF IInv, HostInv, Things
  <2>2. HostInv'
    BY <1>0, <1>5, <2>1, HostGrows DEF IInv
  <2> QED
    BY <1>0, <1>1, <1>3, <1>5, <2>2, OwnStep DEF IInv
<1>6. CASE NothingToDeploy(r)
  <2>1. ThreadInv' /\ at'[r] # at[r]
    BY <1>0, <1>2, <1>6, ReturnMoves DEF NothingToDeploy
  <2> QED
    BY <1>4, <1>6, <2>1 DEF NothingToDeploy
<1>7. CASE DockerRun(r)
  <2> DEFINE k == Deployed(r, Name(w), Name(w))
  <2>1. k \in Keys /\ OwnKeys(k, w)
    BY <1>2
  <2>2. at' = [at EXCEPT ![r] = "health"] /\ keys' = [keys EXCEPT ![r] = k]
        /\ UNCHANGED <<wf, checkpoint>> /\ at[r] = "deployer"
    BY <1>7 DEF DockerRun, GoTo
  <2> HIDE DEF k
  <2>3. ThreadInv' /\ at'[r] # at[r]
    BY <1>0, <2>1, <2>2 DEF IInv, ThreadInv, Busy, OwnKeys, Steps, Name
  <2>4. PICK image \in host : host' = host \cup {Thing("container", w, image.code)}
    BY <1>7 DEF DockerRun, Named
  <2> QED
    BY <1>5, <2>3, <2>4
<1>8. CASE DeployFails(r)
  <2>1. ThreadInv' /\ at'[r] # at[r]
    BY <1>0, <1>2, <1>8, ReturnMoves DEF DeployFails
  <2>2. \/ host' = host
        \/ \E image \in host : host' = host \cup {Thing("container", w, image.code)}
    BY <1>8 DEF DeployFails, Named
  <2> QED
    BY <1>4, <1>5, <2>1, <2>2
<1>9. CASE HealthCheck(r)
  <2>1. ThreadInv' /\ at'[r] # at[r]
    BY <1>0, <1>9, ReturnMoves DEF HealthCheck
  <2> QED
    BY <1>4, <1>9, <2>1 DEF HealthCheck
<1>10. CASE Judge(r)
  <2>1. PICK node \in {"gate", "cleanup"} : Return(r, node, keys[r])
    BY <1>10 DEF Judge
  <2>2. ThreadInv' /\ at'[r] # at[r]
    BY <1>0, <1>10, <2>1, ReturnMoves DEF Judge
  <2> QED
    BY <1>4, <1>10, <2>2 DEF Judge
<1> QED
  BY <1>6, <1>7, <1>8, <1>9, <1>10

LEMMA RemovesInv ==
    ASSUME IInv, NEW r \in Runs, NEW step \in CleanupSteps,
           NEW next \in {"rmi", "rmtree", "orphans", "done"}, next # step, NEW things,
           Removes(r, step, next, things),
           \A x \in things \cap host : x.by = wf[r]
    PROVE  IInv' /\ OwnThingsOnly
<1>0. Busy(r) /\ keys[r] \in Keys /\ OwnKeys(keys[r], wf[r])
  BY DEF Removes, Advance, CleanupSteps, Busy, IInv, ThreadInv
<1>1. CountInv' /\ HostInv' /\ host' = host \ things
  BY HostShrinks DEF Removes, Quiet, IInv, CountInv
<1>2. CASE next = "done"
  <2>1. ThreadInv' /\ at'[r] # at[r]
    BY <1>0, <1>2, ReturnMoves DEF Removes, Advance, CleanupSteps
  <2> QED
    BY <1>0, <1>1, <2>1, OwnStep DEF IInv
<1>3. CASE next # "done"
  <2>1. ThreadInv'
    BY <1>0, <1>3, GoToKeeps DEF Removes, Advance, IInv, Steps, CleanupSteps
  <2>2. at'[r] # at[r]
    BY <1>3 DEF Removes, Advance, GoTo, IInv, ThreadInv
  <2> QED
    BY <1>0, <1>1, <2>1, <2>2, OwnStep DEF IInv
<1> QED
  BY <1>2, <1>3

LEMMA CleanupInv ==
    ASSUME IInv, NEW r \in Runs,
           StopContainer(r) \/ RemoveImage(r) \/ RemoveWorkspace(r) \/ RemoveOrphans(r)
    PROVE  IInv' /\ OwnThingsOnly
<1>0. Busy(r)
  BY DEF StopContainer, RemoveImage, RemoveWorkspace, RemoveOrphans, Removes, Advance, Busy
<1>1. wf[r] \in Workflows /\ OwnKeys(keys[r], wf[r])
  BY <1>0 DEF IInv, ThreadInv
<1>2. CASE StopContainer(r)
  <2>1. \A x \in Named("container", keys[r].container) : x.by = wf[r]
    BY <1>1, FindsOwn DEF OwnKeys, IInv
  <2> QED
    BY <1>2, <2>1, RemovesInv DEF StopContainer, CleanupSteps
<1>3. CASE RemoveImage(r)
  <2> DEFINE tag == IF keys[r].image = Nothing THEN FallbackTag(wf[r]) ELSE keys[r].image
  <2>1. \A x \in Named("image", tag) : x.by = wf[r]
    BY <1>1, FindsOwn DEF OwnKeys, IInv
  <2> QED
    BY <1>3, <2>1, RemovesInv DEF RemoveImage, CleanupSteps
<1>4. CASE RemoveWorkspace(r)
  <2>1. \A x \in Named("workspace", keys[r].workspace) : x.by = wf[r]
    BY <1>1, FindsOwn DEF OwnKeys, IInv
  <2> QED
    BY <1>4, <2>1, RemovesInv DEF RemoveWorkspace, CleanupSteps
<1>5. CASE RemoveOrphans(r)
  <2>1. \A x \in Orphans(r) : x.by = wf[r]
    <3> TAKE x \in Orphans(r)
    <3>1. x.name = <<PullRequest[x.by], x.by>> /\ x.name[2] = wf[r]
      BY DEF Orphans, IInv, HostInv, Name
    <3> QED
      BY <3>1
  <2> QED
    BY <1>5, <2>1, RemovesInv DEF RemoveOrphans, CleanupSteps
<1> QED
  BY <1>2, <1>3, <1>4, <1>5

LEMMA FailureInv ==
    ASSUME IInv, NEW r \in Runs, CleanupFails(r) \/ NodeFails(r)
    PROVE  IInv' /\ OwnThingsOnly
<1>0. Busy(r)
  BY DEF CleanupFails, NodeFails, Advance, Busy
<1>1. wf[r] \in Workflows /\ keys[r] \in Keys /\ OwnKeys(keys[r], wf[r])
  BY <1>0 DEF IInv, ThreadInv
<1>2. CountInv'
  BY <1>1 DEF CleanupFails, NodeFails, IInv, CountInv
<1>3. HostInv' /\ OwnThingsOnly
  BY HostShrinks DEF CleanupFails, NodeFails, IInv, OwnThingsOnly
<1>4. ASSUME NEW node \in {"deployer", "judge", "end"}, node # at[r], Return(r, node, keys[r])
      PROVE  ThreadInv'
  BY <1>0, <1>1, <1>4, ReturnMoves
<1>5. ASSUME NEW step \in {"rmi", "rmtree", "orphans"}, GoTo(r, step),
             UNCHANGED <<wf, keys, checkpoint>>
      PROVE  ThreadInv'
  BY <1>0, <1>5, GoToKeeps DEF IInv, Steps, CleanupSteps
<1>6. ThreadInv'
  <2>1. CASE CleanupFails(r)
    BY <2>1, <1>4, <1>5 DEF CleanupFails, Advance
  <2>2. CASE NodeFails(r)
    BY <2>2, <1>4 DEF NodeFails
  <2> QED
    BY <2>1, <2>2
<1> QED
  BY <1>2, <1>3, <1>6 DEF IInv

LEMMA RestartInv ==
    ASSUME IInv, Restart
    PROVE  IInv' /\ OwnThingsOnly
<1>1. HostInv' /\ OwnThingsOnly
  BY HostShrinks DEF Restart, IInv, OwnThingsOnly
<1>2. CountInv'
  BY DEF Restart, IInv, CountInv
<1>3. ThreadInv'
  BY NoKeysOwn DEF Restart, IInv, ThreadInv, Steps, Checkpoints, NoCheckpoint, Busy
<1> QED
  BY <1>1, <1>2, <1>3 DEF IInv

LEMMA NextInv ==
    ASSUME IInv, [Next]_vars
    PROVE  IInv' /\ [OwnThingsOnly]_vars
<1>1. ASSUME NEW r \in Runs, NEW w \in Workflows, Invoke(r, w) \/ Resume(r, w)
      PROVE  IInv' /\ OwnThingsOnly
  BY <1>1, StartInv
<1>2. ASSUME NEW r \in Runs, Step(r)
      PROVE  IInv' /\ OwnThingsOnly
  BY <1>2, BuilderInv, DeployerInv, CleanupInv, FailureInv DEF Step
<1>3. CASE Restart
  BY <1>3, RestartInv
<1>4. CASE UNCHANGED vars
  BY <1>4 DEF vars, IInv, ThreadInv, HostInv, CountInv, Busy, OwnKeys, Name
<1> QED
  BY <1>1, <1>2, <1>3, <1>4 DEF Next, Finished

LEMMA IInvHolds == Spec => []IInv
<1>1. IInv /\ [Next]_vars => IInv'
  BY NextInv
<1> QED
  BY InitInv, <1>1, PTL DEF Spec

(* Every variable stays in its type: a thread that works has a workflow, and *)
(* host, threads and checkpoints hold well-formed names only.                *)
THEOREM TypeCorrect == Spec => []TypeOK
<1>1. IInv => TypeOK
  BY DEF IInv, ThreadInv, HostInv, CountInv, TypeOK, Busy
<1> QED
  BY IInvHolds, <1>1, PTL

(* Isolation of reviews (builder_agent.py:45-57, deployer_agent.py:70,      *)
(* cleanup_agent.py:88,133): no step of builder, deployer or cleanup adds,  *)
(* replaces or removes a thing of a workflow other than its own.            *)
THEOREM IsolationHolds == Spec => Isolation
<1>1. IInv /\ [Next]_vars => [OwnThingsOnly]_vars
  BY NextInv
<1> QED
  BY IInvHolds, <1>1, PTL DEF Spec, Isolation

-----------------------------------------------------------------------------
(* That reviews clean up: the container outlives the person's decision, and *)
(* a workflow whose passes do not overlap and whose cleanup does not break  *)
(* leaves nothing on the host.                                              *)

Early == {"builder", "clone", "build", "deployer", "health", "judge"}
Node == [builder |-> "builder", clone |-> "builder", build |-> "builder",
         deployer |-> "deployer", health |-> "deployer", judge |-> "judge"]

On(r, w) == wf[r] = w /\ Busy(r)

(* On the host, images of killed builds aside. *)
Has(kind, w) ==
    /\ kind = "image" => w \notin killed
    /\ \E x \in host : x.kind = kind /\ x.by = w

(* The state names the image and the directory that are there. *)
Known(k, w) ==
    /\ Has("image", w) => k.image = Name(w)
    /\ Has("workspace", w) => k.workspace = Name(w)

(* A run of a first pass. *)
FirstRun(r, w) ==
    /\ at[r] \in {"builder", "clone", "build"} => ~Has("image", w)
    /\ at[r] = "builder" => ~Has("workspace", w)
    /\ at[r] \in {"builder", "clone", "build", "deployer"} => keys[r].url = Nothing
    /\ at[r] \notin {"builder", "clone", "build"} => Known(keys[r], w)
    /\ at[r] \in {"health", "judge"} /\ keys[r].url # Nothing => Has("container", w)
    /\ at[r] \in {"rmtree", "orphans"} => ~Has("image", w)
    /\ at[r] = "orphans" => ~Has("workspace", w)

(* A run that has not got to cleanup is alone on its workflow. *)
RunInv(r, w) ==
    /\ at[r] \in Early => /\ \A q \in Runs : On(q, w) => q = r
                          /\ checkpoint[w].next = Node[at[r]]
    /\ at[r] \in {"rmi", "rmtree", "orphans"} /\ keys[r].container # Nothing
        => ~Has("container", w)
    /\ passes[w] = 1 => FirstRun(r, w)

(* The checkpoint, and the host while no run works on the workflow. *)
SavedInv(w) ==
    /\ checkpoint[w].next \notin {None, "gate", "end"} => Active(w)
    /\ checkpoint[w].next = "end" => ~Has("container", w)
    /\ passes[w] = 0 => /\ ~Active(w)
                        /\ checkpoint[w] = NoCheckpoint
                        /\ \A kind : ~Has(kind, w)
    /\ passes[w] = 1 =>
        /\ checkpoint[w].next \in {"gate", "cleanup"} => Known(checkpoint[w].keys, w)
        /\ checkpoint[w].next = "gate" /\ ~Active(w) /\ checkpoint[w].keys.url # Nothing
            => Has("container", w)
        /\ checkpoint[w].next = "end" => ~Has("image", w) /\ ~Has("workspace", w)

Tidy(w) == SavedInv(w) /\ \A r \in Runs : On(r, w) => RunInv(r, w)
CleanInv == \A w \in Workflows \ disturbed : Tidy(w)

-----------------------------------------------------------------------------
LEMMA ActiveMeansOn == \A w : Active(w) <=> \E r \in Runs : On(r, w)
BY DEF Active, On, Busy

(* Everything of a workflow carries its name. *)
LEMMA OwnName ==
    ASSUME IInv, NEW w \in Workflows, NEW x \in host, x.by = w
    PROVE  x.name = Name(w) /\ Name(w) # Nothing
BY NamesDiffer DEF IInv, HostInv, Things

LEMMA InitCleanup == Init => CleanInv
BY ActiveMeansOn DEF Init, CleanInv, Tidy, SavedInv, On, Busy, Has, NoCheckpoint, None

(* What a step leaves alone of a workflow. *)
Unaffected(w) ==
    /\ \A q \in Runs : On(q, w)' <=> On(q, w)
    /\ \A q \in Runs : On(q, w) => at'[q] = at[q] /\ keys'[q] = keys[q]
    /\ checkpoint'[w] = checkpoint[w]
    /\ passes'[w] = passes[w]
    /\ \A kind : Has(kind, w)' <=> Has(kind, w)

LEMMA UnaffectedKeeps ==
    ASSUME NEW w, Tidy(w), Unaffected(w)
    PROVE  Tidy(w)'
<1>1. Active(w)' <=> Active(w)
  BY DEF Unaffected, Active, On, Busy
<1>2. \A k : Known(k, w)' <=> Known(k, w)
  BY DEF Unaffected, Known, Name
<1>3. SavedInv(w)'
  BY <1>1, <1>2 DEF Unaffected, Tidy, SavedInv
<1>4. \A r \in Runs : On(r, w)' => RunInv(r, w)'
  BY <1>2 DEF Unaffected, Tidy, RunInv, FirstRun
<1> QED
  BY <1>3, <1>4 DEF Tidy

-----------------------------------------------------------------------------
(* A step of a thread touches its own workflow only. *)
LEMMA StepTouches ==
    ASSUME IInv, NEW r \in Runs, Step(r)
    PROVE  /\ Busy(r) /\ wf[r] \in Workflows
           /\ \A q \in Runs \ {r} : at'[q] = at[q] /\ wf'[q] = wf[q] /\ keys'[q] = keys[q]
           /\ wf'[r] = wf[r] \/ ~Busy(r)'
           /\ \A v \in Workflows : v # wf[r] => checkpoint'[v] = checkpoint[v]
           /\ passes' = passes /\ disturbed \subseteq disturbed'
           /\ killed' \in {killed, killed \cup {wf[r]}}
           /\ \A x \in (host \ host') \cup (host' \ host) : x.by = wf[r]
<1> DEFINE Others == \A q \in Runs \ {r} :
                        at'[q] = at[q] /\ wf'[q] = wf[q] /\ keys'[q] = keys[q]
           Place == wf'[r] = wf[r] \/ ~Busy(r)'
           Rest == \A v \in Workflows : v # wf[r] => checkpoint'[v] = checkpoint[v]
<1>1. Busy(r) /\ wf[r] \in Workflows
  BY DEF Step, MakeDir, Clone, CloneFails, Build, BuildKilled, NothingToDeploy, DockerRun,
         DeployFails, HealthCheck, Judge, StopContainer, RemoveImage, RemoveWorkspace,
         RemoveOrphans,
         Removes, CleanupFails, NodeFails, Advance, Busy, IInv, ThreadInv
<1>2. ASSUME NEW node, NEW k, Return(r, node, k)
      PROVE  Others /\ Place /\ Rest
  BY <1>2 DEF Return, GoTo, IInv, ThreadInv, Busy
<1>3. ASSUME NEW step, GoTo(r, step), wf' = wf, checkpoint' = checkpoint,
             keys' = keys \/ \E k : keys' = [keys EXCEPT ![r] = k]
      PROVE  Others /\ Place /\ Rest
  BY <1>3 DEF GoTo, IInv, ThreadInv
<1>4. Others /\ Place /\ Rest
  <2>1. CASE MakeDir(r) \/ Clone(r) \/ CloneFails(r) \/ Build(r) \/ BuildKilled(r)
    BY <2>1, <1>2, <1>3 DEF MakeDir, Clone, CloneFails, Build, BuildKilled, Built
  <2>2. CASE NothingToDeploy(r) \/ DockerRun(r) \/ DeployFails(r) \/ HealthCheck(r) \/ Judge(r)
    BY <2>2, <1>2, <1>3 DEF NothingToDeploy, DockerRun, DeployFails, HealthCheck, Judge
  <2>3. ASSUME NEW step, NEW next, Advance(r, step, next)
        PROVE  Others /\ Place /\ Rest
    BY <2>3, <1>2, <1>3 DEF Advance
  <2>4. CASE StopContainer(r) \/ RemoveImage(r) \/ RemoveWorkspace(r) \/ RemoveOrphans(r)
                \/ CleanupFails(r)
    BY <2>4, <2>3 DEF StopContainer, RemoveImage, RemoveWorkspace, RemoveOrphans, Removes,
                      CleanupFails
  <2>5. CASE NodeFails(r)
    BY <2>5, <1>2 DEF NodeFails
  <2> QED
    BY <2>1, <2>2, <2>4, <2>5 DEF Step
<1>5. passes' = passes /\ disturbed \subseteq disturbed'
  BY DEF Step, MakeDir, Clone, CloneFails, Build, BuildKilled, NothingToDeploy, DockerRun,
         DeployFails, HealthCheck, Judge, StopContainer, RemoveImage, RemoveWorkspace,
         RemoveOrphans,
         Removes, CleanupFails, NodeFails, Quiet
<1>8. killed' \in {killed, killed \cup {wf[r]}}
  BY DEF Step, MakeDir, Clone, CloneFails, Build, BuildKilled, NothingToDeploy, DockerRun,
         DeployFails, HealthCheck, Judge, StopContainer, RemoveImage, RemoveWorkspace,
         RemoveOrphans, Removes, CleanupFails, NodeFails, Quiet
<1>6. OwnThingsOnly
  BY BuilderInv, DeployerInv, CleanupInv, FailureInv DEF Step
<1>7. \A x \in (host \ host') \cup (host' \ host) : x.by = wf[r]
  BY <1>4, <1>6 DEF OwnThingsOnly
<1> QED
  BY <1>1, <1>4, <1>5, <1>7, <1>8

LEMMA OthersKeep ==
    ASSUME IInv, NEW r \in Runs, Step(r), NEW w \in Workflows, wf[r] # w, Tidy(w)
    PROVE  Tidy(w)'
<1>1. \A q \in Runs : On(q, w)' <=> On(q, w)
  BY StepTouches DEF On, Busy
<1>2. \A q \in Runs : On(q, w) => at'[q] = at[q] /\ keys'[q] = keys[q]
  BY StepTouches DEF On
<1>3. \A kind : Has(kind, w)' <=> Has(kind, w)
  BY StepTouches DEF Has
<1> QED
  BY <1>1, <1>2, <1>3, StepTouches, UnaffectedKeeps DEF Unaffected

-----------------------------------------------------------------------------
LEMMA EnterTouches ==
    ASSUME IInv, NEW r \in Runs, NEW w \in Workflows, NEW node, Enter(r, w, node),
           node \notin {"idle", "done"}
    PROVE  /\ \A q \in Runs, v \in Workflows :
                 On(q, v)' <=> On(q, v) \/ (q = r /\ v = w)
           /\ \A v : ~On(r, v)
           /\ \A q \in Runs \ {r} : at'[q] = at[q] /\ keys'[q] = keys[q]
           /\ at'[r] = node /\ keys'[r] = checkpoint[w].keys
BY DEF Enter, On, Busy, IInv, ThreadInv

LEMMA InvokeClean ==
    ASSUME IInv, CleanInv, NEW r \in Runs, NEW v \in Workflows, Invoke(r, v)
    PROVE  CleanInv'
<1>1. SUFFICES ASSUME NEW w \in Workflows, w \notin disturbed'
               PROVE  Tidy(w)'
  BY DEF CleanInv
<1>2. /\ \A q \in Runs, u \in Workflows : On(q, u)' <=> On(q, u) \/ (q = r /\ u = v)
      /\ \A u : ~On(r, u)
      /\ \A q \in Runs \ {r} : at'[q] = at[q] /\ keys'[q] = keys[q]
      /\ at'[r] = "builder" /\ keys'[r] = checkpoint[v].keys
  BY EnterTouches DEF Invoke
<1>3. w \notin disturbed /\ Tidy(w)
  BY <1>1 DEF Invoke, CleanInv
<1>4. \A kind : Has(kind, w)' <=> Has(kind, w)
  BY DEF Invoke, Has
<1>5. CASE w # v
  <2>1. Unaffected(w)
    BY <1>2, <1>4, <1>5 DEF Unaffected, Invoke, IInv, ThreadInv, CountInv
  <2> QED
    BY <1>3, <2>1, UnaffectedKeeps
<1>6. CASE w = v
  <2>1. ~Active(w)
    BY <1>1, <1>6 DEF Invoke
  <2>2. \A q \in Runs : On(q, w)' <=> q = r
    BY <1>2, <1>6, <2>1, ActiveMeansOn
  <2>3. Active(w)'
    BY <2>2 DEF Active, On, Busy
  <2>4. checkpoint'[w].next = "builder"
    BY <1>6 DEF Invoke, IInv, ThreadInv, Checkpoints
  <2>5. passes'[w] = passes[w] + 1 /\ passes[w] \in Nat
    BY <1>6 DEF Invoke, IInv, CountInv
  <2>6. SavedInv(w)'
    BY <2>3, <2>4, <2>5 DEF SavedInv, None
  <2>7. passes'[w] = 1 => FirstRun(r, w)'
    <3>1. HAVE passes'[w] = 1
    <3>2. checkpoint[w] = NoCheckpoint /\ \A kind : ~Has(kind, w)
      BY <1>3, <2>5, <3>1 DEF Tidy, SavedInv
    <3> QED
      BY <1>2, <1>4, <1>6, <3>2 DEF FirstRun, NoCheckpoint, NoKeys
  <2>8. RunInv(r, w)'
    BY <1>2, <2>2, <2>4, <2>7 DEF RunInv, Node, Early
  <2> QED
    BY <2>2, <2>6, <2>8 DEF Tidy
<1> QED
  BY <1>5, <1>6

LEMMA ResumeClean ==
    ASSUME IInv, CleanInv, NEW r \in Runs, NEW v \in Workflows, Resume(r, v)
    PROVE  CleanInv'
<1> DEFINE node == IF checkpoint[v].next = "gate" THEN "cleanup" ELSE checkpoint[v].next
<1>1. SUFFICES ASSUME NEW w \in Workflows, w \notin disturbed'
               PROVE  Tidy(w)'
  BY DEF CleanInv
<1>2. /\ \A q \in Runs, u \in Workflows : On(q, u)' <=> On(q, u) \/ (q = r /\ u = v)
      /\ \A u : ~On(r, u)
      /\ \A q \in Runs \ {r} : at'[q] = at[q] /\ keys'[q] = keys[q]
      /\ at'[r] = node /\ keys'[r] = checkpoint[v].keys
  <2>1. node \notin {"idle", "done"}
    BY DEF IInv, ThreadInv, Checkpoints, Nodes, None
  <2> QED
    BY <2>1, EnterTouches DEF Resume
<1>3. w \notin disturbed /\ Tidy(w)
  BY <1>1 DEF Resume, CleanInv
<1>4. /\ \A kind : Has(kind, w)' <=> Has(kind, w)
      /\ checkpoint' = checkpoint /\ passes' = passes
  BY DEF Resume, Has
<1>5. CASE w # v
  <2>1. Unaffected(w)
    BY <1>2, <1>4, <1>5 DEF Unaffected
  <2> QED
    BY <1>3, <2>1, UnaffectedKeeps
<1>6. CASE w = v
  <2>1. checkpoint[w].next \in {"gate", "cleanup"}
    BY <1>1, <1>3, <1>6 DEF Resume, Tidy, SavedInv, IInv, ThreadInv, Checkpoints, Nodes
  <2>2. node = "cleanup"
    BY <1>6, <2>1
  <2>3. \A q \in Runs : On(q, w) => at[q] \notin Early
    BY <1>3, <2>1 DEF Tidy, RunInv, Early, Node
  <2>4. Active(w)'
    BY <1>2, <1>6 DEF Active, On, Busy
  <2>5. \A k : Known(k, w)' <=> Known(k, w)
    BY <1>4 DEF Known, Name
  <2>6. SavedInv(w)'
    BY <1>3, <1>4, <2>1, <2>4, <2>5 DEF Tidy, SavedInv, NoCheckpoint, None
  <2>7. passes'[w] = 1 => Known(keys[r], w)'
    BY <1>2, <1>3, <1>4, <1>6, <2>1, <2>5 DEF Tidy, SavedInv
  <2>8. RunInv(r, w)'
    BY <1>2, <2>2, <2>7 DEF RunInv, FirstRun, Early
  <2>9. ASSUME NEW q \in Runs, q # r, On(q, w)'
        PROVE  RunInv(q, w)'
    BY <1>2, <1>3, <1>4, <2>3, <2>5, <2>9 DEF Tidy, RunInv, FirstRun
  <2> QED
    BY <2>6, <2>8, <2>9 DEF Tidy
<1> QED
  BY <1>5, <1>6

LEMMA RestartClean ==
    ASSUME IInv, CleanInv, Restart
    PROVE  CleanInv'
<1>1. SUFFICES ASSUME NEW w \in Workflows, w \notin disturbed
               PROVE  Tidy(w)'
  BY DEF CleanInv, Restart
<1>2. \A q \in Runs : ~On(q, w)'
  BY DEF Restart, On, Busy, IInv, ThreadInv
<1>3. ~Active(w)'
  BY <1>2 DEF Active, On, Busy
<1>4. checkpoint'[w] = NoCheckpoint
  BY DEF Restart
<1>5. passes'[w] = 0 => \A kind : ~Has(kind, w)'
  BY <1>1 DEF Restart, CleanInv, Tidy, SavedInv, Has
<1> QED
  BY <1>2, <1>3, <1>4, <1>5 DEF Tidy, SavedInv, NoCheckpoint, None

-----------------------------------------------------------------------------
(* A thread before cleanup is alone, and so it is after its step. *)
LEMMA EarlyStep ==
    ASSUME IInv, NEW r \in Runs, Step(r), NEW w \in Workflows, On(r, w), Tidy(w),
           at[r] \in Early
    PROVE  /\ \A q \in Runs : On(q, w)' => q = r
           /\ checkpoint[w].next = Node[at[r]]
           /\ passes'[w] = passes[w] /\ passes[w] # 0
           /\ passes[w] = 1 => FirstRun(r, w)
<1>1. RunInv(r, w)
  BY DEF Tidy
<1>2. \A q \in Runs : On(q, w)' => q = r
  BY <1>1, StepTouches DEF RunInv, On, Busy
<1>3. passes[w] # 0
  BY ActiveMeansOn DEF Tidy, SavedInv
<1> QED
  BY <1>1, <1>2, <1>3, StepTouches DEF RunInv

LEMMA EarlyStays ==
    ASSUME IInv, NEW r \in Runs, Step(r), NEW w \in Workflows, On(r, w), Tidy(w),
           at[r] \in Early, at'[r] \in Early, Node[at'[r]] = Node[at[r]],
           wf' = wf, checkpoint' = checkpoint,
           passes[w] = 1 => FirstRun(r, w)'
    PROVE  Tidy(w)'
<1>1. On(r, w)'
  BY DEF On, Busy, Early
<1>2. Active(w)'
  BY <1>1 DEF Active, On, Busy
<1>3. checkpoint'[w].next \in {"builder", "deployer", "judge"}
  BY EarlyStep DEF Early, Node
<1>4. SavedInv(w)'
  BY <1>2, <1>3, EarlyStep DEF SavedInv
<1>5. RunInv(r, w)'
  BY EarlyStep DEF RunInv, Early
<1> QED
  BY <1>4, <1>5, EarlyStep DEF Tidy

LEMMA EarlyReturns ==
    ASSUME IInv, NEW r \in Runs, Step(r), NEW w \in Workflows, On(r, w), Tidy(w),
           at[r] \in Early, NEW node \in {"deployer", "judge", "cleanup"}, NEW k,
           Return(r, node, k),
           passes[w] = 1 => FirstRun(r, w)'
    PROVE  Tidy(w)'
<1>1. /\ at'[r] = node /\ wf' = wf /\ keys'[r] = k
      /\ checkpoint'[w] = [next |-> node, keys |-> k]
  BY DEF Return, GoTo, On, IInv, ThreadInv
<1>2. On(r, w)'
  BY <1>1 DEF On, Busy
<1>3. Active(w)'
  BY <1>2 DEF Active, On, Busy
<1>4. passes[w] = 1 /\ node = "cleanup" => Known(checkpoint[w].keys, w)'
  BY <1>1 DEF FirstRun, Known, Has, Name
<1>5. SavedInv(w)'
  BY <1>1, <1>3, <1>4, EarlyStep DEF SavedInv
<1>6. RunInv(r, w)'
  BY <1>1, EarlyStep DEF RunInv, Early, Node
<1> QED
  BY <1>5, <1>6, EarlyStep DEF Tidy

LEMMA EarlyToGate ==
    ASSUME IInv, NEW r \in Runs, Step(r), NEW w \in Workflows, On(r, w), Tidy(w),
           at[r] = "judge", Return(r, "gate", keys[r]), host' = host, killed' = killed
    PROVE  Tidy(w)'
<1>1. checkpoint'[w] = [next |-> "gate", keys |-> keys[r]] /\ at'[r] = "done"
  BY DEF Return, GoTo, On, IInv, ThreadInv
<1>2. \A q \in Runs : ~On(q, w)'
  BY <1>1, EarlyStep DEF On, Busy, Early
<1>3. passes[w] = 1 => /\ Known(keys[r], w)
                       /\ keys[r].url # Nothing => Has("container", w)
  BY EarlyStep DEF FirstRun, Early
<1>4. /\ \A kind : Has(kind, w)' <=> Has(kind, w)
      /\ passes[w] = 1 => Known(checkpoint[w].keys, w)'
  BY <1>1, <1>3 DEF Has, Known, Name
<1>5. SavedInv(w)'
  BY <1>1, <1>3, <1>4, EarlyStep DEF SavedInv, Early
<1> QED
  BY <1>2, <1>5 DEF Tidy

(* Cleanup only removes, and a second cleanup beside it does not mind. *)
LEMMA LateStays ==
    ASSUME IInv, NEW r \in Runs, Step(r), NEW w \in Workflows, On(r, w), Tidy(w),
           at[r] \in CleanupSteps, NEW next \in {"rmi", "rmtree", "orphans"}, GoTo(r, next),
           UNCHANGED <<wf, keys, checkpoint>>, host' \subseteq host,
           RunInv(r, w)'
    PROVE  Tidy(w)'
<1>1. at'[r] = next /\ \A q \in Runs \ {r} : at'[q] = at[q]
  BY DEF GoTo, IInv, ThreadInv
<1>2. On(r, w)' /\ \A q \in Runs \ {r} : On(q, w)' <=> On(q, w)
  BY <1>1 DEF On, Busy
<1>3. Active(w)'
  BY <1>2 DEF Active, On, Busy
<1>4. /\ \A kind : Has(kind, w)' => Has(kind, w)
      /\ \A k : Known(k, w) => Known(k, w)'
  BY StepTouches DEF Has, Known, Name
<1>5. passes'[w] = passes[w] /\ passes[w] # 0
  BY StepTouches, ActiveMeansOn DEF Tidy, SavedInv
<1>6. SavedInv(w)'
  BY <1>3, <1>4, <1>5 DEF Tidy, SavedInv
<1>7. ASSUME NEW q \in Runs \ {r}, On(q, w)'
      PROVE  RunInv(q, w)'
  <2>1. RunInv(q, w) /\ at[q] \notin Early
    BY <1>2, <1>7 DEF Tidy, RunInv, CleanupSteps, Early
  <2> QED
    BY <1>1, <1>4, <1>5, <1>7, <2>1 DEF RunInv, FirstRun, Early
<1> QED
  BY <1>6, <1>7 DEF Tidy

LEMMA LateEnds ==
    ASSUME IInv, NEW r \in Runs, Step(r), NEW w \in Workflows, On(r, w), Tidy(w),
           at[r] \in CleanupSteps, Return(r, "end", keys[r]), host' \subseteq host,
           ~Has("container", w)',
           passes[w] = 1 => ~Has("image", w)' /\ ~Has("workspace", w)'
    PROVE  Tidy(w)'
<1>1. at'[r] = "done" /\ checkpoint'[w] = [next |-> "end", keys |-> keys[r]]
  BY DEF Return, GoTo, On, IInv, ThreadInv
<1>2. ~On(r, w)' /\ \A q \in Runs \ {r} : On(q, w)' <=> On(q, w)
  BY <1>1, StepTouches DEF On, Busy
<1>3. /\ \A kind : Has(kind, w)' => Has(kind, w)
      /\ \A k : Known(k, w) => Known(k, w)'
  BY StepTouches DEF Has, Known, Name
<1>4. passes'[w] = passes[w] /\ passes[w] # 0
  BY StepTouches, ActiveMeansOn DEF Tidy, SavedInv
<1>5. SavedInv(w)'
  BY <1>1, <1>4 DEF SavedInv
<1>6. ASSUME NEW q \in Runs, On(q, w)'
      PROVE  RunInv(q, w)'
  <2>1. q # r /\ RunInv(q, w) /\ at[q] \notin Early /\ at'[q] = at[q] /\ keys'[q] = keys[q]
    BY <1>2, <1>6, StepTouches DEF Tidy, RunInv, CleanupSteps, Early
  <2> QED
    BY <1>3, <1>4, <2>1 DEF RunInv, FirstRun, Early
<1> QED
  BY <1>5, <1>6 DEF Tidy

-----------------------------------------------------------------------------
(* Each step, seen from the workflow of its thread. *)

LEMMA BuilderClean ==
    ASSUME IInv, NEW r \in Runs,
           MakeDir(r) \/ Clone(r) \/ CloneFails(r) \/ Build(r) \/ BuildKilled(r),
           NEW w \in Workflows, On(r, w), Tidy(w)
    PROVE  Tidy(w)'
<1>1. Step(r) /\ at[r] \in {"builder", "clone", "build"} /\ at[r] \in Early
  BY DEF Step, MakeDir, Clone, CloneFails, Build, BuildKilled, Early
<1>2. wf[r] = w /\ keys[r] \in Keys
  BY DEF On, IInv, ThreadInv
<1>3. passes[w] = 1 => ~Has("image", w) /\ keys[r].url = Nothing
  BY <1>1, EarlyStep DEF FirstRun
<1>4. CASE MakeDir(r) \/ Clone(r)
  <2>1. /\ at'[r] \in {"clone", "build"}
        /\ UNCHANGED <<wf, keys, checkpoint>>
    BY <1>4 DEF MakeDir, Clone, GoTo, IInv, ThreadInv
  <2>2. \A x \in host' : x \in host \/ x.kind = "workspace"
    BY <1>4 DEF MakeDir, Clone, Thing
  <2>3. passes[w] = 1 => ~Has("image", w)'
    BY <1>3, <1>4, <2>2 DEF Has, MakeDir, Clone, Quiet
  <2>4. passes[w] = 1 => FirstRun(r, w)'
    BY <1>3, <2>1, <2>3 DEF FirstRun
  <2> QED
    BY <1>1, <2>1, <2>4, EarlyStays DEF Early, Node
<1>5. ASSUME NEW image, Built(r, image), passes[w] = 1 => (Has("image", w)' => image = Name(w))
      PROVE  Tidy(w)'
  <2> DEFINE k == [keys[r] EXCEPT !.workspace = Name(wf[r]), !.image = image]
  <2>1. Return(r, "deployer", k)
    BY <1>5 DEF Built
  <2>2. at'[r] = "deployer" /\ keys'[r] = k
    BY <2>1 DEF Return, GoTo, IInv, ThreadInv
  <2>3. k.workspace = Name(w) /\ k.image = image /\ k.url = keys[r].url
    BY <1>2 DEF Keys
  <2> HIDE DEF k
  <2>4. passes[w] = 1 => FirstRun(r, w)'
    BY <1>3, <1>5, <2>2, <2>3 DEF FirstRun, Known, Has, Name
  <2> QED
    BY <1>1, <2>1, <2>4, EarlyReturns
<1>6. CASE CloneFails(r)
  <2>1. /\ Built(r, Nothing) /\ killed' = killed
        /\ \A x \in host' : x \in host \/ x.kind = "workspace"
    BY <1>6 DEF CloneFails, Thing, Quiet
  <2> QED
    BY <1>3, <1>5, <2>1 DEF Has
<1>7. CASE Build(r)
  <2>1. \/ Built(r, Name(w))
        \/ host' = host /\ killed' = killed /\ Built(r, Nothing)
    BY <1>2, <1>7 DEF Build, Quiet
  <2> QED
    BY <1>3, <1>5, <2>1 DEF Has
<1>8. CASE BuildKilled(r)
  <2>1. Built(r, Nothing) /\ w \in killed'
    BY <1>2, <1>8 DEF BuildKilled
  <2> QED
    BY <1>5, <2>1 DEF Has
<1> QED
  BY <1>4, <1>6, <1>7, <1>8

LEMMA DeployerClean ==
    ASSUME IInv, NEW r \in Runs,
           NothingToDeploy(r) \/ DockerRun(r) \/ DeployFails(r) \/ HealthCheck(r) \/ Judge(r),
           NEW w \in Workflows, On(r, w), Tidy(w)
    PROVE  Tidy(w)'
<1>1. Step(r) /\ at[r] \in {"deployer", "health", "judge"} /\ at[r] \in Early
  BY DEF Step, NothingToDeploy, DockerRun, DeployFails, HealthCheck, Judge, Early
<1>2. wf[r] = w /\ keys[r] \in Keys
  BY DEF On, IInv, ThreadInv
<1>3. passes[w] = 1 => Known(keys[r], w)
  BY <1>1, EarlyStep DEF FirstRun
<1>4. /\ \A x \in host' : x \in host \/ x.kind = "container"
      /\ host \subseteq host' /\ killed' = killed
  BY DEF NothingToDeploy, DockerRun, DeployFails, HealthCheck, Judge, Thing, Quiet
<1>5. \A c, u : /\ Deployed(r, c, u).url = u
                /\ Deployed(r, c, u).image = keys[r].image
                /\ Deployed(r, c, u).workspace = keys[r].workspace
  BY <1>2 DEF Deployed, Keys
<1>6. ASSUME NEW k, k.image = keys[r].image, k.workspace = keys[r].workspace, keys'[r] = k,
             passes[w] = 1
      PROVE  Known(keys[r], w)'
  BY <1>3, <1>4, <1>6 DEF Known, Has, Name
<1>7. CASE DockerRun(r)
  <2>1. /\ at'[r] = "health" /\ at[r] = "deployer" /\ wf' = wf /\ checkpoint' = checkpoint
        /\ keys'[r] = Deployed(r, Name(wf[r]), Name(wf[r]))
    BY <1>7 DEF DockerRun, GoTo, IInv, ThreadInv
  <2>2. Has("container", w)'
    <3>1. PICK image \in host : host' = host \cup {Thing("container", wf[r], image.code)}
      BY <1>7 DEF DockerRun, Named
    <3>2. Thing("container", wf[r], image.code) \in host'
      BY <3>1
    <3> QED
      BY <1>2, <3>2 DEF Has, Thing
  <2>3. passes[w] = 1 => FirstRun(r, w)'
    BY <1>5, <1>6, <2>1, <2>2 DEF FirstRun
  <2> QED
    BY <1>1, <2>1, <2>3, EarlyStays DEF Early, Node
<1>8. ASSUME NEW c, Return(r, "judge", Deployed(r, c, Nothing))
      PROVE  Tidy(w)'
  <2>1. at'[r] = "judge" /\ keys'[r] = Deployed(r, c, Nothing)
    BY <1>8 DEF Return, GoTo, IInv, ThreadInv
  <2>2. passes[w] = 1 => FirstRun(r, w)'
    BY <1>5, <1>6, <2>1 DEF FirstRun
  <2> QED
    BY <1>1, <1>8, <2>2, EarlyReturns
<1>9. ASSUME NEW node \in {"judge", "cleanup"}, Return(r, node, keys[r]), host' = host,
             at[r] \in {"health", "judge"}
      PROVE  Tidy(w)'
  <2>1. at'[r] = node /\ keys'[r] = keys[r]
    BY <1>9 DEF Return, GoTo, IInv, ThreadInv
  <2>2. passes[w] = 1 => (keys[r].url # Nothing => Has("container", w)')
    BY <1>1, <1>9, EarlyStep DEF FirstRun, Has
  <2>3. passes[w] = 1 => FirstRun(r, w)'
    BY <1>6, <2>1, <2>2 DEF FirstRun
  <2> QED
    BY <1>1, <1>9, <2>3, EarlyReturns
<1>10. CASE NothingToDeploy(r) \/ DeployFails(r)
  BY <1>8, <1>10 DEF NothingToDeploy, DeployFails
<1>11. CASE HealthCheck(r)
  BY <1>9, <1>11 DEF HealthCheck
<1>12. CASE Judge(r)
  <2>1. CASE Return(r, "gate", keys[r])
    BY <1>1, <1>4, <1>12, <2>1, EarlyToGate DEF Judge
  <2>2. CASE Return(r, "cleanup", keys[r])
    BY <1>9, <1>12, <2>2 DEF Judge
  <2> QED
    BY <1>12, <2>1, <2>2 DEF Judge
<1> QED
  BY <1>7, <1>10, <1>11, <1>12

LEMMA CleanupClean ==
    ASSUME IInv, NEW r \in Runs,
           StopContainer(r) \/ RemoveImage(r) \/ RemoveWorkspace(r) \/ RemoveOrphans(r),
           NEW w \in Workflows, On(r, w), Tidy(w)
    PROVE  Tidy(w)'
<1>1. Step(r) /\ at[r] \in CleanupSteps /\ at[r] \notin Early
  BY DEF Step, StopContainer, RemoveImage, RemoveWorkspace, RemoveOrphans, Removes, Advance,
         CleanupSteps, Early
<1>2. /\ wf[r] = w /\ OwnKeys(keys[r], w)
      /\ host' \subseteq host /\ passes' = passes /\ killed' = killed
  BY DEF On, IInv, ThreadInv, StopContainer, RemoveImage, RemoveWorkspace, RemoveOrphans,
         Removes, Quiet
<1>3. RunInv(r, w)
  BY DEF Tidy
<1>4. \A kind : Has(kind, w)' => Has(kind, w)
  BY <1>2 DEF Has
<1>5. ASSUME NEW next \in {"rmi", "rmtree", "orphans"}, GoTo(r, next),
             UNCHANGED <<wf, keys, checkpoint>>
      PROVE  /\ at'[r] = next
             /\ RunInv(r, w)' => Tidy(w)'
             /\ passes[w] = 1 => Known(keys[r], w)'
  <2>1. at'[r] = next
    BY <1>5 DEF GoTo, IInv, ThreadInv
  <2>2. RunInv(r, w)' => Tidy(w)'
    BY <1>1, <1>2, <1>5, LateStays
  <2>3. passes[w] = 1 => Known(keys[r], w)'
    BY <1>1, <1>3, <1>4, <1>5 DEF RunInv, FirstRun, Known, Name, CleanupSteps
  <2> QED
    BY <2>1, <2>2, <2>3
<1>6. CASE StopContainer(r)
  <2>1. /\ GoTo(r, "rmi") /\ UNCHANGED <<wf, keys, checkpoint>> /\ at[r] = "cleanup"
        /\ host' = host \ Named("container", keys[r].container)
    BY <1>6 DEF StopContainer, Removes, Advance
  <2>2. keys[r].container # Nothing => ~Has("container", w)'
    BY <1>2, <2>1, OwnName DEF Has, Named, OwnKeys
  <2>3. RunInv(r, w)'
    BY <1>2, <1>3, <1>5, <2>1, <2>2 DEF RunInv, FirstRun, Early
  <2> QED
    BY <1>5, <2>1, <2>3
<1>7. CASE RemoveImage(r)
  <2> DEFINE tag == IF keys[r].image = Nothing THEN FallbackTag(wf[r]) ELSE keys[r].image
  <2>1. /\ GoTo(r, "rmtree") /\ UNCHANGED <<wf, keys, checkpoint>> /\ at[r] = "rmi"
        /\ host' = host \ Named("image", tag)
    BY <1>7 DEF RemoveImage, Removes, Advance
  <2>2. passes[w] = 1 => ~Has("image", w)'
    <3>1. HAVE passes[w] = 1
    <3>2. Has("image", w) => tag = Name(w)
      BY <1>3, <2>1, <3>1, NamesDiffer DEF RunInv, FirstRun, Known
    <3> QED
      BY <1>2, <2>1, <3>2, OwnName DEF Has, Named
  <2>3. RunInv(r, w)'
    BY <1>2, <1>3, <1>4, <1>5, <2>1, <2>2 DEF RunInv, FirstRun, Early
  <2> QED
    BY <1>5, <2>1, <2>3
<1>8. CASE RemoveWorkspace(r)
  <2>1. /\ GoTo(r, "orphans") /\ UNCHANGED <<wf, keys, checkpoint>> /\ at[r] = "rmtree"
        /\ host' = host \ Named("workspace", keys[r].workspace)
    BY <1>8 DEF RemoveWorkspace, Removes, Advance
  <2>2. passes[w] = 1 => ~Has("workspace", w)'
    <3>1. HAVE passes[w] = 1
    <3>2. Has("workspace", w) => keys[r].workspace = Name(w)
      BY <1>3, <2>1, <3>1 DEF RunInv, FirstRun, Known
    <3> QED
      BY <2>1, <3>2, OwnName DEF Has, Named
  <2>3. passes[w] = 1 => ~Has("image", w)'
    BY <1>3, <1>4, <2>1 DEF RunInv, FirstRun
  <2>4. RunInv(r, w)'
    BY <1>2, <1>3, <1>4, <1>5, <2>1, <2>2, <2>3 DEF RunInv, FirstRun, Early
  <2> QED
    BY <1>5, <2>1, <2>4
<1>9. CASE RemoveOrphans(r)
  <2>1. Return(r, "end", keys[r]) /\ at[r] = "orphans" /\ host' = host \ Orphans(r)
    BY <1>9 DEF RemoveOrphans, Removes, Advance
  <2>2. ~Has("container", w)'
    <3>1. SUFFICES ASSUME NEW x \in host, x \notin Orphans(r), x.kind = "container", x.by = w
                   PROVE  FALSE
      BY <2>1 DEF Has
    <3>2. x.name = Name(w) /\ Name(w) # Nothing
      BY <3>1, OwnName
    <3>3. x.name = keys[r].container
      BY <1>2, <3>1, <3>2 DEF Orphans, Name
    <3> QED
      BY <1>3, <2>1, <3>1, <3>2, <3>3 DEF RunInv, Has
  <2>3. passes[w] = 1 => ~Has("image", w)' /\ ~Has("workspace", w)'
    BY <1>3, <1>4, <2>1 DEF RunInv, FirstRun
  <2> QED
    BY <1>1, <1>2, <2>1, <2>2, <2>3, LateEnds
<1> QED
  BY <1>6, <1>7, <1>8, <1>9

(* A node that fails without taking its workflow out of the promise. *)
LEMMA FailureClean ==
    ASSUME IInv, NEW r \in Runs, CleanupFails(r) \/ NodeFails(r),
           NEW w \in Workflows, w \notin disturbed', On(r, w), Tidy(w)
    PROVE  Tidy(w)'
<1>1. /\ \/ at[r] = "builder" /\ Return(r, "deployer", keys[r])
         \/ at[r] = "deployer" /\ Return(r, "judge", keys[r])
      /\ host' = host /\ killed' = killed /\ Step(r)
  BY DEF CleanupFails, NodeFails, On, Step
<1>2. at[r] \in Early /\ at'[r] \in {"deployer", "judge"} /\ keys'[r] = keys[r]
  BY <1>1 DEF Return, GoTo, IInv, ThreadInv, Early
<1>3. passes[w] = 1 => /\ keys[r].url = Nothing
                       /\ Known(keys[r], w)
  BY <1>1, <1>2, EarlyStep DEF FirstRun, Known
<1>4. passes[w] = 1 => FirstRun(r, w)'
  BY <1>1, <1>2, <1>3 DEF FirstRun, Known, Has, Name
<1> QED
  BY <1>1, <1>2, <1>4, EarlyReturns

-----------------------------------------------------------------------------
LEMMA NextClean ==
    ASSUME IInv, CleanInv, [Next]_vars
    PROVE  CleanInv'
<1>1. ASSUME NEW r \in Runs, Step(r)
      PROVE  CleanInv'
  <2>1. SUFFICES ASSUME NEW w \in Workflows, w \notin disturbed'
                 PROVE  Tidy(w)'
    BY DEF CleanInv
  <2>2. Tidy(w) /\ Busy(r)
    BY <1>1, <2>1, StepTouches DEF CleanInv
  <2>3. CASE wf[r] = w
    BY <1>1, <2>1, <2>2, <2>3, BuilderClean, DeployerClean, CleanupClean, FailureClean
       DEF Step, On
  <2>4. CASE wf[r] # w
    BY <1>1, <2>2, <2>4, OthersKeep
  <2> QED
    BY <2>3, <2>4
<1>2. ASSUME NEW r \in Runs, NEW w \in Workflows, Invoke(r, w) \/ Resume(r, w)
      PROVE  CleanInv'
  BY <1>2, InvokeClean, ResumeClean
<1>3. CASE Restart
  BY <1>3, RestartClean
<1>4. CASE UNCHANGED vars
  <2>1. SUFFICES ASSUME NEW w \in Workflows, w \notin disturbed
                 PROVE  Tidy(w)'
    BY <1>4 DEF CleanInv, vars
  <2>2. Unaffected(w)
    BY <1>4 DEF vars, Unaffected, On, Busy, Has
  <2> QED
    BY <2>1, <2>2, UnaffectedKeeps DEF CleanInv
<1> QED
  BY <1>1, <1>2, <1>3, <1>4 DEF Next, Finished

LEMMA CleanInvHolds == Spec => [](IInv /\ CleanInv)
<1>1. Init => IInv /\ CleanInv
  BY InitInv, InitCleanup
<1>2. IInv /\ CleanInv /\ [Next]_vars => (IInv /\ CleanInv)'
  BY NextInv, NextClean
<1> QED
  BY <1>1, <1>2, PTL DEF Spec

(* The container behind the link of a first pass that waits for a person is *)
(* there, and is this workflow's (graph_builder.py:1436): whatever runs     *)
(* beside it, fails or restarts.                                            *)
THEOREM AliveForReviewHolds == Spec => []AliveForReview
<1>1. IInv /\ CleanInv => AliveForReview
  <2>1. SUFFICES ASSUME IInv, CleanInv, NEW w \in Workflows \ disturbed,
                        checkpoint[w].next = "gate", checkpoint[w].keys.url # Nothing,
                        passes[w] = 1, ~Active(w)
                 PROVE  \E x \in Named("container", checkpoint[w].keys.url) : x.by = w
    BY DEF AliveForReview
  <2>2. Has("container", w)
    BY <2>1 DEF CleanInv, Tidy, SavedInv
  <2>3. checkpoint[w].keys.url = Name(w)
    BY <2>1 DEF IInv, ThreadInv, OwnKeys
  <2>4. PICK x \in host : x.kind = "container" /\ x.by = w
    BY <2>2 DEF Has
  <2>5. x.name = Name(w)
    BY <2>1, <2>4, OwnName
  <2> QED
    BY <2>3, <2>4, <2>5 DEF Named
<1> QED
  BY <1>1, CleanInvHolds, PTL

(* No container of a workflow is left when its graph has ended and none of  *)
(* its threads runs (cleanup_agent.py:36-62 and 129-147), for any number of *)
(* passes and decisions.                                                    *)
THEOREM ContainersGoneHolds == Spec => []ContainersGone
<1>1. CleanInv => ContainersGone
  BY DEF CleanInv, Tidy, SavedInv, ContainersGone, Has
<1> QED
  BY <1>1, CleanInvHolds, PTL

(* A review of one pass leaves no image and no directory behind either      *)
(* (cleanup_agent.py:88-127).                                               *)
THEOREM HostCleanHolds == Spec => []HostClean
<1>1. IInv /\ CleanInv => HostClean
  <2>1. SUFFICES ASSUME IInv, CleanInv, NEW w \in Workflows \ disturbed,
                        checkpoint[w].next = "end", passes[w] = 1, NEW x \in host, x.by = w,
                        x.kind = "image" => w \notin killed
                 PROVE  FALSE
    BY DEF HostClean
  <2>2. ~Has("container", w) /\ ~Has("image", w) /\ ~Has("workspace", w)
    BY <2>1 DEF CleanInv, Tidy, SavedInv
  <2>3. x.kind \in {"workspace", "image", "container"}
    BY <2>1 DEF IInv, HostInv, Things
  <2> QED
    BY <2>1, <2>2, <2>3 DEF Has
<1> QED
  BY <1>1, CleanInvHolds, PTL
=============================================================================
