----------------------------- MODULE LlmClient -----------------------------
(***************************************************************************)
(* The LLM client that all agents of all workflows share.  Every workflow  *)
(* runs on a thread of its own and every call on an event loop of its own  *)
(* (_run_async), while the client's lock, its semaphore and its logging    *)
(* callback are one object.  asyncio's primitives are made for one loop: a *)
(* primitive is bound to the loop that first has to wait for it, refuses   *)
(* every other loop that has to wait, and wakes its waiter without waking  *)
(* the waiter's thread.                                                    *)
(***************************************************************************)
EXTENDS Integers, Sequences, FiniteSets

CONSTANTS
    Calls,          \* calls of generate, each with its event loop
    Workflows,
    WorkflowOf,     \* whose thread makes the call
    Models,
    ModelOf,        \* what models.yaml has for the agent that calls
    Unbounded,      \* calls outside wait_for: those of judge_node's stand-in
    NoCall, NoModel, NoWorkflow

ASSUME LlmAssumption ==
    /\ IsFiniteSet(Calls)
    /\ WorkflowOf \in [Calls -> Workflows]
    /\ ModelOf \in [Calls -> Models]
    /\ Unbounded \subseteq Calls
    /\ NoCall \notin Calls /\ NoModel \notin Models /\ NoWorkflow \notin Workflows

VARIABLES
    pc,             \* where each call is
    late,           \* calls whose 90 seconds were over when they woke
    lock,           \* model_lock: is it locked, its loop, was its waiter woken
    sem,            \* semaphore: its value, its loop, was its waiter woken
    active,         \* active_model
    registered,     \* workflows that have set the callback
    callback,       \* the workflow whose callback the client holds
    rows,           \* for each call, the workflows its log rows are filed under
    passed,         \* history: calls that left ensure_model_loaded
    lost            \* history: calls whose row could not be written

vars == <<pc, late, lock, sem, active, registered, callback, rows, passed, lost>>

Steps == {"idle", "lock", "grab_lock", "queue_lock", "wait_lock", "warm",
          "sem", "grab_sem", "queue_sem", "wait_sem", "post", "log", "ended"}

TypeOK ==
    /\ pc \in [Calls -> Steps]
    /\ late \subseteq Calls
    /\ lock \in [locked : BOOLEAN, loop : Calls \cup {NoCall}, woken : BOOLEAN]
    /\ sem \in [value : Int, loop : Calls \cup {NoCall}, woken : BOOLEAN]
    /\ sem.value <= 1
    /\ active \in Models \cup {NoModel}
    /\ registered \subseteq Workflows
    /\ callback \in Workflows \cup {NoWorkflow}
    /\ rows \in [Calls -> Seq(Workflows)]
    /\ passed \subseteq Calls /\ lost \subseteq Calls

Init ==
    /\ pc = [c \in Calls |-> "idle"] /\ late = {}
    /\ lock = [locked |-> FALSE, loop |-> NoCall, woken |-> FALSE]
    /\ sem = [value |-> 1, loop |-> NoCall, woken |-> FALSE]
    /\ active = NoModel
    /\ registered = {} /\ callback = NoWorkflow
    /\ rows = [c \in Calls |-> <<>>]
    /\ passed = {} /\ lost = {}

GoTo(c, step) == pc' = [pc EXCEPT ![c] = step]
Logging == UNCHANGED <<registered, callback, rows, lost>>

-----------------------------------------------------------------------------
(* asyncio.Lock and asyncio.Semaphore (Python 3.11) *)

(* Only the loop a primitive is bound to can be in its queue. *)
LockQueue == {c \in Calls : c = lock.loop /\ pc[c] = "wait_lock"}
SemQueue == {c \in Calls : c = sem.loop /\ pc[c] = "wait_sem"}

LockIsFree == ~lock.locked /\ LockQueue = {}
SemIsFree == sem.value # 0 /\ SemQueue = {}

LockReleased == [lock EXCEPT !.locked = FALSE, !.woken = LockQueue # {}]

(* Mutant: the permit is given back twice. *)
SemReleasedMutant == [sem EXCEPT !.value = @ + 2]

(* A semaphore's permit passes to its waiter at once, awake or not. *)
SemReleased ==
    IF SemQueue # {} /\ ~sem.woken THEN [sem EXCEPT !.woken = TRUE]
    ELSE [sem EXCEPT !.value = @ + 1]

-----------------------------------------------------------------------------
(* execute_workflow puts its own callback into the client, and goes on      *)
(* without when that fails.                                                 *)
Register(w) ==
    /\ w \notin registered
    /\ registered' = registered \cup {w}
    /\ callback' \in {callback, w}
    /\ UNCHANGED <<pc, late, lock, sem, active, rows, passed, lost>>

(* The agents of a workflow call one after the other. *)
Start(c) ==
    /\ pc[c] = "idle" /\ WorkflowOf[c] \in registered
    /\ \A d \in Calls \ {c} : WorkflowOf[d] = WorkflowOf[c] => pc[d] \in {"idle", "ended"}
    /\ GoTo(c, "lock")
    /\ UNCHANGED <<late, lock, sem, active, passed>> /\ Logging

-----------------------------------------------------------------------------
(* ensure_model_loaded.  Whether the lock is free is read in one step and   *)
(* the lock taken, or its queue joined, in another: nothing keeps a second  *)
(* thread out between.  A release that falls there wakes nobody.            *)
TryLock(c) ==
    /\ pc[c] = "lock"
    /\ GoTo(c, IF LockIsFree THEN "grab_lock" ELSE "queue_lock")
    /\ UNCHANGED <<late, lock, sem, active, passed>> /\ Logging

QueueLock(c) ==
    /\ pc[c] = "queue_lock"
    /\ \/ /\ lock.loop = NoCall
          /\ lock' = [lock EXCEPT !.loop = c]
          /\ GoTo(c, "wait_lock")
       \/ /\ lock.loop # NoCall      \* bound to a different loop
          /\ GoTo(c, "ended")
          /\ UNCHANGED lock
    /\ UNCHANGED <<late, sem, active, passed>> /\ Logging

GrabLock(c) ==
    /\ pc[c] = "grab_lock"
    /\ lock' = [lock EXCEPT !.locked = TRUE]
    /\ GoTo(c, "warm")
    /\ UNCHANGED <<late, sem, active, passed>> /\ Logging

(* A loop that sleeps in its selector notices at its own timer, and then    *)
(* the call is cancelled at its next await.                                 *)
Notices(c) ==
    \E slept \in BOOLEAN :
        /\ slept => c \notin Unbounded
        /\ late' = IF slept THEN late \cup {c} ELSE late

WakeUp(c) ==
    \/ /\ pc[c] = "wait_lock" /\ lock.woken
       /\ Notices(c)
       /\ lock' = [lock EXCEPT !.locked = TRUE, !.woken = FALSE]
       /\ GoTo(c, "warm")
       /\ UNCHANGED <<sem, active, passed>> /\ Logging
    \/ /\ pc[c] = "wait_sem" /\ sem.woken
       /\ Notices(c)
       /\ sem' = [sem EXCEPT !.woken = FALSE]
       /\ GoTo(c, "post")
       /\ UNCHANGED <<lock, active, passed>> /\ Logging

(* Leaving the block releases the lock, which raises when another thread   *)
(* has released it already.                                                *)
LeaveLock(c, next) ==
    IF lock.locked
    THEN /\ lock' = LockReleased
         /\ GoTo(c, next)
         /\ passed' = IF next = "sem" THEN passed \cup {c} ELSE passed
    ELSE GoTo(c, "ended") /\ UNCHANGED <<lock, passed>>

(* Nothing to load, or a warm-up request that may fail. *)
Warm(c) ==
    /\ pc[c] = "warm"
    /\ \/ active = ModelOf[c] /\ UNCHANGED active
       \/ /\ active # ModelOf[c] /\ c \notin late
          /\ active' \in {active, ModelOf[c]}
    /\ LeaveLock(c, "sem")
    /\ UNCHANGED <<late, sem>> /\ Logging

-----------------------------------------------------------------------------
(* generate *)
TrySem(c) ==
    /\ pc[c] = "sem"
    /\ GoTo(c, IF SemIsFree THEN "grab_sem" ELSE "queue_sem")
    /\ UNCHANGED <<late, lock, sem, active, passed>> /\ Logging

QueueSem(c) ==
    /\ pc[c] = "queue_sem"
    /\ \/ /\ sem.loop = NoCall
          /\ sem' = [sem EXCEPT !.loop = c]
          /\ GoTo(c, "wait_sem")
       \/ /\ sem.loop # NoCall
          /\ GoTo(c, "log")
          /\ UNCHANGED sem
    /\ UNCHANGED <<late, lock, active, passed>> /\ Logging

GrabSem(c) ==
    /\ pc[c] = "grab_sem"
    /\ sem' = [sem EXCEPT !.value = @ - 1]
    /\ GoTo(c, "post")
    /\ UNCHANGED <<late, lock, active, passed>> /\ Logging

(* An answer or an error, either way the permit goes back. *)
Post(c) ==
    /\ pc[c] = "post" /\ c \notin late
    /\ sem' = SemReleased
    /\ GoTo(c, "log")
    /\ UNCHANGED <<late, lock, active, passed>> /\ Logging

(* The callback of whichever workflow came last opens a session and inserts *)
(* the row.  With no callback, or when the callback, its session or its     *)
(* insert fails, the row is dropped and the call goes on.                   *)
Log(c) ==
    /\ pc[c] = "log"
    /\ \/ /\ callback # NoWorkflow
          /\ rows' = [rows EXCEPT ![c] = Append(@, callback)]
          /\ UNCHANGED lost
       \/ /\ lost' = lost \cup {c}
          /\ UNCHANGED rows
    /\ GoTo(c, "ended")
    /\ UNCHANGED <<late, lock, sem, active, registered, callback, passed>>

(* Mutant: only a call that has sent its request is logged. *)
CancelledAtMutant(c) ==
    CASE pc[c] \in {"wait_lock", "warm", "wait_sem"} -> "ended"
      [] OTHER -> "log"

(* Cancelled before the try block of generate, a call is not logged. *)
CancelledAt(c) ==
    CASE pc[c] \in {"wait_lock", "warm"} -> "ended"
      [] OTHER -> "log"

(* Mutant: no wait_for around the wait for the semaphore. *)
TimeoutMutant(c) ==
    /\ pc[c] = "post"
    /\ sem' = SemReleased
    /\ GoTo(c, "log")
    /\ UNCHANGED <<late, lock, active, passed>> /\ Logging

(* Mutant: acquire and release by hand, so that a cancelled request keeps   *)
(* its permit.                                                              *)
TimeoutLeakMutant(c) ==
    /\ c \notin Unbounded
    /\ pc[c] \in {"wait_lock", "wait_sem", "post"}
    /\ ~(IF pc[c] = "wait_lock" THEN lock.woken ELSE pc[c] = "wait_sem" /\ sem.woken)
    /\ GoTo(c, CancelledAt(c))
    /\ UNCHANGED <<late, lock, sem, active, passed>> /\ Logging

(* wait_for cancels the call at the await it has reached. *)
Timeout(c) ==
    /\ c \notin Unbounded
    /\ \/ /\ pc[c] \in {"wait_lock", "wait_sem"}
          /\ ~(IF pc[c] = "wait_lock" THEN lock.woken ELSE sem.woken)
          /\ GoTo(c, CancelledAt(c))
          /\ UNCHANGED <<lock, sem, passed>>
       \/ /\ pc[c] = "warm" /\ active # ModelOf[c]
          /\ LeaveLock(c, CancelledAt(c))
          /\ UNCHANGED sem
       \/ /\ pc[c] = "post"
          /\ sem' = SemReleased
          /\ GoTo(c, CancelledAt(c))
          /\ UNCHANGED <<lock, passed>>
    /\ UNCHANGED <<late, active>> /\ Logging

-----------------------------------------------------------------------------
Proceed(c) ==
    \/ TryLock(c) \/ GrabLock(c) \/ QueueLock(c) \/ Warm(c)
    \/ TrySem(c) \/ GrabSem(c) \/ QueueSem(c) \/ Post(c) \/ Log(c)
    \/ WakeUp(c) \/ Timeout(c)

Next ==
    \/ \E w \in Workflows : Register(w)
    \/ \E c \in Calls : Start(c) \/ Proceed(c)

(* Threads run and timers fire.  A call without a timer is promised nothing: *)
(* no other thread wakes its loop.                                           *)
Spec == Init /\ [][Next]_vars /\ \A c \in Calls \ Unbounded : WF_vars(Proceed(c))

-----------------------------------------------------------------------------
(* Between calls the lock is unlocked and the permit is back, whatever was  *)
(* cancelled, refused or taken twice on the way (ensure_model_loaded,       *)
(* generate: async with).                                                   *)
NothingHeld ==
    (\A c \in Calls : pc[c] \in {"idle", "ended"}) => ~lock.locked /\ sem.value = 1

(* Logging is best-effort, but no way through generate goes round it: only  *)
(* a failure to write loses a row.  A call that got past                    *)
(* ensure_model_loaded, be it answered, refused, cancelled in the queue or  *)
(* cancelled in its request, has one row or a write that failed, and a call *)
(* that did not has no row (generate, finally).                             *)
LoggedUnlessLost ==
    /\ lost \subseteq passed
    /\ \A c \in Calls :
          pc[c] = "ended" => Len(rows[c]) = IF c \in passed \ lost THEN 1 ELSE 0

(* No agent waits for the model for ever: although a release does not wake  *)
(* the thread it releases, every call under wait_for comes back.            *)
CallsEnd == \A c \in Calls \ Unbounded : pc[c] = "lock" ~> pc[c] = "ended"
=============================================================================
