-------------------------- MODULE LlmClientProofs --------------------------
(***************************************************************************)
(* However many threads and calls there are, and whatever is cancelled,    *)
(* refused or taken twice: between calls the client's lock and permit are  *)
(* back, and no call that got past ensure_model_loaded goes round its log. *)
(***************************************************************************)
EXTENDS LlmClient, FiniteSetTheorems, TLAPS

USE LlmAssumption

Typed ==
    /\ pc \in [Calls -> Steps]
    /\ late \subseteq Calls
    /\ lock \in [locked : BOOLEAN, loop : Calls \cup {NoCall}, woken : BOOLEAN]
    /\ sem \in [value : Int, loop : Calls \cup {NoCall}, woken : BOOLEAN]
    /\ active \in Models \cup {NoModel}
    /\ registered \subseteq Workflows
    /\ callback \in Workflows \cup {NoWorkflow}
    /\ rows \in [Calls -> Seq(Workflows)]
    /\ passed \subseteq Calls /\ lost \subseteq Calls

(* A call is logged on its way from "log" to "ended" and nowhere else. *)
Logged ==
    \A c \in Calls :
        /\ pc[c] \in {"idle", "lock", "grab_lock", "queue_lock", "wait_lock", "warm"} =>
                rows[c] = <<>> /\ c \notin passed /\ c \notin lost
        /\ pc[c] \in {"sem", "grab_sem", "queue_sem", "wait_sem", "post", "log"} =>
                rows[c] = <<>> /\ c \in passed /\ c \notin lost
        /\ pc[c] = "ended" => Len(rows[c]) = IF c \in passed \ lost THEN 1 ELSE 0
        /\ c \in lost => c \in passed

Holding == {c \in Calls : pc[c] = "post"}
InTransit == IF sem.woken THEN 1 ELSE 0

(* The one permit: with the semaphore, with a request, or on its way to the *)
(* waiter it was passed to.  The value drops below zero when two threads    *)
(* took the permit together.                                                *)
Permits ==
    /\ sem.value = 1 - Cardinality(Holding) - InTransit
    /\ sem.woken => \E c \in Calls : pc[c] = "wait_sem"
    /\ \A c \in Calls : pc[c] = "wait_sem" => sem.loop = c

(* Threads may share the lock; the first to leave unlocks it for all. *)
LockHeld == lock.locked => \E c \in Calls : pc[c] = "warm"

IInv == Typed /\ Logged /\ Permits /\ LockHeld

-----------------------------------------------------------------------------
LEMMA InitIInv == Init => IInv
<1> SUFFICES ASSUME Init PROVE IInv OBVIOUS
<1>1. Holding = {}
  BY DEF Init, Holding
<1>2. Cardinality(Holding) = 0
  BY <1>1, FS_EmptySet
<1>3. Typed /\ Logged /\ LockHeld
  BY DEF Init, Typed, Logged, LockHeld, Steps
<1>4. Permits
  BY <1>2 DEF Init, Permits, InTransit
<1> QED
  BY <1>3, <1>4 DEF IInv

(* How a step of one call moves the number of requests under way. *)
LEMMA HoldingMoves ==
    ASSUME Typed, NEW c \in Calls, NEW step \in Steps, GoTo(c, step)
    PROVE  /\ Cardinality(Holding) \in Nat
           /\ pc[c] # "post" /\ step # "post" => Cardinality(Holding') = Cardinality(Holding)
           /\ pc[c] # "post" /\ step = "post" => Cardinality(Holding') = Cardinality(Holding) + 1
           /\ pc[c] = "post" /\ step # "post" => Cardinality(Holding') = Cardinality(Holding) - 1
<1>1. IsFiniteSet(Holding)
  BY FS_Subset DEF Holding
<1>2. Cardinality(Holding) \in Nat
  BY <1>1, FS_CardinalityType
<1>3. ASSUME pc[c] # "post", step # "post" PROVE Cardinality(Holding') = Cardinality(Holding)
  <2>1. Holding' = Holding
    BY <1>3 DEF GoTo, Holding, Typed
  <2> QED
    BY <2>1
<1>4. ASSUME pc[c] # "post", step = "post" PROVE Cardinality(Holding') = Cardinality(Holding) + 1
  <2>1. Holding' = Holding \cup {c} /\ c \notin Holding
    BY <1>4 DEF GoTo, Holding, Typed
  <2> QED
    BY <2>1, <1>1, FS_AddElement
<1>5. ASSUME pc[c] = "post", step # "post" PROVE Cardinality(Holding') = Cardinality(Holding) - 1
  <2>1. Holding' = Holding \ {c} /\ c \in Holding
    BY <1>5 DEF GoTo, Holding, Typed
  <2> QED
    BY <2>1, <1>1, FS_RemoveElement
<1> QED
  BY <1>2, <1>3, <1>4, <1>5

(* A step before the semaphore. *)
LEMMA FirstHalf ==
    ASSUME IInv, NEW c \in Calls,
           NEW step \in {"lock", "grab_lock", "queue_lock", "wait_lock", "warm", "sem", "ended"},
           GoTo(c, step), pc[c] \in {"idle", "lock", "grab_lock", "queue_lock", "wait_lock", "warm"},
           sem' = sem, rows' = rows, lost' = lost,
           passed' = IF step = "sem" THEN passed \cup {c} ELSE passed
    PROVE  Logged' /\ Permits'
<1>1. Logged'
  BY DEF IInv, Typed, Logged, GoTo, Steps
<1>2. Cardinality(Holding') = Cardinality(Holding)
  BY HoldingMoves DEF IInv, Steps
<1>3. sem.woken => \E d \in Calls : pc'[d] = "wait_sem"
  BY DEF IInv, Permits, Typed, GoTo
<1>4. \A d \in Calls : pc'[d] = "wait_sem" => sem.loop = d
  BY DEF IInv, Permits, Typed, GoTo
<1> QED
  BY <1>1, <1>2, <1>3, <1>4 DEF IInv, Permits, InTransit

(* A step that leaves the lock alone, at a call that is not in the block. *)
LEMMA LockUntouched ==
    ASSUME IInv, NEW c \in Calls, NEW step \in Steps, GoTo(c, step), pc[c] # "warm",
           lock'.locked = lock.locked
    PROVE  LockHeld'
BY DEF IInv, LockHeld, Typed, GoTo

(* The permit goes back, or on to the waiter. *)
LEMMA Releases ==
    ASSUME IInv, NEW c \in Calls, pc[c] = "post", GoTo(c, "log"), sem' = SemReleased
    PROVE  Permits' /\ sem' \in [value : Int, loop : Calls \cup {NoCall}, woken : BOOLEAN]
<1>1. Cardinality(Holding) \in Nat /\ Cardinality(Holding') = Cardinality(Holding) - 1
  BY HoldingMoves DEF IInv, Steps
<1>2. \A d \in Calls : pc'[d] = "wait_sem" <=> pc[d] = "wait_sem"
  BY DEF IInv, Typed, GoTo
<1>3. CASE SemQueue # {} /\ ~sem.woken
  <2>1. sem' = [sem EXCEPT !.woken = TRUE]
    BY <1>3 DEF SemReleased
  <2>2. sem'.value = sem.value /\ sem'.woken = TRUE /\ sem'.loop = sem.loop
    BY <2>1 DEF IInv, Typed
  <2>3. PICK d \in Calls : pc[d] = "wait_sem"
    BY <1>3 DEF SemQueue
  <2>4. sem.value = 1 - Cardinality(Holding)
    BY <1>1, <1>3 DEF IInv, Permits, InTransit
  <2>5. sem'.value = 1 - Cardinality(Holding') - InTransit'
    BY <1>1, <2>2, <2>4 DEF InTransit
  <2>6. \E e \in Calls : pc'[e] = "wait_sem"
    BY <1>2, <2>3
  <2>7. \A e \in Calls : pc'[e] = "wait_sem" => sem'.loop = e
    BY <1>2, <2>2 DEF IInv, Permits
  <2>8. sem' \in [value : Int, loop : Calls \cup {NoCall}, woken : BOOLEAN]
    BY <2>1 DEF IInv, Typed
  <2> QED
    BY <2>5, <2>6, <2>7, <2>8 DEF Permits
<1>4. CASE ~(SemQueue # {} /\ ~sem.woken)
  <2>1. sem' = [sem EXCEPT !.value = @ + 1]
    BY <1>4 DEF SemReleased
  <2>2. sem'.value = sem.value + 1 /\ sem'.woken = sem.woken /\ sem'.loop = sem.loop
    BY <2>1 DEF IInv, Typed
  <2>3. sem'.value = 1 - Cardinality(Holding') - InTransit'
    BY <1>1, <2>2 DEF IInv, Typed, Permits, InTransit
  <2>4. sem'.woken => \E e \in Calls : pc'[e] = "wait_sem"
    BY <1>2, <2>2 DEF IInv, Permits
  <2>5. \A e \in Calls : pc'[e] = "wait_sem" => sem'.loop = e
    BY <1>2, <2>2 DEF IInv, Permits
  <2>6. sem' \in [value : Int, loop : Calls \cup {NoCall}, woken : BOOLEAN]
    <3>1. sem \in [value : Int, loop : Calls \cup {NoCall}, woken : BOOLEAN]
      BY DEF IInv, Typed
    <3>2. sem.value + 1 \in Int
      BY <3>1
    <3> QED
      BY <2>1, <3>1, <3>2
  <2> QED
    BY <2>3, <2>4, <2>5, <2>6 DEF Permits
<1> QED
  BY <1>3, <1>4

-----------------------------------------------------------------------------
LEMMA RegisterStep == ASSUME IInv, NEW w \in Workflows, Register(w) PROVE IInv'
<1>1. Typed' /\ Logged' /\ LockHeld'
  BY DEF IInv, Typed, Logged, LockHeld, Register
<1>2. Holding' = Holding
  BY DEF Register, Holding
<1>3. Permits'
  BY <1>2 DEF IInv, Permits, InTransit, Register
<1> QED
  BY <1>1, <1>3 DEF IInv

LEMMA StartStep == ASSUME IInv, NEW c \in Calls, Start(c) PROVE IInv'
<1>1. Typed'
  BY DEF IInv, Typed, Start, GoTo, Logging, Steps
<1>2. Logged' /\ Permits'
  BY FirstHalf DEF Start, Logging
<1>3. LockHeld'
  BY LockUntouched DEF Start, Steps
<1> QED
  BY <1>1, <1>2, <1>3 DEF IInv

LEMMA TryLockStep == ASSUME IInv, NEW c \in Calls, TryLock(c) PROVE IInv'
<1>1. PICK step \in {"grab_lock", "queue_lock"} : GoTo(c, step)
  BY DEF TryLock
<1>2. pc[c] = "lock" /\ lock' = lock /\ sem' = sem /\ rows' = rows /\ lost' = lost /\ passed' = passed
  BY DEF TryLock, Logging
<1>3. Typed'
  BY <1>1 DEF IInv, Typed, TryLock, GoTo, Logging, Steps
<1>4. Logged' /\ Permits'
  BY <1>1, <1>2, FirstHalf
<1>5. LockHeld'
  BY <1>1, <1>2, LockUntouched DEF Steps
<1> QED
  BY <1>3, <1>4, <1>5 DEF IInv

LEMMA QueueLockStep == ASSUME IInv, NEW c \in Calls, QueueLock(c) PROVE IInv'
<1>1. PICK step \in {"wait_lock", "ended"} :
        /\ GoTo(c, step)
        /\ lock' \in {lock, [lock EXCEPT !.loop = c]}
  BY DEF QueueLock
<1>2. pc[c] = "queue_lock" /\ sem' = sem /\ rows' = rows /\ lost' = lost /\ passed' = passed
  BY DEF QueueLock, Logging
<1>3. lock'.locked = lock.locked
  BY <1>1 DEF IInv, Typed
<1>4. Typed'
  <2>1. pc' \in [Calls -> Steps]
    BY <1>1 DEF IInv, Typed, GoTo, Steps
  <2>2. lock' \in [locked : BOOLEAN, loop : Calls \cup {NoCall}, woken : BOOLEAN]
    BY <1>1 DEF IInv, Typed
  <2> QED
    BY <2>1, <2>2 DEF IInv, Typed, QueueLock, Logging
<1>5. Logged' /\ Permits'
  BY <1>1, <1>2, FirstHalf
<1>6. LockHeld'
  BY <1>1, <1>2, <1>3, LockUntouched DEF Steps
<1> QED
  BY <1>4, <1>5, <1>6 DEF IInv

LEMMA GrabLockStep == ASSUME IInv, NEW c \in Calls, GrabLock(c) PROVE IInv'
<1>1. Typed'
  BY DEF IInv, Typed, GrabLock, GoTo, Logging, Steps
<1>2. Logged' /\ Permits'
  BY FirstHalf DEF GrabLock, Logging
<1>3. pc'[c] = "warm"
  BY DEF IInv, Typed, GrabLock, GoTo
<1>4. LockHeld'
  BY <1>3 DEF LockHeld
<1> QED
  BY <1>1, <1>2, <1>4 DEF IInv

(* Leaving the block: nobody is left behind with the lock locked. *)
LEMMA LeaveLockStep ==
    ASSUME IInv, NEW c \in Calls, NEW next \in {"sem", "ended"}, pc[c] = "warm",
           LeaveLock(c, next), sem' = sem, rows' = rows, lost' = lost
    PROVE  /\ Logged' /\ Permits' /\ LockHeld'
           /\ pc' \in [Calls -> Steps] /\ passed' \subseteq Calls
           /\ lock' \in [locked : BOOLEAN, loop : Calls \cup {NoCall}, woken : BOOLEAN]
<1>1. CASE lock.locked
  <2>1. /\ lock' = [lock EXCEPT !.locked = FALSE, !.woken = LockQueue # {}]
        /\ GoTo(c, next)
        /\ passed' = IF next = "sem" THEN passed \cup {c} ELSE passed
    BY <1>1 DEF LeaveLock, LockReleased
  <2>2. Logged' /\ Permits'
    BY <2>1, FirstHalf
  <2>3. lock'.locked = FALSE
    BY <2>1 DEF IInv, Typed
  <2>4. lock' \in [locked : BOOLEAN, loop : Calls \cup {NoCall}, woken : BOOLEAN]
    BY <2>1 DEF IInv, Typed
  <2> QED
    BY <2>1, <2>2, <2>3, <2>4 DEF LockHeld, GoTo, IInv, Typed, Steps
<1>2. CASE ~lock.locked
  <2>1. GoTo(c, "ended") /\ lock' = lock /\ passed' = passed
    BY <1>2 DEF LeaveLock
  <2>2. Logged' /\ Permits'
    BY <2>1, FirstHalf
  <2> QED
    BY <1>2, <2>1, <2>2 DEF LockHeld, GoTo, IInv, Typed, Steps
<1> QED
  BY <1>1, <1>2

LEMMA WarmStep == ASSUME IInv, NEW c \in Calls, Warm(c) PROVE IInv'
<1>1. /\ Logged' /\ Permits' /\ LockHeld'
      /\ pc' \in [Calls -> Steps] /\ passed' \subseteq Calls
      /\ lock' \in [locked : BOOLEAN, loop : Calls \cup {NoCall}, woken : BOOLEAN]
  BY LeaveLockStep DEF Warm, Logging
<1>2. active' \in Models \cup {NoModel}
  BY DEF Warm, IInv, Typed
<1>3. Typed'
  BY <1>1, <1>2 DEF IInv, Typed, Warm, Logging
<1> QED
  BY <1>1, <1>3 DEF IInv

(* A step between the semaphore and the log. *)
LEMMA SecondHalf ==
    ASSUME IInv, NEW c \in Calls, NEW step \in {"grab_sem", "queue_sem", "wait_sem", "post", "log"},
           GoTo(c, step), pc[c] \in {"sem", "grab_sem", "queue_sem", "wait_sem", "post"},
           lock' = lock, rows' = rows, lost' = lost, passed' = passed
    PROVE  Logged' /\ LockHeld' /\ pc' \in [Calls -> Steps]
<1>1. Logged'
  BY DEF IInv, Typed, Logged, GoTo, Steps
<1>2. LockHeld'
  BY LockUntouched DEF Steps
<1> QED
  BY <1>1, <1>2 DEF IInv, Typed, GoTo, Steps

LEMMA TrySemStep == ASSUME IInv, NEW c \in Calls, TrySem(c) PROVE IInv'
<1>1. PICK step \in {"grab_sem", "queue_sem"} : GoTo(c, step)
  BY DEF TrySem
<1>2. pc[c] = "sem" /\ lock' = lock /\ sem' = sem /\ rows' = rows /\ lost' = lost /\ passed' = passed
  BY DEF TrySem, Logging
<1>3. Logged' /\ LockHeld' /\ pc' \in [Calls -> Steps]
  BY <1>1, <1>2, SecondHalf
<1>4. Typed'
  BY <1>2, <1>3 DEF IInv, Typed, TrySem, Logging
<1>5. Cardinality(Holding') = Cardinality(Holding)
  BY <1>1, <1>2, HoldingMoves DEF IInv, Steps
<1>6. \A d \in Calls : pc'[d] = "wait_sem" <=> pc[d] = "wait_sem"
  BY <1>1, <1>2 DEF GoTo, IInv, Typed
<1>7. Permits'
  BY <1>2, <1>5, <1>6 DEF IInv, Permits, InTransit
<1> QED
  BY <1>3, <1>4, <1>7 DEF IInv

LEMMA QueueSemStep == ASSUME IInv, NEW c \in Calls, QueueSem(c) PROVE IInv'
<1>1. PICK step \in {"wait_sem", "log"} : GoTo(c, step)
  BY DEF QueueSem
<1>2. /\ pc[c] = "queue_sem" /\ lock' = lock /\ rows' = rows /\ lost' = lost /\ passed' = passed
      /\ sem' \in {sem, [sem EXCEPT !.loop = c]}
  BY DEF QueueSem, Logging
<1>3. Logged' /\ LockHeld' /\ pc' \in [Calls -> Steps]
  BY <1>1, <1>2, SecondHalf
<1>4. Typed'
  BY <1>2, <1>3 DEF IInv, Typed, QueueSem, Logging
<1>5. Cardinality(Holding') = Cardinality(Holding)
  BY <1>1, <1>2, HoldingMoves DEF IInv, Steps
<1>6. sem'.value = sem.value /\ sem'.woken = sem.woken
  BY <1>2 DEF IInv, Typed
<1>7. sem'.value = 1 - Cardinality(Holding') - InTransit'
  BY <1>5, <1>6 DEF IInv, Permits, InTransit
<1>8. sem'.woken => \E d \in Calls : pc'[d] = "wait_sem"
  <2>1. \A d \in Calls : pc[d] = "wait_sem" => pc'[d] = "wait_sem"
    BY <1>1, <1>2 DEF GoTo, IInv, Typed
  <2> QED
    BY <2>1, <1>6 DEF IInv, Permits
<1>9. \A d \in Calls : pc'[d] = "wait_sem" => sem'.loop = d
  <2>1. CASE sem' = sem /\ pc' # [pc EXCEPT ![c] = "wait_sem"]
    BY <2>1, <1>1 DEF GoTo, IInv, Typed, Permits
  <2>2. CASE /\ pc' = [pc EXCEPT ![c] = "wait_sem"] /\ sem.loop = NoCall
             /\ sem' = [sem EXCEPT !.loop = c]
    BY <2>2 DEF IInv, Typed, Permits
  <2> QED
    BY <1>1, <2>1, <2>2 DEF QueueSem, GoTo, IInv, Typed
<1> QED
  BY <1>3, <1>4, <1>7, <1>8, <1>9 DEF IInv, Permits

LEMMA GrabSemStep == ASSUME IInv, NEW c \in Calls, GrabSem(c) PROVE IInv'
<1>1. /\ pc[c] = "grab_sem" /\ GoTo(c, "post") /\ sem' = [sem EXCEPT !.value = @ - 1]
      /\ lock' = lock /\ rows' = rows /\ lost' = lost /\ passed' = passed
  BY DEF GrabSem, Logging
<1>2. Logged' /\ LockHeld' /\ pc' \in [Calls -> Steps]
  BY <1>1, SecondHalf
<1>3. sem'.value = sem.value - 1 /\ sem'.woken = sem.woken /\ sem'.loop = sem.loop
  BY <1>1 DEF IInv, Typed
<1>4. sem' \in [value : Int, loop : Calls \cup {NoCall}, woken : BOOLEAN]
  <2>1. sem \in [value : Int, loop : Calls \cup {NoCall}, woken : BOOLEAN]
    BY DEF IInv, Typed
  <2>2. sem.value - 1 \in Int
    BY <2>1
  <2> QED
    BY <1>1, <2>1, <2>2
<1>5. Typed'
  BY <1>1, <1>2, <1>4 DEF IInv, Typed, GrabSem, Logging
<1>6. Cardinality(Holding) \in Nat /\ Cardinality(Holding') = Cardinality(Holding) + 1
  BY <1>1, HoldingMoves DEF IInv, Steps
<1>7. sem'.value = 1 - Cardinality(Holding') - InTransit'
  BY <1>3, <1>6 DEF IInv, Permits, InTransit
<1>8. \A d \in Calls : pc'[d] = "wait_sem" <=> pc[d] = "wait_sem"
  BY <1>1 DEF IInv, Typed, GoTo
<1> QED
  BY <1>2, <1>3, <1>5, <1>7, <1>8 DEF IInv, Permits

LEMMA PostStep == ASSUME IInv, NEW c \in Calls, Post(c) PROVE IInv'
<1>1. /\ pc[c] = "post" /\ GoTo(c, "log") /\ sem' = SemReleased
      /\ lock' = lock /\ rows' = rows /\ lost' = lost /\ passed' = passed
  BY DEF Post, Logging
<1>2. Logged' /\ LockHeld' /\ pc' \in [Calls -> Steps]
  BY <1>1, SecondHalf
<1>3. Permits' /\ sem' \in [value : Int, loop : Calls \cup {NoCall}, woken : BOOLEAN]
  BY <1>1, Releases
<1>4. Typed'
  BY <1>1, <1>2, <1>3 DEF IInv, Typed, Post, Logging
<1> QED
  BY <1>2, <1>3, <1>4 DEF IInv

LEMMA LogStep == ASSUME IInv, NEW c \in Calls, Log(c) PROVE IInv'
<1>1. /\ pc[c] = "log" /\ GoTo(c, "ended")
      /\ lock' = lock /\ sem' = sem /\ passed' = passed
  BY DEF Log
<1>2. rows[c] = <<>> /\ c \in passed /\ c \notin lost
  BY <1>1 DEF IInv, Logged
<1>3. rows' \in [Calls -> Seq(Workflows)] /\ lost' \in {lost, lost \cup {c}}
  <2>1. CASE callback # NoWorkflow /\ rows' = [rows EXCEPT ![c] = Append(@, callback)] /\ lost' = lost
    <3>1. rows' = [rows EXCEPT ![c] = <<callback>>] /\ callback \in Workflows
      BY <1>2, <2>1 DEF IInv, Typed
    <3> QED
      BY <2>1, <3>1 DEF IInv, Typed
  <2>2. CASE lost' = lost \cup {c} /\ rows' = rows
    BY <2>2 DEF IInv, Typed
  <2> QED
    BY <2>1, <2>2 DEF Log
<1>4. Typed'
  <2>1. pc' \in [Calls -> Steps]
    BY <1>1 DEF IInv, Typed, GoTo, Steps
  <2>2. lost' \subseteq Calls
    BY <1>3 DEF IInv, Typed
  <2> QED
    BY <1>1, <1>3, <2>1, <2>2 DEF IInv, Typed, Log
<1>5. Logged'
  <2>1. Len(rows'[c]) = IF c \in passed \ lost' THEN 1 ELSE 0
    <3>1. CASE callback # NoWorkflow /\ rows' = [rows EXCEPT ![c] = Append(@, callback)] /\ lost' = lost
      <4>1. rows'[c] = <<callback>>
        BY <1>2, <3>1 DEF IInv, Typed
      <4> QED
        BY <1>2, <3>1, <4>1
    <3>2. CASE lost' = lost \cup {c} /\ rows' = rows
      BY <1>2, <3>2
    <3> QED
      BY <3>1, <3>2 DEF Log
  <2>2. \A d \in Calls \ {c} : rows'[d] = rows[d] /\ pc'[d] = pc[d] /\ (d \in lost' <=> d \in lost)
    BY <1>1, <1>3 DEF Log, IInv, Typed, GoTo
  <2>3. pc'[c] = "ended"
    BY <1>1 DEF IInv, Typed, GoTo
  <2> QED
    BY <1>1, <1>2, <2>1, <2>2, <2>3 DEF IInv, Logged
<1>6. LockHeld'
  BY <1>1, LockUntouched DEF Steps
<1>7. Cardinality(Holding') = Cardinality(Holding)
  BY <1>1, HoldingMoves DEF IInv, Steps
<1>8. \A d \in Calls : pc'[d] = "wait_sem" <=> pc[d] = "wait_sem"
  BY <1>1 DEF IInv, Typed, GoTo
<1>9. Permits'
  BY <1>1, <1>7, <1>8 DEF IInv, Permits, InTransit
<1> QED
  BY <1>4, <1>5, <1>6, <1>9 DEF IInv

LEMMA WakeUpStep == ASSUME IInv, NEW c \in Calls, WakeUp(c) PROVE IInv'
<1>1. late' \subseteq Calls
  BY DEF WakeUp, Notices, IInv, Typed
<1>2. CASE pc[c] = "wait_lock"
  <2>1. /\ lock' = [lock EXCEPT !.locked = TRUE, !.woken = FALSE] /\ GoTo(c, "warm")
        /\ sem' = sem /\ rows' = rows /\ lost' = lost /\ passed' = passed /\ active' = active
        /\ registered' = registered /\ callback' = callback
    BY <1>2 DEF WakeUp, Logging
  <2>2. Logged' /\ Permits'
    BY <1>2, <2>1, FirstHalf
  <2>3. lock' \in [locked : BOOLEAN, loop : Calls \cup {NoCall}, woken : BOOLEAN]
    BY <2>1 DEF IInv, Typed
  <2>4. pc' \in [Calls -> Steps] /\ pc'[c] = "warm"
    BY <2>1 DEF IInv, Typed, GoTo, Steps
  <2>5. LockHeld'
    BY <2>4 DEF LockHeld
  <2>6. Typed'
    BY <1>1, <2>1, <2>3, <2>4 DEF IInv, Typed
  <2> QED
    BY <2>2, <2>5, <2>6 DEF IInv
<1>3. CASE pc[c] = "wait_sem"
  <2>1. /\ sem.woken /\ sem' = [sem EXCEPT !.woken = FALSE] /\ GoTo(c, "post")
        /\ lock' = lock /\ rows' = rows /\ lost' = lost /\ passed' = passed /\ active' = active
        /\ registered' = registered /\ callback' = callback
    BY <1>3 DEF WakeUp, Logging
  <2>2. Logged' /\ LockHeld' /\ pc' \in [Calls -> Steps]
    BY <1>3, <2>1, SecondHalf
  <2>3. sem' \in [value : Int, loop : Calls \cup {NoCall}, woken : BOOLEAN]
    BY <2>1 DEF IInv, Typed
  <2>4. sem'.value = sem.value /\ sem'.woken = FALSE /\ sem'.loop = sem.loop
    BY <2>1 DEF IInv, Typed
  <2>5. Typed'
    BY <1>1, <2>1, <2>2, <2>3 DEF IInv, Typed
  <2>6. Cardinality(Holding) \in Nat /\ Cardinality(Holding') = Cardinality(Holding) + 1
    BY <1>3, <2>1, HoldingMoves DEF IInv, Steps
  <2>7. sem'.value = 1 - Cardinality(Holding') - InTransit'
    BY <2>1, <2>4, <2>6 DEF IInv, Permits, InTransit
  <2>8. \A d \in Calls : pc'[d] = "wait_sem" => sem'.loop = d
    BY <2>1, <2>4 DEF IInv, Typed, Permits, GoTo
  <2> QED
    BY <2>2, <2>4, <2>5, <2>7, <2>8 DEF IInv, Permits
<1> QED
  BY <1>2, <1>3 DEF WakeUp

LEMMA TimeoutStep == ASSUME IInv, NEW c \in Calls, Timeout(c) PROVE IInv'
<1>1. /\ rows' = rows /\ lost' = lost /\ late' = late /\ active' = active
      /\ registered' = registered /\ callback' = callback
  BY DEF Timeout, Logging
<1>2. CASE pc[c] = "wait_lock"
  <2>1. GoTo(c, "ended") /\ lock' = lock /\ sem' = sem /\ passed' = passed
    BY <1>2 DEF Timeout, CancelledAt
  <2>2. Logged' /\ Permits'
    BY <1>1, <1>2, <2>1, FirstHalf
  <2>3. LockHeld'
    BY <1>2, <2>1, LockUntouched DEF Steps
  <2>4. Typed'
    BY <1>1, <2>1 DEF IInv, Typed, GoTo, Steps
  <2> QED
    BY <2>2, <2>3, <2>4 DEF IInv
<1>3. CASE pc[c] = "warm"
  <2>1. LeaveLock(c, "ended") /\ sem' = sem
    BY <1>3 DEF Timeout, CancelledAt
  <2>2. /\ Logged' /\ Permits' /\ LockHeld'
        /\ pc' \in [Calls -> Steps] /\ passed' \subseteq Calls
        /\ lock' \in [locked : BOOLEAN, loop : Calls \cup {NoCall}, woken : BOOLEAN]
    BY <1>1, <1>3, <2>1, LeaveLockStep
  <2>3. Typed'
    BY <1>1, <2>1, <2>2 DEF IInv, Typed
  <2> QED
    BY <2>2, <2>3 DEF IInv
<1>4. CASE pc[c] = "wait_sem"
  <2>1. ~sem.woken /\ GoTo(c, "log") /\ lock' = lock /\ sem' = sem /\ passed' = passed
    BY <1>4 DEF Timeout, CancelledAt
  <2>2. Logged' /\ LockHeld' /\ pc' \in [Calls -> Steps]
    BY <1>1, <1>4, <2>1, SecondHalf
  <2>3. Typed'
    BY <1>1, <2>1, <2>2 DEF IInv, Typed
  <2>4. Cardinality(Holding') = Cardinality(Holding)
    BY <1>4, <2>1, HoldingMoves DEF IInv, Steps
  <2>5. \A d \in Calls : pc'[d] = "wait_sem" => sem'.loop = d
    BY <2>1 DEF IInv, Typed, Permits, GoTo
  <2>6. Permits'
    BY <2>1, <2>4, <2>5 DEF IInv, Permits, InTransit
  <2> QED
    BY <2>2, <2>3, <2>6 DEF IInv
<1>5. CASE pc[c] = "post"
  <2>1. GoTo(c, "log") /\ sem' = SemReleased /\ lock' = lock /\ passed' = passed
    BY <1>5 DEF Timeout, CancelledAt
  <2>2. Logged' /\ LockHeld' /\ pc' \in [Calls -> Steps]
    BY <1>1, <1>5, <2>1, SecondHalf
  <2>3. Permits' /\ sem' \in [value : Int, loop : Calls \cup {NoCall}, woken : BOOLEAN]
    BY <1>5, <2>1, Releases
  <2>4. Typed'
    BY <1>1, <2>1, <2>2, <2>3 DEF IInv, Typed
  <2> QED
    BY <2>2, <2>3, <2>4 DEF IInv
<1> QED
  BY <1>2, <1>3, <1>4, <1>5 DEF Timeout

LEMMA NextIInv == IInv /\ [Next]_vars => IInv'
<1> SUFFICES ASSUME IInv, [Next]_vars PROVE IInv' OBVIOUS
<1>1. ASSUME NEW w \in Workflows, Register(w) PROVE IInv'
  BY <1>1, RegisterStep
<1>2. ASSUME NEW c \in Calls, Start(c) PROVE IInv'
  BY <1>2, StartStep
<1>3. ASSUME NEW c \in Calls, Proceed(c) PROVE IInv'
  BY <1>3, TryLockStep, GrabLockStep, QueueLockStep, WarmStep, TrySemStep, GrabSemStep,
     QueueSemStep, PostStep, LogStep, WakeUpStep, TimeoutStep DEF Proceed
<1>4. CASE UNCHANGED vars
  <2>1. Typed' /\ Logged' /\ LockHeld'
    BY <1>4 DEF vars, IInv, Typed, Logged, LockHeld
  <2>2. Holding' = Holding
    BY <1>4 DEF vars, Holding
  <2>3. Permits'
    BY <1>4, <2>2 DEF vars, IInv, Permits, InTransit
  <2> QED
    BY <2>1, <2>3 DEF IInv
<1> QED
  BY <1>1, <1>2, <1>3, <1>4 DEF Next

THEOREM Invariance == Spec => []IInv
BY InitIInv, NextIInv, PTL DEF Spec

-----------------------------------------------------------------------------
(* Every field of the client keeps its type, and the value of the semaphore *)
(* never exceeds the one permit it was made with.                           *)
THEOREM TypeCorrect == Spec => []TypeOK
<1>1. ASSUME IInv PROVE TypeOK
  <2>1. Cardinality(Holding) \in Nat
    BY <1>1, FS_Subset, FS_CardinalityType DEF Holding
  <2>2. sem.value <= 1
    BY <1>1, <2>1 DEF IInv, Permits, InTransit
  <2> QED
    BY <1>1, <2>2 DEF IInv, Typed, TypeOK
<1> QED
  BY <1>1, Invariance, PTL

(* With no call under way the lock is unlocked and the permit is back       *)
(* (ensure_model_loaded and generate: async with).                          *)
THEOREM NothingHeldHolds == Spec => []NothingHeld
<1>1. ASSUME IInv PROVE NothingHeld
  <2>1. SUFFICES ASSUME \A c \in Calls : pc[c] \in {"idle", "ended"}
                 PROVE  ~lock.locked /\ sem.value = 1
    BY DEF NothingHeld
  <2>2. ~lock.locked
    BY <1>1, <2>1 DEF IInv, LockHeld
  <2>3. Holding = {}
    BY <2>1 DEF Holding
  <2>4. Cardinality(Holding) = 0
    BY <2>3, FS_EmptySet
  <2>5. ~sem.woken
    BY <1>1, <2>1 DEF IInv, Permits
  <2> QED
    BY <1>1, <2>2, <2>4, <2>5 DEF IInv, Permits, InTransit
<1> QED
  BY <1>1, Invariance, PTL

(* Of the calls that got past ensure_model_loaded only those whose write    *)
(* failed are without their one row, and no other call has a row (generate: *)
(* finally).                                                                *)
THEOREM LoggedUnlessLostHolds == Spec => []LoggedUnlessLost
<1>1. IInv => LoggedUnlessLost
  BY DEF IInv, Typed, Logged, LoggedUnlessLost
<1> QED
  BY <1>1, Invariance, PTL
=============================================================================
