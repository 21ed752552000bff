-------------------------------- MODULE Mutex --------------------------------
(***************************************************************************)
(* The asynchronous mutex of src/src/lock/mutex.rs.  A task is a lock()    *)
(* future or the guard it returned.  The runtime has one thread, so a poll *)
(* runs to its next await without interruption and is one step.  A poll of *)
(* a pending future whose listener is not notified leaves the state alone  *)
(* and is no action.                                                       *)
(***************************************************************************)
EXTENDS EventOps

CONSTANT Tasks

VARIABLES
    borrowed,    \* the RefCell around the data is mutably borrowed
    unlocked,    \* the event for waiting on the mutex
    pc           \* "idle", "locking" (a pending lock() future) or "holding"

vars == <<borrowed, unlocked, pc>>

Init ==
    /\ borrowed = FALSE
    /\ unlocked = NewEvent
    /\ pc = [t \in Tasks |-> "idle"]

(* try_lock, and the body of the loop of lock(): take the RefCell or, in     *)
(* lock(), wait with the listener, which the await inserts at the tail.      *)
FaultyAcquire(t, e) ==
    /\ borrowed' = TRUE
    /\ unlocked' = e
    /\ pc' = [pc EXCEPT ![t] = "holding"]

Acquire(t, e) ==
    /\ ~borrowed
    /\ borrowed' = TRUE
    /\ unlocked' = e
    /\ pc' = [pc EXCEPT ![t] = "holding"]

Await(t, e) ==
    /\ borrowed
    /\ unlocked' = Insert(e, t)
    /\ pc' = [pc EXCEPT ![t] = "locking"]
    /\ UNCHANGED borrowed

(* try_lock(); when it returns None nothing changes. *)
TryLock(t) == pc[t] = "idle" /\ Acquire(t, unlocked)

(* The first poll of a lock() future. *)
LockFirst(t) ==
    /\ pc[t] = "idle"
    /\ Acquire(t, unlocked) \/ Await(t, unlocked)

(* A later poll, after the listener was notified: the loop tries again. *)
LockAgain(t) ==
    /\ pc[t] = "locking"
    /\ IsNotified(unlocked, t)
    /\ LET e == Take(unlocked, t) IN Acquire(t, e) \/ Await(t, e)

(* The lock() future is dropped before it is ready, and its listener with it. *)
LockDrop(t) ==
    /\ pc[t] = "locking"
    /\ unlocked' = Cancel(unlocked, t)
    /\ pc' = [pc EXCEPT ![t] = "idle"]
    /\ UNCHANGED borrowed

(* MutexGuard::drop, and then the drop of its RefMut. *)
Unlock(t) ==
    /\ pc[t] = "holding"
    /\ unlocked' = Wake(unlocked)
    /\ borrowed' = FALSE
    /\ pc' = [pc EXCEPT ![t] = "idle"]

Next == \E t \in Tasks :
    TryLock(t) \/ LockFirst(t) \/ LockAgain(t) \/ LockDrop(t) \/ Unlock(t)

Spec == Init /\ [][Next]_vars

(***************************************************************************)
(* The executor polls a future whose waker was invoked, and a guard is     *)
(* dropped some time.                                                      *)
(***************************************************************************)
Fairness == \A t \in Tasks : WF_vars(LockAgain(t)) /\ WF_vars(Unlock(t))

FairSpec == Spec /\ Fairness

-----------------------------------------------------------------------------
(* Every variable has its type; the mutex never notifies with `additional`. *)
TypeOK ==
    /\ borrowed \in BOOLEAN
    /\ unlocked \in EventOf(Tasks, {Unit})
    /\ \A i \in 1..Len(unlocked.notified) : ~unlocked.notified[i].additional
    /\ pc \in [Tasks -> {"idle", "locking", "holding"}]

(* At most one guard exists, and it exists exactly while the RefCell is      *)
(* borrowed, so that try_borrow_mut in try_lock decides the lock.            *)
MutualExclusion ==
    /\ borrowed <=> \E t \in Tasks : pc[t] = "holding"
    /\ \A s, t \in Tasks : pc[s] = "holding" /\ pc[t] = "holding" => s = t

(* The listeners in the list are those of the pending futures, one each: a   *)
(* dropped or finished lock() future leaves no entry behind.                 *)
PendingAreListening ==
    ListenersAre(unlocked, {t \in Tasks : pc[t] = "locking"})

(* A free mutex with a sleeping waiter has woken some waiter: no order of    *)
(* unlocks, barging try_lock()s and dropped futures loses the wakeup.        *)
NoLostWakeup ==
    ~borrowed /\ unlocked.waiting # <<>> => unlocked.notified # <<>>

(* As guards are dropped, every sleeping lock() future is woken (or dropped): *)
(* it may find the mutex taken again and go back to sleep at the tail, but it *)
(* is never left asleep for good.                                            *)
EverySleeperIsWoken ==
    \A t \in Tasks : IsWaiting(unlocked, t) ~> ~IsWaiting(unlocked, t)
=============================================================================
