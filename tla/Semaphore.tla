------------------------------ MODULE Semaphore ------------------------------
(***************************************************************************)
(* The asynchronous semaphore of src/src/lock/semaphore.rs.  A task is an  *)
(* acquire() or acquire_rc() future or the guard it returned; the two      *)
(* differ only in how they refer to the semaphore.                         *)
(***************************************************************************)
EXTENDS EventOps, FiniteSets

CONSTANTS Tasks,
          Permits      \* the number of permits it is created with

ASSUME PermitsAssumption == Permits \in Nat

VARIABLES
    permits,     \* permits left
    event,       \* the event for waiting on the semaphore
    pc           \* "idle", "acquiring" (a pending future) or "holding"

vars == <<permits, event, pc>>

Init ==
    /\ permits = Permits
    /\ event = NewEvent
    /\ pc = [t \in Tasks |-> "idle"]

(* try_acquire / try_acquire_rc, and the loop body of acquire / acquire_rc *)
Acquire(t, e) ==
    /\ permits > 0
    /\ permits' = permits - 1
    /\ event' = e
    /\ pc' = [pc EXCEPT ![t] = "holding"]

Await(t, e) ==
    /\ permits = 0
    /\ event' = Insert(e, t)
    /\ pc' = [pc EXCEPT ![t] = "acquiring"]
    /\ UNCHANGED permits

TryAcquire(t) == pc[t] = "idle" /\ Acquire(t, event)

AcquireFirst(t) ==
    /\ pc[t] = "idle"
    /\ Acquire(t, event) \/ Await(t, event)

AcquireAgain(t) ==
    /\ pc[t] = "acquiring"
    /\ IsNotified(event, t)
    /\ LET e == Take(event, t) IN Acquire(t, e) \/ Await(t, e)

AcquireDrop(t) ==
    /\ pc[t] = "acquiring"
    /\ event' = Cancel(event, t)
    /\ pc' = [pc EXCEPT ![t] = "idle"]
    /\ UNCHANGED permits

FaultyRelease(t) ==
    /\ pc[t] = "holding"
    /\ permits' = permits + 1
    /\ event' = Wake(event)
    /\ UNCHANGED pc

(* SemaphoreGuard::drop, SemaphoreGuardRc::drop *)
Release(t) ==
    /\ pc[t] = "holding"
    /\ permits' = permits + 1
    /\ event' = Wake(event)
    /\ pc' = [pc EXCEPT ![t] = "idle"]

Next == \E t \in Tasks :
    TryAcquire(t) \/ AcquireFirst(t) \/ AcquireAgain(t) \/ AcquireDrop(t) \/ Release(t)

Spec == Init /\ [][Next]_vars

(* Woken futures are polled, guards are dropped. *)
Fairness == \A t \in Tasks : WF_vars(AcquireAgain(t)) /\ WF_vars(Release(t))

FairSpec == Spec /\ Fairness

Holders == {t \in Tasks : pc[t] = "holding"}

-----------------------------------------------------------------------------
(* Every variable has its type; the semaphore never notifies with `additional`. *)
TypeOK ==
    /\ permits \in Nat
    /\ event \in EventOf(Tasks, {Unit})
    /\ \A i \in 1..Len(event.notified) : ~event.notified[i].additional
    /\ pc \in [Tasks -> {"idle", "acquiring", "holding"}]

(* No permit is lost or made up by any order of try_acquire, acquire, dropped *)
(* futures and dropped guards.                                               *)
PermitsConserved == permits + Cardinality(Holders) = Permits

(* A sleeping waiter can always be reached: some waiter has been woken, or a *)
(* guard is out whose drop will wake one.                                    *)
SleeperIsReachable ==
    Permits > 0 /\ event.waiting # <<>> => event.notified # <<>> \/ permits < Permits

(* A free permit with a sleeping waiter has woken some waiter.  With two      *)
(* permits it is violated: Event::notify(1) in the drop of a guard does      *)
(* nothing while an earlier notification is still to be taken, so that two   *)
(* releases wake one of two waiters, who takes one of the two permits.       *)
NoLostWakeup ==
    permits > 0 /\ event.waiting # <<>> => event.notified # <<>>

(* As guards are dropped, every sleeping future is woken (or dropped): wakeups *)
(* follow arrival order, so that barging try_acquire()s and futures that go   *)
(* back to sleep at the tail cannot keep one asleep for ever.                *)
EverySleeperIsWoken ==
    \A t \in Tasks : IsWaiting(event, t) ~> ~IsWaiting(event, t)
=============================================================================
