------------------------------- MODULE Barrier -------------------------------
(***************************************************************************)
(* The barrier of src/src/lock/barrier.rs.  A task is a wait() future.     *)
(* The generation is a u64 that goes up by one when the barrier opens; a   *)
(* waiter compares it with the one it arrived in, so `current`, the        *)
(* waiters that arrived in the present generation, is all of it that       *)
(* matters.  (It would take 2^64 generations to wrap.)                     *)
(***************************************************************************)
EXTENDS EventOps, FiniteSets

CONSTANTS Tasks,
          N            \* the number of tasks to wait for

ASSUME NAssumption == N \in Nat

VARIABLES
    count,       \* tasks that have reached the barrier in this generation
    current,     \* waiters with local_gen == generation
    event,       \* the event for waiting on the barrier
    pc,          \* "idle" or "waiting" (a pending wait() future)
    dropped      \* history: wait()s of this generation dropped while pending

vars == <<count, current, event, pc, dropped>>

Init ==
    /\ count = 0
    /\ current = {}
    /\ event = NewEvent
    /\ pc = [t \in Tasks |-> "idle"]
    /\ dropped = 0

(* The first poll of wait(), by a task that is not the last to arrive. *)
Arrive(t) ==
    /\ pc[t] = "idle"
    /\ count + 1 < N
    /\ count' = count + 1
    /\ current' = current \cup {t}
    /\ event' = Insert(event, t)
    /\ pc' = [pc EXCEPT ![t] = "waiting"]
    /\ UNCHANGED dropped

(* The first poll of wait(), by the leader. *)
FaultyLead(t) ==
    /\ pc[t] = "idle"
    /\ count + 1 >= N
    /\ current' = {}
    /\ event' = WakeAll(event, Unit, FALSE)
    /\ dropped' = 0
    /\ UNCHANGED <<count, pc>>

Lead(t) ==
    /\ pc[t] = "idle"
    /\ count + 1 >= N
    /\ count' = 0
    /\ current' = {}
    /\ event' = WakeAll(event, Unit, FALSE)
    /\ dropped' = 0
    /\ UNCHANGED pc

(* A poll after the listener was notified; it may have been handed the       *)
(* notification of a dropped waiter, and then it waits again.                *)
WaitAgain(t) ==
    /\ pc[t] = "waiting" /\ IsNotified(event, t)
    /\ IF t \in current /\ count < N
       THEN /\ event' = Insert(Take(event, t), t)
            /\ UNCHANGED <<pc, current>>
       ELSE /\ event' = Take(event, t)
            /\ pc' = [pc EXCEPT ![t] = "idle"]
            /\ current' = current \ {t}
    /\ UNCHANGED <<count, dropped>>

(* A pending wait() is dropped: it has reached the barrier all the same. *)
WaitDrop(t) ==
    /\ pc[t] = "waiting"
    /\ event' = Cancel(event, t)
    /\ pc' = [pc EXCEPT ![t] = "idle"]
    /\ current' = current \ {t}
    /\ dropped' = IF t \in current THEN dropped + 1 ELSE dropped
    /\ UNCHANGED count

Next == \E t \in Tasks : Arrive(t) \/ Lead(t) \/ WaitAgain(t) \/ WaitDrop(t)

Spec == Init /\ [][Next]_vars

(* Woken futures are polled. *)
FairSpec == Spec /\ \A t \in Tasks : WF_vars(WaitAgain(t))

-----------------------------------------------------------------------------
(* Every variable has its type; the barrier never notifies with `additional`. *)
TypeOK ==
    /\ count \in Nat /\ dropped \in Nat
    /\ current \subseteq Tasks
    /\ event \in EventOf(Tasks, {Unit})
    /\ \A i \in 1..Len(event.notified) : ~event.notified[i].additional
    /\ pc \in [Tasks -> {"idle", "waiting"}]

(* Each arrival of the generation counts once, whether its future still      *)
(* waits or was dropped, and the barrier opens before the count reaches N:   *)
(* nobody waits at a barrier that is full, and nobody is let through early.  *)
CountIsArrivals ==
    /\ count = Cardinality(current) + dropped
    /\ count = 0 \/ count < N
    /\ \A t \in current : pc[t] = "waiting"

(* When the barrier has opened, all the waiters of that generation are       *)
(* notified, whatever later arrivals insert and dropped waiters pass on.     *)
ReleasedAreWoken ==
    \A t \in Tasks : pc[t] = "waiting" /\ t \notin current => IsNotified(event, t)

(* A waiter whose generation is past returns (or is dropped). *)
ReleasedReturn ==
    \A t \in Tasks : pc[t] = "waiting" /\ t \notin current ~> pc[t] = "idle"
=============================================================================
