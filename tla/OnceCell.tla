------------------------------ MODULE OnceCell ------------------------------
(***************************************************************************)
(* The cell of src/src/lock/once_cell.rs, whose value is written at most   *)
(* once however many futures try.  A task is a future of get_or_try_init   *)
(* (which get_or_init and set call) or of wait.  The setter a task brings  *)
(* is code of the caller: it may finish or fail at any poll, it may never  *)
(* finish, and other tasks may run while it is polled.                     *)
(***************************************************************************)
EXTENDS EventOps, FiniteSets

CONSTANTS Tasks,
          Empty        \* there is no value

ASSUME EmptyAssumption == Empty \notin Tasks

VARIABLES
    data,        \* Empty, or the task whose setter made the value
    writing,     \* the `writing` cell
    active,      \* the event for writing to the cell
    passive,     \* the event for the cell to be ready
    pc           \* "idle", "initializing" (asleep in get_or_try_init),
                 \* "setting" (its setter runs) or "waiting" (asleep in wait)

vars == <<data, writing, active, passive, pc>>

(* OnceCell::new, and From<T>. *)
Init ==
    /\ data \in {Empty} \cup Tasks
    /\ writing = FALSE
    /\ active = NewEvent /\ passive = NewEvent
    /\ pc = [t \in Tasks |-> "idle"]

Goto(t, l) == pc' = [pc EXCEPT ![t] = l]

FaultyInitLoop(t, e) ==
    \/ /\ writing
       /\ active' = Insert(e, t)
       /\ Goto(t, "initializing")
       /\ UNCHANGED writing
    \/ /\ ~writing
       /\ writing' = TRUE
       /\ active' = e
       /\ Goto(t, "setting")

(* The loop of get_or_try_init up to an await, with `active` in state e. *)
InitLoop(t, e) ==
    \/ /\ data # Empty
       /\ active' = e
       /\ Goto(t, "idle")
       /\ UNCHANGED writing
    \/ /\ data = Empty /\ writing
       /\ active' = Insert(e, t)
       /\ Goto(t, "initializing")
       /\ UNCHANGED writing
    \/ /\ data = Empty /\ ~writing
       /\ writing' = TRUE
       /\ active' = e
       /\ Goto(t, "setting")

(* The first poll of get_or_try_init. *)
InitFirst(t) ==
    /\ pc[t] = "idle"
    /\ InitLoop(t, active)
    /\ UNCHANGED <<data, passive>>

(* A poll after the listener was notified. *)
InitAgain(t) ==
    /\ pc[t] = "initializing" /\ IsNotified(active, t)
    /\ InitLoop(t, Take(active, t))
    /\ UNCHANGED <<data, passive>>

(* The setter returns a value: store it, wake everyone, drop the guard. *)
SetterOk(t) ==
    /\ pc[t] = "setting"
    /\ data' = t
    /\ passive' = WakeAll(passive, Unit, TRUE)
    /\ active' = Wake(WakeAll(active, Unit, TRUE))
    /\ writing' = FALSE
    /\ Goto(t, "idle")

(* The setter fails, or the future is dropped in the middle of it: only the  *)
(* guard, UnwriteOnDrop, is dropped.                                         *)
FaultySetterFails(t) ==
    /\ pc[t] = "setting"
    /\ active' = Wake(active)
    /\ Goto(t, "idle")
    /\ UNCHANGED <<data, writing, passive>>

SetterFails(t) ==
    /\ pc[t] = "setting"
    /\ writing' = FALSE
    /\ active' = Wake(active)
    /\ Goto(t, "idle")
    /\ UNCHANGED <<data, passive>>

(* The future is dropped in its sleep. *)
InitDrop(t) ==
    /\ pc[t] = "initializing"
    /\ active' = Cancel(active, t)
    /\ Goto(t, "idle")
    /\ UNCHANGED <<data, writing, passive>>

(* The loop of wait up to its await; wait on a full cell changes nothing. *)
WaitLoop(t, e) ==
    /\ passive' = IF data = Empty THEN Insert(e, t) ELSE e
    /\ Goto(t, IF data = Empty THEN "waiting" ELSE "idle")

WaitFirst(t) ==
    /\ pc[t] = "idle"
    /\ WaitLoop(t, passive)
    /\ UNCHANGED <<data, writing, active>>

WaitAgain(t) ==
    /\ pc[t] = "waiting" /\ IsNotified(passive, t)
    /\ WaitLoop(t, Take(passive, t))
    /\ UNCHANGED <<data, writing, active>>

WaitDrop(t) ==
    /\ pc[t] = "waiting"
    /\ passive' = Cancel(passive, t)
    /\ Goto(t, "idle")
    /\ UNCHANGED <<data, writing, active>>

(* take: it borrows the cell mutably, so that no future exists. *)
TakeValue ==
    /\ \A t \in Tasks : pc[t] = "idle"
    /\ data' = Empty
    /\ UNCHANGED <<writing, active, passive, pc>>

Next ==
    \/ \E t \in Tasks : \/ InitFirst(t) \/ InitAgain(t) \/ InitDrop(t)
                        \/ SetterOk(t) \/ SetterFails(t)
                        \/ WaitFirst(t) \/ WaitAgain(t) \/ WaitDrop(t)
    \/ TakeValue

Spec == Init /\ [][Next]_vars

(* Woken futures are polled; a setter finishes, or its future is dropped. *)
FairSpec == Spec /\ \A t \in Tasks :
    /\ WF_vars(InitAgain(t)) /\ WF_vars(WaitAgain(t))
    /\ WF_vars(SetterOk(t) \/ SetterFails(t))

-----------------------------------------------------------------------------
(* Every variable has its type; `passive` is only notified with `additional`. *)
TypeOK ==
    /\ data \in Tasks \cup {Empty}
    /\ writing \in BOOLEAN
    /\ active \in EventOf(Tasks, {Unit})
    /\ passive \in EventOf(Tasks, {Unit})
    /\ \A i \in 1..Len(passive.notified) : passive.notified[i].additional
    /\ pc \in [Tasks -> {"idle", "initializing", "setting", "waiting"}]

(* The cell is written through an UnsafeCell: at most one setter is running, *)
(* and `writing` is set exactly as long, so that a failed or dropped setter  *)
(* does not lock the cell for good, and none runs when there is a value.     *)
OneSetter ==
    /\ writing <=> \E t \in Tasks : pc[t] = "setting"
    /\ \A s, t \in Tasks : pc[s] = "setting" /\ pc[t] = "setting" => s = t
    /\ writing => data = Empty

(* While nobody writes to the empty cell, some sleeping initializer has been *)
(* woken: a failed or dropped setter hands its turn on.                      *)
NoLostWakeup ==
    ~writing /\ data = Empty /\ active.waiting # <<>> => active.notified # <<>>

(* Once there is a value nobody sleeps, on either event. *)
ReadyWakesEveryone ==
    data # Empty => active.waiting = <<>> /\ passive.waiting = <<>>

(* The value references are handed out to is not replaced, nor taken while   *)
(* a future of the cell exists.                                              *)
ValueIsKept ==
    [][data # Empty => data' = data \/ \A t \in Tasks : pc[t] = "idle"]_vars

(* A future that sleeps in get_or_try_init is woken: the setter before it    *)
(* succeeded or failed, or those in front of it in the list have had a turn. *)
EverySleeperIsWoken ==
    \A t \in Tasks : IsWaiting(active, t) ~> ~IsWaiting(active, t)
=============================================================================
