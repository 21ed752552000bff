----------------------------- MODULE MutexProofs -----------------------------
(***************************************************************************)
(* Proofs about Mutex for every set of tasks.                              *)
(***************************************************************************)
EXTENDS Mutex, EventOpsProofs

(* The mutex keeps its types, and every note of its event is a plain one:  *)
(* Unlock calls notify(1), and LockDrop passes plain notes on.             *)
THEOREM TypeCorrect == Spec => []TypeOK
<1>1. Init => TypeOK
  BY NewEventType DEF Init, TypeOK, NoneAdditional
<1>2. TypeOK /\ [Next]_vars => TypeOK'
  <2> SUFFICES ASSUME TypeOK, [Next]_vars PROVE TypeOK'
    OBVIOUS
  <2>1. /\ borrowed \in BOOLEAN
        /\ unlocked \in EventOf(Tasks, {Unit}) /\ NoneAdditional(unlocked)
        /\ pc \in [Tasks -> {"idle", "locking", "holding"}]
    BY DEF TypeOK, NoneAdditional
  <2>2. ASSUME NEW t \in Tasks, NEW e \in EventOf(Tasks, {Unit}), NoneAdditional(e),
               Acquire(t, e) \/ Await(t, e)
        PROVE  TypeOK'
    <3>1. Insert(e, t) \in EventOf(Tasks, {Unit}) /\ NoneAdditional(Insert(e, t))
      BY <2>2, InsertType DEF NoneAdditional
    <3>2. unlocked' \in EventOf(Tasks, {Unit}) /\ NoneAdditional(unlocked')
      BY <2>2, <3>1 DEF Acquire, Await
    <3>3. /\ borrowed' \in BOOLEAN
          /\ pc' \in [Tasks -> {"idle", "locking", "holding"}]
      BY <2>1, <2>2 DEF Acquire, Await
    <3> QED BY <3>2, <3>3 DEF TypeOK, NoneAdditional
  <2>3. CASE \E t \in Tasks : TryLock(t)
    BY <2>1, <2>2, <2>3 DEF TryLock
  <2>4. CASE \E t \in Tasks : LockFirst(t)
    BY <2>1, <2>2, <2>4 DEF LockFirst
  <2>5. CASE \E t \in Tasks : LockAgain(t)
    <3>1. PICK t \in Tasks : LockAgain(t)
      BY <2>5
    <3>2. /\ Take(unlocked, t) \in EventOf(Tasks, {Unit})
          /\ NoneAdditional(Take(unlocked, t))
      BY <2>1, <3>1, TakeType, TakeNoneAdditional DEF LockAgain
    <3> QED BY <2>2, <3>1, <3>2 DEF LockAgain
  <2>6. CASE \E t \in Tasks : LockDrop(t)
    <3>1. PICK t \in Tasks : LockDrop(t)
      BY <2>6
    <3>2. /\ Cancel(unlocked, t) \in EventOf(Tasks, {Unit})
          /\ NoneAdditional(Cancel(unlocked, t))
      BY <2>1, CancelType, CancelNoneAdditional
    <3> QED BY <2>1, <3>1, <3>2 DEF LockDrop, TypeOK, NoneAdditional
  <2>7. CASE \E t \in Tasks : Unlock(t)
    <3>1. PICK t \in Tasks : Unlock(t)
      BY <2>7
    <3>2. /\ Wake(unlocked) \in EventOf(Tasks, {Unit})
          /\ NoneAdditional(Wake(unlocked))
      BY <2>1, WakeType, WakeNoneAdditional
    <3> QED BY <2>1, <3>1, <3>2 DEF Unlock, TypeOK, NoneAdditional
  <2>8. CASE UNCHANGED vars
    BY <2>8 DEF TypeOK, vars
  <2> QED BY <2>3, <2>4, <2>5, <2>6, <2>7, <2>8 DEF Next
<1> QED BY <1>1, <1>2, PTL DEF Spec

(* At most one guard exists, and the RefCell is borrowed exactly while it    *)
(* does: try_borrow_mut of try_lock decides the lock, with any tasks.        *)
THEOREM Exclusion == Spec => []MutualExclusion
<1>1. Init => MutualExclusion
  BY DEF Init, MutualExclusion
<1>2. TypeOK /\ MutualExclusion /\ [Next]_vars => MutualExclusion'
  <2> SUFFICES ASSUME TypeOK, MutualExclusion, [Next]_vars PROVE MutualExclusion'
    OBVIOUS
  <2>1. pc \in [Tasks -> {"idle", "locking", "holding"}]
    BY DEF TypeOK
  <2>2. ASSUME NEW t \in Tasks, NEW e, Acquire(t, e)
        PROVE  MutualExclusion'
    <3>1. \A s \in Tasks : pc'[s] = "holding" <=> s = t
      BY <2>1, <2>2 DEF Acquire, MutualExclusion
    <3> QED BY <2>2, <3>1 DEF Acquire, MutualExclusion
  <2>3. ASSUME NEW t \in Tasks, NEW e, Await(t, e), pc[t] # "holding"
        PROVE  MutualExclusion'
    <3>1. \A s \in Tasks : pc'[s] = "holding" <=> pc[s] = "holding"
      BY <2>1, <2>3 DEF Await
    <3> QED BY <2>3, <3>1 DEF Await, MutualExclusion
  <2>4. CASE \E t \in Tasks : TryLock(t)
    BY <2>2, <2>4 DEF TryLock
  <2>5. CASE \E t \in Tasks : LockFirst(t)
    BY <2>2, <2>3, <2>5 DEF LockFirst
  <2>6. CASE \E t \in Tasks : LockAgain(t)
    BY <2>2, <2>3, <2>6 DEF LockAgain
  <2>7. CASE \E t \in Tasks : LockDrop(t)
    <3>1. PICK t \in Tasks : LockDrop(t)
      BY <2>7
    <3>2. \A s \in Tasks : pc'[s] = "holding" <=> pc[s] = "holding"
      BY <2>1, <3>1 DEF LockDrop
    <3> QED BY <3>1, <3>2 DEF LockDrop, MutualExclusion
  <2>8. CASE \E t \in Tasks : Unlock(t)
    <3>1. PICK t \in Tasks : Unlock(t)
      BY <2>8
    <3>2. \A s \in Tasks : pc'[s] # "holding"
      BY <2>1, <3>1 DEF Unlock, MutualExclusion
    <3> QED BY <3>1, <3>2 DEF Unlock, MutualExclusion
  <2>9. CASE UNCHANGED vars
    BY <2>9 DEF MutualExclusion, vars
  <2> QED BY <2>4, <2>5, <2>6, <2>7, <2>8, <2>9 DEF Next
<1> QED BY <1>1, <1>2, TypeCorrect, PTL DEF Spec

(***************************************************************************)
(* No wakeup is lost, whatever the order of unlocks, barging try_lock()s   *)
(* and dropped futures.  A lock() future that uses its note up may leave   *)
(* only sleepers behind, but it takes the mutex or finds it taken, and     *)
(* Unlock, the one step that frees it, wakes somebody.  While the mutex is *)
(* free only LockDrop disturbs the event, and it passes a note on.         *)
(***************************************************************************)
THEOREM WakeupIsKept == Spec => []NoLostWakeup
<1>1. Init => NoLostWakeup
  BY DEF Init, NoLostWakeup, NewEvent
<1>2. TypeOK /\ NoLostWakeup /\ [Next]_vars => NoLostWakeup'
  <2> SUFFICES ASSUME TypeOK, NoLostWakeup, [Next]_vars PROVE NoLostWakeup'
    OBVIOUS
  <2>1. unlocked \in EventOf(Tasks, {Unit})
    BY DEF TypeOK
  <2>2. CASE \E t \in Tasks : TryLock(t) \/ LockFirst(t) \/ LockAgain(t)
    <3>1. borrowed'
      BY <2>2 DEF TryLock, LockFirst, LockAgain, Acquire, Await
    <3> QED BY <3>1 DEF NoLostWakeup
  <2>3. CASE \E t \in Tasks : LockDrop(t)
    <3>1. PICK t \in Tasks : LockDrop(t)
      BY <2>3
    <3>2. ASSUME ~borrowed
          PROVE  Cancel(unlocked, t).waiting # <<>> => Cancel(unlocked, t).notified # <<>>
      <4>1. unlocked.waiting # <<>> => unlocked.notified # <<>>
        BY <3>2 DEF NoLostWakeup
      <4> QED BY <2>1, <4>1, CancelKeepsSomeoneAwake
    <3> QED BY <3>1, <3>2 DEF LockDrop, NoLostWakeup
  <2>4. CASE \E t \in Tasks : Unlock(t)
    BY <2>1, <2>4, WakeWakesSomeone DEF Unlock, NoLostWakeup
  <2>5. CASE UNCHANGED vars
    BY <2>5 DEF NoLostWakeup, vars
  <2> QED BY <2>2, <2>3, <2>4, <2>5 DEF Next
<1> QED BY <1>1, <1>2, TypeCorrect, PTL DEF Spec

(* The pending lock() futures. *)
Locking == {t \in Tasks : pc[t] = "locking"}

(***************************************************************************)
(* The listeners of the mutex are those of the pending lock() futures, one *)
(* each, with any tasks: a future that goes back to sleep was taken out    *)
(* before, one that is dropped takes its entry along, and notes that are   *)
(* passed on move no entry.                                                *)
(***************************************************************************)
THEOREM NoEntryLeftBehind == Spec => []PendingAreListening
<1>1. Init => PendingAreListening
  <2> SUFFICES ASSUME Init PROVE PendingAreListening
    OBVIOUS
  <2>1. {t \in Tasks : pc[t] = "locking"} = {}
    BY DEF Init
  <2> QED BY <2>1, NewEventListeners DEF Init, PendingAreListening
<1>2. TypeOK /\ PendingAreListening /\ [Next]_vars => PendingAreListening'
  <2> SUFFICES ASSUME TypeOK, PendingAreListening, [Next]_vars PROVE PendingAreListening'
    OBVIOUS
  <2>1. /\ unlocked \in EventOf(Tasks, {Unit})
        /\ pc \in [Tasks -> {"idle", "locking", "holding"}]
    BY DEF TypeOK
  <2>2. ListenersAre(unlocked, Locking)
    BY DEF PendingAreListening, Locking
  <2>3. SUFFICES ListenersAre(unlocked', Locking')
    BY DEF PendingAreListening, Locking
  <2>4. ASSUME NEW t \in Tasks, NEW e \in EventOf(Tasks, {Unit}),
               ListenersAre(e, Locking \ {t}), Acquire(t, e) \/ Await(t, e)
        PROVE  ListenersAre(unlocked', Locking')
    <3>1. CASE Acquire(t, e)
      <4>1. unlocked' = e /\ Locking' = Locking \ {t}
        BY <2>1, <3>1 DEF Acquire, Locking
      <4> QED BY <2>4, <4>1
    <3>2. CASE Await(t, e)
      <4>1. unlocked' = Insert(e, t) /\ Locking' = (Locking \ {t}) \cup {t}
        BY <2>1, <3>2 DEF Await, Locking
      <4>2. t \notin Locking \ {t}
        OBVIOUS
      <4>3. ListenersAre(Insert(e, t), (Locking \ {t}) \cup {t})
        BY <2>4, <4>2, InsertListeners
      <4> QED BY <4>1, <4>3
    <3> QED BY <2>4, <3>1, <3>2
  <2>5. ASSUME NEW t \in Tasks, pc[t] = "idle"
        PROVE  Locking \ {t} = Locking
    BY <2>5 DEF Locking
  <2>6. CASE \E t \in Tasks : TryLock(t) \/ LockFirst(t)
    BY <2>1, <2>2, <2>4, <2>5, <2>6 DEF TryLock, LockFirst
  <2>7. CASE \E t \in Tasks : LockAgain(t)
    <3>1. PICK t \in Tasks : LockAgain(t)
      BY <2>7
    <3>2. /\ Take(unlocked, t) \in EventOf(Tasks, {Unit})
          /\ ListenersAre(Take(unlocked, t), Locking \ {t})
      BY <2>1, <2>2, <3>1, TakeType, TakeListeners DEF LockAgain
    <3> QED BY <2>4, <3>1, <3>2 DEF LockAgain
  <2>8. CASE \E t \in Tasks : LockDrop(t)
    <3>1. PICK t \in Tasks : LockDrop(t)
      BY <2>8
    <3>2. t \in Locking /\ unlocked' = Cancel(unlocked, t) /\ Locking' = Locking \ {t}
      BY <2>1, <3>1 DEF LockDrop, Locking
    <3>3. ListenersAre(Cancel(unlocked, t), Locking \ {t})
      BY <2>1, <2>2, <3>2, CancelListeners
    <3> QED BY <3>2, <3>3
  <2>9. CASE \E t \in Tasks : Unlock(t)
    <3>1. PICK t \in Tasks : Unlock(t)
      BY <2>9
    <3>2. unlocked' = Wake(unlocked) /\ Locking' = Locking
      BY <2>1, <3>1 DEF Unlock, Locking
    <3> QED BY <2>1, <2>2, <3>2, WakeListeners
  <2>10. CASE UNCHANGED vars
    BY <2>2, <2>10 DEF vars, Locking
  <2> QED BY <2>6, <2>7, <2>8, <2>9, <2>10 DEF Next
<1> QED BY <1>1, <1>2, TypeCorrect, PTL DEF Spec
------------------------------------------------------------------------------
(***************************************************************************)
(* The mutex as a semaphore of one permit, which a guard holds.            *)
(***************************************************************************)
Sem == INSTANCE Semaphore WITH
    Permits <- 1,
    permits <- IF borrowed THEN 0 ELSE 1,
    event   <- unlocked,
    pc      <- [t \in Tasks |-> IF pc[t] = "locking" THEN "acquiring" ELSE pc[t]]

(* What the semaphore does with its event is what EventOps says. *)
LEMMA SemOperators ==
    /\ Sem!NewEvent = NewEvent
    /\ \A e : Sem!Wake(e) = Wake(e)
    /\ \A e, l : /\ Sem!IsNotified(e, l) = IsNotified(e, l)
                 /\ Sem!Insert(e, l) = Insert(e, l)
                 /\ Sem!Take(e, l) = Take(e, l)
                 /\ Sem!Cancel(e, l) = Cancel(e, l)
<1>1. \A e, tags, add : Sem!Notify(e, tags, add) = Notify(e, tags, add)
  BY DEF Sem!Notify, Notify, Sem!Reach, Reach, Sem!Notes, Notes
<1>2. ASSUME NEW e, NEW l
      PROVE  /\ Sem!IsNotified(e, l) = IsNotified(e, l)
             /\ Sem!IsWaiting(e, l) = IsWaiting(e, l)
             /\ Sem!Insert(e, l) = Insert(e, l)
             /\ Sem!Take(e, l) = Take(e, l)
             /\ Sem!Leave(e, l) = Leave(e, l)
             /\ Sem!Note(e, l) = Note(e, l)
  BY DEF Sem!IsNotified, IsNotified, Sem!IsWaiting, IsWaiting, Sem!Insert, Insert,
         Sem!Take, Take, Sem!Leave, Leave, Sem!Note, Note,
         Sem!NotifiedIndex, NotifiedIndex, Sem!WaitingIndex, WaitingIndex,
         Sem!RemoveAt, RemoveAt
<1>3. ASSUME NEW e, NEW l PROVE Sem!Cancel(e, l) = Cancel(e, l)
  BY <1>1, <1>2 DEF Sem!Cancel, Cancel, Sem!Pass, Pass
<1>4. \A e : Sem!Wake(e) = Wake(e)
  BY <1>1 DEF Sem!Wake, Wake, Sem!Unit, Unit
<1>5. Sem!NewEvent = NewEvent
  BY DEF Sem!NewEvent, NewEvent
<1> QED BY <1>2, <1>3, <1>4, <1>5

(***************************************************************************)
(* The mutex is a semaphore of one permit: its RefCell is borrowed where   *)
(* the permit is taken, and every lock, unlock, wakeup and dropped future  *)
(* of mutex.rs is that of semaphore.rs.  That the permit a guard gives     *)
(* back was taken follows from MutualExclusion.                            *)
(***************************************************************************)
THEOREM MutexIsSemaphore == Spec => Sem!Spec
<1>1. Init => Sem!Init
  <2> SUFFICES ASSUME Init PROVE Sem!Init
    OBVIOUS
  <2>1. [t \in Tasks |-> IF pc[t] = "locking" THEN "acquiring" ELSE pc[t]]
          = [t \in Tasks |-> "idle"]
    BY DEF Init
  <2> QED BY <2>1, SemOperators DEF Init, Sem!Init
<1>2. TypeOK /\ MutualExclusion /\ [Next]_vars => [Sem!Next]_(Sem!vars)
  <2> SUFFICES ASSUME TypeOK, MutualExclusion, [Next]_vars
               PROVE  [Sem!Next]_(Sem!vars)
    OBVIOUS
  <2> DEFINE role(f) == [t \in Tasks |-> IF f[t] = "locking" THEN "acquiring" ELSE f[t]]
  <2>1. borrowed \in BOOLEAN /\ pc \in [Tasks -> {"idle", "locking", "holding"}]
    BY DEF TypeOK
  <2>2. ASSUME NEW t \in Tasks, NEW v
        PROVE  /\ role([pc EXCEPT ![t] = v])
                    = [role(pc) EXCEPT ![t] = IF v = "locking" THEN "acquiring" ELSE v]
               /\ role(pc)[t] = "idle" <=> pc[t] = "idle"
               /\ role(pc)[t] = "acquiring" <=> pc[t] = "locking"
               /\ role(pc)[t] = "holding" <=> pc[t] = "holding"
    BY <2>1
  <2>3. \A t \in Tasks : Sem!Insert(unlocked, t) = Insert(unlocked, t)
    BY SemOperators
  <2>4. ASSUME NEW t \in Tasks, TryLock(t) PROVE Sem!TryAcquire(t)
    BY <2>2, <2>4 DEF TryLock, Acquire, Sem!TryAcquire, Sem!Acquire
  <2>5. ASSUME NEW t \in Tasks, LockFirst(t) PROVE Sem!AcquireFirst(t)
    <3>1. CASE Acquire(t, unlocked)
      BY <2>2, <2>5, <3>1 DEF LockFirst, Acquire, Sem!AcquireFirst, Sem!Acquire
    <3>2. CASE Await(t, unlocked)
      BY <2>2, <2>3, <2>5, <3>2 DEF LockFirst, Await, Sem!AcquireFirst, Sem!Await
    <3> QED BY <2>5, <3>1, <3>2 DEF LockFirst
  <2>6. ASSUME NEW t \in Tasks, LockAgain(t) PROVE Sem!AcquireAgain(t)
    <3> DEFINE e == Take(unlocked, t)
    <3>1. /\ role(pc)[t] = "acquiring" /\ Sem!IsNotified(unlocked, t)
          /\ Sem!Take(unlocked, t) = e /\ Sem!Insert(e, t) = Insert(e, t)
      BY <2>2, <2>6, SemOperators DEF LockAgain
    <3> HIDE DEF e
    <3>2. CASE Acquire(t, e)
      BY <2>2, <3>1, <3>2 DEF Acquire, Sem!AcquireAgain, Sem!Acquire
    <3>3. CASE Await(t, e)
      BY <2>2, <3>1, <3>3 DEF Await, Sem!AcquireAgain, Sem!Await
    <3> QED BY <2>6, <3>2, <3>3 DEF LockAgain, e
  <2>7. ASSUME NEW t \in Tasks, LockDrop(t) PROVE Sem!AcquireDrop(t)
    <3>1. role(pc') = [role(pc) EXCEPT ![t] = "idle"]
      BY <2>2, <2>7 DEF LockDrop
    <3> QED BY <2>2, <2>7, <3>1, SemOperators DEF LockDrop, Sem!AcquireDrop
  <2>8. ASSUME NEW t \in Tasks, Unlock(t) PROVE Sem!Release(t)
    <3>1. role(pc') = [role(pc) EXCEPT ![t] = "idle"]
      BY <2>2, <2>8 DEF Unlock
    <3>2. borrowed /\ ~borrowed'
      BY <2>8 DEF Unlock, MutualExclusion
    <3>3. unlocked' = Sem!Wake(unlocked)
      BY <2>8, SemOperators DEF Unlock
    <3> QED BY <2>2, <2>8, <3>1, <3>2, <3>3 DEF Unlock, Sem!Release
  <2>9. CASE UNCHANGED vars
    BY <2>9 DEF vars, Sem!vars
  <2> QED BY <2>4, <2>5, <2>6, <2>7, <2>8, <2>9 DEF Next, Sem!Next
<1> QED BY <1>1, <1>2, TypeCorrect, Exclusion, PTL DEF Spec, Sem!Spec
=============================================================================
