------------------------ MODULE SemaphoreBarrierProofs -----------------------
(***************************************************************************)
(* Proofs about the two locks that count: Semaphore for every set of tasks *)
(* and number of permits, and Barrier for every set of tasks and number of *)
(* tasks to wait for.                                                      *)
(***************************************************************************)
EXTENDS Semaphore, EventOpsProofs, FiniteSetTheorems

(* The semaphore keeps its types, and every note of its event is a plain   *)
(* one: a guard's drop calls notify(1), and a dropped acquire() passes a   *)
(* plain note on.                                                          *)
THEOREM TypeCorrect == Spec => []TypeOK
<1>1. Init => TypeOK
  BY NewEventType, PermitsAssumption DEF Init, TypeOK, NoneAdditional
<1>2. TypeOK /\ [Next]_vars => TypeOK'
  <2> SUFFICES ASSUME TypeOK, [Next]_vars PROVE TypeOK'
    OBVIOUS
  <2>1. /\ permits \in Nat
        /\ event \in EventOf(Tasks, {Unit}) /\ NoneAdditional(event)
        /\ pc \in [Tasks -> {"idle", "acquiring", "holding"}]
    BY DEF TypeOK, NoneAdditional
  <2>2. ASSUME NEW t \in Tasks, NEW e \in EventOf(Tasks, {Unit}), NoneAdditional(e),
               Acquire(t, e) \/ Await(t, e)
        PROVE  TypeOK'
    <3>1. Insert(e, t) \in EventOf(Tasks, {Unit}) /\ NoneAdditional(Insert(e, t))
      BY <2>2, InsertType DEF NoneAdditional
    <3>2. event' \in EventOf(Tasks, {Unit}) /\ NoneAdditional(event')
      BY <2>2, <3>1 DEF Acquire, Await
    <3>3. /\ permits' \in Nat
          /\ pc' \in [Tasks -> {"idle", "acquiring", "holding"}]
      BY <2>1, <2>2 DEF Acquire, Await
    <3> QED BY <3>2, <3>3 DEF TypeOK, NoneAdditional
  <2>3. CASE \E t \in Tasks : TryAcquire(t) \/ AcquireFirst(t)
    BY <2>1, <2>2, <2>3 DEF TryAcquire, AcquireFirst
  <2>4. CASE \E t \in Tasks : AcquireAgain(t)
    <3>1. PICK t \in Tasks : AcquireAgain(t)
      BY <2>4
    <3>2. /\ Take(event, t) \in EventOf(Tasks, {Unit})
          /\ NoneAdditional(Take(event, t))
      BY <2>1, <3>1, TakeType, TakeNoneAdditional DEF AcquireAgain
    <3> QED BY <2>2, <3>1, <3>2 DEF AcquireAgain
  <2>5. CASE \E t \in Tasks : AcquireDrop(t)
    <3>1. PICK t \in Tasks : AcquireDrop(t)
      BY <2>5
    <3>2. /\ Cancel(event, t) \in EventOf(Tasks, {Unit})
          /\ NoneAdditional(Cancel(event, t))
      BY <2>1, CancelType, CancelNoneAdditional
    <3> QED BY <2>1, <3>1, <3>2 DEF AcquireDrop, TypeOK, NoneAdditional
  <2>6. CASE \E t \in Tasks : Release(t)
    <3>1. PICK t \in Tasks : Release(t)
      BY <2>6
    <3>2. /\ Wake(event) \in EventOf(Tasks, {Unit})
          /\ NoneAdditional(Wake(event))
      BY <2>1, WakeType, WakeNoneAdditional
    <3> QED BY <2>1, <3>1, <3>2 DEF Release, TypeOK, NoneAdditional
  <2>7. CASE UNCHANGED vars
    BY <2>7 DEF TypeOK, vars
  <2> QED BY <2>3, <2>4, <2>5, <2>6, <2>7 DEF Next
<1> QED BY <1>1, <1>2, PTL DEF Spec

(* What the induction needs of the permits: without the finiteness of the    *)
(* set of holders, its cardinality would say nothing.                        *)
Conserved == IsFiniteSet(Holders) /\ PermitsConserved

(* The guards that are out are finitely many, as each took a permit, and     *)
(* with the permits left they are all the permits.                           *)
LEMMA ConservedInvariant == Spec => []Conserved
<1>1. Init => Conserved
  <2> SUFFICES ASSUME Init PROVE Conserved
    OBVIOUS
  <2>1. Holders = {}
    BY DEF Init, Holders
  <2> QED BY <2>1, FS_EmptySet, PermitsAssumption DEF Init, Conserved, PermitsConserved
<1>2. TypeOK /\ Conserved /\ [Next]_vars => Conserved'
  <2> SUFFICES ASSUME TypeOK, Conserved, [Next]_vars PROVE Conserved'
    OBVIOUS
  <2>1. permits \in Nat /\ pc \in [Tasks -> {"idle", "acquiring", "holding"}]
    BY DEF TypeOK
  <2>2. IsFiniteSet(Holders) /\ Cardinality(Holders) \in Nat
        /\ permits + Cardinality(Holders) = Permits
    BY FS_CardinalityType DEF Conserved, PermitsConserved
  <2>3. ASSUME NEW t \in Tasks, NEW e, Acquire(t, e), pc[t] # "holding"
        PROVE  Conserved'
    <3>1. Holders' = Holders \cup {t} /\ t \notin Holders
      BY <2>1, <2>3 DEF Acquire, Holders
    <3>2. IsFiniteSet(Holders') /\ Cardinality(Holders') = Cardinality(Holders) + 1
      BY <2>2, <3>1, FS_AddElement
    <3>3. permits' = permits - 1
      BY <2>3 DEF Acquire
    <3> QED BY <2>1, <2>2, <3>2, <3>3, PermitsAssumption DEF Conserved, PermitsConserved
  <2>4. ASSUME permits' = permits, Holders' = Holders PROVE Conserved'
    BY <2>2, <2>4 DEF Conserved, PermitsConserved
  <2>5. ASSUME NEW t \in Tasks, NEW e, Await(t, e), pc[t] # "holding"
        PROVE  Conserved'
    <3>1. permits' = permits /\ Holders' = Holders
      BY <2>1, <2>5 DEF Await, Holders
    <3> QED BY <2>4, <3>1
  <2>6. CASE \E t \in Tasks : TryAcquire(t) \/ AcquireFirst(t) \/ AcquireAgain(t)
    BY <2>3, <2>5, <2>6 DEF TryAcquire, AcquireFirst, AcquireAgain
  <2>7. CASE \E t \in Tasks : AcquireDrop(t)
    <3>1. permits' = permits /\ Holders' = Holders
      BY <2>1, <2>7 DEF AcquireDrop, Holders
    <3> QED BY <2>4, <3>1
  <2>8. CASE \E t \in Tasks : Release(t)
    <3>1. PICK t \in Tasks : Release(t)
      BY <2>8
    <3>2. Holders' = Holders \ {t} /\ t \in Holders
      BY <2>1, <3>1 DEF Release, Holders
    <3>3. IsFiniteSet(Holders') /\ Cardinality(Holders') = Cardinality(Holders) - 1
      BY <2>2, <3>2, FS_RemoveElement
    <3>4. permits' = permits + 1
      BY <3>1 DEF Release
    <3> QED BY <2>1, <2>2, <3>3, <3>4, PermitsAssumption DEF Conserved, PermitsConserved
  <2>9. CASE UNCHANGED vars
    <3>1. permits' = permits /\ Holders' = Holders
      BY <2>9 DEF vars, Holders
    <3> QED BY <2>4, <3>1
  <2> QED BY <2>6, <2>7, <2>8, <2>9 DEF Next
<1> QED BY <1>1, <1>2, TypeCorrect, PTL DEF Spec

(* No order of acquire(), try_acquire(), dropped futures and dropped guards  *)
(* makes a permit up or loses one, with infinitely many tasks too.           *)
THEOREM Conservation == Spec => []PermitsConserved
<1>1. Conserved => PermitsConserved
  BY DEF Conserved
<1> QED BY <1>1, ConservedInvariant, PTL

(* A sleeping acquire() always has a woken companion, or a guard is out whose *)
(* drop wakes one: two releases that meet one notification may leave a        *)
(* permit unused, but never the last chance of a waiter.                      *)
THEOREM Reachability == Spec => []SleeperIsReachable
<1>1. Init => SleeperIsReachable
  BY NewEventType DEF Init, SleeperIsReachable
<1>2. TypeOK /\ Conserved /\ SleeperIsReachable /\ [Next]_vars => SleeperIsReachable'
  <2> SUFFICES ASSUME TypeOK, Conserved, SleeperIsReachable, [Next]_vars
               PROVE  SleeperIsReachable'
    OBVIOUS
  <2>1. event \in EventOf(Tasks, {Unit}) /\ permits \in Nat
    BY DEF TypeOK
  <2>2. permits <= Permits
    BY <2>1, FS_CardinalityType, PermitsAssumption DEF Conserved, PermitsConserved
  <2>3. CASE \E t \in Tasks : TryAcquire(t) \/ AcquireFirst(t) \/ AcquireAgain(t)
    <3>1. permits' = permits - 1 \/ permits' = 0
      BY <2>3 DEF TryAcquire, AcquireFirst, AcquireAgain, Acquire, Await
    <3> QED BY <2>1, <2>2, <3>1, PermitsAssumption DEF SleeperIsReachable
  <2>4. CASE \E t \in Tasks : AcquireDrop(t)
    <3>1. PICK t \in Tasks : AcquireDrop(t)
      BY <2>4
    <3>2. permits' = permits /\ event' = Cancel(event, t)
      BY <3>1 DEF AcquireDrop
    <3>3. CASE Permits > 0 /\ ~(permits < Permits)
      <4>1. event.waiting # <<>> => event.notified # <<>>
        BY <3>3 DEF SleeperIsReachable
      <4>2. event'.waiting # <<>> => event'.notified # <<>>
        BY <2>1, <3>2, <4>1, CancelKeepsSomeoneAwake
      <4> QED BY <4>2 DEF SleeperIsReachable
    <3>4. CASE ~(Permits > 0) \/ permits < Permits
      BY <3>2, <3>4 DEF SleeperIsReachable
    <3> QED BY <3>3, <3>4
  <2>5. CASE \E t \in Tasks : Release(t)
    BY <2>1, <2>5, WakeWakesSomeone DEF Release, SleeperIsReachable
  <2>6. CASE UNCHANGED vars
    BY <2>6 DEF SleeperIsReachable, vars
  <2> QED BY <2>3, <2>4, <2>5, <2>6 DEF Next
<1> QED BY <1>1, <1>2, TypeCorrect, ConservedInvariant, PTL DEF Spec

(* A semaphore of one permit loses no wakeup: what two releases do to        *)
(* notify(1) takes two guards, and with one permit there is one at a time.   *)
THEOREM OnePermitSuffices ==
    ASSUME Permits = 1
    PROVE  Spec => []NoLostWakeup
<1>1. TypeOK /\ SleeperIsReachable => NoLostWakeup
  BY DEF TypeOK, SleeperIsReachable, NoLostWakeup
<1> QED BY <1>1, TypeCorrect, Reachability, PTL

-----------------------------------------------------------------------------
(***************************************************************************)
(* The barrier.  Its definitions have the prefix Gate, and its variables   *)
(* are other ones than those of the semaphore.                             *)
(***************************************************************************)
CONSTANT N

VARIABLES count, current, dropped, gate_event, gate_pc

Gate == INSTANCE Barrier WITH event <- gate_event, pc <- gate_pc

(* What the barrier does with its event is what EventOps says. *)
LEMMA GateOperators ==
    /\ Gate!Unit = Unit /\ Gate!NewEvent = NewEvent
    /\ \A L, T : Gate!EventOf(L, T) = EventOf(L, T)
    /\ \A e, l : /\ Gate!IsNotified(e, l) = IsNotified(e, l)
                 /\ Gate!Insert(e, l) = Insert(e, l)
                 /\ Gate!Take(e, l) = Take(e, l)
                 /\ Gate!Cancel(e, l) = Cancel(e, l)
    /\ \A e, tag, add : Gate!WakeAll(e, tag, add) = WakeAll(e, tag, add)
<1>1. \A e, tags, add : Gate!Notify(e, tags, add) = Notify(e, tags, add)
  BY DEF Gate!Notify, Notify, Gate!Reach, Reach, Gate!Notes, Notes
<1>2. ASSUME NEW e, NEW l
      PROVE  /\ Gate!IsNotified(e, l) = IsNotified(e, l)
             /\ Gate!IsWaiting(e, l) = IsWaiting(e, l)
             /\ Gate!Insert(e, l) = Insert(e, l)
             /\ Gate!Take(e, l) = Take(e, l)
             /\ Gate!Leave(e, l) = Leave(e, l)
             /\ Gate!Note(e, l) = Note(e, l)
  BY DEF Gate!IsNotified, IsNotified, Gate!IsWaiting, IsWaiting, Gate!Insert, Insert,
         Gate!Take, Take, Gate!Leave, Leave, Gate!Note, Note,
         Gate!NotifiedIndex, NotifiedIndex, Gate!WaitingIndex, WaitingIndex,
         Gate!RemoveAt, RemoveAt
<1>3. ASSUME NEW e, NEW l PROVE Gate!Cancel(e, l) = Cancel(e, l)
  BY <1>1, <1>2 DEF Gate!Cancel, Cancel, Gate!Pass, Pass
<1>4. \A e, tag, add : Gate!WakeAll(e, tag, add) = WakeAll(e, tag, add)
  BY <1>1 DEF Gate!WakeAll, WakeAll
<1>5. /\ Gate!Unit = Unit /\ Gate!NewEvent = NewEvent
      /\ \A L, T : Gate!EventOf(L, T) = EventOf(L, T)
  BY DEF Gate!Unit, Unit, Gate!NewEvent, NewEvent, Gate!EventOf, EventOf, Gate!NoteOf, NoteOf
<1> QED BY <1>2, <1>3, <1>4, <1>5

(* The pending wait() futures. *)
Arrived == {t \in Tasks : gate_pc[t] = "waiting"}

(***************************************************************************)
(* The inductive invariant of the barrier: its types, the count, and what  *)
(* carries a wakeup to every waiter of the generation that opened.  The    *)
(* leader can notify them all because every pending wait() is in the list, *)
(* and later a note leaves the list only with the listener it belongs to.  *)
(***************************************************************************)
GateTyped ==
    /\ count \in Nat /\ dropped \in Nat
    /\ gate_event \in EventOf(Tasks, {Unit}) /\ NoneAdditional(gate_event)
    /\ gate_pc \in [Tasks -> {"idle", "waiting"}]

GateCounts ==
    /\ current \subseteq Arrived /\ IsFiniteSet(current)
    /\ count = Cardinality(current) + dropped
    /\ count = 0 \/ count < N

GateWakes ==
    /\ ListenersAre(gate_event, Arrived)
    /\ \A t \in Arrived \ current : IsNotified(gate_event, t)

GateInv == GateTyped /\ GateCounts /\ GateWakes

(* The first poll of wait() by a task that is not the last. *)
LEMMA GateArrive ==
    ASSUME GateInv, NEW t \in Tasks, Gate!Arrive(t)
    PROVE  GateInv'
<1> USE DEF GateInv
<1>1. /\ gate_pc[t] = "idle" /\ count + 1 < N /\ count' = count + 1
      /\ current' = current \cup {t} /\ gate_event' = Insert(gate_event, t)
      /\ gate_pc' = [gate_pc EXCEPT ![t] = "waiting"] /\ dropped' = dropped
  BY GateOperators DEF Gate!Arrive
<1>2. Arrived' = Arrived \cup {t} /\ t \notin Arrived
  BY <1>1 DEF Arrived, GateTyped
<1>3. /\ gate_event' \in EventOf(Tasks, {Unit})
      /\ gate_event'.notified = gate_event.notified
  BY <1>1, InsertType DEF GateTyped
<1>4. GateTyped'
  BY <1>1, <1>3 DEF GateTyped, NoneAdditional
<1>5. GateCounts'
  <2>1. t \notin current
    BY <1>2 DEF GateCounts
  <2>2. IsFiniteSet(current') /\ Cardinality(current') = Cardinality(current) + 1
    BY <1>1, <2>1, FS_AddElement DEF GateCounts
  <2>3. Cardinality(current) \in Nat
    BY FS_CardinalityType DEF GateCounts
  <2> QED BY <1>1, <1>2, <2>2, <2>3 DEF GateCounts, GateTyped
<1>6. GateWakes'
  <2>1. ListenersAre(gate_event', Arrived')
    BY <1>1, <1>2, InsertListeners DEF GateWakes, GateTyped
  <2>2. \A u \in Arrived' \ current' : IsNotified(gate_event', u)
    BY <1>1, <1>2, <1>3 DEF GateWakes, IsNotified
  <2> QED BY <2>1, <2>2 DEF GateWakes
<1> QED BY <1>4, <1>5, <1>6

(* The first poll of wait() by the leader, who opens the barrier. *)
LEMMA GateLead ==
    ASSUME GateInv, NEW t \in Tasks, Gate!Lead(t)
    PROVE  GateInv'
<1> USE DEF GateInv
<1> DEFINE add == FALSE
<1>1. /\ count' = 0 /\ current' = {} /\ dropped' = 0 /\ gate_pc' = gate_pc
      /\ gate_event' = WakeAll(gate_event, Unit, add)
  BY GateOperators DEF Gate!Lead
<1>2. Unit \in {Unit} /\ add \in BOOLEAN /\ ~add
  OBVIOUS
<1> HIDE DEF add
<1>3. GateTyped'
  BY <1>1, <1>2, WakeAllWakesEveryone DEF GateTyped
<1>4. GateCounts'
  BY <1>1, FS_EmptySet DEF GateCounts
<1>5. /\ ListenersAre(gate_event', Arrived)
      /\ \A u \in Arrived : IsNotified(gate_event', u)
  BY <1>1, <1>2, WakeAllListeners DEF GateTyped, GateWakes
<1>6. GateWakes'
  BY <1>1, <1>5 DEF GateWakes, Arrived
<1> QED BY <1>3, <1>4, <1>6

(* A poll after the listener was notified. *)
LEMMA GateWaitAgain ==
    ASSUME GateInv, NEW t \in Tasks, Gate!WaitAgain(t)
    PROVE  GateInv'
<1> USE DEF GateInv
<1> DEFINE e == Take(gate_event, t)
<1>1. /\ gate_pc[t] = "waiting" /\ IsNotified(gate_event, t)
      /\ count' = count /\ dropped' = dropped
      /\ IF t \in current /\ count < N
         THEN gate_event' = Insert(e, t) /\ gate_pc' = gate_pc /\ current' = current
         ELSE /\ gate_event' = e /\ gate_pc' = [gate_pc EXCEPT ![t] = "idle"]
              /\ current' = current \ {t}
  BY GateOperators DEF Gate!WaitAgain
<1>2. /\ e \in EventOf(Tasks, {Unit}) /\ NoneAdditional(e)
      /\ ListenersAre(e, Arrived \ {t})
      /\ \A u \in Arrived \ current : u # t => IsNotified(e, u)
  <2>1. gate_event \in EventOf(Tasks, {Unit}) /\ NoneAdditional(gate_event)
    BY DEF GateTyped
  <2>2. e \in EventOf(Tasks, {Unit}) /\ NoneAdditional(e)
    BY <1>1, <2>1, TakeType, TakeNoneAdditional
  <2>3. ListenersAre(e, Arrived \ {t})
    BY <1>1, <2>1, TakeListeners DEF GateWakes
  <2>4. \A u \in Arrived \ current : u # t => IsNotified(e, u)
    BY <1>1, <2>1, TakeKeepsNotified DEF GateWakes
  <2> QED BY <2>2, <2>3, <2>4
<1> HIDE DEF e
<1>3. t \in Arrived
  BY <1>1 DEF Arrived
<1>4. CASE t \in current /\ count < N
  <2>1. gate_event' = Insert(e, t) /\ Arrived' = Arrived /\ current' = current
    BY <1>1, <1>4 DEF Arrived
  <2>2. /\ gate_event' \in EventOf(Tasks, {Unit})
        /\ gate_event'.notified = e.notified
    BY <1>2, <2>1, InsertType
  <2>3. GateTyped'
    BY <1>1, <1>2, <1>4, <2>2 DEF GateTyped, NoneAdditional
  <2>4. GateCounts'
    BY <1>1, <2>1 DEF GateCounts
  <2>5. ListenersAre(gate_event', (Arrived \ {t}) \cup {t})
    BY <1>2, <2>1, InsertListeners
  <2>6. (Arrived \ {t}) \cup {t} = Arrived'
    BY <1>3, <2>1
  <2>7. \A u \in Arrived \ current : IsNotified(gate_event', u)
    BY <1>2, <1>4, <2>2 DEF IsNotified
  <2> QED BY <2>1, <2>3, <2>4, <2>5, <2>6, <2>7 DEF GateWakes
<1>5. CASE ~(t \in current /\ count < N)
  <2>1. t \notin current
    <3>1. ASSUME t \in current PROVE count < N
      <4>1. Cardinality(current) \in Nat /\ Cardinality(current) # 0
        BY <3>1, FS_CardinalityType, FS_EmptySet DEF GateCounts
      <4> QED BY <4>1 DEF GateCounts, GateTyped
    <3> QED BY <1>5, <3>1
  <2>2. /\ gate_event' = e /\ gate_pc' = [gate_pc EXCEPT ![t] = "idle"]
        /\ current' = current
    BY <1>1, <1>5, <2>1
  <2>3. Arrived' = Arrived \ {t}
    BY <2>2 DEF Arrived, GateTyped
  <2>4. GateTyped'
    BY <1>1, <1>2, <2>2 DEF GateTyped
  <2>5. GateCounts'
    BY <1>1, <2>1, <2>2, <2>3 DEF GateCounts
  <2>6. GateWakes'
    BY <1>2, <2>2, <2>3 DEF GateWakes
  <2> QED BY <2>4, <2>5, <2>6
<1> QED BY <1>4, <1>5

(* A pending wait() is dropped. *)
LEMMA GateWaitDrop ==
    ASSUME GateInv, NEW t \in Tasks, Gate!WaitDrop(t)
    PROVE  GateInv'
<1> USE DEF GateInv
<1>1. /\ gate_pc[t] = "waiting" /\ gate_event' = Cancel(gate_event, t)
      /\ gate_pc' = [gate_pc EXCEPT ![t] = "idle"] /\ count' = count
      /\ current' = current \ {t}
      /\ dropped' = IF t \in current THEN dropped + 1 ELSE dropped
  BY GateOperators DEF Gate!WaitDrop
<1>2. t \in Arrived /\ Arrived' = Arrived \ {t}
  BY <1>1 DEF Arrived, GateTyped
<1>3. /\ gate_event' \in EventOf(Tasks, {Unit}) /\ NoneAdditional(gate_event')
  BY <1>1, CancelType, CancelNoneAdditional DEF GateTyped
<1>4. GateTyped'
  BY <1>1, <1>3 DEF GateTyped
<1>5. GateCounts'
  <2>1. IsFiniteSet(current) /\ Cardinality(current) \in Nat
    BY FS_CardinalityType DEF GateCounts
  <2>2. CASE t \in current
    <3>1. IsFiniteSet(current') /\ Cardinality(current') = Cardinality(current) - 1
      BY <1>1, <2>1, <2>2, FS_RemoveElement
    <3> QED BY <1>1, <1>2, <2>1, <2>2, <3>1 DEF GateCounts, GateTyped
  <2>3. CASE t \notin current
    <3>1. current' = current
      BY <1>1, <2>3
    <3> QED BY <1>1, <1>2, <2>3, <3>1 DEF GateCounts
  <2> QED BY <2>2, <2>3
<1>6. GateWakes'
  <2>1. ListenersAre(gate_event', Arrived')
    BY <1>1, <1>2, CancelListeners DEF GateWakes, GateTyped
  <2>2. \A u \in Arrived' \ current' : IsNotified(gate_event', u)
    BY <1>1, <1>2, CancelKeepsNotified DEF GateWakes, GateTyped
  <2> QED BY <2>1, <2>2 DEF GateWakes
<1> QED BY <1>4, <1>5, <1>6

(* The barrier keeps its invariant. *)
LEMMA GateInvariant == Gate!Spec => []GateInv
<1>1. Gate!Init => GateInv
  <2> SUFFICES ASSUME Gate!Init PROVE GateInv
    OBVIOUS
  <2>1. /\ count = 0 /\ current = {} /\ gate_event = NewEvent /\ dropped = 0
        /\ gate_pc = [t \in Tasks |-> "idle"]
    BY GateOperators DEF Gate!Init
  <2>2. Arrived = {}
    BY <2>1 DEF Arrived
  <2>3. GateTyped
    BY <2>1, NewEventType DEF GateTyped
  <2>4. GateCounts
    BY <2>1, <2>2, FS_EmptySet DEF GateCounts
  <2>5. GateWakes
    BY <2>1, <2>2, NewEventListeners DEF GateWakes
  <2> QED BY <2>3, <2>4, <2>5 DEF GateInv
<1>2. GateInv /\ [Gate!Next]_(Gate!vars) => GateInv'
  <2> SUFFICES ASSUME GateInv, [Gate!Next]_(Gate!vars) PROVE GateInv'
    OBVIOUS
  <2>1. CASE UNCHANGED Gate!vars
    BY <2>1 DEF Gate!vars, GateInv, GateTyped, GateCounts, GateWakes, Arrived
  <2>2. CASE Gate!Next
    BY <2>2, GateArrive, GateLead, GateWaitAgain, GateWaitDrop DEF Gate!Next
  <2> QED BY <2>1, <2>2
<1> QED BY <1>1, <1>2, PTL DEF Gate!Spec

(* The barrier keeps its types, and every note of its event is a plain one.  *)
THEOREM BarrierTypeCorrect == Gate!Spec => []Gate!TypeOK
<1>1. GateInv => Gate!TypeOK
  BY GateOperators DEF Gate!TypeOK, GateInv, GateTyped, GateCounts, Arrived, NoneAdditional
<1> QED BY <1>1, GateInvariant, PTL

(* Each wait() of a generation counts once, whether it still waits or was    *)
(* dropped, and the count never stays at n: with any tasks and any n, nobody *)
(* waits at a barrier that is full.                                          *)
THEOREM BarrierCounts == Gate!Spec => []Gate!CountIsArrivals
<1>1. GateInv => Gate!CountIsArrivals
  <2>1. Gate!Cardinality(current) = Cardinality(current)
    BY DEF Gate!Cardinality, Cardinality
  <2> QED BY <2>1 DEF Gate!CountIsArrivals, GateInv, GateCounts, Arrived
<1> QED BY <1>1, GateInvariant, PTL

(* When the barrier has opened, every waiter of that generation is notified  *)
(* until it returns: no listener that comes later, and none that is dropped, *)
(* takes its notification away.                                              *)
THEOREM BarrierReleases == Gate!Spec => []Gate!ReleasedAreWoken
<1>1. GateInv => Gate!ReleasedAreWoken
  BY GateOperators DEF Gate!ReleasedAreWoken, GateInv, GateWakes, Arrived
<1> QED BY <1>1, GateInvariant, PTL
=============================================================================
