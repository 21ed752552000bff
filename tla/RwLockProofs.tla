---------------------------- MODULE RwLockProofs ----------------------------
(***************************************************************************)
(* Proofs about RwLock for every two disjoint sets of readers and writers. *)
(***************************************************************************)
EXTENDS RwLock, EventOpsProofs, FiniteSetTheorems

(* The part of the type that does not depend on the counts. *)
EventsTyped ==
    /\ exclusive \in BOOLEAN /\ passed_over \in BOOLEAN
    /\ no_readers \in EventOf(Writers, {Unit})
    /\ no_writers \in EventOf(Readers, {Unit})
    /\ pc \in [Tasks -> {"idle", "waiting", "holding"}]

(* The lock keeps the types of its events: notify(1), insertions and dropped *)
(* futures do, each on the event that its kind of task sleeps on.            *)
LEMMA EventsAreTyped == Spec => []EventsTyped
<1>1. Init => EventsTyped
  BY NewEventType DEF Init, EventsTyped
<1>2. EventsTyped /\ [Next]_vars => EventsTyped'
  <2> SUFFICES ASSUME EventsTyped, [Next]_vars PROVE EventsTyped'
    OBVIOUS
  <2> USE DEF EventsTyped, Goto, Tasks
  <2>1. ASSUME NEW t \in Readers, NEW e \in EventOf(Readers, {Unit}),
               AcquireRead(t, e) \/ AwaitRead(t, e)
        PROVE  EventsTyped'
    <3>1. Insert(e, t) \in EventOf(Readers, {Unit})
      BY InsertType
    <3> QED BY <2>1, <3>1 DEF AcquireRead, AwaitRead
  <2>2. ASSUME NEW t \in Writers, NEW e \in EventOf(Writers, {Unit}),
               AcquireWrite(t, e) \/ AwaitWrite(t, e)
        PROVE  EventsTyped'
    <3>1. Insert(e, t) \in EventOf(Writers, {Unit})
      BY InsertType
    <3> QED BY <2>2, <3>1 DEF AcquireWrite, AwaitWrite
  <2>3. ASSUME NEW t \in Readers, TryRead(t) \/ ReadFirst(t) PROVE EventsTyped'
    BY <2>1, <2>3 DEF TryRead, ReadFirst
  <2>4. ASSUME NEW t \in Writers, TryWrite(t) \/ WriteFirst(t) PROVE EventsTyped'
    BY <2>2, <2>4 DEF TryWrite, WriteFirst
  <2>5. ASSUME NEW t \in Readers, ReadAgain(t) PROVE EventsTyped'
    <3>1. Take(no_writers, t) \in EventOf(Readers, {Unit})
      BY <2>5, TakeType DEF ReadAgain
    <3> QED BY <2>1, <2>5, <3>1 DEF ReadAgain
  <2>6. ASSUME NEW t \in Writers, WriteAgain(t) PROVE EventsTyped'
    <3>1. Take(no_readers, t) \in EventOf(Writers, {Unit})
      BY <2>6, TakeType DEF WriteAgain
    <3> QED BY <2>2, <2>6, <3>1 DEF WriteAgain
  <2>7. ASSUME NEW t \in Readers, ReadDrop(t) PROVE EventsTyped'
    <3>1. Cancel(no_writers, t) \in EventOf(Readers, {Unit})
      BY CancelType
    <3> QED BY <2>7, <3>1 DEF ReadDrop
  <2>8. ASSUME NEW t \in Writers, WriteDrop(t) PROVE EventsTyped'
    <3>1. Cancel(no_readers, t) \in EventOf(Writers, {Unit})
      BY CancelType
    <3> QED BY <2>8, <3>1 DEF WriteDrop
  <2>9. ASSUME NEW t \in Readers, ReadUnlock(t) PROVE EventsTyped'
    <3>1. Wake(no_readers) \in EventOf(Writers, {Unit})
      BY WakeType
    <3> QED BY <2>9, <3>1 DEF ReadUnlock
  <2>10. ASSUME NEW t \in Writers, WriteUnlock(t) PROVE EventsTyped'
    <3>1. Wake(no_writers) \in EventOf(Readers, {Unit})
      BY WakeType
    <3> QED BY <2>10, <3>1 DEF WriteUnlock
  <2>11. CASE UNCHANGED vars
    BY <2>11 DEF vars, lock
  <2> QED BY <2>3, <2>4, <2>5, <2>6, <2>7, <2>8, <2>9, <2>10, <2>11 DEF Next
<1> QED BY <1>1, <1>2, PTL DEF Spec

(***************************************************************************)
(* The inductive invariant.  The read guards are finitely many, as each    *)
(* was counted; of the write guards there is one at most, so that its drop *)
(* may reset `exclusive`, and none beside a read guard.                    *)
(***************************************************************************)
ReadGuards ==
    /\ IsFiniteSet(Reading)
    /\ readers = Cardinality(Reading)
    /\ shared = readers

WriteGuards ==
    /\ exclusive <=> Writing # {}
    /\ \A s, t \in Writing : s = t
    /\ exclusive => Reading = {}

Guards == ReadGuards /\ WriteGuards

(* A step that changes neither counts nor guards keeps the invariant. *)
LEMMA SameGuards ==
    ASSUME Guards, UNCHANGED <<shared, exclusive, readers>>,
           Reading' = Reading, Writing' = Writing
    PROVE  Guards'
  BY DEF Guards, ReadGuards, WriteGuards

(* A task that was not holding and is not afterwards changes no guard. *)
LEMMA NoGuardMoves ==
    ASSUME EventsTyped, NEW t \in Tasks, NEW l \in {"idle", "waiting"},
           pc[t] # "holding", Goto(t, l)
    PROVE  Reading' = Reading /\ Writing' = Writing
  BY DEF EventsTyped, Reading, Writing, Goto, Tasks

(* A reader that gets the lock is counted. *)
LEMMA AcquireReadGuards ==
    ASSUME EventsTyped, Guards, NEW t \in Readers, NEW e, pc[t] # "holding",
           AcquireRead(t, e)
    PROVE  Guards'
<1>1. /\ Reading' = Reading \cup {t} /\ t \notin Reading
      /\ Writing' = Writing
  BY DisjointAssumption DEF EventsTyped, AcquireRead, Reading, Writing, Goto, Tasks
<1>2. /\ IsFiniteSet(Reading')
      /\ Cardinality(Reading') = Cardinality(Reading) + 1
  BY <1>1, FS_AddElement DEF Guards, ReadGuards
<1>3. readers' = readers + 1 /\ shared' = shared + 1 /\ ~exclusive /\ ~exclusive'
  BY DEF AcquireRead
<1>4. ReadGuards'
  BY <1>2, <1>3 DEF Guards, ReadGuards
<1>5. WriteGuards'
  BY <1>1, <1>3 DEF Guards, WriteGuards
<1> QED BY <1>4, <1>5 DEF Guards

(* A writer that gets the lock finds no borrow, and so no guard. *)
LEMMA AcquireWriteGuards ==
    ASSUME EventsTyped, Guards, NEW t \in Writers, NEW e, pc[t] # "holding",
           AcquireWrite(t, e)
    PROVE  Guards'
<1>1. Reading' = Reading /\ Writing' = Writing \cup {t}
  BY DisjointAssumption DEF EventsTyped, AcquireWrite, Reading, Writing, Goto, Tasks
<1>2. ~exclusive /\ exclusive' /\ shared = 0 /\ UNCHANGED <<shared, readers>>
  BY DEF AcquireWrite
<1>3. Reading = {}
  BY <1>2, FS_EmptySet DEF Guards, ReadGuards
<1>4. Writing = {}
  BY <1>2 DEF Guards, WriteGuards
<1>5. ReadGuards'
  BY <1>1, <1>2 DEF Guards, ReadGuards
<1>6. WriteGuards'
  BY <1>1, <1>2, <1>3, <1>4 DEF WriteGuards
<1> QED BY <1>5, <1>6 DEF Guards

(* A read guard that is dropped is counted down, once. *)
LEMMA ReadUnlockGuards ==
    ASSUME EventsTyped, Guards, NEW t \in Readers, ReadUnlock(t)
    PROVE  Guards'
<1>1. /\ Reading' = Reading \ {t} /\ t \in Reading
      /\ Writing' = Writing
  BY DisjointAssumption DEF EventsTyped, ReadUnlock, Reading, Writing, Goto, Tasks
<1>2. /\ IsFiniteSet(Reading')
      /\ Cardinality(Reading') = Cardinality(Reading) - 1
  BY <1>1, FS_RemoveElement DEF Guards, ReadGuards
<1>3. readers' = readers - 1 /\ shared' = shared - 1 /\ exclusive' = exclusive
  BY DEF ReadUnlock
<1>4. ReadGuards'
  BY <1>2, <1>3 DEF Guards, ReadGuards
<1>5. WriteGuards'
  BY <1>1, <1>3 DEF Guards, WriteGuards
<1> QED BY <1>4, <1>5 DEF Guards

(* The write guard that is dropped was the only guard. *)
LEMMA WriteUnlockGuards ==
    ASSUME EventsTyped, Guards, NEW t \in Writers, WriteUnlock(t)
    PROVE  Guards'
<1>1. /\ Reading' = Reading /\ t \in Writing
      /\ Writing' = Writing \ {t}
  BY DisjointAssumption DEF EventsTyped, WriteUnlock, Reading, Writing, Goto, Tasks
<1>2. ~exclusive' /\ UNCHANGED <<shared, readers>>
  BY DEF WriteUnlock
<1>3. Writing' = {}
  BY <1>1 DEF Guards, WriteGuards
<1>4. ReadGuards'
  BY <1>1, <1>2 DEF Guards, ReadGuards
<1>5. WriteGuards'
  BY <1>2, <1>3 DEF WriteGuards
<1> QED BY <1>4, <1>5 DEF Guards

(* The counts and the guards agree, and a writer is alone. *)
LEMMA GuardsInvariant == Spec => []Guards
<1>1. Init => Guards
  <2> SUFFICES ASSUME Init PROVE Guards
    OBVIOUS
  <2>1. Reading = {} /\ Writing = {}
    BY DEF Init, Reading, Writing, Tasks
  <2> QED BY <2>1, FS_EmptySet DEF Init, Guards, ReadGuards, WriteGuards
<1>2. EventsTyped /\ Guards /\ [Next]_vars => Guards'
  <2> SUFFICES ASSUME EventsTyped, Guards, [Next]_vars PROVE Guards'
    OBVIOUS
  <2>1. ASSUME NEW t \in Readers, NEW e, AwaitRead(t, e), pc[t] # "holding"
        PROVE  Guards'
    BY <2>1, NoGuardMoves, SameGuards DEF AwaitRead, Tasks
  <2>2. ASSUME NEW t \in Writers, NEW e, AwaitWrite(t, e), pc[t] # "holding"
        PROVE  Guards'
    BY <2>2, NoGuardMoves, SameGuards DEF AwaitWrite, Tasks
  <2>3. ASSUME NEW t \in Readers, TryRead(t) \/ ReadFirst(t) \/ ReadAgain(t)
        PROVE  Guards'
    BY <2>1, <2>3, AcquireReadGuards DEF TryRead, ReadFirst, ReadAgain
  <2>4. ASSUME NEW t \in Writers, TryWrite(t) \/ WriteFirst(t) \/ WriteAgain(t)
        PROVE  Guards'
    BY <2>2, <2>4, AcquireWriteGuards DEF TryWrite, WriteFirst, WriteAgain
  <2>5. ASSUME NEW t \in Readers, ReadDrop(t) PROVE Guards'
    BY <2>5, NoGuardMoves, SameGuards DEF ReadDrop, Tasks
  <2>6. ASSUME NEW t \in Writers, WriteDrop(t) PROVE Guards'
    BY <2>6, NoGuardMoves, SameGuards DEF WriteDrop, Tasks
  <2>7. ASSUME NEW t \in Readers, ReadUnlock(t) PROVE Guards'
    BY <2>7, ReadUnlockGuards
  <2>8. ASSUME NEW t \in Writers, WriteUnlock(t) PROVE Guards'
    BY <2>8, WriteUnlockGuards
  <2>9. CASE UNCHANGED vars
    BY <2>9, SameGuards DEF vars, lock, Reading, Writing
  <2> QED BY <2>3, <2>4, <2>5, <2>6, <2>7, <2>8, <2>9 DEF Next
<1> QED BY <1>1, <1>2, EventsAreTyped, PTL DEF Spec

-----------------------------------------------------------------------------
(* The lock keeps its types.  That `readers` and the borrow count never go   *)
(* below zero, where the code would panic, takes the whole invariant: a read *)
(* guard that is dropped was counted.                                        *)
THEOREM TypeCorrect == Spec => []TypeOK
<1>1. EventsTyped /\ Guards => TypeOK
  BY FS_CardinalityType DEF EventsTyped, Guards, ReadGuards, TypeOK
<1> QED BY <1>1, EventsAreTyped, GuardsInvariant, PTL

(* A write guard excludes every other guard, whatever try_read(), read() and *)
(* the drops do in between.                                                  *)
THEOREM Exclusion == Spec => []WriterIsAlone
<1>1. Guards => WriterIsAlone
  <2> SUFFICES ASSUME Guards, Writing # {}
               PROVE  Reading = {} /\ Cardinality(Writing) = 1
    BY DEF WriterIsAlone
  <2>1. PICK t : t \in Writing
    OBVIOUS
  <2>2. Writing = {t}
    BY <2>1 DEF Guards, WriteGuards
  <2> QED BY <2>2, FS_Singleton DEF Guards, WriteGuards
<1> QED BY <1>1, GuardsInvariant, PTL

(* The `readers` cell and the borrow count of the RefCell agree with the     *)
(* read guards that exist, so that the test for the last reader is right.    *)
THEOREM Counting == Spec => []ReadersAreCounted
<1>1. Guards => ReadersAreCounted
  BY DEF Guards, ReadGuards, WriteGuards, ReadersAreCounted
<1> QED BY <1>1, GuardsInvariant, PTL

(***************************************************************************)
(* Until the drop of a write guard has left a future asleep, no reader     *)
(* sleeps at all unless a write guard is out.  The property itself only    *)
(* asks for company that was woken, and is not inductive: a woken reader   *)
(* takes its note and leaves the others without.                           *)
(***************************************************************************)
StrandInv ==
    ~passed_over =>
        /\ ~exclusive /\ shared = 0 /\ no_readers.waiting # <<>>
              => no_readers.notified # <<>>
        /\ ~exclusive => no_writers.waiting = <<>>

(* The drop of a read guard wakes a writer if it was the last one, as the    *)
(* `readers` cell and the borrow count agree; a dropped write() passes its   *)
(* note on; what else disturbs the events leaves the lock taken.             *)
THEOREM OnlyWriteUnlocksStrand == Spec => []OnlyWriteUnlockStrands
<1>1. Init => StrandInv
  BY NewEventType DEF Init, StrandInv
<1>2. TypeOK /\ ReadersAreCounted /\ StrandInv /\ [Next]_vars => StrandInv'
  <2> SUFFICES ASSUME TypeOK, ReadersAreCounted, StrandInv, [Next]_vars
               PROVE  StrandInv'
    OBVIOUS
  <2>1. /\ no_readers \in EventOf(Writers, {Unit})
        /\ no_writers \in EventOf(Readers, {Unit})
        /\ shared \in Nat
    BY DEF TypeOK
  <2>2. ASSUME NEW t \in Readers, TryRead(t) \/ ReadFirst(t)
        PROVE  StrandInv'
    BY <2>1, <2>2 DEF TryRead, ReadFirst, AcquireRead, AwaitRead, StrandInv
  <2>3. ASSUME NEW t \in Readers, ReadAgain(t) PROVE StrandInv'
    <3>1. Take(no_writers, t).waiting = no_writers.waiting
      BY <2>1, <2>3, TakeType DEF ReadAgain
    <3> QED BY <2>1, <2>3, <3>1 DEF ReadAgain, AcquireRead, AwaitRead, StrandInv
  <2>4. ASSUME NEW t \in Writers, TryWrite(t) \/ WriteFirst(t) \/ WriteAgain(t)
        PROVE  StrandInv'
    <3>1. \/ exclusive'
          \/ shared' > 0 /\ UNCHANGED <<exclusive, no_writers, passed_over>>
      BY <2>1, <2>4 DEF TryWrite, WriteFirst, WriteAgain, AcquireWrite, AwaitWrite
    <3> QED BY <2>1, <3>1 DEF StrandInv
  <2>5. ASSUME NEW t \in Readers, ReadDrop(t) PROVE StrandInv'
    <3>1. no_writers.waiting = <<>> => Cancel(no_writers, t).waiting = <<>>
      BY <2>1, CancelKeepsEveryoneAwake
    <3> QED BY <2>5, <3>1 DEF ReadDrop, StrandInv
  <2>6. ASSUME NEW t \in Writers, WriteDrop(t) PROVE StrandInv'
    <3>1. (no_readers.waiting # <<>> => no_readers.notified # <<>>)
            => (Cancel(no_readers, t).waiting # <<>>
                  => Cancel(no_readers, t).notified # <<>>)
      BY <2>1, CancelKeepsSomeoneAwake
    <3> QED BY <2>6, <3>1 DEF WriteDrop, StrandInv
  <2>7. ASSUME NEW t \in Readers, ReadUnlock(t) PROVE StrandInv'
    <3>1. shared' = 0 => no_readers' = Wake(no_readers)
      BY <2>1, <2>7 DEF ReadUnlock, LastReaderLeaves, ReadersAreCounted
    <3>2. Wake(no_readers).waiting # <<>> => Wake(no_readers).notified # <<>>
      BY <2>1, WakeWakesSomeone
    <3> QED BY <2>7, <3>1, <3>2 DEF ReadUnlock, StrandInv
  <2>8. ASSUME NEW t \in Writers, WriteUnlock(t) PROVE StrandInv'
    BY <2>8 DEF WriteUnlock, StrandInv
  <2>9. CASE UNCHANGED vars
    BY <2>9 DEF vars, lock, StrandInv
  <2> QED BY <2>2, <2>3, <2>4, <2>5, <2>6, <2>7, <2>8, <2>9 DEF Next
<1>3. StrandInv => OnlyWriteUnlockStrands
  BY DEF StrandInv, OnlyWriteUnlockStrands
<1> QED BY <1>1, <1>2, <1>3, TypeCorrect, Counting, PTL DEF Spec
=============================================================================
