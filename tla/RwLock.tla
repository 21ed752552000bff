------------------------------- MODULE RwLock -------------------------------
(***************************************************************************)
(* The asynchronous read/write lock of src/src/lock/rwlock.rs.  A reader   *)
(* is a read() future or its guard, a writer a write() future or its       *)
(* guard.  Readers sleep on no_writers, which the drop of a write guard    *)
(* notifies; writers sleep on no_readers, which the drop of the last read  *)
(* guard notifies.                                                         *)
(***************************************************************************)
EXTENDS EventOps, FiniteSets

CONSTANTS Readers,     \* the tasks that lock the read end
          Writers      \* the tasks that lock the write end

ASSUME DisjointAssumption == Readers \cap Writers = {}

VARIABLES
    shared,        \* shared borrows of the RefCell around the data
    exclusive,     \* the RefCell is mutably borrowed
    readers,       \* the `readers` cell
    no_readers,    \* the event writers wait on
    no_writers,    \* the event readers wait on
    pc,            \* "idle", "waiting" (a pending future) or "holding"
    passed_over    \* history: the drop of a write guard left a future asleep

lock == <<shared, exclusive, readers, no_readers, no_writers>>
vars == <<lock, pc, passed_over>>

Tasks == Readers \cup Writers

Init ==
    /\ shared = 0 /\ exclusive = FALSE /\ readers = 0
    /\ no_readers = NewEvent /\ no_writers = NewEvent
    /\ pc = [t \in Tasks |-> "idle"]
    /\ passed_over = FALSE

Goto(t, l) == pc' = [pc EXCEPT ![t] = l]

FaultyAcquireRead(t, e) ==
    /\ ~exclusive
    /\ shared' = shared + 1
    /\ no_writers' = e
    /\ Goto(t, "holding")
    /\ UNCHANGED <<exclusive, readers, no_readers, passed_over>>

(* try_read: RefCell::try_borrow succeeds unless the data is mutably borrowed. *)
AcquireRead(t, e) ==
    /\ ~exclusive
    /\ shared' = shared + 1
    /\ readers' = readers + 1
    /\ no_writers' = e
    /\ Goto(t, "holding")
    /\ UNCHANGED <<exclusive, no_readers, passed_over>>

(* The await of read(), when try_read returned None. *)
AwaitRead(t, e) ==
    /\ exclusive
    /\ no_writers' = Insert(e, t)
    /\ Goto(t, "waiting")
    /\ UNCHANGED <<shared, exclusive, readers, no_readers, passed_over>>

FaultyAcquireWrite(t, e) ==
    /\ ~exclusive
    /\ exclusive' = TRUE
    /\ no_readers' = e
    /\ Goto(t, "holding")
    /\ UNCHANGED <<shared, readers, no_writers, passed_over>>

(* try_write: RefCell::try_borrow_mut succeeds unless there is any borrow. *)
AcquireWrite(t, e) ==
    /\ ~exclusive /\ shared = 0
    /\ exclusive' = TRUE
    /\ no_readers' = e
    /\ Goto(t, "holding")
    /\ UNCHANGED <<shared, readers, no_writers, passed_over>>

(* The await of write(), when try_write returned None. *)
AwaitWrite(t, e) ==
    /\ exclusive \/ shared > 0
    /\ no_readers' = Insert(e, t)
    /\ Goto(t, "waiting")
    /\ UNCHANGED <<shared, exclusive, readers, no_writers, passed_over>>

TryRead(t)  == pc[t] = "idle" /\ AcquireRead(t, no_writers)
TryWrite(t) == pc[t] = "idle" /\ AcquireWrite(t, no_readers)

ReadFirst(t) ==
    /\ pc[t] = "idle"
    /\ AcquireRead(t, no_writers) \/ AwaitRead(t, no_writers)

WriteFirst(t) ==
    /\ pc[t] = "idle"
    /\ AcquireWrite(t, no_readers) \/ AwaitWrite(t, no_readers)

ReadAgain(t) ==
    /\ pc[t] = "waiting" /\ IsNotified(no_writers, t)
    /\ LET e == Take(no_writers, t) IN AcquireRead(t, e) \/ AwaitRead(t, e)

WriteAgain(t) ==
    /\ pc[t] = "waiting" /\ IsNotified(no_readers, t)
    /\ LET e == Take(no_readers, t) IN AcquireWrite(t, e) \/ AwaitWrite(t, e)

ReadDrop(t) ==
    /\ pc[t] = "waiting"
    /\ no_writers' = Cancel(no_writers, t)
    /\ Goto(t, "idle")
    /\ UNCHANGED <<shared, exclusive, readers, no_readers, passed_over>>

WriteDrop(t) ==
    /\ pc[t] = "waiting"
    /\ no_readers' = Cancel(no_readers, t)
    /\ Goto(t, "idle")
    /\ UNCHANGED <<shared, exclusive, readers, no_writers, passed_over>>

(* The test `readers == 0`, after `readers` was decremented. *)
FaultyLastReaderLeaves == readers = 0
LastReaderLeaves == readers - 1 = 0

(* RwLockReadGuard::drop, then the drop of its Ref. *)
ReadUnlock(t) ==
    /\ pc[t] = "holding"
    /\ readers' = readers - 1
    /\ no_readers' = IF LastReaderLeaves THEN Wake(no_readers) ELSE no_readers
    /\ shared' = shared - 1
    /\ Goto(t, "idle")
    /\ UNCHANGED <<exclusive, no_writers, passed_over>>

(* RwLockWriteGuard::drop, then the drop of its RefMut. *)
WriteUnlock(t) ==
    /\ pc[t] = "holding"
    /\ no_writers' = Wake(no_writers)
    /\ exclusive' = FALSE
    /\ Goto(t, "idle")
    /\ passed_over' = (passed_over \/ no_readers.waiting # <<>> \/ no_writers'.waiting # <<>>)
    /\ UNCHANGED <<shared, readers, no_readers>>

Next ==
    \/ \E t \in Readers : TryRead(t) \/ ReadFirst(t) \/ ReadAgain(t)
                              \/ ReadDrop(t) \/ ReadUnlock(t)
    \/ \E t \in Writers : TryWrite(t) \/ WriteFirst(t) \/ WriteAgain(t)
                              \/ WriteDrop(t) \/ WriteUnlock(t)

Spec == Init /\ [][Next]_vars

Reading == {t \in Readers : pc[t] = "holding"}
Writing == {t \in Writers : pc[t] = "holding"}

-----------------------------------------------------------------------------
(* Every variable has its type; `readers` never drops below zero, where the  *)
(* code would panic with "too few readers".                                  *)
TypeOK ==
    /\ shared \in Nat /\ exclusive \in BOOLEAN /\ readers \in Nat
    /\ no_readers \in EventOf(Writers, {Unit})
    /\ no_writers \in EventOf(Readers, {Unit})
    /\ passed_over \in BOOLEAN
    /\ pc \in [Tasks -> {"idle", "waiting", "holding"}]

(* A write guard excludes every other guard. *)
WriterIsAlone == Writing # {} => Reading = {} /\ Cardinality(Writing) = 1

(* The `readers` cell, which decides whether the last reader is leaving, and *)
(* the borrow count of the RefCell, which decides the lock, both count the   *)
(* read guards that exist.                                                   *)
ReadersAreCounted ==
    /\ readers = Cardinality(Reading)
    /\ shared = readers
    /\ exclusive <=> Writing # {}

(* A lock that is free has woken somebody, if somebody sleeps.  With two      *)
(* writers it is violated, because a write guard does not notify writers,    *)
(* and with two readers, because it notifies one of them and that reader     *)
(* does not notify the other.                                                *)
NoStrandedWaiter ==
    ~exclusive /\ shared = 0 /\ (no_readers.waiting # <<>> \/ no_writers.waiting # <<>>)
        => no_readers.notified # <<>> \/ no_writers.notified # <<>>

(* The drop of a write guard is the only thing that strands a future: until  *)
(* one has left a future asleep, a writer asleep beside a free lock and a    *)
(* reader asleep beside a lock that is not write-locked have company that    *)
(* was woken, whatever readers leave, barge in or are dropped.               *)
OnlyWriteUnlockStrands ==
    ~passed_over =>
        /\ ~exclusive /\ shared = 0 /\ no_readers.waiting # <<>>
              => no_readers.notified # <<>>
        /\ ~exclusive /\ no_writers.waiting # <<>> => no_writers.notified # <<>>

=============================================================================
