# unsend in TLA+

`unsend` is a runtime for asynchronous Rust programs that stay on one thread:
an event (a list of listeners that futures wait on), four locks and a cell
built from it, a channel, and an executor.  This directory holds TLA+ modules
that model its code, configurations that check them with TLC on small
instances, and proofs that TLAPS checks for every instance.

Almost nothing in this crate runs in parallel (the executor's mainstream queue
is the exception), and that is exactly what makes it hard to test: the
difficulty is in *which future is polled, woken or dropped
in which order*.  A woken future does not run at once; between the wake and its
poll other tasks lock, unlock, send, give up and are dropped, and every one of
them sees the half-finished hand-over in the event's list.

## 1. The system

### Components

| component | source | state | operations |
|---|---|---|---|
| event | `src/src/event.rs` | linked list of entries (`head`, `tail`, `first`), counters `notified` and `len`; per listener `in_list`, its `Entry` (`next`, `prev`, `state`) | `notify`, `listen`, poll of a listener, drop of a listener |
| notification types | `src/src/event.rs` | none | the conversion of an integer to a count, a flag `additional`, the tags that `next_tag()` yields |
| mutex | `src/src/lock/mutex.rs` | a `RefCell`, the event `unlocked` | `try_lock`, `lock`, drop of the future, drop of the guard |
| semaphore | `src/src/lock/semaphore.rs` | `permits`, `event` | `try_acquire`, `acquire`, their `_rc` forms, drop of the future, drop of the guard |
| rwlock | `src/src/lock/rwlock.rs` | a `RefCell`, the cell `readers`, the events `no_readers` and `no_writers` | the same for a read and a write end |
| barrier | `src/src/lock/barrier.rs` | `count`, `generation`, `event` | `wait`, its drop |
| once_cell | `src/src/lock/once_cell.rs` | the value, `writing`, the events `active` and `passive` | `get_or_try_init` (and `get_or_init`, `set`), `wait`, `take`, drops |
| channel | `src/src/channel.rs` | the queue, `closed`, the handle counts, `event` | `send`, `recv`, `try_recv`, clone and drop of both handles |
| executor | `src/src/executor.rs` | a thread-safe queue with an `AtomicWaker`, a thread-local queue with an event of runnables, the slab of active wakers | `spawn`, schedule, `try_tick`, `tick`, `run`, drop |
| thread identities | `src/src/executor.rs` | none | `id()` |
| examples | `src/examples` | a server and its clients, on the executor and the channel | accept, read, write, send, log |
| comparisons | `src/comparisons` | benchmarks on this and other runtimes | not modelled |

### How they interact

The event is the one mechanism behind all waiting.  Each lock and the channel
owns its own event (two of them for the rwlock and the once_cell) and reaches
it by calls: `listen`, the poll and the drop of the listener that a pending
future holds, and `notify` from the drop of a guard, from a setter's end or
from `send`.  The components share nothing with one another.  The channel's
event carries data: the tag of a notification is `Some(item)` or, on closing,
`None`; so is the executor's, whose tags are runnables.  The way back is the
callback `Waker::wake`, which `Inner::notify` calls for each entry it notifies
while the event's `RefCell` is borrowed.

The executor closes the circle: the waker of one of its tasks calls its
scheduler function, which hands the runnable to a ticker that listens on the
executor's own event, or queues it.  A waker may be called on any thread; then
the runnable goes to the mainstream queue and an `AtomicWaker` wakes the one
ticker that listens to that.  Everything else of the executor stays on its
thread.

Two facts about `notify(n)` shape everything.  It is *not* cumulative: entries
that are notified and not yet taken count towards `n`, so a second `notify(1)`
before the first woken future is polled does nothing.  And a listener that is
dropped while it holds a notification passes it on, as a notification of one
with the same flag and tag.

### What is hard, and what makes each component correct

* **event** — unlinking at the head, in the middle and at the tail in any
  order; `first` and `notified` that must follow; a notification passed on by a
  dropped listener; a waker that changes between polls; wakers called in the
  middle of the loop.  Correct when the list is always the arrival order, the
  notified entries are its oldest ones, the waker invoked is the latest, and
  everything a caller can see is that of a FIFO.
* **mutex, semaphore** — a task barges in between a wake and the poll of the
  woken future, a woken future is dropped, two releases meet one notification.
  Correct when the guards are exclusive (the permits conserved) and nobody
  sleeps beside a free lock without company that is awake.
* **rwlock** — two counts of the same guards that must agree, two events that
  must each be notified by the right guard.
* **barrier** — a released waiter is polled when the next generation is already
  arriving; a dropped waiter has arrived all the same.
* **once_cell** — a setter is foreign code that may fail, hang or be dropped,
  and the value is written through an `UnsafeCell` to which references are out.
* **channel** — items travel by two roads, notification and queue; futures that
  hold an item are dropped; handles come and go while items are in flight.
* **executor** — the only part with real threads: a waker may be called
  anywhere, and pushes to the thread-safe queue while the ticker looks at it.
  A runnable may be in either queue, in a listener's notification or in the
  hands of a thread, and tickers come and go with it.  Correct when a scheduled
  task has its runnable in exactly one of these places, and when no ticker
  sleeps beside a runnable, or beside a mainstream queue nobody listens to,
  unless somebody is awake to see to it.
* **examples** — the event of the channel, the event of the executor and the
  reactor's thread in one chain of wakeups, any link of which may be lost.

`PROJECT.json` lists these hazards with the source line of each and the
properties that watch it.

## 2. The modules

| module | models | as |
|---|---|---|
| `EventOps` | what an event does | operators on a record `[notified, waiting]`: no variables, no recursion, so that it can be proved about |
| `EventQueue` | what an event promises | a state machine of one variable with the operators of `EventOps`: the abstract specification |
| `EventList` | `event.rs` | the pointers, counters, wakers and the loop of `Inner::notify`; it implements `EventQueue` |
| `MCEventList` | | the counts for TLC |
| `ItemFlow` | what a channel promises | a state machine of the items that are sent, queued, handed to a future, received and lost, which knows no event and counts no handles: the abstract specification that `Channel` implements |
| `Mutex`, `Semaphore`, `RwLock`, `Barrier`, `OnceCell`, `Channel` | the file of that name | one state machine each, whose events are `EventOps` records |
| `Executor` | `executor.rs` | tasks, tickers and other threads around two queues and an `EventOps` event; what `async_task`, `AtomicWaker` and `ConcurrentQueue` do is modelled from their use |
| `TcpServer` | `tcp_server.rs`, `tcp_client.rs` | instances of `Executor` and `Channel`, each step one of either or of both at once |
| `EventOpsProofs` | | lemmas about the operators: types, order, listeners, tags |
| `EventListProofs`, `MutexProofs`, `RwLockProofs`, `OnceCellProofs`, `ChannelProofs`, `ExecutorProofs` | | theorems about the module of that name |
| `SemaphoreBarrierProofs` | | theorems about `Semaphore` and about an instance of `Barrier` |

### How state and actions correspond to the code

* **A step is a poll.**  There is one thread and nothing is preempted, so a
  call, a poll up to its next `await` and a drop are one action each.  A poll
  that finds its listener not notified changes nothing but the stored waker and
  is left out of the locks and the channel (`EventList` has it, `PollPending`).
  The exception is `Inner::notify`: it calls foreign wakers in its loop, so
  `EventList` takes one step per entry, with `borrowed` as the `RefCell` that
  is held meanwhile.
* **The event.**  The linked list of the code is `notified \o waiting`.  A
  notification is the sequence of tags that its `next_tag()` would produce; its
  length is `count()`.  `notify(usize::MAX)` is `WakeAll`, a notification of as
  many as there are entries.  `Event`, `EventListener` and `EventListenerRc`
  are one: they differ in how they refer to the event and pin the entry.
* **Counts.**  `IntoNotification` is the conversion of any integer type to a
  `usize`, here one of `UsizeValues` values: a negative number panics before
  the event is touched, a wide one is cut.
* **Tasks.**  In the locks a task is a future or the guard it became; `pc` is
  its place: idle, pending, holding (or setting).  The loop of `lock()` is an
  operator (`Acquire` or `Await`) that the first and the later polls share.
  A drop is an action wherever the program can drop a future or a guard.
* **The order in a guard's drop.**  `notify` runs before the `RefCell` borrow
  ends.  Both are in one action, because a waker does not run the task.
* **History variables.**  `queue`, `polled`, `woken` (`EventList`),
  `passed_over` (`RwLock`), `dropped` (`Barrier`), and `sent`, `delivered`,
  `lost`, `told`, `solo` (`Channel`) only record; no guard reads them, but
  that `MaxItems` bounds `sent`.
* **Barrier.**  The `u64` generation is abstracted to `current`, the waiters
  that arrived in the present one; the comparison with `local_gen` is
  membership.  It would take 2^64 generations for the difference to show.
* **Channel.**  Two `recv()` futures on one receiver handle behave like futures
  on two clones, which is how they are modelled.  A receiver cannot be dropped
  while its future exists: the future borrows it.
* **Executor.**  The main thread's steps are cut where another thread can see
  the difference: each of them touches the mainstream queue and the
  `AtomicWaker` at most once.  `Ticker::tick` is therefore several actions, and
  `at` says where it is: `begin` before the look into the thread's queue,
  `register` and `recheck` around the registration of its waker, `waiting`
  after `Poll::Pending`, `first` while the runnable from the mainstream queue
  runs with the listener still in the list, `last` while a runnable runs after
  which the tick ends.  `stack` has the tasks that are being polled, the
  innermost last: a task may call `try_tick()`.  The tags of the event are a
  task (its runnable) or `None`; at most one entry is notified at a time,
  as `notify(1)` is all the executor calls.
  * A *task* is `none`, `idle`, `scheduled`, `running`, or `rerun` (woken while
    it runs), which is what `async_task` promises of `Runnable`, `Waker` and
    `Task`; `cancelled` has those whose `Task` was dropped, `started` those
    whose future was polled and thus owns its `CallOnDrop` guard.  A task that
    is over may be spawned again, as another future under the same slab key.
  * *Other threads* wake tasks and drop their `Task`s; their scheduler call is
    two steps, `ThreadPush` and `ThreadNotify`.
  * *`Executor::drop`* is one action with its three parts: the loop that is to
    wake all tasks takes one waker, and the `Drain` that is dropped with it
    empties the slab; the drain loop stops when either queue is empty; and a
    started task that is dropped with the thread's queue runs its guard while
    `thread_state` is borrowed, which aborts the process
    (`executor = "aborted"`).
  * `direct` is a history variable, see `OnlyDirectTickStrands`.
* **TcpServer.**  The code of a task runs while the task is on top of
  `Ex!stack`; when an operation has to wait, the task is `parked` and can only
  return `Poll::Pending`.  An action of the server conjoins the actions of the
  components it calls: `Accept` is `Ch!CloneSender` and `Ex!Spawn`, `Send` is
  `Ch!Send` and, if that notified the logger's listener, `Ex!WakeTask`.  The
  server binds its listener anew for each connection, so that `Accept` resets
  the clients that are still in the backlog of the old one.
* **`Faulty...` definitions** are slips (a forgotten reset, a dropped guard, the
  wrong end of a queue) written before the definition they would replace.
  The specifications do not use them; putting one in place of the definition
  after it breaks the property `PROJECT.json` pairs it with, which shows that
  the property does depend on that code.

## 3. The runs

| run | instance | what it shows |
|---|---|---|
| `event_list` | 3 listeners, 2 wakers, 2 tags, counts -1, 0, 1, 2, 4, 8, 10 with a `usize` of 8 values | `LinksFollowArrival`: the pointers are one list in arrival order. `NotifiedArePrefix`: the documented meaning of `notified` and `first`, between the rounds of the loop too. `LatestWakerIsWoken`. `ImplementsFifo`: every step is a step of `EventQueue` or a stutter, and each call, with its arguments, is that call of the queue |
| `mutex` | 4 tasks | `MutualExclusion`; `PendingAreListening`: dropped and finished futures leave no entry; `NoLostWakeup`; `EverySleeperIsWoken` (liveness) |
| `semaphore` | 5 tasks, 2 permits | `PermitsConserved`; `SleeperIsReachable`: a sleeper always has a woken companion or a guard that is out; `EverySleeperIsWoken` |
| `semaphore_two_releases` | 4 tasks, 2 permits | **violated**: `NoLostWakeup`, see below |
| `rwlock` | 3 readers, 2 writers | `WriterIsAlone`; `ReadersAreCounted`: the `readers` cell, the borrow count and the guards agree; `OnlyWriteUnlockStrands`: before a write guard's drop has left somebody asleep, nobody sleeps beside a free lock without company |
| `rwlock_stranded` | 2 readers, 2 writers | **violated**: `NoStrandedWaiter`, see below |
| `barrier` | 4 tasks, N = 3 | `CountIsArrivals`; `ReleasedAreWoken`: after the barrier opened all its waiters hold a notification, whatever newcomers insert; `ReleasedReturn` (liveness) |
| `once_cell` | 4 tasks | `OneSetter`; `NoLostWakeup`; `ReadyWakesEveryone` on both events; `ValueIsKept` (of a step: a value is replaced only when no future exists); `EverySleeperIsWoken` |
| `channel` | 2 senders, 3 receivers, 3 items | `ImplementsItemFlow`: every step is a step of `ItemFlow` or a stutter, so that an item goes to one receiver, only a dropped future loses one, a send needs both sides to have a handle, and "closed" is reported when no sender and no queued item is left; `EveryItemInOnePlace`: the items sent are those in the queue, in a note, delivered and lost, each in one place and once; `ClosedWakesEveryone`; `ClosedMeansDrained`; `OneReceiverIsServed`: with one receiver items come in order and none is left in the queue beside a sleeper; `ClosedRecvResolves` (liveness) |
| `executor` | 2 tasks, 1 `run()`, 2 `tick()`s, 1 other thread | `RunnableInOnePlace`: a scheduled task has exactly one runnable, in a queue, a notification or a hand; `MainstreamIsWatched`: the mainstream queue has one listener at most, which never sleeps beside a runnable without being woken; `OnlyDirectTickStrands`: see below |
| `tcp_server` | 2 clients | `EveryConnectionIsLogged` (liveness): every client that connects is accepted and its message is in the log, in order and once, or the listener was closed on it |
| `channel_stranded` | 1 sender, 2 receivers | **violated**: `NoStrandedItem`, see below |

### Bounds

The instances are small in the number of actors only; each actor locks,
sleeps, gives up and returns for ever, so the runs have no bound on their
length.  The one counter that is capped is `Channel`'s `sent` (`MaxItems`).
Three listeners let an entry be unlinked at the head, in the middle and at the
tail, and a count of 4 asks for more than there are.  A lost wakeup takes a
holder, a woken future, one that barges in and one left asleep: four tasks;
five with two permits, so that two releases can meet three waiters.  The
barrier has one task more than it waits for, so that a generation overlaps the
next.  Three receivers let a notification be passed on past a second one; three
items put one in the queue, one in a notification and one with a receiver.
The counts 8 and 10 are cut to 0 and 2 by the `usize` of eight values.
The executor needs two tasks (one that runs while the other is scheduled), a
runner and two more tickers (one that leaves as the mainstream listener, one
that is notified directly and one that is left), and one other thread: what
threads share is a queue and a waker, and each of them only pushes and wakes.
Both kinds of thread identity are initial states.  Two clients suffice for the
server to have one connection served while the next is accepted, and one reset
in the backlog; three exceed what can be explored.  `MaxItems` is the number of
connections there, each of which sends once: it never stops a `send`.
Deadlock is checked everywhere but in `Channel`, where all handles may be
gone, and `Executor`, which may be dropped; a state in which only drops are possible is no deadlock, which is why
stranding is stated as a property.

### Fairness

`Spec` has none; the liveness properties are checked of `FairSpec`, whose weak
fairness is of three kinds.  *A future whose waker was invoked is polled*
(`LockAgain`, `AcquireAgain`, `WaitAgain`, `InitAgain`, `RecvAgain`): that is
what an executor does.  *A guard is dropped* (`Unlock`, `Release`) and *a setter
finishes, fails or is dropped* (`SetterOk \/ SetterFails`): that is the
program's part, and without it a lock held for ever would refute any liveness.
Nothing makes a sleeping future give up, a task come back or a sender send.
`EverySleeperIsWoken` says that a sleeper is woken, not that it gets the lock:
`try_lock()` and a first poll may always barge in, and a woken future that
finds the lock taken goes to the tail of the list.  Futures can starve in this
crate, and no property claims otherwise.

`TcpServer`'s `FairSpec` is about `block_on` and the world around it.  The main
thread goes on with a poll until it returns (`Tick`, `TaskStep`), and polls
again when a waker was invoked (`PollWoken`, which asks for the waker: a lost
wakeup is not repaired by a spurious poll).  `Accept` has strong fairness: each
poll of `run()` polls its own future first, but between two polls a ticker has
the thread.  A thread that has pushed a runnable wakes (`Schedule`), an I/O
operation that can be done is done (`IoReady`), and a client that has connected
writes.  Nobody has to connect.

### What the violated runs show

1. **Semaphore** (`semaphore_two_releases`).  Two guards are dropped before the
   first woken waiter is polled.  The second `notify(1)` does nothing, as one
   entry is notified already; the first waiter takes one permit and the second
   sleeps beside the other.  It is woken when some guard is dropped again (the
   run `semaphore` shows that it is), not when the permit is free.  It takes
   two permits: `OnePermitSuffices` proves `NoLostWakeup` of a semaphore of one.
2. **RwLock** (`rwlock_stranded`).  The drop of a write guard notifies one
   listener of `no_writers`, where only readers wait.  A second writer, which
   waits on `no_readers`, is not woken by the drop of the first; and of several
   readers one is woken, which lets the others in but wakes none.
   `OnlyWriteUnlockStrands` shows that this drop is the only culprit.
3. **Channel** (`channel_stranded`).  Two receivers sleep and two items are
   sent before the first is polled: the second item goes to the queue and wakes
   nobody.  `OneReceiverIsServed` shows that a single receiver is safe.

### What the executor does and does not promise

`OnlyDirectTickStrands` names the one hole in the executor's hand-over.  The
property one would like is `NobodyIsStranded`: no ticker sleeps beside a task
in the thread's queue, or while nobody listens to the mainstream queue, without
somebody being notified.  It fails when a `tick()` future that is not the
mainstream listener is handed a runnable directly.  While it was the notified
one, further `notify(1)` calls did nothing, among them the one in
`Ticker::drop` by which a leaving mainstream ticker asks for a successor; the
direct `tick()` runs its runnable and returns, without the
`notify(1)` that a pop from the thread's queue is followed by.  A `run()` is not
concerned: it loops and looks again.  `OnlyDirectTickStrands` says that this is
the only way, and it is proved; so is `RunsStrandNobody`, that a program whose
tickers are all inside `run()` strands nobody.  The repository promises nothing
of several `tick()` futures at once, so that this is no finding.

`DropExecutor` shows what becomes of the tasks of a dropped executor: one of
them is woken, all wakers leave the slab, the runnables in the mainstream queue
may stay.  Of the states after it, `RunnableInOnePlace` says where the runnables
are, and `TasksAreLookedAfter` that a task that was cancelled still has one or
is being polled.  That someone will run it is not promised, and not true.

Two more facts of the channel are modelled and are no findings, as nothing in
the repository says otherwise: an item in the notification of a `recv()` future
that is dropped may be lost when no other entry can take it (`lost`), and
with several receivers a queued item can be delivered after a younger one.

## 4. The proofs

Every invariant and every action property that a passing run checks is the
statement of a theorem, and so are the refinements of `EventQueue` by
`EventList` and of `ItemFlow` by `Channel`.  Six theorems state what no run
lists: `FirstComeFirstServed`, `MutexIsSemaphore`, `OnePermitSuffices`,
`ClosedExactly`, `RunsStrandNobody` and `CancelledTasksEnd`.
All hold for every set of tasks, handles, listeners and so on, finite or not.
The assumptions are those of the modules: `Permits` and `MaxItems` are natural
numbers, `UsizeValues` is a positive one and `Counts` are integers; readers and
writers, and the two kinds of tickers, are different; `NULL`, `None` and `Empty`
are no listener, task or thread, and the executor's thread is none of the other
threads.  `OnePermitSuffices` and `RunsStrandNobody` assume what their names say.

* `EventOpsProofs`: what each operator of `EventOps` does to an event, for every
  set of listeners and tags.
  * Types, lengths and order.  The lemmas that carry the weight of the lost
    wakeups are `NotifyWakesSomeone` (a notification of one or more leaves
    nobody asleep unless somebody is awake, with either flag),
    `CancelKeepsSomeoneAwake` (if nobody sleeps without company before a
    listener is dropped, nobody does afterwards), `WakeAllWakesEveryone` and
    `CancelFlags` (what a dropped listener passes on keeps its flag).
  * Listeners.  `ListenersAre` speaks of two sequences; `ListHolds` says the same
    of positions in the one list that they are (`ListenersInList`), where a
    notification moves nobody and a removal is one gap.  From it follow
    `InsertListeners`, `TakeListeners`, `CancelListeners` and the others.
  * Tags.  `NotifyTag`, `TakeTag` and `CancelTags` say which tags are in the notes
    afterwards, each once: a dropped listener loses its own tag at most.
  * Notifications once given: `TakeKeepsNotified`, `CancelKeepsNotified`.
  * Sequences without duplicates (`AppendElement`, `TailElements`,
    `SplitElements`), for the queues.
* `EventListProofs`, whose invariant `ListInv` is `TypeOK`'s part about the list
  with `LinksFollowArrival` and `NotifiedArePrefix`.
  * `LinksAreOneList` and `NotifiedEntriesLead`: by `ListInv`.  The history
    variable `queue` is the list the pointers are to be; insertion at the tail
    and removal of any entry are shown to do to the pointers what `Append` and
    `RemoveAt` do to `queue`, and the next round of the loop of `Inner::notify`
    to move `first` by one.
  * `TypeCorrect`: with `CallInv` (no tags are left over between two calls).
  * `LatestWaker`: by `WakerInv`, which relates the waker of the last poll to the
    one in the entry, for entries that were removed or not polled too.
  * `ListImplementsFifo` (`ImplementsFifo`).  The mapping is `FifoState`: while a
    loop runs, the entries that it will still reach count as notified, with the
    tags it will hand them.  So a call of `notify` acts on the queue when it
    decides how many tags its loop may hand out, the rounds of the loop are
    stutters, and every other call, which finds no loop running, does to the
    queue what that call of `EventQueue` does (`CallsAreCalls`).
  * `FirstComeFirstServed`, an action property from `ListInv`: no step moves one
    listener past another that stays, or notifies the later one first
    (`NobodyOvertakes`), and none changes what a listener was notified with
    (`NotesAreFinal`).  An insertion is at the tail and a removal one gap
    (`UnlinkKeepsOrder`); that the notified ones lead is `ListInv` after the
    step; a round of the loop writes to `first`, which was not notified.
* `MutexProofs`
  * `TypeCorrect`: inductive as it stands; that no note is `additional` needs
    that `LockDrop` passes a plain note on as a plain one.
  * `Exclusion` (`MutualExclusion`): inductive together with the type of `pc`.
    Its equivalence of `borrowed` and "a guard exists" is the strengthening that
    mutual exclusion by itself would need.
  * `WakeupIsKept` (`NoLostWakeup`): inductive together with `TypeOK`.  Every
    step that uses a note up without passing it on ends with the mutex held;
    `Unlock` is by `WakeWakesSomeone`, and `LockDrop` of a free mutex by
    `CancelKeepsSomeoneAwake`.
  * `NoEntryLeftBehind` (`PendingAreListening`): by the lemmas on listeners.
  * `MutexIsSemaphore`: every behaviour of the mutex is one of `Semaphore` with one
    permit, which is there when the mutex is not borrowed, and a guard for each
    guard.  The two files were written separately and have the same protocol.
    The step that is not immediate is `Unlock`: the permit it returns was taken
    (`MutualExclusion`).
* `SemaphoreBarrierProofs`, about two modules: the barrier is an instance there
  (`Gate`), with variables of its own.
  * `TypeCorrect`, as for the mutex.
  * `Conservation` (`PermitsConserved`): the induction is over `Conserved`, which
    adds that finitely many guards are out; with infinitely many tasks the
    cardinality would say nothing otherwise.
  * `Reachability` (`SleeperIsReachable`): inductive together with `TypeOK` and
    `Conserved`, which gives `permits <= Permits`.  It is what remains of the
    `NoLostWakeup` that the code violates.  `OnePermitSuffices` is what it says
    when `Permits = 1`: a free permit means that no guard is out, and so the
    sleeper's company is a woken task.
  * `BarrierCounts` and `BarrierReleases` (`CountIsArrivals`,
    `ReleasedAreWoken`), with `BarrierTypeCorrect`: by `GateInv`, which adds that
    the listeners are those of the pending `wait()`s (else the leader would not
    reach them all) and that the waiters of a generation are finitely many.
    That a waiter whose generation is open finds `count < n`, and so waits
    again, is part of the argument; that n is a number is not.
* `RwLockProofs`
  * `TypeCorrect`, `Exclusion` (`WriterIsAlone`) and `Counting`
    (`ReadersAreCounted`): by `Guards`, one invariant for both counts and both
    kinds of guard.  None of the three is inductive by itself: a write guard's
    drop may reset `exclusive` because it is the only one, and a read guard's
    drop may count down because it was counted.
  * `OnlyWriteUnlocksStrand` (`OnlyWriteUnlockStrands`): by `StrandInv`, which
    says more of readers, namely that none sleeps unless a write guard is out or
    one has left somebody asleep.
* `OnceCellProofs`
  * `TypeCorrect`: `passive` holds notes with `additional` only (`SetterOk` and
    `CancelFlags`).
  * `SetterIsAlone` (`OneSetter`): inductive together with `TypeOK`.
  * `EveryoneIsWoken` (`ReadyWakesEveryone`): inductive together with `TypeOK`.
  * `WakeupIsKept` (`NoLostWakeup`): needs `ReadyWakesEveryone` for `TakeValue`,
    the step from a full cell to an empty one that nobody writes to.
  * `KeptValue` (`ValueIsKept`), an action property, from `OneSetter`: a setter
    that ends has found no value.
* `ChannelProofs`
  * `ClosedExactly` and `TypeCorrect`: by `HandlesInv`, which adds the finiteness of
    the two sets of handles to `ClosedByLastHandle` (the two counts are those of
    the handles, and `closed` says that one is zero).
  * `NobodySleepsClosed` (`ClosedWakesEveryone`) and `DrainedBeforeTold`
    (`ClosedMeansDrained`): inductive together with the type of the event.
  * `NoItemTwiceOrGone` (`EveryItemInOnePlace`): the queue, the notes, the
    deliveries and the losses are a partition of the items sent.  Each operation
    of the event is shown to move one item between two of them (`NotifyItem`,
    `TakeItem`, `CancelItem`, from the lemmas on tags).
  * `ChannelImplementsFlow` (`ImplementsItemFlow`).  The mapping takes the items of
    `data` as queued and the tags of the notes as handed.  `FlowStep` has one
    step per action: by `HandlesInv` a call that finds the channel open, or
    closed, is one that `ItemFlow` allows; by the partition an item that leaves
    the queue or a note is nowhere else; and a pending `recv()` has a receiver
    that is alive (`PendingAreAlive`).
  * `OneReceiverInOrder` (`OneReceiverIsServed`): by `SoloInv`.  The event of a
    channel with one receiver `o` is empty, or has the one entry of `o`, woken or
    asleep, and asleep only beside an empty queue; what was delivered, what is in
    the note and what is queued are in the order of sending.
* `ExecutorProofs`, for every set of tasks, tickers and other threads, both
  thread identities, and with `Executor::drop`:
  * `TypeCorrect`: inductive with the fact that a thread about to push has a
    runnable in its hand.
  * `RunnablesAreInOnePlace` (`RunnableInOnePlace`): by `PlacesInv`, which says the
    same with sets in place of counts: the tags in the notes, the two queues and
    the hands are disjoint, have no duplicates, and together are the scheduled
    tasks; the stack has the running ones.  One lemma for each way into a place
    (`PutNote`, `PutLocal`, `PutMain`) and out of it (`TakeNote`, `PopLocal`,
    `PopMain`), and then each step is a composition of them.  A hand is empty
    unless its thread is about to push.
  * `WakeupIsKept` (`MainstreamIsWatched`): by `MainstreamInv`, which adds where
    the waker is: a ticker that looks into the mainstream queue is its listener
    (`LookersListen`), and from `Register` to its next poll the `AtomicWaker`
    holds its waker or has invoked it (`WakerIsKept`).  A push between the
    second look and the sleep is then followed by a wake that finds it.
  * `OnlyDirectTicksStrand` (`OnlyDirectTickStrands`): by `StrandInv`.  The
    property speaks of states in which no ticker has the thread; in between,
    `SomebodyAttends` says that either the event is roused or the thread's queue
    empty and the mainstream queue listened to, or the one ticker that has the
    thread will see to it: it is about to look, or ends as a runner or as the
    mainstream ticker, whose drop notifies.  `LastIsRoused` covers the ticks
    that end without a word.
  * `RunsStrandNobody`: with no `tick()` futures nothing sets `direct`
    (`NoDirectTicks`), the exception in `OnlyDirectTickStrands`.
  * `CancelledTasksEnd` (`TasksAreLookedAfter`): a task that was cancelled is
    scheduled or being polled, never idle, so that its end waits for a ticker
    and for no waker; and while the executor lives, the slab has the waker of
    every task whose future exists.  By `LifeInv`, which adds that a task which
    waits has started, and so has its `CallOnDrop` guard; that only scheduled
    tasks are run is `PlacesInv`.  An executor whose drop panicked is excepted.

Only model-checked: the liveness properties (`EverySleeperIsWoken` of three
modules, `ReleasedReturn`, `ClosedRecvResolves` and `EveryConnectionIsLogged`),
as liveness under fairness and `ENABLED` are out of the prover's reach, and the
composition `TcpServer`, whose one property is of that kind.  Induction over
data is out of reach as well, but nothing here needs it: no module uses a
RECURSIVE operator, and the sequences are reasoned about by their elements.
The violated properties are refuted by TLC, of course, and not proved.

Only proved: the six theorems named above.  Before the proof, TLC confirmed
each on an instance of the size of that component's run.

## 5. What is not modelled

* A ticker that is polled inside a task of the same executor, and a task that
  wakes another one while its future is destroyed inside the scheduler
  function: both borrow `thread_state` twice and panic.
* What is done with an executor after its drop: a waker that is called then
  uses a `ThreadState` that was destroyed.
* A failed push to the mainstream queue: the queue is unbounded and is never
  closed.
* Starvation: of `run()`'s own future by tasks that always have work, and of
  the mainstream queue by a thread's queue that is never empty.  The code
  promises no fairness between these.
* The data behind the guards, `get_mut`, `into_inner`, `Debug`: they need the
  object exclusively or change nothing.
* The overflow check of the `readers` cell, out of reach of a program's memory.
* Wakers that use the very event that calls them: they would find the `RefCell`
  borrowed and panic.
* Of the examples: the values that are sent (the shared counter, the product
  and its overflow, the response that the client prints) and I/O errors, which
  `unwrap()` turns into the end of the process.
* `lib.rs`, `lock/mod.rs` (re-exports, tests) and the comparisons: HTTP servers
  on this and other runtimes whose logic lies in `hyper` and those runtimes.

## 6. Plan

The model covers every part of the crate that changes state, and every safety
property that the runs check is proved.  What is left:

1. `TcpServer`: a safety invariant of the composition, how many connections are
   in the backlog, in a task, in the channel and in the log, which would be the
   inductive part of `EveryConnectionIsLogged`.
2. `Executor`: what `DropExecutor` leaves in the mainstream queue, as a property
   of the states after it.
3. Refinements: the once_cell's `active` and `passive` events as instances of
   `EventQueue`.
