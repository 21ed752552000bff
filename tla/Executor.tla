------------------------------- MODULE Executor -------------------------------
(***************************************************************************)
(* The executor of src/src/executor.rs.  Its main thread, Origin, runs the *)
(* program, the tickers (the runner inside run(), or a tick() future) and  *)
(* the tasks; the other threads only wake tasks.  Whatever the main thread *)
(* shares with them, the mainstream queue and its AtomicWaker, it touches  *)
(* at most once per step; the rest of a step is private to it.             *)
(*                                                                         *)
(* A task is what async_task makes of a future.  A task that is over may   *)
(* be spawned again: another future that gets the vacant key of the slab.  *)
(* A ticker is not polled from inside a task of the same executor.         *)
(*                                                                         *)
(* A definition called Faulty... is a slip in the definition that follows  *)
(* it, for the properties to catch; the specification does not use it.     *)
(***************************************************************************)
EXTENDS EventOps, FiniteSets

CONSTANTS Tasks,
          Runners,     \* the tickers of run()
          Ticks,       \* the tickers of tick(), gone after one tick
          Origin,      \* the thread that owns the executor
          Threads,     \* the other threads
          None

ASSUME NoneAssumption == None \notin Tasks \cup Runners \cup Ticks \cup Threads \cup {Origin}
ASSUME ThreadsAssumption == Origin \notin Threads
ASSUME TickersAssumption == Runners \cap Ticks = {}

Tickers == Runners \cup Ticks

VARIABLES
    \* State
    task_queue,          \* the mainstream queue
    mainstream_waker,    \* the ticker whose waker is registered, or None
    thread_id, origin_thread,
    \* ThreadState
    local_queue,         \* its task_queue
    thread_waker,        \* the event, whose tags are runnables or None
    active,              \* the tasks whose waker is in the slab
    is_mainstream_listening,
    \* the tickers: `at` is where tick() is, `woken` those whose waker the
    \* AtomicWaker has invoked since their last poll began
    is_mainstream, at, woken,
    \* the tasks; `stack` has those that are being polled, innermost last
    st, started, cancelled, stack,
    \* the other threads, and the runnable each is about to push
    phase, hand,
    executor,            \* "alive", "dropped" or "aborted"
    \* history
    direct               \* a tick() future that does not listen to the
                         \* mainstream queue has been handed a runnable

ids         == <<thread_id, origin_thread>>
mainstream  == <<task_queue, mainstream_waker>>
threadState == <<local_queue, thread_waker, active, is_mainstream_listening>>
tickers     == <<is_mainstream, at, woken>>
tasks       == <<st, started, cancelled, stack>>
threads     == <<phase, hand>>
vars == <<ids, mainstream, threadState, tickers, tasks, threads, executor, direct>>

-----------------------------------------------------------------------------
(* The address of a thread-local variable: a value of its own per thread. *)
StdThreadId(x) == x

NoThreadId(x) == None

(* ThreadId::id of the executor's getter, whatever references and boxes it   *)
(* is reached through.                                                       *)
Id(getter, x) == IF getter = "StdThreadId" THEN StdThreadId(x) ELSE NoThreadId(x)

(* DefaultThreadId is the one or the other, as the crate is built. *)
DefaultThreadId == {"StdThreadId", "NoThreadId"}

(* The test of the scheduler function, on thread x. *)
SameThread(x) ==
    /\ origin_thread # None /\ Id(thread_id, x) # None
    /\ origin_thread = Id(thread_id, x)

(* Executor::with_thread_id *)
Init ==
    /\ thread_id \in DefaultThreadId /\ origin_thread = Id(thread_id, Origin)
    /\ task_queue = <<>> /\ mainstream_waker = None
    /\ local_queue = <<>> /\ thread_waker = NewEvent
    /\ active = {} /\ is_mainstream_listening = FALSE
    /\ is_mainstream = {} /\ at = [k \in Tickers |-> "none"] /\ woken = {}
    /\ st = [t \in Tasks |-> "none"] /\ started = {} /\ cancelled = {} /\ stack = <<>>
    /\ phase = [x \in Threads |-> "idle"] /\ hand = [x \in Threads |-> None]
    /\ executor = "alive"
    /\ direct = FALSE

(* A ticker has the main thread while it is polled and polls no task. *)
TickerRuns(k) ==
    \/ at[k] \in {"begin", "register", "recheck"}
    \/ at[k] \in {"first", "last"} /\ stack = <<>>

(* The code of the program, or of the task on top of the stack, has it. *)
ProgramRuns == executor = "alive" /\ \A k \in Tickers : ~TickerRuns(k)

(* Executor::is_empty; a runnable that a listener holds is in neither queue. *)
IsEmpty == local_queue = <<>> /\ task_queue = <<>>

-----------------------------------------------------------------------------
(* AtomicWaker::wake and take. *)
WakeMainstream ==
    /\ woken' = woken \cup ({mainstream_waker} \ {None})
    /\ mainstream_waker' = None

(* thread_waker.notify(1.tag_with(|| None)), with the event in state e. *)
FaultyNotifyNone(e) == e
NotifyNone(e) == Notify(e, <<None>>, FALSE)

FaultySchedule(t) ==
    IF SameThread(Origin)
    THEN /\ thread_waker' = Notify(thread_waker, <<t>>, FALSE)
         /\ local_queue' = Append(local_queue, t)
         /\ UNCHANGED <<mainstream, woken>>
    ELSE /\ task_queue' = Append(task_queue, t)
         /\ WakeMainstream
         /\ UNCHANGED <<local_queue, thread_waker>>

(* The scheduler function on the main thread: straight to a listener, else   *)
(* to the thread's queue; without thread identities to the mainstream queue. *)
Schedule(t) ==
    IF SameThread(Origin)
    THEN /\ thread_waker' = Notify(thread_waker, <<t>>, FALSE)
         /\ local_queue' = IF Reach(thread_waker, 1, FALSE) = 1
                           THEN local_queue ELSE Append(local_queue, t)
         /\ UNCHANGED <<mainstream, woken>>
    ELSE /\ task_queue' = Append(task_queue, t)
         /\ WakeMainstream
         /\ UNCHANGED <<local_queue, thread_waker>>

(* The future of t is dropped, and with it the CallOnDrop guard, which only  *)
(* a future that was polled has: other wakers stay in the slab.              *)
Destroy(t) ==
    /\ st' = [st EXCEPT ![t] = "none"]
    /\ started' = started \ {t} /\ cancelled' = cancelled \ {t}
    /\ active' = IF t \in started THEN active \ {t} ELSE active

(* Runnable::run up to the future's own code. *)
Run(t) ==
    \/ /\ t \in cancelled
       /\ Destroy(t)
       /\ UNCHANGED stack
    \/ /\ t \notin cancelled
       /\ st' = [st EXCEPT ![t] = "running"]
       /\ started' = started \cup {t}
       /\ stack' = Append(stack, t)
       /\ UNCHANGED <<cancelled, active>>

-----------------------------------------------------------------------------
(* Executor::spawn *)
Spawn(t) ==
    /\ ProgramRuns
    /\ st[t] = "none" /\ t \notin active
    /\ active' = active \cup {t}
    /\ st' = [st EXCEPT ![t] = "scheduled"]
    /\ Schedule(t)
    /\ UNCHANGED <<ids, is_mainstream_listening, is_mainstream, at, started, cancelled,
                   stack, threads, executor, direct>>

(* Waker::wake on the main thread; a running task is scheduled by run().  *)
WakeTask(t) ==
    /\ ProgramRuns
    /\ \/ /\ st[t] = "idle"
          /\ st' = [st EXCEPT ![t] = "scheduled"]
          /\ Schedule(t)
       \/ /\ st[t] = "running"
          /\ st' = [st EXCEPT ![t] = "rerun"]
          /\ UNCHANGED <<mainstream, local_queue, thread_waker, woken>>
    /\ UNCHANGED <<ids, active, is_mainstream_listening, is_mainstream, at, started,
                   cancelled, stack, threads, executor, direct>>

(* Task::drop on the main thread: the executor is to drop the future. *)
CancelTask(t) ==
    /\ ProgramRuns
    /\ st[t] # "none" /\ t \notin cancelled
    /\ cancelled' = cancelled \cup {t}
    /\ IF st[t] = "idle"
       THEN st' = [st EXCEPT ![t] = "scheduled"] /\ Schedule(t)
       ELSE UNCHANGED <<st, mainstream, local_queue, thread_waker, woken>>
    /\ UNCHANGED <<ids, active, is_mainstream_listening, is_mainstream, at, started,
                   stack, threads, executor, direct>>

Pop == stack' = SubSeq(stack, 1, Len(stack) - 1)

(* The future of the task on top returns Poll::Ready. *)
Complete(t) ==
    /\ ProgramRuns /\ stack # <<>> /\ t = stack[Len(stack)]
    /\ Pop
    /\ Destroy(t)
    /\ UNCHANGED <<ids, mainstream, local_queue, thread_waker, is_mainstream_listening,
                   tickers, threads, executor, direct>>

(* It returns Poll::Pending; run() drops the future of a cancelled task and  *)
(* schedules one that was woken meanwhile.                                   *)
Suspend(t) ==
    /\ ProgramRuns /\ stack # <<>> /\ t = stack[Len(stack)]
    /\ Pop
    /\ \/ /\ t \in cancelled
          /\ Destroy(t)
          /\ UNCHANGED <<mainstream, local_queue, thread_waker, woken>>
       \/ /\ t \notin cancelled /\ st[t] = "running"
          /\ st' = [st EXCEPT ![t] = "idle"]
          /\ UNCHANGED <<mainstream, local_queue, thread_waker, woken, active,
                         started, cancelled>>
       \/ /\ t \notin cancelled /\ st[t] = "rerun"
          /\ st' = [st EXCEPT ![t] = "scheduled"]
          /\ Schedule(t)
          /\ UNCHANGED <<active, started, cancelled>>
    /\ UNCHANGED <<ids, is_mainstream_listening, is_mainstream, at, threads, executor, direct>>

(* Pop from the thread's queue, "Wake up another runner in case we take a    *)
(* while.", and run.                                                         *)
RunLocal ==
    /\ local_queue # <<>>
    /\ local_queue' = Tail(local_queue)
    /\ thread_waker' = NotifyNone(thread_waker)
    /\ Run(Head(local_queue))

(* Pop from the mainstream queue and run. *)
RunMainstream ==
    /\ task_queue # <<>>
    /\ task_queue' = Tail(task_queue)
    /\ Run(Head(task_queue))

(* Executor::try_tick; with both queues empty it does nothing. *)
TryTick ==
    /\ ProgramRuns
    /\ \/ RunLocal /\ UNCHANGED <<mainstream, woken>>
       \/ /\ local_queue = <<>>
          /\ RunMainstream /\ WakeMainstream
          /\ UNCHANGED <<local_queue, thread_waker>>
    /\ UNCHANGED <<ids, is_mainstream_listening, is_mainstream, at, threads, executor, direct>>

-----------------------------------------------------------------------------
(* The first poll of tick(), or of run() with its first tick. *)
PollFirst(k) ==
    /\ ProgramRuns /\ stack = <<>>
    /\ at[k] = "none"
    /\ at' = [at EXCEPT ![k] = "begin"]
    /\ UNCHANGED <<ids, mainstream, threadState, is_mainstream, woken, tasks, threads,
                   executor, direct>>

(* The loop of Ticker::tick finds a task in the thread's queue. *)
TickLocal(k) ==
    /\ at[k] = "begin"
    /\ RunLocal
    /\ at' = [at EXCEPT ![k] = "last"]
    /\ UNCHANGED <<ids, mainstream, is_mainstream_listening, is_mainstream, woken,
                   threads, executor, direct>>

(* Or it does not: the listener is polled, which inserts it, and the ticker  *)
(* that has the mainstream queue looks into that.                            *)
TickWait(k) ==
    /\ at[k] = "begin" /\ local_queue = <<>>
    /\ thread_waker' = Insert(thread_waker, k)
    /\ is_mainstream_listening' = TRUE
    /\ is_mainstream' = IF is_mainstream_listening THEN is_mainstream
                                                   ELSE is_mainstream \cup {k}
    /\ \/ /\ k \in is_mainstream' /\ RunMainstream
          /\ at' = [at EXCEPT ![k] = "first"]
       \/ /\ k \in is_mainstream' /\ task_queue = <<>>
          /\ at' = [at EXCEPT ![k] = "register"]
          /\ UNCHANGED <<task_queue, active, tasks>>
       \/ /\ k \notin is_mainstream'
          /\ at' = [at EXCEPT ![k] = "waiting"]
          /\ UNCHANGED <<task_queue, active, tasks>>
    /\ UNCHANGED <<ids, mainstream_waker, local_queue, woken, threads, executor, direct>>

(* "Register our interest in the mainstream queue." *)
Register(k) ==
    /\ at[k] = "register"
    /\ mainstream_waker' = k
    /\ at' = [at EXCEPT ![k] = "recheck"]
    /\ UNCHANGED <<ids, task_queue, threadState, is_mainstream, woken, tasks, threads,
                   executor, direct>>

FaultyRecheck(k) ==
    /\ at[k] = "recheck"
    /\ at' = [at EXCEPT ![k] = "waiting"]
    /\ UNCHANGED <<ids, mainstream, threadState, is_mainstream, woken, tasks, threads,
                   executor, direct>>

(* The second look into the mainstream queue, then "Begin the wait." *)
Recheck(k) ==
    /\ at[k] = "recheck"
    /\ \/ /\ RunMainstream
          /\ mainstream_waker' = None
          /\ at' = [at EXCEPT ![k] = "first"]
       \/ /\ task_queue = <<>>
          /\ at' = [at EXCEPT ![k] = "waiting"]
          /\ UNCHANGED <<mainstream, active, tasks>>
    /\ UNCHANGED <<ids, local_queue, thread_waker, is_mainstream_listening,
                   is_mainstream, woken, threads, executor, direct>>

(* A later poll, whether or not the ticker was woken: its waker may be that  *)
(* of other futures too.  The listener is polled first.                      *)
PollAgain(k) ==
    /\ ProgramRuns /\ stack = <<>>
    /\ at[k] = "waiting"
    /\ woken' = woken \ {k}
    /\ \/ /\ IsNotified(thread_waker, k) /\ Note(thread_waker, k).tag = None
          /\ thread_waker' = Take(thread_waker, k)
          /\ at' = [at EXCEPT ![k] = "begin"]
          /\ UNCHANGED <<task_queue, active, tasks, direct>>
       \/ /\ IsNotified(thread_waker, k) /\ Note(thread_waker, k).tag # None
          /\ thread_waker' = Take(thread_waker, k)
          /\ Run(Note(thread_waker, k).tag)
          /\ at' = [at EXCEPT ![k] = "last"]
          /\ direct' = (direct \/ k \in Ticks \ is_mainstream)
          /\ UNCHANGED task_queue
       \/ /\ ~IsNotified(thread_waker, k) /\ k \in is_mainstream
          /\ RunMainstream
          /\ at' = [at EXCEPT ![k] = "first"]
          /\ UNCHANGED <<thread_waker, direct>>
       \/ /\ ~IsNotified(thread_waker, k) /\ k \in is_mainstream
          /\ task_queue = <<>>
          /\ at' = [at EXCEPT ![k] = "register"]
          /\ UNCHANGED <<task_queue, thread_waker, active, tasks, direct>>
       \/ /\ ~IsNotified(thread_waker, k) /\ k \notin is_mainstream
          /\ UNCHANGED <<at, task_queue, thread_waker, active, tasks, direct>>
    /\ UNCHANGED <<ids, mainstream_waker, local_queue, is_mainstream_listening,
                   is_mainstream, threads, executor>>

-----------------------------------------------------------------------------
(* Ticker::drop, with the event in state e. *)
DropTicker(k, e) ==
    /\ is_mainstream' = is_mainstream \ {k} /\ woken' = woken \ {k}
    /\ at' = [at EXCEPT ![k] = "none"]
    /\ IF k \in is_mainstream
       THEN /\ mainstream_waker' = None
            /\ is_mainstream_listening' = FALSE
            /\ thread_waker' = NotifyNone(e)
       ELSE /\ thread_waker' = e
            /\ UNCHANGED <<mainstream_waker, is_mainstream_listening>>

(* tick() returns: run() calls it again, a tick() future is over. *)
EndTick(k, e) ==
    IF k \in Runners
    THEN /\ at' = [at EXCEPT ![k] = "begin"]
         /\ thread_waker' = e
         /\ UNCHANGED <<mainstream_waker, is_mainstream_listening, is_mainstream, woken>>
    ELSE DropTicker(k, e)

(* A runnable from the mainstream queue has been run, while the listener was *)
(* in the list: "Poll the listener to see if there are more runnables."      *)
AfterFirst(k) ==
    /\ at[k] = "first" /\ stack = <<>>
    /\ \/ /\ IsNotified(thread_waker, k) /\ Note(thread_waker, k).tag # None
          /\ thread_waker' = Take(thread_waker, k)
          /\ Run(Note(thread_waker, k).tag)
          /\ at' = [at EXCEPT ![k] = "last"]
          /\ UNCHANGED <<mainstream_waker, is_mainstream_listening, is_mainstream, woken>>
       \/ /\ IsNotified(thread_waker, k) /\ Note(thread_waker, k).tag = None
          /\ EndTick(k, Take(thread_waker, k))
          /\ UNCHANGED <<active, tasks>>
       \/ /\ ~IsNotified(thread_waker, k)
          /\ EndTick(k, Cancel(thread_waker, k))
          /\ UNCHANGED <<active, tasks>>
    /\ UNCHANGED <<ids, task_queue, local_queue, threads, executor, direct>>

(* Another runnable has been run, and the listener is out of the list. *)
AfterLast(k) ==
    /\ at[k] = "last" /\ stack = <<>>
    /\ EndTick(k, thread_waker)
    /\ UNCHANGED <<ids, task_queue, local_queue, active, tasks, threads, executor, direct>>

(* The runnables that listeners hold. *)
InNotes(e) == {e.notified[i].tag : i \in 1..Len(e.notified)} \ {None}

(* A pending tick() or run() future is dropped: its listener, and then its   *)
(* Ticker.  A runnable that no other listener takes is dropped too.          *)
DropFuture(k) ==
    /\ ProgramRuns
    /\ at[k] = "waiting"
    /\ LET e == Cancel(thread_waker, k)
       IN  /\ DropTicker(k, e)
           /\ \/ /\ InNotes(e) = InNotes(thread_waker)
                 /\ UNCHANGED <<active, tasks>>
              \/ \E t \in InNotes(thread_waker) \ InNotes(e) :
                    Destroy(t) /\ UNCHANGED stack
    /\ UNCHANGED <<ids, task_queue, local_queue, threads, executor, direct>>

-----------------------------------------------------------------------------
(* Another thread invokes the waker of a task. *)
ThreadWake(x, t) ==
    /\ phase[x] = "idle"
    /\ \/ /\ st[t] = "idle"
          /\ st' = [st EXCEPT ![t] = "scheduled"]
          /\ phase' = [phase EXCEPT ![x] = "push"]
          /\ hand' = [hand EXCEPT ![x] = t]
       \/ /\ st[t] = "running"
          /\ st' = [st EXCEPT ![t] = "rerun"]
          /\ UNCHANGED threads
    /\ UNCHANGED <<ids, mainstream, threadState, tickers, started, cancelled, stack,
                   executor, direct>>

(* Another thread drops the Task. *)
ThreadCancel(x, t) ==
    /\ phase[x] = "idle"
    /\ st[t] # "none" /\ t \notin cancelled
    /\ cancelled' = cancelled \cup {t}
    /\ IF st[t] = "idle"
       THEN /\ st' = [st EXCEPT ![t] = "scheduled"]
            /\ phase' = [phase EXCEPT ![x] = "push"]
            /\ hand' = [hand EXCEPT ![x] = t]
       ELSE UNCHANGED <<st, threads>>
    /\ UNCHANGED <<ids, mainstream, threadState, tickers, started, stack, executor, direct>>

(* The scheduler function on another thread pushes, *)
ThreadPush(x) ==
    /\ phase[x] = "push" /\ ~SameThread(x)
    /\ task_queue' = Append(task_queue, hand[x])
    /\ hand' = [hand EXCEPT ![x] = None]
    /\ phase' = [phase EXCEPT ![x] = "wake"]
    /\ UNCHANGED <<ids, mainstream_waker, threadState, tickers, tasks, executor, direct>>

(* and wakes the mainstream ticker. *)
ThreadNotify(x) ==
    /\ phase[x] = "wake"
    /\ WakeMainstream
    /\ phase' = [phase EXCEPT ![x] = "idle"]
    /\ UNCHANGED <<ids, task_queue, threadState, is_mainstream, at, tasks, hand,
                   executor, direct>>

-----------------------------------------------------------------------------
(***************************************************************************)
(* Executor::drop.  The first round of the wake-all loop takes some waker  *)
(* out of the slab and, with the Drain it drops, all the others; there is  *)
(* no second round.  The drain loop drops one runnable of each queue in    *)
(* turn until one of them is empty, and the thread's queue is destroyed    *)
(* with what is left in it.  Both happen while thread_state is borrowed,   *)
(* so that the guard of a started task there panics, in a drop, where      *)
(* async_task aborts.  What is left in the mainstream queue stays.         *)
(***************************************************************************)
Queued(q, first) ==
    IF first \in Tasks /\ st[first] = "idle" THEN Append(q, first) ELSE q

DropExecutor ==
    /\ ProgramRuns /\ stack = <<>>
    /\ \A k \in Tickers : at[k] = "none"
    /\ \E first \in (IF active = {} THEN {None} ELSE active) :
         LET here  == SameThread(Origin)
             local == IF here THEN Queued(local_queue, first) ELSE local_queue
             main  == IF here THEN task_queue ELSE Queued(task_queue, first)
             taken == IF Len(main) <= Len(local) THEN Len(main) ELSE Len(local) + 1
             over  == ToSet(local) \cup ToSet(SubSeq(main, 1, taken))
         IN  /\ executor' = IF ToSet(local) \cap started = {} THEN "dropped" ELSE "aborted"
             /\ local_queue' = <<>>
             /\ task_queue' = SubSeq(main, taken + 1, Len(main))
             /\ st' = [t \in Tasks |-> IF t \in over THEN "none"
                                       ELSE IF t = first /\ st[t] = "idle" THEN "scheduled"
                                       ELSE st[t]]
             /\ started' = started \ over /\ cancelled' = cancelled \ over
    /\ active' = {}
    /\ WakeMainstream
    /\ UNCHANGED <<ids, thread_waker, is_mainstream_listening, is_mainstream, at, stack,
                   threads, direct>>

Next ==
    \/ \E t \in Tasks : Spawn(t) \/ WakeTask(t) \/ CancelTask(t) \/ Complete(t) \/ Suspend(t)
    \/ TryTick
    \/ \E k \in Tickers : \/ PollFirst(k) \/ TickLocal(k) \/ TickWait(k) \/ Register(k)
                          \/ Recheck(k) \/ PollAgain(k) \/ AfterFirst(k) \/ AfterLast(k)
                          \/ DropFuture(k)
    \/ \E x \in Threads, t \in Tasks : ThreadWake(x, t) \/ ThreadCancel(x, t)
    \/ \E x \in Threads : ThreadPush(x) \/ ThreadNotify(x)
    \/ DropExecutor

Spec == Init /\ [][Next]_vars

-----------------------------------------------------------------------------
(* Every variable has its type, and the notes of the event are plain ones. *)
TypeOK ==
    /\ task_queue \in Seq(Tasks) /\ mainstream_waker \in Tickers \cup {None}
    /\ thread_id \in DefaultThreadId /\ origin_thread = Id(thread_id, Origin)
    /\ local_queue \in Seq(Tasks)
    /\ thread_waker \in EventOf(Tickers, Tasks \cup {None})
    /\ \A i \in 1..Len(thread_waker.notified) : ~thread_waker.notified[i].additional
    /\ active \subseteq Tasks /\ is_mainstream_listening \in BOOLEAN
    /\ is_mainstream \subseteq Tickers /\ woken \subseteq Tickers
    /\ at \in [Tickers -> {"none", "begin", "register", "recheck", "waiting",
                           "first", "last"}]
    /\ st \in [Tasks -> {"none", "idle", "scheduled", "running", "rerun"}]
    /\ started \subseteq Tasks /\ cancelled \subseteq Tasks /\ stack \in Seq(Tasks)
    /\ phase \in [Threads -> {"idle", "push", "wake"}]
    /\ hand \in [Threads -> Tasks \cup {None}]
    /\ executor \in {"alive", "dropped", "aborted"} /\ direct \in BOOLEAN

Occurrences(q, t) == Cardinality({i \in 1..Len(q) : q[i] = t})

(* A task that is scheduled has its one runnable in exactly one place: a     *)
(* queue, the notification of a listener or the hands of a thread.  Handing  *)
(* it to a listener, passing it on when a ticker is dropped and racing it    *)
(* with wakes from other threads neither loses nor doubles it.               *)
RunnableInOnePlace ==
    executor # "aborted" =>
        \A t \in Tasks :
            /\ Occurrences(local_queue, t) + Occurrences(task_queue, t)
                 + Cardinality({i \in 1..Len(thread_waker.notified) :
                                    thread_waker.notified[i].tag = t})
                 + Cardinality({x \in Threads : hand[x] = t})
               = (IF st[t] = "scheduled" THEN 1 ELSE 0)
            /\ Occurrences(stack, t) = (IF st[t] \in {"running", "rerun"} THEN 1 ELSE 0)

(* The mainstream queue has one listener at most, and a ticker that sleeps   *)
(* as its listener does not sleep beside a runnable, unless its waker has    *)
(* been invoked or the thread that pushed is about to: neither the race of   *)
(* push and wake with pop, register and pop, nor another ticker that leaves, *)
(* loses the wakeup.                                                         *)
MainstreamIsWatched ==
    /\ is_mainstream_listening <=> is_mainstream # {}
    /\ \A j, k \in is_mainstream : j = k
    /\ \A k \in is_mainstream :
          at[k] = "waiting" /\ task_queue # <<>> =>
              k \in woken \/ \E x \in Threads : phase[x] = "wake"

(* Nobody sleeps beside a task in the thread's queue, or while nobody        *)
(* listens to the mainstream queue, unless somebody is notified.             *)
NobodyIsStranded ==
    ProgramRuns /\ stack = <<>> /\ thread_waker.waiting # <<>> =>
        \/ thread_waker.notified # <<>>
        \/ local_queue = <<>> /\ is_mainstream_listening

(* The one cause for that is a tick() future that is handed a runnable       *)
(* directly and does not listen to the mainstream queue: it ends without     *)
(* waking another runner, although the queue may have filled, or the         *)
(* mainstream ticker have left, while it was the only one notified.          *)
OnlyDirectTickStrands == direct \/ NobodyIsStranded
=============================================================================
