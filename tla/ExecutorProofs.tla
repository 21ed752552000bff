---------------------------- MODULE ExecutorProofs ----------------------------
(***************************************************************************)
(* Proofs about Executor for every set of tasks, tickers and threads.      *)
(***************************************************************************)
EXTENDS Executor, EventOpsProofs, FiniteSetTheorems

(* The states of the executor's event: its notes are plain ones. *)
Events == {e \in EventOf(Tickers, Tasks \cup {None}) : NoneAdditional(e)}

(* Nobody sleeps in the event unless somebody is notified. *)
Roused(e) == e.waiting # <<>> => e.notified # <<>>

(* notify(1) keeps the type of the event and leaves somebody awake. *)
LEMMA NotifyEvents ==
    ASSUME NEW e \in Events, NEW t \in Tasks \cup {None}
    PROVE  /\ Notify(e, <<t>>, FALSE) \in Events
           /\ Roused(Notify(e, <<t>>, FALSE))
<1> DEFINE T == Tasks \cup {None}
           tags == <<t>>
           add == FALSE
<1>1. tags \in Seq(T) /\ tags # <<>>
  OBVIOUS
<1>2. add \in BOOLEAN /\ ~add
  OBVIOUS
<1>3. e \in EventOf(Tickers, T) /\ NoneAdditional(e)
  BY DEF Events
<1> HIDE DEF T, tags, add
<1>4. Notify(e, tags, add) \in EventOf(Tickers, T)
  BY <1>1, <1>2, <1>3, NotifyType
<1>5. NoneAdditional(Notify(e, tags, add))
  BY <1>1, <1>2, <1>3, NotifyNoneAdditional
<1>6. Roused(Notify(e, tags, add))
  BY <1>1, <1>2, <1>3, NotifyWakesSomeone DEF Roused
<1> QED BY <1>4, <1>5, <1>6 DEF Events, T, tags, add

(* The same of the notification with None that Ticker::drop and a local pop send. *)
LEMMA NotifyNoneEvents ==
    ASSUME NEW e \in Events
    PROVE  NotifyNone(e) \in Events /\ Roused(NotifyNone(e))
BY NotifyEvents DEF NotifyNone

(* So does everything else that is done with the event. *)
LEMMA OtherEvents ==
    ASSUME NEW e \in Events, NEW k \in Tickers
    PROVE  /\ Insert(e, k) \in Events
           /\ Cancel(e, k) \in Events
           /\ Roused(e) => Roused(Cancel(e, k))
           /\ IsNotified(e, k) => /\ Take(e, k) \in Events
                                  /\ Note(e, k).tag \in Tasks \cup {None}
           /\ IsWaiting(e, k) => Leave(e, k) \in Events
<1> DEFINE T == Tasks \cup {None}
<1>1. e \in EventOf(Tickers, T) /\ NoneAdditional(e)
  BY DEF Events
<1> HIDE DEF T
<1>2. Insert(e, k) \in EventOf(Tickers, T) /\ NoneAdditional(Insert(e, k))
  BY <1>1, InsertType DEF NoneAdditional
<1>3. Cancel(e, k) \in EventOf(Tickers, T) /\ NoneAdditional(Cancel(e, k))
  BY <1>1, CancelType, CancelNoneAdditional
<1>4. Roused(e) => Roused(Cancel(e, k))
  BY <1>1, CancelKeepsSomeoneAwake DEF Roused
<1>5. ASSUME IsNotified(e, k)
      PROVE  /\ Take(e, k) \in EventOf(Tickers, T)
             /\ NoneAdditional(Take(e, k))
             /\ Note(e, k).tag \in T
  <2>1. Note(e, k) \in NoteOf(Tickers, T)
    BY <1>1, <1>5, NotifiedIndexProperties
  <2> QED BY <1>1, <1>5, <2>1, TakeType, TakeNoneAdditional DEF NoteOf
<1>6. ASSUME IsWaiting(e, k)
      PROVE  Leave(e, k) \in EventOf(Tickers, T) /\ NoneAdditional(Leave(e, k))
  BY <1>1, <1>6, LeaveType DEF NoneAdditional
<1> QED BY <1>2, <1>3, <1>4, <1>5, <1>6 DEF Events, T

-----------------------------------------------------------------------------
(* The parts of TypeOK, with what makes them inductive: a thread that is     *)
(* about to push has a runnable in its hand.                                 *)
QueuesOK == task_queue \in Seq(Tasks) /\ local_queue \in Seq(Tasks)
WakersOK == mainstream_waker \in Tickers \cup {None} /\ woken \subseteq Tickers
EventOK  == thread_waker \in Events
TasksOK  ==
    /\ active \subseteq Tasks
    /\ st \in [Tasks -> {"none", "idle", "scheduled", "running", "rerun"}]
    /\ started \subseteq Tasks /\ cancelled \subseteq Tasks /\ stack \in Seq(Tasks)
TickersOK ==
    /\ is_mainstream_listening \in BOOLEAN /\ is_mainstream \subseteq Tickers
    /\ at \in [Tickers -> {"none", "begin", "register", "recheck", "waiting",
                           "first", "last"}]
ThreadsOK ==
    /\ phase \in [Threads -> {"idle", "push", "wake"}]
    /\ hand \in [Threads -> Tasks \cup {None}]
    /\ \A x \in Threads : phase[x] = "push" => hand[x] \in Tasks
RestOK ==
    /\ thread_id \in DefaultThreadId /\ origin_thread = Id(thread_id, Origin)
    /\ executor \in {"alive", "dropped", "aborted"} /\ direct \in BOOLEAN

TypeInv == QueuesOK /\ WakersOK /\ EventOK /\ TasksOK /\ TickersOK /\ ThreadsOK /\ RestOK

(* Each helper keeps the parts that it changes. *)
LEMMA WakeMainstreamType ==
    ASSUME WakersOK, WakeMainstream
    PROVE  WakersOK'
BY DEF WakersOK, WakeMainstream

(* The scheduler function keeps the queues, the wakers and the event. *)
LEMMA ScheduleType ==
    ASSUME QueuesOK, WakersOK, EventOK, NEW t \in Tasks, Schedule(t)
    PROVE  QueuesOK' /\ WakersOK' /\ EventOK'
<1>1. /\ Append(local_queue, t) \in Seq(Tasks)
      /\ Append(task_queue, t) \in Seq(Tasks)
  BY AppendProperties DEF QueuesOK
<1>2. Notify(thread_waker, <<t>>, FALSE) \in Events
  BY NotifyEvents DEF EventOK
<1>3. CASE SameThread(Origin)
  BY <1>1, <1>2, <1>3 DEF Schedule, QueuesOK, WakersOK, EventOK, mainstream
<1>4. CASE ~SameThread(Origin)
  <2>1. WakeMainstream
    BY <1>4 DEF Schedule
  <2> QED BY <1>1, <1>4, <2>1, WakeMainstreamType DEF Schedule, QueuesOK, EventOK
<1> QED BY <1>3, <1>4

(* So does the end of a task with the tasks, *)
LEMMA DestroyType ==
    ASSUME TasksOK, NEW t \in Tasks, Destroy(t), stack' \in Seq(Tasks)
    PROVE  TasksOK'
BY DEF TasksOK, Destroy

(* a run up to the code of the future, *)
LEMMA RunType ==
    ASSUME TasksOK, NEW t \in Tasks, Run(t)
    PROVE  TasksOK'
<1>1. Append(stack, t) \in Seq(Tasks)
  BY AppendProperties DEF TasksOK
<1>2. CASE t \in cancelled
  BY <1>2, DestroyType DEF Run, TasksOK
<1>3. CASE t \notin cancelled
  BY <1>1, <1>3 DEF Run, TasksOK
<1> QED BY <1>2, <1>3

(* one of a runnable from the thread's queue, *)
LEMMA RunLocalType ==
    ASSUME QueuesOK, EventOK, TasksOK, RunLocal
    PROVE  local_queue' \in Seq(Tasks) /\ EventOK' /\ TasksOK'
<1>1. Head(local_queue) \in Tasks /\ Tail(local_queue) \in Seq(Tasks)
  BY DEF QueuesOK, RunLocal
<1>2. NotifyNone(thread_waker) \in Events
  BY NotifyNoneEvents DEF EventOK
<1> QED BY <1>1, <1>2, RunType DEF RunLocal, EventOK

(* and one of a runnable from the mainstream queue. *)
LEMMA RunMainstreamType ==
    ASSUME QueuesOK, TasksOK, RunMainstream
    PROVE  task_queue' \in Seq(Tasks) /\ TasksOK'
<1>1. Head(task_queue) \in Tasks /\ Tail(task_queue) \in Seq(Tasks)
  BY DEF QueuesOK, RunMainstream
<1> QED BY <1>1, RunType DEF RunMainstream

(* Ticker::drop keeps the wakers, the tickers and the event, *)
LEMMA DropTickerType ==
    ASSUME WakersOK, TickersOK, NEW k \in Tickers, NEW e \in Events, DropTicker(k, e)
    PROVE  WakersOK' /\ TickersOK' /\ EventOK'
<1>1. NotifyNone(e) \in Events
  BY NotifyNoneEvents
<1> QED BY <1>1 DEF DropTicker, WakersOK, TickersOK, EventOK

(* and so does the end of a tick. *)
LEMMA EndTickType ==
    ASSUME WakersOK, TickersOK, NEW k \in Tickers, NEW e \in Events, EndTick(k, e)
    PROVE  WakersOK' /\ TickersOK' /\ EventOK'
<1>1. CASE k \in Runners
  BY <1>1 DEF EndTick, WakersOK, TickersOK, EventOK
<1>2. CASE k \notin Runners
  BY <1>2, DropTickerType DEF EndTick
<1> QED BY <1>1, <1>2

-----------------------------------------------------------------------------
(* Every variable has its type at first. *)
LEMMA TypeInit == Init => TypeInv
<1> SUFFICES ASSUME Init PROVE TypeInv
  OBVIOUS
<1>1. <<>> \in Seq(Tasks)
  BY EmptySeq
<1>2. NewEvent \in Events
  BY NewEventType DEF Events
<1>3. QueuesOK /\ WakersOK /\ EventOK
  BY <1>1, <1>2 DEF Init, QueuesOK, WakersOK, EventOK
<1>4. TasksOK /\ TickersOK /\ ThreadsOK /\ RestOK
  BY <1>1 DEF Init, TasksOK, TickersOK, ThreadsOK, RestOK
<1> QED BY <1>3, <1>4 DEF TypeInv

(* The steps of the program and of the tasks. *)
LEMMA TypeTaskStep ==
    ASSUME TypeInv, NEW t \in Tasks,
           Spawn(t) \/ WakeTask(t) \/ CancelTask(t) \/ Complete(t) \/ Suspend(t)
    PROVE  TypeInv'
<1> USE DEF TypeInv
<1>1. CASE Spawn(t)
  <2>1. QueuesOK' /\ WakersOK' /\ EventOK'
    BY <1>1, ScheduleType DEF Spawn
  <2>2. TasksOK' /\ TickersOK' /\ ThreadsOK' /\ RestOK'
    BY <1>1 DEF Spawn, TasksOK, TickersOK, ThreadsOK, RestOK, ids, threads
  <2> QED BY <2>1, <2>2
<1>2. CASE WakeTask(t)
  <2>1. QueuesOK' /\ WakersOK' /\ EventOK'
    BY <1>2, ScheduleType DEF WakeTask, QueuesOK, WakersOK, EventOK, mainstream
  <2>2. TasksOK' /\ TickersOK' /\ ThreadsOK' /\ RestOK'
    BY <1>2 DEF WakeTask, TasksOK, TickersOK, ThreadsOK, RestOK, ids, threads
  <2> QED BY <2>1, <2>2
<1>3. CASE CancelTask(t)
  <2>1. QueuesOK' /\ WakersOK' /\ EventOK'
    BY <1>3, ScheduleType DEF CancelTask, QueuesOK, WakersOK, EventOK, mainstream
  <2>2. TasksOK' /\ TickersOK' /\ ThreadsOK' /\ RestOK'
    BY <1>3 DEF CancelTask, TasksOK, TickersOK, ThreadsOK, RestOK, ids, threads
  <2> QED BY <2>1, <2>2
<1>4. ASSUME Pop PROVE stack' \in Seq(Tasks)
  <2>1. /\ Len(stack) \in Nat
        /\ \A i \in 1..(Len(stack) - 1) : stack[i] \in Tasks
    BY LenProperties, ElementOfSeq DEF TasksOK
  <2>2. SubSeq(stack, 1, Len(stack) - 1) \in Seq(Tasks)
    BY <2>1, SubSeqProperties
  <2> QED BY <1>4, <2>2 DEF Pop
<1>5. CASE Complete(t)
  <2>1. QueuesOK' /\ WakersOK' /\ EventOK'
    BY <1>5 DEF Complete, QueuesOK, WakersOK, EventOK, mainstream, tickers
  <2>2. TasksOK'
    BY <1>4, <1>5, DestroyType DEF Complete
  <2>3. TickersOK' /\ ThreadsOK' /\ RestOK'
    BY <1>5 DEF Complete, TickersOK, ThreadsOK, RestOK, ids, tickers, threads
  <2> QED BY <2>1, <2>2, <2>3
<1>6. CASE Suspend(t)
  <2>1. QueuesOK' /\ WakersOK' /\ EventOK'
    BY <1>6, ScheduleType DEF Suspend, QueuesOK, WakersOK, EventOK, mainstream
  <2>2. TasksOK'
    BY <1>4, <1>6, DestroyType DEF Suspend, TasksOK
  <2>3. TickersOK' /\ ThreadsOK' /\ RestOK'
    BY <1>6 DEF Suspend, TickersOK, ThreadsOK, RestOK, ids, threads
  <2> QED BY <2>1, <2>2, <2>3
<1> QED BY <1>1, <1>2, <1>3, <1>5, <1>6

(* try_tick() on the main thread. *)
LEMMA TypeTryTick ==
    ASSUME TypeInv, TryTick
    PROVE  TypeInv'
<1> USE DEF TypeInv
<1>1. CASE RunLocal /\ UNCHANGED <<mainstream, woken>>
  BY <1>1, RunLocalType DEF TryTick, QueuesOK, WakersOK, TickersOK, ThreadsOK, RestOK,
                            ids, mainstream, threads
<1>2. CASE RunMainstream /\ WakeMainstream /\ UNCHANGED <<local_queue, thread_waker>>
  BY <1>2, RunMainstreamType, WakeMainstreamType
     DEF TryTick, QueuesOK, EventOK, TickersOK, ThreadsOK, RestOK, ids, threads
<1> QED BY <1>1, <1>2 DEF TryTick

(* The steps of the tickers. *)
LEMMA TypeTickerStep ==
    ASSUME TypeInv, NEW k \in Tickers,
           PollFirst(k) \/ TickLocal(k) \/ TickWait(k) \/ Register(k) \/ Recheck(k)
    PROVE  TypeInv'
<1> USE DEF TypeInv
<1>1. CASE PollFirst(k)
  BY <1>1 DEF PollFirst, QueuesOK, WakersOK, EventOK, TasksOK, TickersOK, ThreadsOK,
              RestOK, ids, mainstream, threadState, tasks, threads
<1>2. CASE TickLocal(k)
  <2>1. RunLocal
    BY <1>2 DEF TickLocal
  <2> QED BY <1>2, <2>1, RunLocalType DEF TickLocal, QueuesOK, WakersOK, TickersOK,
             ThreadsOK, RestOK, ids, mainstream, threads
<1>3. CASE TickWait(k)
  <2>1. task_queue' \in Seq(Tasks) /\ TasksOK'
    BY <1>3, RunMainstreamType DEF TickWait, QueuesOK, TasksOK, tasks
  <2>2. EventOK'
    BY <1>3, OtherEvents DEF TickWait, EventOK
  <2>3. TickersOK'
    BY <1>3 DEF TickWait, TickersOK
  <2> QED BY <1>3, <2>1, <2>2, <2>3 DEF TickWait, QueuesOK, WakersOK, ThreadsOK, RestOK,
             ids, threads
<1>4. CASE Register(k)
  BY <1>4 DEF Register, QueuesOK, WakersOK, EventOK, TasksOK, TickersOK, ThreadsOK,
              RestOK, ids, threadState, tasks, threads
<1>5. CASE Recheck(k)
  <2>1. task_queue' \in Seq(Tasks) /\ TasksOK'
    BY <1>5, RunMainstreamType DEF Recheck, QueuesOK, TasksOK, mainstream, tasks
  <2>2. WakersOK' /\ TickersOK'
    BY <1>5 DEF Recheck, WakersOK, TickersOK, mainstream
  <2> QED BY <1>5, <2>1, <2>2 DEF Recheck, QueuesOK, EventOK, ThreadsOK, RestOK, ids, threads
<1> QED BY <1>1, <1>2, <1>3, <1>4, <1>5

(* A later poll of a ticker. *)
LEMMA TypePollAgain ==
    ASSUME TypeInv, NEW k \in Tickers, PollAgain(k)
    PROVE  TypeInv'
<1> USE DEF TypeInv
<1>1. IsNotified(thread_waker, k) => /\ Take(thread_waker, k) \in Events
                                     /\ Note(thread_waker, k).tag \in Tasks \cup {None}
  BY OtherEvents DEF EventOK
<1>2. task_queue' \in Seq(Tasks)
  BY RunMainstreamType DEF PollAgain, QueuesOK
<1>3. TasksOK'
  BY <1>1, RunType, RunMainstreamType DEF PollAgain, TasksOK, tasks
<1>4. EventOK'
  BY <1>1 DEF PollAgain, EventOK
<1>5. TickersOK' /\ WakersOK'
  BY DEF PollAgain, TickersOK, WakersOK
<1>6. ThreadsOK'
  BY DEF PollAgain, ThreadsOK, threads
<1>7. direct' \in BOOLEAN
  BY DEF PollAgain, RestOK
<1> QED BY <1>2, <1>3, <1>4, <1>5, <1>6, <1>7 DEF PollAgain, QueuesOK, RestOK, ids

(* The ends of a tick and the drop of a pending future. *)
LEMMA TypeTickEnds ==
    ASSUME TypeInv, NEW k \in Tickers, AfterFirst(k) \/ AfterLast(k) \/ DropFuture(k)
    PROVE  TypeInv'
<1> USE DEF TypeInv
<1>1. IsNotified(thread_waker, k) => /\ Take(thread_waker, k) \in Events
                                     /\ Note(thread_waker, k).tag \in Tasks \cup {None}
  BY OtherEvents DEF EventOK
<1>2. Cancel(thread_waker, k) \in Events
  BY OtherEvents DEF EventOK
<1>3. CASE AfterFirst(k)
  <2>1. TasksOK'
    BY <1>1, <1>3, RunType DEF AfterFirst, TasksOK, tasks
  <2>2. WakersOK' /\ TickersOK' /\ EventOK'
    <3>1. CASE EndTick(k, Take(thread_waker, k)) /\ IsNotified(thread_waker, k)
      BY <1>1, <3>1, EndTickType
    <3>2. CASE EndTick(k, Cancel(thread_waker, k))
      BY <1>2, <3>2, EndTickType
    <3>3. CASE /\ IsNotified(thread_waker, k)
               /\ thread_waker' = Take(thread_waker, k)
               /\ at' = [at EXCEPT ![k] = "last"]
               /\ UNCHANGED <<mainstream_waker, is_mainstream_listening, is_mainstream, woken>>
      BY <1>1, <3>3 DEF WakersOK, TickersOK, EventOK
    <3> QED BY <1>3, <3>1, <3>2, <3>3 DEF AfterFirst
  <2> QED BY <1>3, <2>1, <2>2 DEF AfterFirst, QueuesOK, ThreadsOK, RestOK, ids, threads
<1>4. CASE AfterLast(k)
  <2>1. WakersOK' /\ TickersOK' /\ EventOK'
    BY <1>4, EndTickType DEF AfterLast, EventOK
  <2> QED BY <1>4, <2>1 DEF AfterLast, QueuesOK, TasksOK, ThreadsOK, RestOK, ids, tasks, threads
<1>5. CASE DropFuture(k)
  <2> DEFINE e == Cancel(thread_waker, k)
  <2>1. WakersOK' /\ TickersOK' /\ EventOK'
    BY <1>2, <1>5, DropTickerType DEF DropFuture
  <2>2. InNotes(thread_waker) \subseteq Tasks
    <3>1. thread_waker.notified \in Seq(NoteOf(Tickers, Tasks \cup {None}))
      BY DEF EventOK, Events, EventOf
    <3>2. ASSUME NEW i \in 1..Len(thread_waker.notified)
          PROVE  thread_waker.notified[i].tag \in Tasks \cup {None}
      <4>1. thread_waker.notified[i] \in NoteOf(Tickers, Tasks \cup {None})
        BY <3>1, ElementOfSeq
      <4> QED BY <4>1 DEF NoteOf
    <3> QED BY <3>2 DEF InNotes
  <2>3. TasksOK'
    <3>1. CASE UNCHANGED <<active, tasks>>
      BY <3>1 DEF TasksOK, tasks
    <3>2. CASE \E t \in InNotes(thread_waker) \ InNotes(e) : Destroy(t) /\ UNCHANGED stack
      <4>1. PICK t \in Tasks : Destroy(t) /\ UNCHANGED stack
        BY <2>2, <3>2
      <4> QED BY <4>1, DestroyType DEF TasksOK
    <3> QED BY <1>5, <3>1, <3>2 DEF DropFuture
  <2> QED BY <1>5, <2>1, <2>3 DEF DropFuture, QueuesOK, ThreadsOK, RestOK, ids, threads
<1> QED BY <1>3, <1>4, <1>5

(* The steps of the other threads. *)
LEMMA TypeThreadStep ==
    ASSUME TypeInv, NEW x \in Threads,
           \/ \E t \in Tasks : ThreadWake(x, t) \/ ThreadCancel(x, t)
           \/ ThreadPush(x) \/ ThreadNotify(x)
    PROVE  TypeInv'
<1> USE DEF TypeInv
<1>1. CASE \E t \in Tasks : ThreadWake(x, t)
  <2>1. PICK t \in Tasks : ThreadWake(x, t)
    BY <1>1
  <2>2. TasksOK' /\ ThreadsOK'
    BY <2>1 DEF ThreadWake, TasksOK, ThreadsOK, threadState, threads
  <2> QED BY <2>1, <2>2 DEF ThreadWake, QueuesOK, WakersOK, EventOK, TickersOK, RestOK,
             ids, mainstream, threadState, tickers
<1>2. CASE \E t \in Tasks : ThreadCancel(x, t)
  <2>1. PICK t \in Tasks : ThreadCancel(x, t)
    BY <1>2
  <2>2. TasksOK' /\ ThreadsOK'
    BY <2>1 DEF ThreadCancel, TasksOK, ThreadsOK, threadState, threads
  <2> QED BY <2>1, <2>2 DEF ThreadCancel, QueuesOK, WakersOK, EventOK, TickersOK, RestOK,
             ids, mainstream, threadState, tickers
<1>3. CASE ThreadPush(x)
  <2>1. Append(task_queue, hand[x]) \in Seq(Tasks)
    BY <1>3, AppendProperties DEF ThreadPush, QueuesOK, ThreadsOK
  <2>2. ThreadsOK'
    BY <1>3 DEF ThreadPush, ThreadsOK
  <2> QED BY <1>3, <2>1, <2>2 DEF ThreadPush, QueuesOK, WakersOK, EventOK, TasksOK,
             TickersOK, RestOK, ids, threadState, tickers, tasks
<1>4. CASE ThreadNotify(x)
  BY <1>4, WakeMainstreamType DEF ThreadNotify, QueuesOK, EventOK, TasksOK, TickersOK,
     ThreadsOK, RestOK, ids, threadState, tasks
<1> QED BY <1>1, <1>2, <1>3, <1>4

(* The end of the executor. *)
LEMMA TypeDropExecutor ==
    ASSUME TypeInv, DropExecutor
    PROVE  TypeInv'
<1> USE DEF TypeInv
<1>1. PICK first \in (IF active = {} THEN {None} ELSE active) :
         LET here  == SameThread(Origin)
             local == IF here THEN Queued(local_queue, first) ELSE local_queue
             main  == IF here THEN task_queue ELSE Queued(task_queue, first)
             taken == IF Len(main) <= Len(local) THEN Len(main) ELSE Len(local) + 1
             over  == ToSet(local) \cup ToSet(SubSeq(main, 1, taken))
         IN  /\ executor' = IF ToSet(local) \cap started = {} THEN "dropped" ELSE "aborted"
             /\ local_queue' = <<>>
             /\ task_queue' = SubSeq(main, taken + 1, Len(main))
             /\ st' = [t \in Tasks |-> IF t \in over THEN "none"
                                       ELSE IF t = first /\ st[t] = "idle" THEN "scheduled"
                                       ELSE st[t]]
             /\ started' = started \ over /\ cancelled' = cancelled \ over
  BY DEF DropExecutor
<1> DEFINE local == IF SameThread(Origin) THEN Queued(local_queue, first) ELSE local_queue
           main  == IF SameThread(Origin) THEN task_queue ELSE Queued(task_queue, first)
           taken == IF Len(main) <= Len(local) THEN Len(main) ELSE Len(local) + 1
           over  == ToSet(local) \cup ToSet(SubSeq(main, 1, taken))
<1>2. local \in Seq(Tasks) /\ main \in Seq(Tasks)
  BY AppendProperties DEF Queued, QueuesOK
<1>3. TasksOK'
  <2> HIDE DEF over
  <2>1. /\ st' \in [Tasks -> {"none", "idle", "scheduled", "running", "rerun"}]
        /\ started' \subseteq started /\ cancelled' \subseteq cancelled
    BY <1>1 DEF TasksOK, over
  <2> QED BY <2>1 DEF DropExecutor, TasksOK
<1>4. QueuesOK'
  <2>1. task_queue' = SubSeq(main, taken + 1, Len(main)) /\ local_queue' = <<>>
    BY <1>1
  <2> HIDE DEF local, main
  <2>2. /\ Len(local) \in Nat /\ Len(main) \in Nat
        /\ \A i \in 1..Len(main) : main[i] \in Tasks
    BY <1>2, LenProperties, ElementOfSeq
  <2>3. taken \in Nat
    BY <2>2
  <2> HIDE DEF taken
  <2>4. \A i \in (taken + 1)..Len(main) : main[i] \in Tasks
    BY <2>2, <2>3
  <2>5. SubSeq(main, taken + 1, Len(main)) \in Seq(Tasks)
    BY <2>2, <2>3, <2>4, SubSeqProperties
  <2> QED BY <2>1, <2>5, EmptySeq DEF QueuesOK
<1>5. WakersOK'
  BY WakeMainstreamType DEF DropExecutor
<1>6. executor' \in {"alive", "dropped", "aborted"}
  BY <1>1
<1> QED BY <1>3, <1>4, <1>5, <1>6 DEF DropExecutor, EventOK, TickersOK, ThreadsOK, RestOK,
           ids, threads

(* No step of the executor breaks the types, *)
LEMMA TypeStep == TypeInv /\ [Next]_vars => TypeInv'
<1> SUFFICES ASSUME TypeInv, [Next]_vars PROVE TypeInv'
  OBVIOUS
<1>1. CASE UNCHANGED vars
  BY <1>1 DEF vars, ids, mainstream, threadState, tickers, tasks, threads, TypeInv,
              QueuesOK, WakersOK, EventOK, TasksOK, TickersOK, ThreadsOK, RestOK
<1> QED BY <1>1, TypeTaskStep, TypeTryTick, TypeTickerStep, TypePollAgain, TypeTickEnds,
           TypeThreadStep, TypeDropExecutor DEF Next

(* and so they hold for ever. *)
LEMMA TypeInvariant == Spec => []TypeInv
BY TypeInit, TypeStep, PTL DEF Spec

(* The executor keeps its types; in particular the notes of its event stay   *)
(* plain, so that each notify(1) of the executor counts all of them, and a   *)
(* listener holds a runnable or nothing.                                     *)
THEOREM TypeCorrect == Spec => []TypeOK
<1>1. TypeInv => TypeOK
  BY DEF TypeInv, TypeOK, QueuesOK, WakersOK, EventOK, Events, NoneAdditional, TasksOK,
         TickersOK, ThreadsOK, RestOK
<1> QED BY <1>1, TypeInvariant, PTL

-----------------------------------------------------------------------------
(***************************************************************************)
(* What makes MainstreamIsWatched inductive: a ticker that looks into the  *)
(* mainstream queue is its listener, and from its Register on, until its   *)
(* next poll, the AtomicWaker holds its waker or has invoked it.           *)
(***************************************************************************)
ListenerIsUnique ==
    /\ is_mainstream_listening <=> is_mainstream # {}
    /\ \A j, k \in is_mainstream : j = k
LookersListen ==
    \A k \in Tickers : at[k] \in {"register", "recheck", "first"} => k \in is_mainstream
WakerIsKept ==
    \A k \in is_mainstream :
        at[k] \in {"recheck", "waiting"} => k \in woken \/ mainstream_waker = k
PushIsSeen ==
    \A k \in is_mainstream :
        at[k] = "waiting" /\ task_queue # <<>> =>
            k \in woken \/ \E x \in Threads : phase[x] = "wake"

MainstreamInv == ListenerIsUnique /\ LookersListen /\ WakerIsKept /\ PushIsSeen

(* A step of something else than a ticker that fills the mainstream queue    *)
(* wakes, and one that only empties it need not.                             *)
LEMMA MainstreamOther ==
    ASSUME TypeInv, MainstreamInv,
           UNCHANGED <<is_mainstream_listening, is_mainstream, at>>,
           \/ WakeMainstream
           \/ /\ UNCHANGED <<mainstream_waker, woken>>
              /\ \A x \in Threads : phase[x] = "wake" => phase'[x] = "wake"
              /\ \/ task_queue' # <<>> => task_queue # <<>>
                 \/ \E x \in Threads : phase'[x] = "wake"
    PROVE  MainstreamInv'
<1>1. is_mainstream \subseteq Tickers /\ None \notin Tickers
  BY NoneAssumption DEF TypeInv, TickersOK, Tickers
<1>2. ListenerIsUnique' /\ LookersListen'
  BY DEF MainstreamInv, ListenerIsUnique, LookersListen
<1>3. CASE WakeMainstream
  BY <1>1, <1>2, <1>3 DEF MainstreamInv, WakeMainstream, WakerIsKept, PushIsSeen
<1>4. CASE ~WakeMainstream
  <2>1. WakerIsKept'
    BY <1>4 DEF MainstreamInv, WakerIsKept
  <2>2. PushIsSeen'
    BY <1>4 DEF MainstreamInv, PushIsSeen
  <2> QED BY <1>2, <2>1, <2>2 DEF MainstreamInv
<1> QED BY <1>3, <1>4

(* Schedule on the main thread leaves the mainstream queue alone or wakes. *)
LEMMA ScheduleWakes ==
    ASSUME NEW t, Schedule(t)
    PROVE  WakeMainstream \/ UNCHANGED <<task_queue, mainstream_waker, woken>>
BY DEF Schedule, mainstream

(* The steps of the program, of the tasks and of the other threads. *)
LEMMA MainstreamProgram ==
    ASSUME TypeInv, MainstreamInv,
           \/ \E t \in Tasks : \/ Spawn(t) \/ WakeTask(t) \/ CancelTask(t)
                               \/ Complete(t) \/ Suspend(t)
           \/ TryTick \/ DropExecutor
           \/ \E x \in Threads, t \in Tasks : ThreadWake(x, t) \/ ThreadCancel(x, t)
           \/ \E x \in Threads : ThreadPush(x) \/ ThreadNotify(x)
    PROVE  MainstreamInv'
<1>1. ASSUME NEW t \in Tasks,
             Spawn(t) \/ WakeTask(t) \/ CancelTask(t) \/ Complete(t) \/ Suspend(t)
      PROVE  MainstreamInv'
  <2>1. /\ UNCHANGED <<is_mainstream_listening, is_mainstream, at, phase>>
        /\ WakeMainstream \/ UNCHANGED <<task_queue, mainstream_waker, woken>>
    BY <1>1, ScheduleWakes
       DEF Spawn, WakeTask, CancelTask, Complete, Suspend, mainstream, tickers, threads
  <2> QED BY <2>1, MainstreamOther
<1>2. CASE TryTick
  <2>1. /\ UNCHANGED <<is_mainstream_listening, is_mainstream, at, phase>>
        /\ WakeMainstream \/ UNCHANGED <<task_queue, mainstream_waker, woken>>
    BY <1>2 DEF TryTick, mainstream, threads
  <2> QED BY <2>1, MainstreamOther
<1>3. CASE DropExecutor
  BY <1>3, MainstreamOther DEF DropExecutor
<1>4. ASSUME NEW x \in Threads, NEW t \in Tasks, ThreadWake(x, t) \/ ThreadCancel(x, t)
      PROVE  MainstreamInv'
  <2>1. /\ UNCHANGED <<is_mainstream_listening, is_mainstream, at>>
        /\ UNCHANGED <<task_queue, mainstream_waker, woken>>
    BY <1>4 DEF ThreadWake, ThreadCancel, mainstream, threadState, tickers
  <2>2. \A y \in Threads : phase[y] = "wake" => phase'[y] = "wake"
    BY <1>4 DEF ThreadWake, ThreadCancel, threads, TypeInv, ThreadsOK
  <2> QED BY <2>1, <2>2, MainstreamOther
<1>5. ASSUME NEW x \in Threads, ThreadPush(x)
      PROVE  MainstreamInv'
  <2>1. /\ UNCHANGED <<is_mainstream_listening, is_mainstream, at, mainstream_waker, woken>>
        /\ \A y \in Threads : phase[y] = "wake" => phase'[y] = "wake"
        /\ phase'[x] = "wake"
    BY <1>5 DEF ThreadPush, threadState, tickers, TypeInv, ThreadsOK
  <2> QED BY <2>1, MainstreamOther
<1>6. ASSUME NEW x \in Threads, ThreadNotify(x)
      PROVE  MainstreamInv'
  BY <1>6, MainstreamOther DEF ThreadNotify, threadState
<1> QED BY <1>1, <1>2, <1>3, <1>4, <1>5, <1>6

(* The steps of a ticker until it sleeps or runs a task. *)
LEMMA MainstreamTicker ==
    ASSUME TypeInv, MainstreamInv, NEW k \in Tickers,
           \/ PollFirst(k) \/ TickLocal(k) \/ TickWait(k) \/ Register(k) \/ Recheck(k)
           \/ PollAgain(k)
    PROVE  MainstreamInv'
<1> USE DEF MainstreamInv
<1>1. /\ is_mainstream \subseteq Tickers /\ None \notin Tickers
      /\ at \in [Tickers -> {"none", "begin", "register", "recheck", "waiting",
                             "first", "last"}]
  BY NoneAssumption DEF TypeInv, TickersOK, Tickers
<1>2. CASE PollFirst(k)
  BY <1>1, <1>2 DEF PollFirst, mainstream, threadState, threads, ListenerIsUnique,
                    LookersListen, WakerIsKept, PushIsSeen
<1>3. CASE TickLocal(k)
  BY <1>1, <1>3 DEF TickLocal, mainstream, threads, ListenerIsUnique, LookersListen,
                    WakerIsKept, PushIsSeen
<1>4. CASE TickWait(k)
  <2>1. ListenerIsUnique'
    BY <1>4 DEF TickWait, ListenerIsUnique
  <2>2. LookersListen'
    BY <1>1, <1>4 DEF TickWait, LookersListen
  <2>3. WakerIsKept'
    BY <1>1, <1>4 DEF TickWait, WakerIsKept
  <2>4. PushIsSeen'
    BY <1>1, <1>4 DEF TickWait, PushIsSeen, RunMainstream, threads
  <2> QED BY <2>1, <2>2, <2>3, <2>4
<1>5. CASE Register(k)
  <2>1. k \in is_mainstream
    BY <1>5 DEF Register, LookersListen
  <2>2. ListenerIsUnique' /\ LookersListen'
    BY <1>1, <1>5 DEF Register, threadState, ListenerIsUnique, LookersListen
  <2>3. WakerIsKept' /\ PushIsSeen'
    BY <1>1, <1>5, <2>1 DEF Register, threads, ListenerIsUnique, WakerIsKept, PushIsSeen
  <2> QED BY <2>2, <2>3
<1>6. CASE Recheck(k)
  <2>1. k \in is_mainstream
    BY <1>6 DEF Recheck, LookersListen
  <2>2. ListenerIsUnique' /\ LookersListen'
    BY <1>1, <1>6, <2>1 DEF Recheck, ListenerIsUnique, LookersListen
  <2>3. WakerIsKept' /\ PushIsSeen'
    BY <1>1, <1>6, <2>1 DEF Recheck, mainstream, threads, ListenerIsUnique, WakerIsKept,
                            PushIsSeen
  <2> QED BY <2>2, <2>3
<1>7. CASE PollAgain(k)
  <2>1. ListenerIsUnique' /\ LookersListen'
    BY <1>1, <1>7 DEF PollAgain, ListenerIsUnique, LookersListen
  <2>2. \A j \in is_mainstream' :
           at'[j] \in {"recheck", "waiting"} => at'[j] = at[j] /\ (j \in woken' <=> j \in woken)
    BY <1>1, <1>7 DEF PollAgain
  <2>3. WakerIsKept'
    BY <1>7, <2>2 DEF PollAgain, WakerIsKept
  <2>4. task_queue' # <<>> => task_queue # <<>>
    BY <1>7 DEF PollAgain, RunMainstream
  <2>5. PushIsSeen'
    BY <1>7, <2>2, <2>4 DEF PollAgain, threads, PushIsSeen
  <2> QED BY <2>1, <2>3, <2>5
<1> QED BY <1>2, <1>3, <1>4, <1>5, <1>6, <1>7

(* A ticker that goes takes nothing from one that listens and stays. *)
LEMMA MainstreamDropTicker ==
    ASSUME TypeInv, MainstreamInv, NEW k \in Tickers, NEW e, DropTicker(k, e),
           UNCHANGED <<task_queue, phase>>
    PROVE  MainstreamInv'
<1>1. /\ is_mainstream \subseteq Tickers
      /\ at \in [Tickers -> {"none", "begin", "register", "recheck", "waiting",
                             "first", "last"}]
  BY DEF TypeInv, TickersOK
<1>2. CASE k \in is_mainstream
  <2>1. is_mainstream' = {} /\ ~is_mainstream_listening'
    BY <1>2 DEF DropTicker, MainstreamInv, ListenerIsUnique
  <2>2. LookersListen'
    BY <1>1, <1>2 DEF DropTicker, MainstreamInv, ListenerIsUnique, LookersListen
  <2> QED BY <2>1, <2>2 DEF MainstreamInv, ListenerIsUnique, WakerIsKept, PushIsSeen
<1>3. CASE k \notin is_mainstream
  <2>1. /\ is_mainstream' = is_mainstream
        /\ UNCHANGED <<is_mainstream_listening, mainstream_waker>>
        /\ \A j \in Tickers : at'[j] = IF j = k THEN "none" ELSE at[j]
        /\ \A j \in is_mainstream : at'[j] = at[j] /\ (j \in woken' <=> j \in woken)
    BY <1>1, <1>3 DEF DropTicker
  <2> HIDE DEF DropTicker
  <2>2. ListenerIsUnique' /\ LookersListen'
    BY <2>1 DEF MainstreamInv, ListenerIsUnique, LookersListen
  <2>3. WakerIsKept' /\ PushIsSeen'
    BY <2>1 DEF MainstreamInv, WakerIsKept, PushIsSeen
  <2> QED BY <2>2, <2>3 DEF MainstreamInv
<1> QED BY <1>2, <1>3

(* A tick that ends gives its claim to the mainstream queue up, or keeps it. *)
LEMMA MainstreamEndTick ==
    ASSUME TypeInv, MainstreamInv, NEW k \in Tickers, NEW e, EndTick(k, e),
           UNCHANGED <<task_queue, phase>>
    PROVE  MainstreamInv'
<1>1. at \in [Tickers -> {"none", "begin", "register", "recheck", "waiting", "first", "last"}]
      /\ is_mainstream \subseteq Tickers
  BY DEF TypeInv, TickersOK
<1>2. CASE k \in Runners
  BY <1>1, <1>2 DEF EndTick, MainstreamInv, ListenerIsUnique, LookersListen, WakerIsKept,
                    PushIsSeen
<1>3. CASE k \notin Runners
  BY <1>3, MainstreamDropTicker DEF EndTick
<1> QED BY <1>2, <1>3

(* So do the steps in which a tick ends or its future is dropped. *)
LEMMA MainstreamTickEnds ==
    ASSUME TypeInv, MainstreamInv, NEW k \in Tickers,
           AfterFirst(k) \/ AfterLast(k) \/ DropFuture(k)
    PROVE  MainstreamInv'
<1>1. UNCHANGED <<task_queue, phase>>
  BY DEF AfterFirst, AfterLast, DropFuture, threads
<1>2. CASE AfterFirst(k)
  <2>1. CASE \E e : EndTick(k, e)
    BY <1>1, <2>1, MainstreamEndTick
  <2>2. CASE /\ at' = [at EXCEPT ![k] = "last"]
             /\ UNCHANGED <<mainstream_waker, is_mainstream_listening, is_mainstream, woken>>
    <3>1. at \in [Tickers -> {"none", "begin", "register", "recheck", "waiting", "first", "last"}]
          /\ is_mainstream \subseteq Tickers
      BY DEF TypeInv, TickersOK
    <3> QED BY <1>1, <2>2, <3>1 DEF MainstreamInv, ListenerIsUnique, LookersListen,
               WakerIsKept, PushIsSeen
  <2> QED BY <1>2, <2>1, <2>2 DEF AfterFirst
<1>3. CASE AfterLast(k)
  BY <1>1, <1>3, MainstreamEndTick DEF AfterLast
<1>4. CASE DropFuture(k)
  BY <1>1, <1>4, MainstreamDropTicker DEF DropFuture
<1> QED BY <1>2, <1>3, <1>4

(* The mainstream queue is watched in every state. *)
LEMMA MainstreamInvariant == Spec => []MainstreamInv
<1>1. Init => MainstreamInv
  BY DEF Init, MainstreamInv, ListenerIsUnique, LookersListen, WakerIsKept, PushIsSeen
<1>2. TypeInv /\ MainstreamInv /\ [Next]_vars => MainstreamInv'
  <2> SUFFICES ASSUME TypeInv, MainstreamInv, [Next]_vars PROVE MainstreamInv'
    OBVIOUS
  <2>1. CASE UNCHANGED vars
    BY <2>1 DEF vars, mainstream, threadState, tickers, threads, MainstreamInv,
                ListenerIsUnique, LookersListen, WakerIsKept, PushIsSeen
  <2> QED BY <2>1, MainstreamProgram, MainstreamTicker, MainstreamTickEnds DEF Next
<1> QED BY <1>1, <1>2, TypeInvariant, PTL DEF Spec

(* The mainstream queue has one listener at most, and a runnable that a      *)
(* thread pushes finds it awake or about to be woken: no order of push and   *)
(* wake with pop, register and pop loses the wakeup, with any number of      *)
(* threads and tickers that come and go.                                     *)
THEOREM WakeupIsKept == Spec => []MainstreamIsWatched
<1>1. MainstreamInv => MainstreamIsWatched
  BY DEF MainstreamInv, MainstreamIsWatched, ListenerIsUnique, PushIsSeen
<1> QED BY <1>1, MainstreamInvariant, PTL

-----------------------------------------------------------------------------
(***************************************************************************)
(* What makes OnlyDirectTickStrands inductive.  At most one ticker has the *)
(* thread.  If somebody sleeps beside a task in the thread's queue, or     *)
(* while nobody listens to the mainstream queue, and nobody is notified,   *)
(* then some ticker has the thread and will do something about it:  it is  *)
(* to look into the queues, or it ends as a runner or as the mainstream    *)
(* ticker.  Any other tick() that ends leaves the event roused, unless it  *)
(* was handed its runnable directly.                                       *)
(***************************************************************************)
HasThread == {"begin", "register", "recheck", "first", "last"}

OneHasThread ==
    \A j, k \in Tickers : at[j] \in HasThread /\ at[k] \in HasThread => j = k

Attended == Roused(thread_waker) \/ (local_queue = <<>> /\ is_mainstream_listening)

WillAttend(k) ==
    \/ at[k] = "begin"
    \/ at[k] \in {"first", "last"} /\ k \in Runners \cup is_mainstream

SomebodyAttends == ~direct => Attended \/ \E k \in Tickers : WillAttend(k)

LastIsRoused ==
    ~direct => \A k \in Ticks \ is_mainstream : at[k] = "last" => Roused(thread_waker)

StrandInv == OneHasThread /\ SomebodyAttends /\ LastIsRoused

(* While no ticker has the thread, somebody attends. *)
LEMMA IdleIsAttended ==
    ASSUME TypeInv, StrandInv, ~direct, ProgramRuns, stack = <<>>, executor = "alive"
    PROVE  Attended
BY DEF StrandInv, SomebodyAttends, WillAttend, ProgramRuns, TickerRuns

(* While the program runs, no ticker has the thread. *)
LEMMA IdleHasNoThread ==
    ASSUME TypeInv, ProgramRuns, stack = <<>>
    PROVE  \A k \in Tickers : at[k] \notin HasThread
BY DEF ProgramRuns, TickerRuns, HasThread

(* Schedule and RunLocal leave the event roused, or alone with the queue. *)
LEMMA ScheduleRouses ==
    ASSUME TypeInv, NEW t \in Tasks, Schedule(t)
    PROVE  Roused(thread_waker') \/ UNCHANGED <<thread_waker, local_queue>>
<1>1. Roused(Notify(thread_waker, <<t>>, FALSE))
  BY NotifyEvents DEF TypeInv, EventOK
<1> QED BY <1>1 DEF Schedule

(* A pop from the thread's queue leaves somebody awake. *)
LEMMA RunLocalRouses ==
    ASSUME TypeInv, RunLocal
    PROVE  Roused(thread_waker')
BY NotifyNoneEvents DEF RunLocal, TypeInv, EventOK

(* A step that moves no ticker, and wakes somebody or adds no work. *)
LEMMA StrandOther ==
    ASSUME TypeInv, StrandInv,
           UNCHANGED <<is_mainstream_listening, is_mainstream, at, direct>>,
           \/ Roused(thread_waker')
           \/ UNCHANGED thread_waker /\ local_queue' \in {local_queue, <<>>}
    PROVE  StrandInv'
<1>1. OneHasThread'
  BY DEF StrandInv, OneHasThread
<1>2. LastIsRoused'
  BY DEF StrandInv, LastIsRoused, Roused
<1>3. Attended => Attended'
  BY DEF Attended, Roused
<1>4. Roused(thread_waker') => Attended'
  BY DEF Attended, Roused
<1>5. ASSUME NEW k PROVE WillAttend(k)' = WillAttend(k)
  BY DEF WillAttend
<1>6. SomebodyAttends'
  BY <1>3, <1>4, <1>5 DEF StrandInv, SomebodyAttends
<1> QED BY <1>1, <1>2, <1>6 DEF StrandInv

(* The steps of the program, of the tasks and of the other threads. *)
LEMMA StrandProgram ==
    ASSUME TypeInv, StrandInv,
           \/ \E t \in Tasks : \/ Spawn(t) \/ WakeTask(t) \/ CancelTask(t)
                               \/ Complete(t) \/ Suspend(t)
           \/ TryTick \/ DropExecutor
           \/ \E x \in Threads, t \in Tasks : ThreadWake(x, t) \/ ThreadCancel(x, t)
           \/ \E x \in Threads : ThreadPush(x) \/ ThreadNotify(x)
    PROVE  StrandInv'
<1>1. ASSUME NEW t \in Tasks,
             Spawn(t) \/ WakeTask(t) \/ CancelTask(t) \/ Complete(t) \/ Suspend(t)
      PROVE  StrandInv'
  <2>1. /\ UNCHANGED <<is_mainstream_listening, is_mainstream, at, direct>>
        /\ Roused(thread_waker') \/ UNCHANGED <<thread_waker, local_queue>>
    BY <1>1, ScheduleRouses DEF Spawn, WakeTask, CancelTask, Complete, Suspend, tickers
  <2> QED BY <2>1, StrandOther
<1>2. CASE TryTick
  <2>1. /\ UNCHANGED <<is_mainstream_listening, is_mainstream, at, direct>>
        /\ Roused(thread_waker') \/ UNCHANGED <<thread_waker, local_queue>>
    BY <1>2, RunLocalRouses DEF TryTick
  <2> QED BY <2>1, StrandOther
<1>3. CASE DropExecutor
  <2>1. /\ UNCHANGED <<is_mainstream_listening, is_mainstream, at, direct, thread_waker>>
        /\ local_queue' = <<>>
    BY <1>3 DEF DropExecutor
  <2> QED BY <2>1, StrandOther
<1>4. ASSUME NEW x \in Threads,
             \/ \E t \in Tasks : ThreadWake(x, t) \/ ThreadCancel(x, t)
             \/ ThreadPush(x) \/ ThreadNotify(x)
      PROVE  StrandInv'
  <2>1. /\ UNCHANGED <<is_mainstream_listening, is_mainstream, at, direct>>
        /\ UNCHANGED <<thread_waker, local_queue>>
    BY <1>4 DEF ThreadWake, ThreadCancel, ThreadPush, ThreadNotify, threadState, tickers
  <2> QED BY <2>1, StrandOther
<1> QED BY <1>1, <1>2, <1>3, <1>4

(* A step of a ticker that has the thread after it, where it did before, or  *)
(* nobody did.                                                               *)
LEMMA StrandTicker ==
    ASSUME TypeInv, MainstreamInv, StrandInv, NEW k \in Tickers,
           at[k] \in HasThread \/ \A j \in Tickers : at[j] \notin HasThread,
           \A j \in Tickers : j # k => at'[j] = at[j],
           ~direct' => ~direct /\ (Attended' \/ WillAttend(k)'),
           ~direct' /\ k \in Ticks \ is_mainstream' /\ at'[k] = "last"
               => Roused(thread_waker')
    PROVE  StrandInv'
<1>1. \A j \in Tickers : at'[j] \in HasThread => j = k
  BY DEF StrandInv, OneHasThread
<1>2. OneHasThread'
  BY <1>1 DEF OneHasThread
<1>3. SomebodyAttends'
  BY DEF SomebodyAttends
<1>4. LastIsRoused'
  BY <1>1 DEF LastIsRoused, HasThread, Tickers
<1> QED BY <1>2, <1>3, <1>4 DEF StrandInv

(* The steps of a ticker until it sleeps or runs a task. *)
LEMMA StrandTickerStep ==
    ASSUME TypeInv, MainstreamInv, StrandInv, NEW k \in Tickers,
           \/ PollFirst(k) \/ TickLocal(k) \/ TickWait(k) \/ Register(k) \/ Recheck(k)
           \/ PollAgain(k)
    PROVE  StrandInv'
<1>1. at \in [Tickers -> {"none", "begin", "register", "recheck", "waiting", "first", "last"}]
  BY DEF TypeInv, TickersOK
<1>2. CASE PollFirst(k)
  <2>1. \A j \in Tickers : at[j] \notin HasThread
    BY <1>2, IdleHasNoThread DEF PollFirst
  <2>2. /\ at'[k] = "begin" /\ \A j \in Tickers : j # k => at'[j] = at[j]
        /\ direct' = direct
    BY <1>1, <1>2 DEF PollFirst
  <2> QED BY <2>1, <2>2, StrandTicker DEF WillAttend
<1>3. CASE TickLocal(k)
  <2>1. /\ at[k] \in HasThread /\ at'[k] = "last" /\ direct' = direct
        /\ \A j \in Tickers : j # k => at'[j] = at[j]
    BY <1>1, <1>3 DEF TickLocal, HasThread
  <2>2. Roused(thread_waker') /\ Attended'
    BY <1>3, RunLocalRouses DEF TickLocal, Attended, Roused
  <2> QED BY <2>1, <2>2, StrandTicker
<1>4. CASE TickWait(k)
  <2>1. /\ at[k] \in HasThread /\ at'[k] # "last" /\ direct' = direct
        /\ \A j \in Tickers : j # k => at'[j] = at[j]
    BY <1>1, <1>4 DEF TickWait, HasThread
  <2>2. Attended'
    BY <1>4 DEF TickWait, Attended
  <2> QED BY <2>1, <2>2, StrandTicker
<1>5. ASSUME at[k] \in {"register", "recheck"}, ~direct
      PROVE  Attended
  <2>1. \A j \in Tickers : at[j] \in HasThread => j = k
    BY <1>5 DEF StrandInv, OneHasThread, HasThread
  <2>2. \A j \in Tickers : ~WillAttend(j)
    BY <1>5, <2>1 DEF WillAttend, HasThread
  <2> QED BY <1>5, <2>2 DEF StrandInv, SomebodyAttends
<1>6. CASE Register(k)
  <2>1. /\ at[k] = "register" /\ at'[k] = "recheck" /\ direct' = direct
        /\ \A j \in Tickers : j # k => at'[j] = at[j]
        /\ UNCHANGED <<thread_waker, local_queue, is_mainstream_listening>>
    BY <1>1, <1>6 DEF Register, threadState
  <2>2. ~direct => Attended'
    BY <1>5, <2>1 DEF Attended, Roused
  <2> QED BY <2>1, <2>2, StrandTicker DEF HasThread
<1>7. CASE Recheck(k)
  <2>1. /\ at[k] = "recheck" /\ at'[k] # "last" /\ direct' = direct
        /\ \A j \in Tickers : j # k => at'[j] = at[j]
        /\ UNCHANGED <<thread_waker, local_queue, is_mainstream_listening>>
    BY <1>1, <1>7 DEF Recheck
  <2>2. ~direct => Attended'
    BY <1>5, <2>1 DEF Attended, Roused
  <2> QED BY <2>1, <2>2, StrandTicker DEF HasThread
<1>8. CASE PollAgain(k)
  <2>1. \A j \in Tickers : at[j] \notin HasThread
    BY <1>8, IdleHasNoThread DEF PollAgain
  <2>2. ~direct => Attended
    BY <1>8, IdleIsAttended DEF PollAgain, ProgramRuns
  <2>3. \A j \in Tickers : j # k => at'[j] = at[j]
    BY <1>1, <1>8 DEF PollAgain
  <2>4. UNCHANGED <<local_queue, is_mainstream_listening, is_mainstream>>
    BY <1>8 DEF PollAgain
  <2>5. CASE at'[k] = "begin" /\ direct' = direct
    BY <2>1, <2>3, <2>5, StrandTicker DEF WillAttend
  <2>6. CASE at'[k] = "last" /\ direct' = (direct \/ k \in Ticks \ is_mainstream)
    <3>1. ~direct' => ~direct /\ k \in Runners \cup is_mainstream'
      BY <2>4, <2>6 DEF Tickers
    <3> QED BY <2>1, <2>3, <2>4, <2>6, <3>1, StrandTicker DEF WillAttend
  <2>7. CASE at'[k] # "last" /\ UNCHANGED <<thread_waker, direct>>
    <3>1. ~direct => Attended'
      BY <2>2, <2>4, <2>7 DEF Attended, Roused
    <3> QED BY <2>1, <2>3, <2>7, <3>1, StrandTicker
  <2> QED BY <1>1, <1>8, <2>5, <2>6, <2>7 DEF PollAgain
<1> QED BY <1>2, <1>3, <1>4, <1>6, <1>7, <1>8

(* The steps in which a tick ends or its future is dropped. *)
LEMMA StrandTickEnds ==
    ASSUME TypeInv, MainstreamInv, StrandInv, NEW k \in Tickers,
           AfterFirst(k) \/ AfterLast(k) \/ DropFuture(k)
    PROVE  StrandInv'
<1>1. at \in [Tickers -> {"none", "begin", "register", "recheck", "waiting", "first", "last"}]
  BY DEF TypeInv, TickersOK
<1>2. IsNotified(thread_waker, k) => Take(thread_waker, k) \in Events
  BY OtherEvents DEF TypeInv, EventOK
<1>3. Cancel(thread_waker, k) \in Events
  BY OtherEvents DEF TypeInv, EventOK
<1>4. ASSUME NEW e \in Events, DropTicker(k, e)
      PROVE  /\ at'[k] = "none" /\ \A j \in Tickers : j # k => at'[j] = at[j]
             /\ k \in is_mainstream => Roused(thread_waker')
             /\ k \notin is_mainstream =>
                   /\ thread_waker' = e
                   /\ UNCHANGED <<is_mainstream_listening, is_mainstream>>
  BY <1>1, <1>4, NotifyNoneEvents DEF DropTicker
<1>5. ASSUME NEW e \in Events, EndTick(k, e), at[k] \in {"first", "last"},
             UNCHANGED <<local_queue, direct>>,
             k \in Ticks \ is_mainstream /\ ~direct => Roused(e)
      PROVE  StrandInv'
  <2>1. CASE k \in Runners
    <3>1. at'[k] = "begin" /\ \A j \in Tickers : j # k => at'[j] = at[j]
      BY <1>1, <1>5, <2>1 DEF EndTick
    <3> QED BY <1>5, <3>1, StrandTicker DEF WillAttend, HasThread
  <2>2. CASE k \notin Runners
    <3>1. DropTicker(k, e)
      BY <1>5, <2>2 DEF EndTick
    <3>2. ~direct => Roused(thread_waker')
      BY <1>4, <1>5, <2>2, <3>1 DEF Tickers
    <3>3. ~direct => Attended'
      BY <3>2 DEF Attended, Roused
    <3> QED BY <1>4, <1>5, <3>1, <3>3, StrandTicker DEF HasThread
  <2> QED BY <2>1, <2>2
<1>6. CASE AfterFirst(k)
  <2>1. at[k] = "first" /\ UNCHANGED <<local_queue, direct>>
    BY <1>6 DEF AfterFirst
  <2>2. k \in is_mainstream
    BY <2>1 DEF MainstreamInv, LookersListen
  <2>3. CASE IsNotified(thread_waker, k) /\ EndTick(k, Take(thread_waker, k))
    BY <1>2, <1>5, <2>1, <2>2, <2>3
  <2>4. CASE EndTick(k, Cancel(thread_waker, k))
    BY <1>3, <1>5, <2>1, <2>2, <2>4
  <2>5. CASE at' = [at EXCEPT ![k] = "last"] /\ UNCHANGED is_mainstream
    <3>1. at'[k] = "last" /\ \A j \in Tickers : j # k => at'[j] = at[j]
      BY <1>1, <2>5
    <3> QED BY <2>1, <2>2, <2>5, <3>1, StrandTicker DEF WillAttend, HasThread
  <2> QED BY <1>6, <2>3, <2>4, <2>5 DEF AfterFirst
<1>7. CASE AfterLast(k)
  <2>1. /\ at[k] = "last" /\ UNCHANGED <<local_queue, direct>>
        /\ EndTick(k, thread_waker)
    BY <1>7 DEF AfterLast
  <2>2. k \in Ticks \ is_mainstream /\ ~direct => Roused(thread_waker)
    BY <2>1 DEF StrandInv, LastIsRoused
  <2>3. thread_waker \in Events
    BY DEF TypeInv, EventOK
  <2> QED BY <1>5, <2>1, <2>2, <2>3
<1>8. CASE DropFuture(k)
  <2> DEFINE e == Cancel(thread_waker, k)
  <2>1. /\ at[k] = "waiting" /\ UNCHANGED <<local_queue, direct>>
        /\ DropTicker(k, e)
    BY <1>8 DEF DropFuture
  <2>2. at'[k] = "none" /\ \A j \in Tickers : j # k => at'[j] = at[j]
    BY <1>3, <1>4, <2>1
  <2>3. OneHasThread'
    BY <2>2 DEF StrandInv, OneHasThread, HasThread
  <2>4. is_mainstream' = is_mainstream \ {k}
    BY <2>1 DEF DropTicker
  <2>5. \A j \in Tickers : WillAttend(j) => WillAttend(j)'
    BY <2>1, <2>2, <2>4 DEF WillAttend
  <2>6. Roused(thread_waker) => Roused(e)
    BY OtherEvents DEF TypeInv, EventOK
  <2>7. Roused(thread_waker) => Roused(thread_waker')
    BY <1>3, <1>4, <2>1, <2>6 DEF Roused
  <2>8. Attended => Attended'
    <3>1. CASE k \in is_mainstream
      BY <1>3, <1>4, <2>1, <3>1 DEF Attended, Roused
    <3>2. CASE k \notin is_mainstream
      <4>1. UNCHANGED <<local_queue, is_mainstream_listening>>
        BY <1>3, <1>4, <2>1, <3>2
      <4> QED BY <2>7, <4>1 DEF Attended, Roused
    <3> QED BY <3>1, <3>2
  <2>9. SomebodyAttends'
    BY <2>1, <2>5, <2>8 DEF StrandInv, SomebodyAttends
  <2>10. LastIsRoused'
    BY <2>1, <2>2, <2>4, <2>7 DEF StrandInv, LastIsRoused, Roused, Tickers
  <2> QED BY <2>3, <2>9, <2>10 DEF StrandInv
<1> QED BY <1>6, <1>7, <1>8

(* Every step keeps somebody attending to the queues. *)
LEMMA StrandInvariant == Spec => []StrandInv
<1>1. Init => StrandInv
  BY NewEventType DEF Init, StrandInv, OneHasThread, HasThread, SomebodyAttends, Attended,
                      Roused, LastIsRoused
<1>2. TypeInv /\ MainstreamInv /\ StrandInv /\ [Next]_vars => StrandInv'
  <2> SUFFICES ASSUME TypeInv, MainstreamInv, StrandInv, [Next]_vars PROVE StrandInv'
    OBVIOUS
  <2>1. CASE UNCHANGED vars
    <3>1. /\ UNCHANGED <<is_mainstream_listening, is_mainstream, at, direct>>
          /\ UNCHANGED <<thread_waker, local_queue>>
      BY <2>1 DEF vars, threadState, tickers
    <3> QED BY <3>1, StrandOther
  <2> QED BY <2>1, StrandProgram, StrandTickerStep, StrandTickEnds DEF Next
<1> QED BY <1>1, <1>2, TypeInvariant, MainstreamInvariant, PTL DEF Spec

(* Nobody sleeps beside a task in the thread's queue, or while nobody        *)
(* listens to the mainstream queue, before a tick() future was handed a      *)
(* runnable directly: the notify(1) of a local pop and of Ticker::drop are   *)
(* enough for every other end of a tick, whatever is dropped in between.     *)
THEOREM OnlyDirectTicksStrand == Spec => []OnlyDirectTickStrands
<1>1. TypeInv /\ StrandInv => OnlyDirectTickStrands
  BY IdleIsAttended DEF OnlyDirectTickStrands, NobodyIsStranded, Attended, Roused, ProgramRuns
<1> QED BY <1>1, TypeInvariant, StrandInvariant, PTL

(* Without tick() futures no runnable is handed to one. *)
LEMMA NoDirectTicks ==
    ASSUME Ticks = {}
    PROVE  Spec => []~direct
<1>1. Init => ~direct
  BY DEF Init
<1>2. ~direct /\ [Next]_vars => ~direct'
  <2> SUFFICES ASSUME ~direct, [Next]_vars PROVE ~direct'
    OBVIOUS
  <2>1. ASSUME NEW k \in Tickers, PollAgain(k) PROVE ~direct'
    BY <2>1 DEF PollAgain
  <2>2. [Next]_vars => (\E k \in Tickers : PollAgain(k)) \/ UNCHANGED direct
    BY DEF Next, Spawn, WakeTask, CancelTask, Complete, Suspend, TryTick, PollFirst,
           TickLocal, TickWait, Register, Recheck, AfterFirst, AfterLast, DropFuture,
           ThreadWake, ThreadCancel, ThreadPush, ThreadNotify, DropExecutor, vars
  <2> QED BY <2>1, <2>2
<1> QED BY <1>1, <1>2, PTL DEF Spec

(* A program whose tickers are all inside run() strands none of them: as long *)
(* as a runner sleeps, the thread's queue is empty and the mainstream queue   *)
(* listened to, or some runner is notified, whichever of them are dropped.    *)
THEOREM RunsStrandNobody ==
    ASSUME Ticks = {}
    PROVE  Spec => []NobodyIsStranded
<1>1. OnlyDirectTickStrands /\ ~direct => NobodyIsStranded
  BY DEF OnlyDirectTickStrands
<1> QED BY <1>1, NoDirectTicks, OnlyDirectTicksStrand, PTL

-----------------------------------------------------------------------------
(* The runnables in the hands of threads, and all that are held somewhere. *)
InHands(h) == {h[x] : x \in Threads} \ {None}

Held(e, local, main, h) ==
    TagsOf(e, None) \cup ToSet(local) \cup ToSet(main) \cup InHands(h)

(* No runnable is held twice. *)
HeldOnce(e, local, main, h) ==
    /\ DistinctTags(e, None) /\ Distinct(local) /\ Distinct(main)
    /\ \A x, y \in Threads : h[x] = h[y] => x = y \/ h[x] = None
    /\ TagsOf(e, None) \cap (ToSet(local) \cup ToSet(main) \cup InHands(h)) = {}
    /\ ToSet(local) \cap (ToSet(main) \cup InHands(h)) = {}
    /\ ToSet(main) \cap InHands(h) = {}

(* The stack has the running tasks, each once. *)
Scheduled(s) == {t \in Tasks : s[t] = "scheduled"}
Running(s)   == {t \in Tasks : s[t] \in {"running", "rerun"}}
OnStack(k, s) == Distinct(k) /\ ToSet(k) = Running(s)

(* The invariant, which says RunnableInOnePlace with sets in place of counts. *)
(* A thread has a runnable in its hand only while it is about to push it.     *)
AllHeld ==
    /\ HeldOnce(thread_waker, local_queue, task_queue, hand)
    /\ Held(thread_waker, local_queue, task_queue, hand) = Scheduled(st)
    /\ OnStack(stack, st)

PlacesInv ==
    /\ \A x \in Threads : phase[x] # "push" => hand[x] = None
    /\ executor # "aborted" => AllHeld

(* An event with the same tags holds the same runnables. *)
LEMMA SameTagsHeld ==
    ASSUME NEW e, NEW f, NEW l, NEW m, NEW h, HeldOnce(e, l, m, h),
           DistinctTags(f, None), TagsOf(f, None) = TagsOf(e, None)
    PROVE  HeldOnce(f, l, m, h) /\ Held(f, l, m, h) = Held(e, l, m, h)
BY DEF HeldOnce, Held

(* A runnable that nobody has goes to one place: a note, *)
LEMMA PutNote ==
    ASSUME NEW e, NEW f, NEW l, NEW m, NEW h, NEW t, HeldOnce(e, l, m, h),
           t \notin Held(e, l, m, h),
           DistinctTags(f, None), TagsOf(f, None) = TagsOf(e, None) \cup {t}
    PROVE  HeldOnce(f, l, m, h) /\ Held(f, l, m, h) = Held(e, l, m, h) \cup {t}
BY DEF HeldOnce, Held

(* the thread's queue, *)
LEMMA PutLocal ==
    ASSUME NEW e, NEW l \in Seq(Tasks), NEW m, NEW h, NEW t \in Tasks,
           HeldOnce(e, l, m, h), t \notin Held(e, l, m, h)
    PROVE  /\ HeldOnce(e, Append(l, t), m, h)
           /\ Held(e, Append(l, t), m, h) = Held(e, l, m, h) \cup {t}
<1>1. /\ ToSet(Append(l, t)) = ToSet(l) \cup {t}
      /\ Distinct(Append(l, t))
  BY AppendElement DEF HeldOnce, Held
<1> QED BY <1>1 DEF HeldOnce, Held

(* or the mainstream queue. *)
LEMMA PutMain ==
    ASSUME NEW e, NEW l, NEW m \in Seq(Tasks), NEW h, NEW t \in Tasks,
           HeldOnce(e, l, m, h), t \notin Held(e, l, m, h)
    PROVE  /\ HeldOnce(e, l, Append(m, t), h)
           /\ Held(e, l, Append(m, t), h) = Held(e, l, m, h) \cup {t}
<1>1. /\ ToSet(Append(m, t)) = ToSet(m) \cup {t}
      /\ Distinct(Append(m, t))
  BY AppendElement DEF HeldOnce, Held
<1> QED BY <1>1 DEF HeldOnce, Held

(* A runnable is taken out of a note, *)
LEMMA TakeNote ==
    ASSUME NEW e, NEW f, NEW l, NEW m, NEW h, NEW t, HeldOnce(e, l, m, h),
           t \in TagsOf(e, None),
           DistinctTags(f, None), TagsOf(f, None) = TagsOf(e, None) \ {t}
    PROVE  /\ HeldOnce(f, l, m, h) /\ Held(f, l, m, h) = Held(e, l, m, h) \ {t}
           /\ t \in Held(e, l, m, h)
BY DEF HeldOnce, Held

(* the thread's queue, *)
LEMMA PopLocal ==
    ASSUME NEW e, NEW l \in Seq(Tasks), NEW m, NEW h, HeldOnce(e, l, m, h), l # <<>>
    PROVE  /\ HeldOnce(e, Tail(l), m, h)
           /\ Held(e, Tail(l), m, h) = Held(e, l, m, h) \ {Head(l)}
           /\ Head(l) \in Held(e, l, m, h) /\ Head(l) \in Tasks
<1>1. /\ Head(l) \in ToSet(l) /\ Head(l) \in Tasks
      /\ ToSet(Tail(l)) = ToSet(l) \ {Head(l)} /\ Distinct(Tail(l))
  BY TailElements DEF HeldOnce
<1> QED BY <1>1 DEF HeldOnce, Held

(* or the mainstream queue. *)
LEMMA PopMain ==
    ASSUME NEW e, NEW l, NEW m \in Seq(Tasks), NEW h, HeldOnce(e, l, m, h), m # <<>>
    PROVE  /\ HeldOnce(e, l, Tail(m), h)
           /\ Held(e, l, Tail(m), h) = Held(e, l, m, h) \ {Head(m)}
           /\ Head(m) \in Held(e, l, m, h) /\ Head(m) \in Tasks
<1>1. /\ Head(m) \in ToSet(m) /\ Head(m) \in Tasks
      /\ ToSet(Tail(m)) = ToSet(m) \ {Head(m)} /\ Distinct(Tail(m))
  BY TailElements DEF HeldOnce
<1> QED BY <1>1 DEF HeldOnce, Held

(* The scheduler function puts the runnable in one place. *)
LEMMA SchedulePlaces ==
    ASSUME QueuesOK, EventOK, NEW t \in Tasks, Schedule(t), hand' = hand,
           HeldOnce(thread_waker, local_queue, task_queue, hand),
           t \notin Held(thread_waker, local_queue, task_queue, hand)
    PROVE  /\ HeldOnce(thread_waker', local_queue', task_queue', hand')
           /\ Held(thread_waker', local_queue', task_queue', hand')
                = Held(thread_waker, local_queue, task_queue, hand) \cup {t}
<1>1. CASE SameThread(Origin)
  <2> DEFINE T == Tasks \cup {None}
             add == FALSE
             f == Notify(thread_waker, <<t>>, add)
             k == Reach(thread_waker, 1, add)
  <2>1. /\ thread_waker' = f
        /\ local_queue' = IF k = 1 THEN local_queue ELSE Append(local_queue, t)
        /\ task_queue' = task_queue
    BY <1>1 DEF Schedule, mainstream
  <2>2. thread_waker \in EventOf(Tickers, T) /\ t \in T /\ add \in BOOLEAN
    BY DEF EventOK, Events
  <2>3. t # None
    BY NoneAssumption
  <2>4. /\ t \notin TagsOf(thread_waker, None)
        /\ DistinctTags(thread_waker, None)
    BY DEF HeldOnce, Held
  <2> HIDE DEF T, add
  <2>5. k \in {0, 1}
    BY <2>2, NotifyTag
  <2>6. k = 0 => f = thread_waker
    BY <2>2, NotifyTag
  <2>7. k = 1 => TagsOf(f, None) = TagsOf(thread_waker, None) \cup {t}
    <3>1. k = 1 => TagsOf(f, None) = TagsOf(thread_waker, None) \cup ({t} \ {None})
      BY <2>2, NotifyTag
    <3> QED BY <2>3, <3>1
  <2>8. k = 1 => DistinctTags(f, None)
    BY <2>2, <2>4, NotifyTag
  <2> HIDE DEF f, k
  <2>9. CASE k = 1
    BY <2>1, <2>7, <2>8, <2>9, PutNote
  <2>10. CASE k = 0
    BY <2>1, <2>6, <2>10, PutLocal DEF QueuesOK
  <2> QED BY <2>5, <2>9, <2>10
<1>2. CASE ~SameThread(Origin)
  <2>1. /\ task_queue' = Append(task_queue, t)
        /\ UNCHANGED <<local_queue, thread_waker>>
    BY <1>2 DEF Schedule
  <2> QED BY <2>1, PutMain DEF QueuesOK
<1> QED BY <1>1, <1>2

(* The notification with None moves no runnable. *)
LEMMA NotifyNoneTags ==
    ASSUME NEW e \in Events, DistinctTags(e, None)
    PROVE  /\ DistinctTags(NotifyNone(e), None)
           /\ TagsOf(NotifyNone(e), None) = TagsOf(e, None)
<1> DEFINE T == Tasks \cup {None}
           add == FALSE
           f == Notify(e, <<None>>, add)
           k == Reach(e, 1, add)
<1>1. e \in EventOf(Tickers, T) /\ None \in T /\ add \in BOOLEAN
  BY DEF Events
<1>2. None \notin TagsOf(e, None)
  BY DEF TagsOf
<1>3. NotifyNone(e) = f
  BY DEF NotifyNone
<1> HIDE DEF T, add
<1>4. k \in {0, 1}
  BY <1>1, NotifyTag
<1>5. k = 0 => f = e
  BY <1>1, NotifyTag
<1>6. k = 1 => TagsOf(f, None) = TagsOf(e, None)
  <2>1. k = 1 => TagsOf(f, None) = TagsOf(e, None) \cup ({None} \ {None})
    BY <1>1, NotifyTag
  <2> QED BY <2>1
<1>7. k = 1 => DistinctTags(f, None)
  BY <1>1, <1>2, NotifyTag
<1> HIDE DEF f, k
<1> QED BY <1>3, <1>4, <1>5, <1>6, <1>7

(* A task that is over is neither scheduled nor running. *)
LEMMA DestroyStates ==
    ASSUME TasksOK, NEW t \in Tasks, Destroy(t)
    PROVE  Scheduled(st') = Scheduled(st) \ {t} /\ Running(st') = Running(st) \ {t}
<1>1. \A u \in Tasks : st'[u] = IF u = t THEN "none" ELSE st[u]
  BY DEF TasksOK, Destroy
<1>2. Scheduled(st') = Scheduled(st) \ {t}
  BY <1>1 DEF Scheduled
<1>3. Running(st') = Running(st) \ {t}
  BY <1>1 DEF Running
<1> QED BY <1>2, <1>3

(* A runnable that is run was scheduled, and is running or gone. *)
LEMMA RunStates ==
    ASSUME TasksOK, NEW t \in Tasks, t \in Scheduled(st), OnStack(stack, st), Run(t)
    PROVE  Scheduled(st') = Scheduled(st) \ {t} /\ OnStack(stack', st')
<1>1. t \notin Running(st)
  BY DEF Scheduled, Running
<1>2. CASE t \in cancelled
  <2>1. Destroy(t) /\ stack' = stack
    BY <1>2 DEF Run
  <2> QED BY <1>1, <2>1, DestroyStates DEF OnStack
<1>3. CASE t \notin cancelled
  <2>1. /\ stack' = Append(stack, t)
        /\ \A u \in Tasks : st'[u] = IF u = t THEN "running" ELSE st[u]
    BY <1>3 DEF Run, TasksOK
  <2>2. Scheduled(st') = Scheduled(st) \ {t}
    BY <2>1 DEF Scheduled
  <2>3. Running(st') = Running(st) \cup {t}
    BY <2>1 DEF Running
  <2>4. Distinct(stack') /\ ToSet(stack') = ToSet(stack) \cup {t}
    BY <1>1, <2>1, AppendElement DEF OnStack, TasksOK
  <2> QED BY <2>2, <2>3, <2>4 DEF OnStack
<1> QED BY <1>2, <1>3

(* The task on top of the stack leaves it. *)
LEMMA PopStack ==
    ASSUME TasksOK, stack # <<>>, Pop, OnStack(stack, st), NEW t, t = stack[Len(stack)]
    PROVE  Distinct(stack') /\ ToSet(stack') = Running(st) \ {t} /\ t \in Running(st)
<1> DEFINE n == Len(stack) - 1
           a == SubSeq(stack, 1, n)
           b == SubSeq(stack, n + 1, Len(stack))
<1>1. /\ Len(stack) \in Nat /\ Len(stack) >= 1 /\ stack \in Seq(Tasks)
      /\ Distinct(stack) /\ ToSet(stack) = Running(st)
  BY LenProperties, EmptySeq DEF TasksOK, OnStack
<1>2. n \in Nat /\ n <= Len(stack) /\ n + 1 = Len(stack)
  BY <1>1
<1>3. stack' = a
  BY DEF Pop
<1> HIDE DEF n
<1>4. /\ Distinct(a) /\ ToSet(a) \cup ToSet(b) = Running(st)
      /\ ToSet(a) \cap ToSet(b) = {}
  BY <1>1, <1>2, SplitElements
<1>5. ToSet(b) = {t}
  <2>1. \A i \in (n + 1)..Len(stack) : stack[i] \in Tasks
    BY <1>1, <1>2, ElementOfSeq
  <2>2. b \in Seq(Tasks) /\ Len(b) = 1 /\ b[1] = stack[n + 1]
    <3>1. /\ b \in Seq(Tasks)
          /\ Len(b) = (IF n + 1 <= Len(stack) THEN Len(stack) - (n + 1) + 1 ELSE 0)
          /\ \A i \in 1..(Len(stack) - (n + 1) + 1) : b[i] = stack[(n + 1) + i - 1]
      BY <1>1, <1>2, <2>1, SubSeqProperties
    <3> HIDE DEF b
    <3>2. 1 \in 1..(Len(stack) - (n + 1) + 1) /\ (n + 1) + 1 - 1 = n + 1
      BY <1>1, <1>2
    <3>3. b[1] = stack[n + 1]
      BY <3>1, <3>2
    <3>4. Len(b) = 1
      BY <1>1, <1>2, <3>1
    <3> QED BY <3>1, <3>3, <3>4
  <2> HIDE DEF b
  <2>3. DOMAIN b = 1..1
    BY <2>2, LenProperties
  <2> QED BY <1>2, <2>2, <2>3 DEF ToSet
<1> QED BY <1>3, <1>4, <1>5
-----------------------------------------------------------------------------
(* A step that moves no runnable and keeps the states of the tasks. *)
LEMMA SamePlaces ==
    ASSUME AllHeld, UNCHANGED <<local_queue, task_queue, hand, st, stack>>,
           DistinctTags(thread_waker', None),
           TagsOf(thread_waker', None) = TagsOf(thread_waker, None)
    PROVE  AllHeld'
<1>1. /\ HeldOnce(thread_waker', local_queue, task_queue, hand)
      /\ Held(thread_waker', local_queue, task_queue, hand)
           = Held(thread_waker, local_queue, task_queue, hand)
  BY SameTagsHeld DEF AllHeld
<1> QED BY <1>1 DEF AllHeld

(* A task that is not scheduled is given to the scheduler function. *)
LEMMA SchedulePlacesTask ==
    ASSUME QueuesOK, EventOK, TasksOK, AllHeld, NEW t \in Tasks, Schedule(t), hand' = hand,
           st[t] # "scheduled", st' = [st EXCEPT ![t] = "scheduled"],
           Distinct(stack'), ToSet(stack') = Running(st) \ {t}
    PROVE  AllHeld'
<1>1. \A u \in Tasks : st'[u] = IF u = t THEN "scheduled" ELSE st[u]
  BY DEF TasksOK
<1>2. Scheduled(st') = Scheduled(st) \cup {t}
  BY <1>1 DEF Scheduled
<1>3. Running(st') = Running(st) \ {t}
  BY <1>1 DEF Running
<1>4. t \notin Held(thread_waker, local_queue, task_queue, hand)
  BY DEF AllHeld, Scheduled
<1>5. HeldOnce(thread_waker, local_queue, task_queue, hand)
  BY DEF AllHeld
<1>6. /\ HeldOnce(thread_waker', local_queue', task_queue', hand')
      /\ Held(thread_waker', local_queue', task_queue', hand')
           = Held(thread_waker, local_queue, task_queue, hand) \cup {t}
  BY <1>4, <1>5, SchedulePlaces
<1> QED BY <1>2, <1>3, <1>6 DEF AllHeld, OnStack

(* A task is run whose runnable is taken from where it is. *)
LEMMA RunPlaces ==
    ASSUME TasksOK, AllHeld, NEW t \in Tasks, Run(t),
           t \in Held(thread_waker, local_queue, task_queue, hand),
           HeldOnce(thread_waker', local_queue', task_queue', hand'),
           Held(thread_waker', local_queue', task_queue', hand')
             = Held(thread_waker, local_queue, task_queue, hand) \ {t}
    PROVE  AllHeld'
<1>1. t \in Scheduled(st) /\ OnStack(stack, st)
  BY DEF AllHeld
<1>2. Scheduled(st') = Scheduled(st) \ {t} /\ OnStack(stack', st')
  BY <1>1, RunStates
<1> QED BY <1>2 DEF AllHeld

(* It is taken from the thread's queue, while another runner is woken, *)
LEMMA RunLocalPlaces ==
    ASSUME QueuesOK, EventOK, TasksOK, AllHeld, RunLocal, UNCHANGED <<task_queue, hand>>
    PROVE  AllHeld'
<1> DEFINE f == NotifyNone(thread_waker)
           t == Head(local_queue)
<1>1. /\ local_queue # <<>> /\ local_queue' = Tail(local_queue)
      /\ thread_waker' = f /\ Run(t)
  BY DEF RunLocal
<1>2. /\ HeldOnce(thread_waker, local_queue, task_queue, hand)
      /\ DistinctTags(thread_waker, None)
  BY DEF AllHeld, HeldOnce
<1>3. DistinctTags(f, None) /\ TagsOf(f, None) = TagsOf(thread_waker, None)
  BY <1>2, NotifyNoneTags DEF EventOK
<1>4. /\ HeldOnce(thread_waker, Tail(local_queue), task_queue, hand)
      /\ Held(thread_waker, Tail(local_queue), task_queue, hand)
           = Held(thread_waker, local_queue, task_queue, hand) \ {t}
      /\ t \in Held(thread_waker, local_queue, task_queue, hand) /\ t \in Tasks
  BY <1>1, <1>2, PopLocal DEF QueuesOK
<1> HIDE DEF f, t
<1>5. /\ HeldOnce(f, Tail(local_queue), task_queue, hand)
      /\ Held(f, Tail(local_queue), task_queue, hand)
           = Held(thread_waker, Tail(local_queue), task_queue, hand)
  BY <1>3, <1>4, SameTagsHeld
<1> QED BY <1>1, <1>4, <1>5, RunPlaces

(* from the mainstream queue, with any change of the event but its tags, *)
LEMMA RunMainstreamPlaces ==
    ASSUME QueuesOK, TasksOK, AllHeld, RunMainstream, UNCHANGED <<local_queue, hand>>,
           DistinctTags(thread_waker', None),
           TagsOf(thread_waker', None) = TagsOf(thread_waker, None)
    PROVE  AllHeld'
<1> DEFINE t == Head(task_queue)
<1>1. task_queue # <<>> /\ task_queue' = Tail(task_queue) /\ Run(t)
  BY DEF RunMainstream
<1>2. HeldOnce(thread_waker, local_queue, task_queue, hand)
  BY DEF AllHeld
<1>3. /\ HeldOnce(thread_waker, local_queue, Tail(task_queue), hand)
      /\ Held(thread_waker, local_queue, Tail(task_queue), hand)
           = Held(thread_waker, local_queue, task_queue, hand) \ {t}
      /\ t \in Held(thread_waker, local_queue, task_queue, hand) /\ t \in Tasks
  BY <1>1, <1>2, PopMain DEF QueuesOK
<1> HIDE DEF t
<1>4. /\ HeldOnce(thread_waker', local_queue, Tail(task_queue), hand)
      /\ Held(thread_waker', local_queue, Tail(task_queue), hand)
           = Held(thread_waker, local_queue, Tail(task_queue), hand)
  BY <1>3, SameTagsHeld
<1> QED BY <1>1, <1>3, <1>4, RunPlaces

(* or from the note of the ticker that is polled. *)
LEMMA TakeNoteTags ==
    ASSUME EventOK, AllHeld, NEW k \in Tickers, IsNotified(thread_waker, k)
    PROVE  LET f == Take(thread_waker, k)
               t == Note(thread_waker, k).tag
           IN  /\ DistinctTags(f, None)
               /\ TagsOf(f, None) = TagsOf(thread_waker, None) \ {t}
               /\ t = None => TagsOf(f, None) = TagsOf(thread_waker, None)
               /\ t # None => t \in TagsOf(thread_waker, None) /\ t \in Tasks
<1> DEFINE T == Tasks \cup {None}
           f == Take(thread_waker, k)
           t == Note(thread_waker, k).tag
<1>1. thread_waker \in EventOf(Tickers, T) /\ DistinctTags(thread_waker, None)
  BY DEF EventOK, Events, AllHeld, HeldOnce
<1>2. t \in T
  BY OtherEvents DEF EventOK
<1> HIDE DEF T
<1>3. /\ DistinctTags(f, None)
      /\ TagsOf(f, None) = TagsOf(thread_waker, None) \ {t}
      /\ t # None => t \in TagsOf(thread_waker, None)
  BY <1>1, TakeTag
<1>4. None \notin TagsOf(thread_waker, None)
  BY DEF TagsOf
<1> HIDE DEF f, t
<1> QED BY <1>2, <1>3, <1>4 DEF f, t, T

(* The task of the note that was taken is run. *)
LEMMA RunNotePlaces ==
    ASSUME EventOK, TasksOK, AllHeld, NEW k \in Tickers, IsNotified(thread_waker, k),
           Note(thread_waker, k).tag # None, thread_waker' = Take(thread_waker, k),
           Run(Note(thread_waker, k).tag), UNCHANGED <<local_queue, task_queue, hand>>
    PROVE  AllHeld'
<1> DEFINE f == Take(thread_waker, k)
           t == Note(thread_waker, k).tag
<1>1. /\ DistinctTags(f, None)
      /\ TagsOf(f, None) = TagsOf(thread_waker, None) \ {t}
      /\ t \in TagsOf(thread_waker, None) /\ t \in Tasks
  BY TakeNoteTags
<1>2. HeldOnce(thread_waker, local_queue, task_queue, hand)
  BY DEF AllHeld
<1>3. Run(t) /\ thread_waker' = f
  OBVIOUS
<1> HIDE DEF f, t
<1>4. /\ HeldOnce(f, local_queue, task_queue, hand)
      /\ Held(f, local_queue, task_queue, hand)
           = Held(thread_waker, local_queue, task_queue, hand) \ {t}
      /\ t \in Held(thread_waker, local_queue, task_queue, hand)
  BY <1>1, <1>2, TakeNote
<1> QED BY <1>1, <1>3, <1>4, RunPlaces
-----------------------------------------------------------------------------
(* The two parts of PlacesInv are kept by a step that keeps AllHeld and that *)
(* changes nothing of the threads, nor ends the executor.                    *)
LEMMA PlacesKept ==
    ASSUME PlacesInv, UNCHANGED <<phase, hand, executor>>, AllHeld => AllHeld'
    PROVE  PlacesInv'
BY DEF PlacesInv

(* The steps of the program and of the tasks. *)
LEMMA PlacesTaskStep ==
    ASSUME TypeInv, PlacesInv, NEW t \in Tasks,
           Spawn(t) \/ WakeTask(t) \/ CancelTask(t) \/ Complete(t) \/ Suspend(t)
    PROVE  PlacesInv'
<1> USE DEF TypeInv
<1>1. UNCHANGED <<phase, hand, executor>>
  BY DEF Spawn, WakeTask, CancelTask, Complete, Suspend, threads
<1> SUFFICES ASSUME AllHeld PROVE AllHeld'
  BY <1>1, PlacesKept
<1>2. /\ Distinct(stack) /\ ToSet(stack) = Running(st)
      /\ DistinctTags(thread_waker, None)
  BY DEF AllHeld, HeldOnce, OnStack
<1>3. st[t] \in {"none", "idle"} => ToSet(stack) = Running(st) \ {t}
  BY <1>2 DEF Running
<1>4. ASSUME UNCHANGED <<local_queue, task_queue, thread_waker, stack>>,
             st[t] \in {"running", "rerun"}, st' = [st EXCEPT ![t] = "rerun"]
      PROVE  AllHeld'
  <2>1. \A u \in Tasks : st'[u] = IF u = t THEN "rerun" ELSE st[u]
    BY <1>4 DEF TasksOK
  <2>2. Scheduled(st') = Scheduled(st)
    BY <1>4, <2>1 DEF Scheduled
  <2>3. Running(st') = Running(st)
    BY <1>4, <2>1 DEF Running
  <2> QED BY <1>1, <1>4, <2>2, <2>3 DEF AllHeld, OnStack
<1>5. ASSUME UNCHANGED <<local_queue, task_queue, thread_waker, stack, st>>
      PROVE  AllHeld'
  BY <1>1, <1>5 DEF AllHeld
<1>6. CASE Spawn(t)
  <2>1. /\ st[t] = "none" /\ st' = [st EXCEPT ![t] = "scheduled"] /\ Schedule(t)
        /\ stack' = stack
    BY <1>6 DEF Spawn
  <2> QED BY <1>1, <1>2, <1>3, <2>1, SchedulePlacesTask
<1>7. CASE WakeTask(t)
  <2>1. CASE st[t] = "idle"
    <3>1. st' = [st EXCEPT ![t] = "scheduled"] /\ Schedule(t) /\ stack' = stack
      BY <1>7, <2>1 DEF WakeTask
    <3> QED BY <1>1, <1>2, <1>3, <2>1, <3>1, SchedulePlacesTask
  <2>2. CASE st[t] # "idle"
    BY <1>4, <1>7, <2>2 DEF WakeTask, mainstream
  <2> QED BY <2>1, <2>2
<1>8. CASE CancelTask(t)
  <2>1. CASE st[t] = "idle"
    <3>1. st' = [st EXCEPT ![t] = "scheduled"] /\ Schedule(t) /\ stack' = stack
      BY <1>8, <2>1 DEF CancelTask
    <3> QED BY <1>1, <1>2, <1>3, <2>1, <3>1, SchedulePlacesTask
  <2>2. CASE st[t] # "idle"
    BY <1>5, <1>8, <2>2 DEF CancelTask, mainstream
  <2> QED BY <2>1, <2>2
<1>9. ASSUME Pop, stack # <<>>, t = stack[Len(stack)]
      PROVE  /\ Distinct(stack') /\ ToSet(stack') = Running(st) \ {t}
             /\ t \in Running(st)
  BY <1>9, PopStack DEF AllHeld
<1>10. ASSUME Pop, stack # <<>>, t = stack[Len(stack)], Destroy(t),
              UNCHANGED <<local_queue, task_queue, thread_waker>>
       PROVE  AllHeld'
  <2>1. Scheduled(st') = Scheduled(st) \ {t} /\ Running(st') = Running(st) \ {t}
    BY <1>10, DestroyStates
  <2>2. t \notin Scheduled(st)
    BY <1>9, <1>10 DEF Running, Scheduled
  <2> QED BY <1>1, <1>9, <1>10, <2>1, <2>2 DEF AllHeld, OnStack
<1>11. CASE Complete(t)
  BY <1>10, <1>11 DEF Complete, mainstream
<1>12. CASE Suspend(t)
  <2>1. Pop /\ stack # <<>> /\ t = stack[Len(stack)]
    BY <1>12 DEF Suspend
  <2>2. CASE t \in cancelled
    BY <1>10, <1>12, <2>1, <2>2 DEF Suspend, mainstream
  <2>3. CASE t \notin cancelled /\ st[t] = "running"
    <3>1. /\ st' = [st EXCEPT ![t] = "idle"]
          /\ UNCHANGED <<local_queue, task_queue, thread_waker>>
      BY <1>12, <2>3 DEF Suspend, mainstream
    <3>2. \A u \in Tasks : st'[u] = IF u = t THEN "idle" ELSE st[u]
      BY <3>1 DEF TasksOK
    <3>3. Scheduled(st') = Scheduled(st)
      BY <2>3, <3>2 DEF Scheduled
    <3>4. Running(st') = Running(st) \ {t}
      BY <3>2 DEF Running
    <3> QED BY <1>1, <1>9, <2>1, <3>1, <3>3, <3>4 DEF AllHeld, OnStack
  <2>4. CASE t \notin cancelled /\ st[t] = "rerun"
    <3>1. st' = [st EXCEPT ![t] = "scheduled"] /\ Schedule(t)
      BY <1>12, <2>4 DEF Suspend
    <3> QED BY <1>1, <1>9, <2>1, <2>4, <3>1, SchedulePlacesTask
  <2> QED BY <1>12, <2>2, <2>3, <2>4 DEF Suspend
<1> QED BY <1>6, <1>7, <1>8, <1>11, <1>12

(* The steps that take runnables from the queues, and those that take none. *)
LEMMA PlacesTickerStep ==
    ASSUME TypeInv, PlacesInv,
           \/ TryTick
           \/ \E k \in Tickers : \/ PollFirst(k) \/ TickLocal(k) \/ TickWait(k)
                                 \/ Register(k) \/ Recheck(k)
    PROVE  PlacesInv'
<1> USE DEF TypeInv
<1>1. UNCHANGED <<phase, hand, executor>>
  BY DEF TryTick, PollFirst, TickLocal, TickWait, Register, Recheck, threads
<1> SUFFICES ASSUME AllHeld PROVE AllHeld'
  BY <1>1, PlacesKept
<1>2. DistinctTags(thread_waker, None)
  BY DEF AllHeld, HeldOnce
<1>3. CASE RunLocal /\ task_queue' = task_queue
  BY <1>1, <1>3, RunLocalPlaces
<1>4. CASE RunMainstream /\ UNCHANGED <<local_queue, thread_waker>>
  BY <1>1, <1>2, <1>4, RunMainstreamPlaces
<1>5. CASE UNCHANGED <<local_queue, task_queue, thread_waker, st, stack>>
  BY <1>1, <1>2, <1>5, SamePlaces
<1>6. CASE TryTick
  BY <1>3, <1>4, <1>6 DEF TryTick, mainstream
<1>7. ASSUME NEW k \in Tickers, TickWait(k)
      PROVE  AllHeld'
  <2>1. thread_waker' = Insert(thread_waker, k) /\ local_queue' = local_queue
    BY <1>7 DEF TickWait
  <2>2. Insert(thread_waker, k).notified = thread_waker.notified
    BY InsertType DEF EventOK, Events
  <2>3. /\ DistinctTags(thread_waker', None)
        /\ TagsOf(thread_waker', None) = TagsOf(thread_waker, None)
    BY <1>2, <2>1, <2>2 DEF DistinctTags, TagsOf
  <2>4. RunMainstream \/ UNCHANGED <<task_queue, st, stack>>
    BY <1>7 DEF TickWait, tasks
  <2> QED BY <1>1, <2>1, <2>3, <2>4, RunMainstreamPlaces, SamePlaces
<1>8. ASSUME NEW k \in Tickers,
             PollFirst(k) \/ TickLocal(k) \/ Register(k) \/ Recheck(k)
      PROVE  AllHeld'
  BY <1>3, <1>4, <1>5, <1>8
     DEF PollFirst, TickLocal, Register, Recheck, mainstream, threadState, tasks
<1> QED BY <1>6, <1>7, <1>8

(* A tick that ends moves no runnable. *)
LEMMA EndTickTags ==
    ASSUME NEW k \in Tickers, NEW e \in Events, EndTick(k, e) \/ DropTicker(k, e),
           DistinctTags(e, None)
    PROVE  /\ DistinctTags(thread_waker', None)
           /\ TagsOf(thread_waker', None) = TagsOf(e, None)
<1>1. /\ DistinctTags(NotifyNone(e), None)
      /\ TagsOf(NotifyNone(e), None) = TagsOf(e, None)
  BY NotifyNoneTags
<1>2. thread_waker' = e \/ thread_waker' = NotifyNone(e)
  BY DEF EndTick, DropTicker
<1> QED BY <1>1, <1>2

(* A poll of a ticker that waits, and the rest of a tick that has run a task. *)
LEMMA PlacesListenerStep ==
    ASSUME TypeInv, PlacesInv, NEW k \in Tickers,
           PollAgain(k) \/ AfterFirst(k) \/ AfterLast(k)
    PROVE  PlacesInv'
<1> USE DEF TypeInv
<1> DEFINE e == Take(thread_waker, k)
           c == Cancel(thread_waker, k)
<1>1. UNCHANGED <<phase, hand, executor>> /\ local_queue' = local_queue
  BY DEF PollAgain, AfterFirst, AfterLast, threads
<1> SUFFICES ASSUME AllHeld PROVE AllHeld'
  BY <1>1, PlacesKept
<1>2. DistinctTags(thread_waker, None) /\ thread_waker \in Events
  BY DEF AllHeld, HeldOnce, EventOK
<1>3. ASSUME IsNotified(thread_waker, k), Note(thread_waker, k).tag = None
      PROVE  /\ DistinctTags(e, None) /\ TagsOf(e, None) = TagsOf(thread_waker, None)
             /\ e \in Events
  BY <1>2, <1>3, TakeNoteTags, OtherEvents
<1>4. ASSUME ~IsNotified(thread_waker, k)
      PROVE  /\ DistinctTags(c, None) /\ TagsOf(c, None) = TagsOf(thread_waker, None)
             /\ c \in Events
  <2>1. c \in Events
    BY <1>2, OtherEvents
  <2> QED BY <1>2, <1>4, <2>1, CancelTags DEF Events
<1>5. ASSUME IsNotified(thread_waker, k), Note(thread_waker, k).tag # None,
             thread_waker' = e, Run(Note(thread_waker, k).tag), task_queue' = task_queue
      PROVE  AllHeld'
  BY <1>1, <1>5, RunNotePlaces
<1> HIDE DEF e, c
<1>6. CASE PollAgain(k)
  <2>1. CASE IsNotified(thread_waker, k) /\ Note(thread_waker, k).tag = None
    <3>1. thread_waker' = e /\ UNCHANGED <<task_queue, st, stack>>
      BY <1>6, <2>1 DEF PollAgain, tasks, e
    <3> QED BY <1>1, <1>3, <2>1, <3>1, SamePlaces
  <2>2. CASE IsNotified(thread_waker, k) /\ Note(thread_waker, k).tag # None
    <3>1. /\ thread_waker' = e /\ Run(Note(thread_waker, k).tag)
          /\ task_queue' = task_queue
      BY <1>6, <2>2 DEF PollAgain, e
    <3> QED BY <1>5, <2>2, <3>1
  <2>3. CASE ~IsNotified(thread_waker, k)
    <3>1. thread_waker' = thread_waker
      BY <1>6, <2>3 DEF PollAgain
    <3>2. RunMainstream \/ UNCHANGED <<task_queue, st, stack>>
      BY <1>6, <2>3 DEF PollAgain, tasks
    <3> QED BY <1>1, <1>2, <3>1, <3>2, RunMainstreamPlaces, SamePlaces
  <2> QED BY <2>1, <2>2, <2>3
<1>7. CASE AfterFirst(k)
  <2>1. CASE IsNotified(thread_waker, k) /\ Note(thread_waker, k).tag # None
    <3>1. /\ thread_waker' = e /\ Run(Note(thread_waker, k).tag)
          /\ task_queue' = task_queue
      BY <1>7, <2>1 DEF AfterFirst, e
    <3> QED BY <1>5, <2>1, <3>1
  <2>2. CASE IsNotified(thread_waker, k) /\ Note(thread_waker, k).tag = None
    <3>1. EndTick(k, e) /\ UNCHANGED <<task_queue, st, stack>>
      BY <1>7, <2>2 DEF AfterFirst, tasks, e
    <3>2. /\ DistinctTags(thread_waker', None)
          /\ TagsOf(thread_waker', None) = TagsOf(thread_waker, None)
      BY <1>3, <2>2, <3>1, EndTickTags
    <3> QED BY <1>1, <3>1, <3>2, SamePlaces
  <2>3. CASE ~IsNotified(thread_waker, k)
    <3>1. EndTick(k, c) /\ UNCHANGED <<task_queue, st, stack>>
      BY <1>7, <2>3 DEF AfterFirst, tasks, c
    <3>2. /\ DistinctTags(thread_waker', None)
          /\ TagsOf(thread_waker', None) = TagsOf(thread_waker, None)
      BY <1>4, <2>3, <3>1, EndTickTags
    <3> QED BY <1>1, <3>1, <3>2, SamePlaces
  <2> QED BY <2>1, <2>2, <2>3
<1>8. CASE AfterLast(k)
  <2>1. EndTick(k, thread_waker) /\ UNCHANGED <<task_queue, st, stack>>
    BY <1>8 DEF AfterLast, tasks
  <2> QED BY <1>1, <1>2, <2>1, EndTickTags, SamePlaces
<1> QED BY <1>6, <1>7, <1>8

(* A pending future is dropped: the runnable of its listener goes on to      *)
(* another listener, or the task is over.                                    *)
LEMMA PlacesDropFuture ==
    ASSUME TypeInv, PlacesInv, NEW k \in Tickers, DropFuture(k)
    PROVE  PlacesInv'
<1> USE DEF TypeInv
<1> DEFINE c == Cancel(thread_waker, k)
<1>1. UNCHANGED <<phase, hand, executor, local_queue, task_queue>>
  BY DEF DropFuture, threads
<1> SUFFICES ASSUME AllHeld PROVE AllHeld'
  BY <1>1, PlacesKept
<1>2. /\ DistinctTags(thread_waker, None) /\ thread_waker \in Events
      /\ HeldOnce(thread_waker, local_queue, task_queue, hand)
  BY DEF AllHeld, HeldOnce, EventOK
<1>3. \A g : InNotes(g) = TagsOf(g, None)
  BY DEF InNotes, TagsOf
<1>4. /\ DropTicker(k, c)
      /\ \/ TagsOf(c, None) = TagsOf(thread_waker, None) /\ UNCHANGED <<st, stack>>
         \/ \E t \in TagsOf(thread_waker, None) \ TagsOf(c, None) :
               Destroy(t) /\ UNCHANGED stack
  BY <1>3 DEF DropFuture, tasks
<1>5. /\ c \in Events /\ DistinctTags(c, None)
      /\ TagsOf(c, None) \subseteq TagsOf(thread_waker, None)
      /\ TagsOf(thread_waker, None) \ TagsOf(c, None) \subseteq {Note(thread_waker, k).tag}
  <2>1. c \in Events
    BY <1>2, OtherEvents
  <2> QED BY <1>2, <2>1, CancelTags DEF Events
<1> HIDE DEF c
<1>6. /\ DistinctTags(thread_waker', None)
      /\ TagsOf(thread_waker', None) = TagsOf(c, None)
  BY <1>4, <1>5, EndTickTags
<1>7. CASE TagsOf(c, None) = TagsOf(thread_waker, None) /\ UNCHANGED <<st, stack>>
  BY <1>1, <1>6, <1>7, SamePlaces
<1>8. ASSUME NEW t \in TagsOf(thread_waker, None) \ TagsOf(c, None),
             Destroy(t), stack' = stack
      PROVE  AllHeld'
  <2>1. TagsOf(thread_waker', None) = TagsOf(thread_waker, None) \ {t}
    BY <1>5, <1>6
  <2>2. /\ HeldOnce(thread_waker', local_queue, task_queue, hand)
        /\ Held(thread_waker', local_queue, task_queue, hand)
             = Held(thread_waker, local_queue, task_queue, hand) \ {t}
        /\ t \in Held(thread_waker, local_queue, task_queue, hand)
    BY <1>2, <1>6, <2>1, TakeNote
  <2>3. t \in Scheduled(st) /\ t \in Tasks
    BY <2>2 DEF AllHeld, Scheduled
  <2>4. Scheduled(st') = Scheduled(st) \ {t} /\ Running(st') = Running(st) \ {t}
    BY <1>8, <2>3, DestroyStates
  <2>5. t \notin Running(st)
    BY <2>3 DEF Scheduled, Running
  <2> QED BY <1>1, <1>8, <2>2, <2>4, <2>5 DEF AllHeld, OnStack
<1> QED BY <1>4, <1>7, <1>8
(* The steps of the other threads: a runnable is in a hand from the wakeup   *)
(* to the push.                                                              *)
LEMMA PlacesThreadStep ==
    ASSUME TypeInv, PlacesInv, NEW x \in Threads,
           \/ \E t \in Tasks : ThreadWake(x, t) \/ ThreadCancel(x, t)
           \/ ThreadPush(x) \/ ThreadNotify(x)
    PROVE  PlacesInv'
<1> USE DEF TypeInv
<1>1. UNCHANGED <<executor, thread_waker, local_queue, stack>>
  BY DEF ThreadWake, ThreadCancel, ThreadPush, ThreadNotify, threadState, tasks
<1>2. \A y \in Threads : phase[y] # "push" => hand[y] = None
  BY DEF PlacesInv
<1>3. ASSUME NEW t \in Tasks, phase[x] = "idle", st[t] = "idle",
             st' = [st EXCEPT ![t] = "scheduled"],
             phase' = [phase EXCEPT ![x] = "push"], hand' = [hand EXCEPT ![x] = t],
             task_queue' = task_queue
      PROVE  PlacesInv'
  <2>1. hand[x] = None /\ t # None
    BY <1>2, <1>3, NoneAssumption
  <2>2. \A y \in Threads : hand'[y] = IF y = x THEN t ELSE hand[y]
    BY <1>3 DEF ThreadsOK
  <2>3. \A y \in Threads : phase'[y] # "push" => hand'[y] = None
    BY <1>2, <1>3, <2>2 DEF ThreadsOK
  <2>4. ASSUME AllHeld PROVE AllHeld'
    <3>1. t \notin Held(thread_waker, local_queue, task_queue, hand)
      BY <1>3, <2>4 DEF AllHeld, Scheduled
    <3>2. InHands(hand') = InHands(hand) \cup {t}
      BY <2>1, <2>2 DEF InHands
    <3>3. \A y, z \in Threads : hand'[y] = hand'[z] => y = z \/ hand'[y] = None
      <4>1. \A y \in Threads : hand[y] # t
        BY <2>1, <3>1 DEF Held, InHands
      <4>2. \A y, z \in Threads : hand[y] = hand[z] => y = z \/ hand[y] = None
        BY <2>4 DEF AllHeld, HeldOnce
      <4> QED BY <2>2, <4>1, <4>2
    <3>4. HeldOnce(thread_waker, local_queue, task_queue, hand')
      <4>1. HeldOnce(thread_waker, local_queue, task_queue, hand)
        BY <2>4 DEF AllHeld
      <4> QED BY <3>1, <3>2, <3>3, <4>1 DEF HeldOnce, Held
    <3>5. Held(thread_waker, local_queue, task_queue, hand')
            = Held(thread_waker, local_queue, task_queue, hand) \cup {t}
      BY <3>2 DEF Held
    <3>6. \A u \in Tasks : st'[u] = IF u = t THEN "scheduled" ELSE st[u]
      BY <1>3 DEF TasksOK
    <3>7. Scheduled(st') = Scheduled(st) \cup {t}
      BY <3>6 DEF Scheduled
    <3>8. Running(st') = Running(st)
      BY <1>3, <3>6 DEF Running
    <3> QED BY <1>1, <1>3, <2>4, <3>4, <3>5, <3>7, <3>8 DEF AllHeld, OnStack
  <2> QED BY <1>1, <2>3, <2>4 DEF PlacesInv
<1>4. ASSUME UNCHANGED <<task_queue, phase, hand, cancelled, st>> \/
             /\ UNCHANGED <<task_queue, phase, hand>>
             /\ \E t \in Tasks : st[t] = "running" /\ st' = [st EXCEPT ![t] = "rerun"]
      PROVE  PlacesInv'
  <2>1. Scheduled(st') = Scheduled(st) /\ Running(st') = Running(st)
    <3>1. CASE st' = st
      BY <3>1
    <3>2. ASSUME NEW t \in Tasks, st[t] = "running", st' = [st EXCEPT ![t] = "rerun"]
          PROVE  Scheduled(st') = Scheduled(st) /\ Running(st') = Running(st)
      <4>1. \A u \in Tasks : st'[u] = IF u = t THEN "rerun" ELSE st[u]
        BY <3>2 DEF TasksOK
      <4>2. Scheduled(st') = Scheduled(st)
        BY <3>2, <4>1 DEF Scheduled
      <4>3. Running(st') = Running(st)
        BY <3>2, <4>1 DEF Running
      <4> QED BY <4>2, <4>3
    <3> QED BY <1>4, <3>1, <3>2
  <2> QED BY <1>1, <1>4, <2>1 DEF PlacesInv, AllHeld, OnStack
<1>5. ASSUME NEW t \in Tasks, ThreadWake(x, t)
      PROVE  PlacesInv'
  <2>1. CASE st[t] = "idle"
    BY <1>3, <1>5, <2>1 DEF ThreadWake, mainstream
  <2>2. CASE st[t] # "idle"
    BY <1>4, <1>5, <2>2 DEF ThreadWake, mainstream, threads
  <2> QED BY <2>1, <2>2
<1>6. ASSUME NEW t \in Tasks, ThreadCancel(x, t)
      PROVE  PlacesInv'
  <2>1. CASE st[t] = "idle"
    BY <1>3, <1>6, <2>1 DEF ThreadCancel, mainstream
  <2>2. CASE st[t] # "idle"
    <3>1. UNCHANGED <<task_queue, phase, hand, st>>
      BY <1>6, <2>2 DEF ThreadCancel, mainstream, threads
    <3> QED BY <1>1, <3>1 DEF PlacesInv, AllHeld
  <2> QED BY <2>1, <2>2
<1>7. CASE ThreadPush(x)
  <2> DEFINE t == hand[x]
  <2>1. /\ phase[x] = "push" /\ t \in Tasks /\ t # None
        /\ task_queue' = Append(task_queue, t)
        /\ UNCHANGED <<st, stack>>
    BY <1>7, NoneAssumption DEF ThreadPush, ThreadsOK, tasks
  <2>2. \A y \in Threads : hand'[y] = IF y = x THEN None ELSE hand[y]
    BY <1>7 DEF ThreadPush, ThreadsOK
  <2>3. \A y \in Threads : phase'[y] # "push" => hand'[y] = None
    BY <1>2, <1>7, <2>2 DEF ThreadPush, ThreadsOK
  <2>4. ASSUME AllHeld PROVE AllHeld'
    <3>1. HeldOnce(thread_waker, local_queue, task_queue, hand)
      BY <2>4 DEF AllHeld
    <3>2. \A y \in Threads : hand[y] = t => y = x
      BY <2>1, <3>1 DEF HeldOnce
    <3>3. InHands(hand') = InHands(hand) \ {t} /\ t \in InHands(hand)
      BY <2>1, <2>2, <3>2 DEF InHands
    <3> HIDE DEF t
    <3>4. /\ ToSet(task_queue') = ToSet(task_queue) \cup {t}
          /\ Distinct(task_queue')
      <4>1. t \notin ToSet(task_queue)
        BY <3>1, <3>3 DEF HeldOnce
      <4> QED BY <2>1, <3>1, <4>1, AppendElement DEF HeldOnce, QueuesOK
    <3>5. \A y, z \in Threads : hand'[y] = hand'[z] => y = z \/ hand'[y] = None
      BY <2>2, <3>1 DEF HeldOnce
    <3>6. HeldOnce(thread_waker, local_queue, task_queue', hand')
      BY <3>1, <3>3, <3>4, <3>5 DEF HeldOnce
    <3>7. Held(thread_waker, local_queue, task_queue', hand')
            = Held(thread_waker, local_queue, task_queue, hand)
      BY <3>3, <3>4 DEF Held
    <3> QED BY <1>1, <2>1, <2>4, <3>6, <3>7 DEF AllHeld
  <2> QED BY <1>1, <2>3, <2>4 DEF PlacesInv
<1>8. CASE ThreadNotify(x)
  <2>1. UNCHANGED <<task_queue, hand, st, stack>>
    BY <1>8 DEF ThreadNotify, tasks
  <2>2. \A y \in Threads : phase'[y] # "push" => phase[y] # "push"
    BY <1>8 DEF ThreadNotify, ThreadsOK
  <2>3. AllHeld => AllHeld'
    BY <1>1, <2>1 DEF AllHeld
  <2> QED BY <1>1, <1>2, <2>1, <2>2, <2>3 DEF PlacesInv
<1> QED BY <1>5, <1>6, <1>7, <1>8

(* The executor is dropped: the runnables that its two loops drop were held  *)
(* in the queues, and those that stay are the rest of the mainstream queue.  *)
LEMMA PlacesDropExecutor ==
    ASSUME TypeInv, PlacesInv, DropExecutor
    PROVE  PlacesInv'
<1> USE DEF TypeInv
<1>1. /\ executor = "alive" /\ UNCHANGED <<thread_waker, phase, hand, stack>>
  BY DEF DropExecutor, ProgramRuns, threads
<1>2. AllHeld
  BY <1>1 DEF PlacesInv
<1> SUFFICES AllHeld'
  BY <1>1 DEF PlacesInv
<1>3. PICK first \in (IF active = {} THEN {None} ELSE active) :
         LET here  == SameThread(Origin)
             local == IF here THEN Queued(local_queue, first) ELSE local_queue
             main  == IF here THEN task_queue ELSE Queued(task_queue, first)
             taken == IF Len(main) <= Len(local) THEN Len(main) ELSE Len(local) + 1
             over  == ToSet(local) \cup ToSet(SubSeq(main, 1, taken))
         IN  /\ local_queue' = <<>>
             /\ task_queue' = SubSeq(main, taken + 1, Len(main))
             /\ st' = [t \in Tasks |-> IF t \in over THEN "none"
                                       ELSE IF t = first /\ st[t] = "idle" THEN "scheduled"
                                       ELSE st[t]]
  BY DEF DropExecutor
<1> DEFINE here  == SameThread(Origin)
           local == IF here THEN Queued(local_queue, first) ELSE local_queue
           main  == IF here THEN task_queue ELSE Queued(task_queue, first)
           taken == IF Len(main) <= Len(local) THEN Len(main) ELSE Len(local) + 1
           a     == SubSeq(main, 1, taken)
           b     == SubSeq(main, taken + 1, Len(main))
           over  == ToSet(local) \cup ToSet(a)
           woke  == {t \in Tasks : t = first /\ st[t] = "idle"}
<1>4. /\ local_queue' = <<>> /\ task_queue' = b
      /\ \A t \in Tasks : st'[t] = IF t \in over THEN "none"
                                   ELSE IF t \in woke THEN "scheduled" ELSE st[t]
  BY <1>3
<1>5. /\ local \in Seq(Tasks) /\ main \in Seq(Tasks)
      /\ HeldOnce(thread_waker, local, main, hand)
      /\ Held(thread_waker, local, main, hand) = Scheduled(st) \cup woke
  <2>1. /\ HeldOnce(thread_waker, local_queue, task_queue, hand)
        /\ Held(thread_waker, local_queue, task_queue, hand) = Scheduled(st)
    BY <1>2 DEF AllHeld
  <2>2. CASE first \in Tasks /\ st[first] = "idle"
    <3>1. woke = {first} /\ first \notin Scheduled(st)
      BY <2>2 DEF Scheduled
    <3>2. \A q : Queued(q, first) = Append(q, first)
      BY <2>2 DEF Queued
    <3>3. /\ Append(local_queue, first) \in Seq(Tasks)
          /\ Append(task_queue, first) \in Seq(Tasks)
      BY <2>2, AppendProperties DEF QueuesOK
    <3>4. CASE here
      <4>1. local = Append(local_queue, first) /\ main = task_queue
        BY <3>2, <3>4
      <4>2. /\ HeldOnce(thread_waker, Append(local_queue, first), task_queue, hand)
            /\ Held(thread_waker, Append(local_queue, first), task_queue, hand)
                 = Scheduled(st) \cup {first}
        BY <2>1, <2>2, <3>1, PutLocal DEF QueuesOK
      <4> HIDE DEF local, main, woke
      <4> QED BY <3>1, <3>3, <4>1, <4>2 DEF QueuesOK
    <3>5. CASE ~here
      <4>1. local = local_queue /\ main = Append(task_queue, first)
        BY <3>2, <3>5
      <4>2. /\ HeldOnce(thread_waker, local_queue, Append(task_queue, first), hand)
            /\ Held(thread_waker, local_queue, Append(task_queue, first), hand)
                 = Scheduled(st) \cup {first}
        BY <2>1, <2>2, <3>1, PutMain DEF QueuesOK
      <4> HIDE DEF local, main, woke
      <4> QED BY <3>1, <3>3, <4>1, <4>2 DEF QueuesOK
    <3> QED BY <3>4, <3>5
  <2>3. CASE ~(first \in Tasks /\ st[first] = "idle")
    <3>1. woke = {}
      BY <2>3
    <3>2. local = local_queue /\ main = task_queue
      BY <2>3 DEF Queued
    <3> QED BY <2>1, <3>1, <3>2 DEF QueuesOK
  <2> QED BY <2>2, <2>3
<1>6. woke \subseteq Tasks /\ woke \cap Running(st) = {}
  BY DEF Running
<1> HIDE DEF local, main, woke
<1>7. taken \in Nat /\ taken <= Len(main)
  BY <1>5, LenProperties
<1> HIDE DEF taken
<1>8. /\ Distinct(b) /\ ToSet(a) \cup ToSet(b) = ToSet(main)
      /\ ToSet(a) \cap ToSet(b) = {}
  BY <1>5, <1>7, SplitElements DEF HeldOnce
<1> HIDE DEF a, b
<1>9. Distinct(<<>>) /\ ToSet(<<>>) = {}
  BY DEF Distinct, ToSet
<1>10. HeldOnce(thread_waker, <<>>, b, hand)
  BY <1>5, <1>8, <1>9 DEF HeldOnce
<1>11. Held(thread_waker, <<>>, b, hand) = (Scheduled(st) \cup woke) \ over
  BY <1>5, <1>8, <1>9 DEF Held, HeldOnce
<1>12. over \subseteq Scheduled(st) \cup woke
  BY <1>5, <1>8 DEF Held
<1> HIDE DEF over
<1>13. Scheduled(st') = (Scheduled(st) \cup woke) \ over
  BY <1>4, <1>6 DEF Scheduled
<1>14. Running(st') = Running(st)
  <2>1. \A t \in Running(st) : t \notin over /\ t \notin woke
    BY <1>6, <1>12 DEF Running, Scheduled
  <2>2. \A t \in Tasks : t \in Running(st') <=> t \in Running(st)
    BY <1>4, <2>1 DEF Running
  <2> QED BY <2>2 DEF Running
<1> QED BY <1>1, <1>2, <1>4, <1>10, <1>11, <1>13, <1>14 DEF AllHeld, OnStack

(* Nobody has a runnable at first, and each step keeps them apart. *)
LEMMA PlacesInvariant == Spec => []PlacesInv
<1>1. Init => PlacesInv
  <2> SUFFICES ASSUME Init PROVE PlacesInv
    OBVIOUS
  <2>1. /\ task_queue = <<>> /\ local_queue = <<>> /\ stack = <<>>
        /\ thread_waker.notified = <<>>
        /\ \A x \in Threads : hand[x] = None
        /\ \A t \in Tasks : st[t] = "none"
    BY NewEventType DEF Init
  <2>2. Distinct(<<>>) /\ ToSet(<<>>) = {} /\ Len(<<>>) = 0
    BY EmptySeq DEF Distinct, ToSet
  <2>3. InHands(hand) = {} /\ Scheduled(st) = {} /\ Running(st) = {}
    BY <2>1 DEF InHands, Scheduled, Running
  <2>4. TagsOf(thread_waker, None) = {} /\ DistinctTags(thread_waker, None)
    BY <2>1, <2>2 DEF TagsOf, DistinctTags
  <2>5. AllHeld
    BY <2>1, <2>2, <2>3, <2>4 DEF AllHeld, HeldOnce, Held, OnStack
  <2> QED BY <2>1, <2>5 DEF PlacesInv
<1>2. TypeInv /\ PlacesInv /\ [Next]_vars => PlacesInv'
  <2> SUFFICES ASSUME TypeInv, PlacesInv, [Next]_vars PROVE PlacesInv'
    OBVIOUS
  <2>1. CASE UNCHANGED vars
    BY <2>1 DEF vars, threadState, mainstream, tasks, threads, PlacesInv, AllHeld
  <2>2. CASE Next
    <3>1. \/ \E t \in Tasks : Spawn(t) \/ WakeTask(t) \/ CancelTask(t) \/ Complete(t)
                              \/ Suspend(t)
          \/ TryTick
          \/ \E k \in Tickers : \/ PollFirst(k) \/ TickLocal(k) \/ TickWait(k)
                                \/ Register(k) \/ Recheck(k)
          \/ \E k \in Tickers : PollAgain(k) \/ AfterFirst(k) \/ AfterLast(k)
          \/ \E k \in Tickers : DropFuture(k)
          \/ \E x \in Threads : \/ \E t \in Tasks : ThreadWake(x, t) \/ ThreadCancel(x, t)
                                \/ ThreadPush(x) \/ ThreadNotify(x)
          \/ DropExecutor
      BY <2>2 DEF Next
    <3> QED BY <3>1, PlacesTaskStep, PlacesTickerStep, PlacesListenerStep, PlacesDropFuture,
               PlacesThreadStep, PlacesDropExecutor
  <2> QED BY <2>1, <2>2
<1> QED BY <1>1, <1>2, TypeInvariant, PTL DEF Spec

-----------------------------------------------------------------------------
(* A set whose elements are all the same one has one element or none. *)
LEMMA AtMostOne ==
    ASSUME NEW S, \A x, y \in S : x = y
    PROVE  Cardinality(S) = IF S = {} THEN 0 ELSE 1
<1>1. CASE S = {}
  BY <1>1, FS_EmptySet
<1>2. CASE S # {}
  <2>1. PICK x : S = {x}
    BY <1>2
  <2> QED BY <2>1, FS_Singleton
<1> QED BY <1>1, <1>2

(* An element is in a sequence without duplicates once or not at all. *)
LEMMA OccursOnce ==
    ASSUME NEW S, NEW q \in Seq(S), Distinct(q), NEW t
    PROVE  Occurrences(q, t) = IF t \in ToSet(q) THEN 1 ELSE 0
<1> DEFINE P == {i \in 1..Len(q) : q[i] = t}
<1>1. Cardinality(P) = IF P = {} THEN 0 ELSE 1
  <2>1. \A i, j \in P : i = j
    BY DEF Distinct
  <2> HIDE DEF P
  <2> QED BY <2>1, AtMostOne
<1>2. P = {} <=> t \notin ToSet(q)
  <2>1. DOMAIN q = 1..Len(q)
    BY LenProperties
  <2> QED BY <2>1 DEF ToSet
<1>3. Occurrences(q, t) = Cardinality(P)
  BY DEF Occurrences
<1> HIDE DEF P
<1> QED BY <1>1, <1>2, <1>3

(* A task that is scheduled has its one runnable in exactly one of the       *)
(* queues, notes and hands, a task that runs is on the stack once, and no    *)
(* other task is anywhere: whatever is handed over, passed on by a ticker    *)
(* that is dropped, or pushed by another thread in between, a runnable is    *)
(* neither lost nor run twice.                                               *)
THEOREM RunnablesAreInOnePlace == Spec => []RunnableInOnePlace
<1>1. TypeInv /\ PlacesInv => RunnableInOnePlace
  <2> SUFFICES ASSUME TypeInv, PlacesInv, executor # "aborted", NEW t \in Tasks
               PROVE  /\ Occurrences(local_queue, t) + Occurrences(task_queue, t)
                           + Cardinality({i \in 1..Len(thread_waker.notified) :
                                              thread_waker.notified[i].tag = t})
                           + Cardinality({x \in Threads : hand[x] = t})
                         = (IF st[t] = "scheduled" THEN 1 ELSE 0)
                      /\ Occurrences(stack, t)
                           = (IF st[t] \in {"running", "rerun"} THEN 1 ELSE 0)
    BY DEF RunnableInOnePlace
  <2> DEFINE N == {i \in 1..Len(thread_waker.notified) : thread_waker.notified[i].tag = t}
             H == {x \in Threads : hand[x] = t}
  <2>1. /\ HeldOnce(thread_waker, local_queue, task_queue, hand)
        /\ Held(thread_waker, local_queue, task_queue, hand) = Scheduled(st)
        /\ Distinct(stack) /\ ToSet(stack) = Running(st)
    BY DEF PlacesInv, AllHeld, OnStack
  <2>2. t # None
    BY NoneAssumption
  <2>3. Occurrences(local_queue, t) = IF t \in ToSet(local_queue) THEN 1 ELSE 0
    BY <2>1, OccursOnce DEF TypeInv, QueuesOK, HeldOnce
  <2>4. Occurrences(task_queue, t) = IF t \in ToSet(task_queue) THEN 1 ELSE 0
    BY <2>1, OccursOnce DEF TypeInv, QueuesOK, HeldOnce
  <2>5. Occurrences(stack, t) = IF t \in ToSet(stack) THEN 1 ELSE 0
    BY <2>1, OccursOnce DEF TypeInv, TasksOK
  <2>6. Cardinality(N) = IF t \in TagsOf(thread_waker, None) THEN 1 ELSE 0
    <3>1. \A i, j \in N : i = j
      BY <2>1, <2>2 DEF HeldOnce, DistinctTags
    <3>2. N = {} <=> t \notin TagsOf(thread_waker, None)
      BY <2>2 DEF TagsOf
    <3> HIDE DEF N
    <3> QED BY <3>1, <3>2, AtMostOne
  <2>7. Cardinality(H) = IF t \in InHands(hand) THEN 1 ELSE 0
    <3>1. \A x, y \in H : x = y
      BY <2>1, <2>2 DEF HeldOnce
    <3>2. H = {} <=> t \notin InHands(hand)
      BY <2>2 DEF InHands
    <3> HIDE DEF H
    <3> QED BY <3>1, <3>2, AtMostOne
  <2>8. /\ st[t] = "scheduled" <=> \/ t \in TagsOf(thread_waker, None)
                                   \/ t \in ToSet(local_queue)
                                   \/ t \in ToSet(task_queue)
                                   \/ t \in InHands(hand)
        /\ st[t] \in {"running", "rerun"} <=> t \in ToSet(stack)
    BY <2>1 DEF Held, Scheduled, Running
  <2>9. /\ t \in TagsOf(thread_waker, None) =>
              /\ t \notin ToSet(local_queue) /\ t \notin ToSet(task_queue)
              /\ t \notin InHands(hand)
        /\ t \in ToSet(local_queue) => t \notin ToSet(task_queue) /\ t \notin InHands(hand)
        /\ t \in ToSet(task_queue) => t \notin InHands(hand)
    BY <2>1 DEF HeldOnce
  <2> HIDE DEF N, H
  <2>10. Occurrences(local_queue, t) + Occurrences(task_queue, t)
           + Cardinality(N) + Cardinality(H)
         = (IF st[t] = "scheduled" THEN 1 ELSE 0)
    BY <2>3, <2>4, <2>6, <2>7, <2>8, <2>9
  <2> QED BY <2>5, <2>8, <2>10 DEF N, H
<1> QED BY <1>1, TypeInvariant, PlacesInvariant, PTL

-----------------------------------------------------------------------------
(* A task whose Task was dropped has a runnable or is being polled: it does  *)
(* not wait for a waker that nobody need invoke.  And the slab has the waker *)
(* of every task whose future still exists.                                  *)
TasksAreLookedAfter ==
    executor # "aborted" =>
        \A t \in Tasks :
            /\ t \in cancelled => st[t] \in {"scheduled", "running", "rerun"}
            /\ executor = "alive" /\ st[t] # "none" => t \in active

(* With it, a task that waits or is being polled has started, so that its    *)
(* CallOnDrop guard exists, and one that is gone has not.                    *)
LifeInv ==
    /\ TasksAreLookedAfter
    /\ executor # "aborted" =>
          \A t \in Tasks :
              /\ st[t] \in {"idle", "running", "rerun"} => t \in started
              /\ t \in started => st[t] # "none"

(* The end of any task keeps it, *)
LEMMA DestroyLife ==
    ASSUME TasksOK, LifeInv, NEW t \in Tasks, Destroy(t), UNCHANGED executor
    PROVE  LifeInv'
<1>1. \A u \in Tasks : st'[u] = IF u = t THEN "none" ELSE st[u]
  BY DEF TasksOK, Destroy
<1>2. \A u \in Tasks : /\ u \in started' <=> u \in started /\ u # t
                       /\ u \in cancelled' <=> u \in cancelled /\ u # t
                       /\ u \in active /\ u # t => u \in active'
  BY DEF Destroy
<1> QED BY <1>1, <1>2 DEF LifeInv, TasksAreLookedAfter

(* the run of a runnable, which belongs to a task that is scheduled, *)
LEMMA RunLife ==
    ASSUME TasksOK, LifeInv, NEW t \in Tasks, Run(t), UNCHANGED executor,
           executor # "aborted" => st[t] = "scheduled"
    PROVE  LifeInv'
<1>1. CASE t \in cancelled
  BY <1>1, DestroyLife DEF Run
<1>2. CASE t \notin cancelled
  <2>1. \A u \in Tasks : st'[u] = IF u = t THEN "running" ELSE st[u]
    BY <1>2 DEF TasksOK, Run
  <2> QED BY <1>2, <2>1 DEF Run, LifeInv, TasksAreLookedAfter
<1> QED BY <1>1, <1>2

(* and a step that makes an idle task, or one that is to be polled again,    *)
(* scheduled, or one that is being polled to be polled again.                *)
LEMMA WakeLife ==
    ASSUME TasksOK, LifeInv, NEW t \in Tasks, NEW s,
           \/ s = "scheduled" /\ st[t] \in {"idle", "rerun"}
           \/ s = "rerun" /\ st[t] = "running",
           st' = [st EXCEPT ![t] = s], cancelled' \subseteq cancelled \cup {t},
           UNCHANGED <<executor, active, started>>
    PROVE  LifeInv'
<1>1. \A u \in Tasks : st'[u] = IF u = t THEN s ELSE st[u]
  BY DEF TasksOK
<1> QED BY <1>1 DEF LifeInv, TasksAreLookedAfter

(* The steps of the program and of the tasks. *)
LEMMA LifeTaskStep ==
    ASSUME TypeInv, LifeInv, NEW t \in Tasks,
           Spawn(t) \/ WakeTask(t) \/ CancelTask(t) \/ Complete(t) \/ Suspend(t)
    PROVE  LifeInv'
<1>1. TasksOK
  BY DEF TypeInv
<1>2. CASE Spawn(t)
  <2>1. \A u \in Tasks : st'[u] = IF u = t THEN "scheduled" ELSE st[u]
    BY <1>1, <1>2 DEF TasksOK, Spawn
  <2>2. /\ st[t] = "none" /\ active' = active \cup {t}
        /\ UNCHANGED <<executor, started, cancelled>>
    BY <1>2 DEF Spawn
  <2> QED BY <2>1, <2>2 DEF LifeInv, TasksAreLookedAfter
<1>3. CASE WakeTask(t)
  BY <1>1, <1>3, WakeLife DEF WakeTask
<1>4. CASE CancelTask(t)
  <2>1. CASE st[t] = "idle"
    BY <1>1, <1>4, <2>1, WakeLife DEF CancelTask
  <2>2. CASE st[t] # "idle"
    <3>1. /\ st' = st /\ cancelled' = cancelled \cup {t}
          /\ st[t] \in {"scheduled", "running", "rerun"}
          /\ UNCHANGED <<executor, active, started>>
      BY <1>1, <1>4, <2>2 DEF TasksOK, CancelTask
    <3> QED BY <3>1 DEF LifeInv, TasksAreLookedAfter
  <2> QED BY <2>1, <2>2
<1>5. CASE Complete(t)
  BY <1>1, <1>5, DestroyLife DEF Complete
<1>6. CASE Suspend(t)
  <2>1. CASE t \in cancelled
    BY <1>1, <1>6, <2>1, DestroyLife DEF Suspend
  <2>2. CASE t \notin cancelled /\ st[t] = "running"
    <3>1. \A u \in Tasks : st'[u] = IF u = t THEN "idle" ELSE st[u]
      BY <1>1, <1>6, <2>2 DEF TasksOK, Suspend
    <3>2. UNCHANGED <<executor, active, started, cancelled>>
      BY <1>6, <2>2 DEF Suspend
    <3> QED BY <2>2, <3>1, <3>2 DEF LifeInv, TasksAreLookedAfter
  <2>3. CASE t \notin cancelled /\ st[t] = "rerun"
    BY <1>1, <1>6, <2>3, WakeLife DEF Suspend
  <2> QED BY <1>6, <2>1, <2>2, <2>3 DEF Suspend
<1> QED BY <1>2, <1>3, <1>4, <1>5, <1>6

(* What is run was in a queue or a note, and so is scheduled. *)
LEMMA RunnablesAreScheduled ==
    ASSUME TypeInv, PlacesInv, executor # "aborted"
    PROVE  /\ local_queue # <<>> => st[Head(local_queue)] = "scheduled"
           /\ task_queue # <<>> => st[Head(task_queue)] = "scheduled"
           /\ \A k \in Tickers :
                 IsNotified(thread_waker, k) /\ Note(thread_waker, k).tag # None =>
                     st[Note(thread_waker, k).tag] = "scheduled"
<1>1. /\ AllHeld /\ HeldOnce(thread_waker, local_queue, task_queue, hand)
      /\ Held(thread_waker, local_queue, task_queue, hand) = Scheduled(st)
  BY DEF PlacesInv, AllHeld
<1>2. ASSUME NEW t, t \in Held(thread_waker, local_queue, task_queue, hand)
      PROVE  st[t] = "scheduled"
  BY <1>1, <1>2 DEF Scheduled
<1>3. local_queue # <<>> => st[Head(local_queue)] = "scheduled"
  BY <1>1, <1>2, PopLocal DEF TypeInv, QueuesOK
<1>4. task_queue # <<>> => st[Head(task_queue)] = "scheduled"
  BY <1>1, <1>2, PopMain DEF TypeInv, QueuesOK
<1>5. ASSUME NEW k \in Tickers, IsNotified(thread_waker, k),
             Note(thread_waker, k).tag # None
      PROVE  st[Note(thread_waker, k).tag] = "scheduled"
  <2>1. Note(thread_waker, k).tag \in TagsOf(thread_waker, None)
    BY <1>1, <1>5, TakeNoteTags DEF TypeInv
  <2> QED BY <1>2, <2>1 DEF Held
<1> QED BY <1>3, <1>4, <1>5

(* The steps of try_tick and of the tickers. *)
LEMMA LifeTickerStep ==
    ASSUME TypeInv, PlacesInv, LifeInv,
           \/ TryTick
           \/ \E k \in Tickers : \/ PollFirst(k) \/ TickLocal(k) \/ TickWait(k)
                                 \/ Register(k) \/ Recheck(k) \/ PollAgain(k)
                                 \/ AfterFirst(k) \/ AfterLast(k) \/ DropFuture(k)
    PROVE  LifeInv'
<1>1. TasksOK
  BY DEF TypeInv
<1>2. executor' = executor
  BY DEF TryTick, PollFirst, TickLocal, TickWait, Register, Recheck, PollAgain,
         AfterFirst, AfterLast, DropFuture
<1>3. CASE UNCHANGED <<active, tasks>>
  BY <1>2, <1>3 DEF tasks, LifeInv, TasksAreLookedAfter
<1>4. CASE RunLocal
  <2>1. local_queue # <<>> /\ Run(Head(local_queue))
    BY <1>4 DEF RunLocal
  <2>2. Head(local_queue) \in Tasks
    BY <2>1, HeadTailProperties DEF TypeInv, QueuesOK
  <2> QED BY <1>1, <1>2, <2>1, <2>2, RunnablesAreScheduled, RunLife
<1>5. CASE RunMainstream
  <2>1. task_queue # <<>> /\ Run(Head(task_queue))
    BY <1>5 DEF RunMainstream
  <2>2. Head(task_queue) \in Tasks
    BY <2>1, HeadTailProperties DEF TypeInv, QueuesOK
  <2> QED BY <1>1, <1>2, <2>1, <2>2, RunnablesAreScheduled, RunLife
<1>6. ASSUME NEW k \in Tickers, IsNotified(thread_waker, k),
             Note(thread_waker, k).tag # None, Run(Note(thread_waker, k).tag)
      PROVE  LifeInv'
  <2>1. Note(thread_waker, k).tag \in Tasks
    BY <1>6, OtherEvents DEF TypeInv, EventOK
  <2> QED BY <1>1, <1>2, <1>6, <2>1, RunnablesAreScheduled, RunLife
<1>7. ASSUME NEW t \in InNotes(thread_waker), Destroy(t)
      PROVE  LifeInv'
  <2>1. PICK i \in 1..Len(thread_waker.notified) :
           t = thread_waker.notified[i].tag /\ t # None
    BY <1>7 DEF InNotes
  <2>2. thread_waker.notified \in Seq(NoteOf(Tickers, Tasks \cup {None}))
    BY DEF TypeInv, EventOK, Events, EventOf
  <2>3. thread_waker.notified[i] \in NoteOf(Tickers, Tasks \cup {None})
    BY <2>1, <2>2, ElementOfSeq
  <2>4. t \in Tasks
    BY <2>1, <2>3 DEF NoteOf
  <2> QED BY <1>1, <1>2, <1>7, <2>4, DestroyLife
<1>8. CASE TryTick
  BY <1>4, <1>5, <1>8 DEF TryTick
<1>9. ASSUME NEW k \in Tickers,
             \/ PollFirst(k) \/ TickLocal(k) \/ TickWait(k) \/ Register(k) \/ Recheck(k)
      PROVE  LifeInv'
  BY <1>3, <1>4, <1>5, <1>9
     DEF PollFirst, TickLocal, TickWait, Register, Recheck, threadState
<1>10. ASSUME NEW k \in Tickers, PollAgain(k)
       PROVE  LifeInv'
  BY <1>3, <1>5, <1>6, <1>10 DEF PollAgain
<1>11. ASSUME NEW k \in Tickers, AfterFirst(k) \/ AfterLast(k)
       PROVE  LifeInv'
  BY <1>3, <1>6, <1>11 DEF AfterFirst, AfterLast
<1>12. ASSUME NEW k \in Tickers, DropFuture(k)
       PROVE  LifeInv'
  BY <1>3, <1>7, <1>12 DEF DropFuture
<1> QED BY <1>8, <1>9, <1>10, <1>11, <1>12

(* The steps of the other threads. *)
LEMMA LifeThreadStep ==
    ASSUME TypeInv, LifeInv, NEW x \in Threads,
           \/ \E t \in Tasks : ThreadWake(x, t) \/ ThreadCancel(x, t)
           \/ ThreadPush(x) \/ ThreadNotify(x)
    PROVE  LifeInv'
<1>1. TasksOK
  BY DEF TypeInv
<1>2. ASSUME NEW t \in Tasks, ThreadWake(x, t)
      PROVE  LifeInv'
  BY <1>1, <1>2, WakeLife DEF ThreadWake, threadState
<1>3. ASSUME NEW t \in Tasks, ThreadCancel(x, t)
      PROVE  LifeInv'
  <2>1. CASE st[t] = "idle"
    BY <1>1, <1>3, <2>1, WakeLife DEF ThreadCancel, threadState
  <2>2. CASE st[t] # "idle"
    <3>1. /\ st' = st /\ cancelled' = cancelled \cup {t}
          /\ st[t] \in {"scheduled", "running", "rerun"}
          /\ UNCHANGED <<executor, active, started>>
      BY <1>1, <1>3, <2>2 DEF TasksOK, ThreadCancel, threadState
    <3> QED BY <3>1 DEF LifeInv, TasksAreLookedAfter
  <2> QED BY <2>1, <2>2
<1>4. CASE ThreadPush(x) \/ ThreadNotify(x)
  BY <1>4 DEF ThreadPush, ThreadNotify, threadState, tasks, LifeInv, TasksAreLookedAfter
<1> QED BY <1>2, <1>3, <1>4

(* Executor::drop ends tasks, and schedules the one that it wakes. *)
LEMMA LifeDropExecutor ==
    ASSUME TypeInv, LifeInv, DropExecutor
    PROVE  LifeInv'
<1>1. PICK first \in (IF active = {} THEN {None} ELSE active) :
         LET here  == SameThread(Origin)
             local == IF here THEN Queued(local_queue, first) ELSE local_queue
             main  == IF here THEN task_queue ELSE Queued(task_queue, first)
             taken == IF Len(main) <= Len(local) THEN Len(main) ELSE Len(local) + 1
             over  == ToSet(local) \cup ToSet(SubSeq(main, 1, taken))
         IN  /\ executor' = IF ToSet(local) \cap started = {} THEN "dropped" ELSE "aborted"
             /\ local_queue' = <<>>
             /\ task_queue' = SubSeq(main, taken + 1, Len(main))
             /\ st' = [t \in Tasks |-> IF t \in over THEN "none"
                                       ELSE IF t = first /\ st[t] = "idle" THEN "scheduled"
                                       ELSE st[t]]
             /\ started' = started \ over /\ cancelled' = cancelled \ over
  BY DEF DropExecutor
<1> DEFINE local == IF SameThread(Origin) THEN Queued(local_queue, first) ELSE local_queue
           main  == IF SameThread(Origin) THEN task_queue ELSE Queued(task_queue, first)
           taken == IF Len(main) <= Len(local) THEN Len(main) ELSE Len(local) + 1
           over  == ToSet(local) \cup ToSet(SubSeq(main, 1, taken))
<1>2. /\ executor' # "alive"
      /\ st' = [t \in Tasks |-> IF t \in over THEN "none"
                                ELSE IF t = first /\ st[t] = "idle" THEN "scheduled"
                                ELSE st[t]]
      /\ started' = started \ over /\ cancelled' = cancelled \ over
  <2> HIDE DEF over
  <2> QED BY <1>1 DEF over
<1>3. executor = "alive"
  BY DEF DropExecutor, ProgramRuns
<1> HIDE DEF over
<1> QED BY <1>2, <1>3 DEF LifeInv, TasksAreLookedAfter

(***************************************************************************)
(* No race of wakers, polls and dropped Tasks, here or on other threads,   *)
(* leaves a cancelled task asleep, and the set of active tasks, where      *)
(* Executor::drop looks for wakers, misses none.  RunnablesAreInOnePlace   *)
(* says where the runnable of the cancelled task is.                       *)
(***************************************************************************)
THEOREM CancelledTasksEnd == Spec => []TasksAreLookedAfter
<1>1. Init => LifeInv
  BY DEF Init, LifeInv, TasksAreLookedAfter
<1>2. TypeInv /\ PlacesInv /\ LifeInv /\ [Next]_vars => LifeInv'
  <2> SUFFICES ASSUME TypeInv, PlacesInv, LifeInv, [Next]_vars PROVE LifeInv'
    OBVIOUS
  <2>1. CASE UNCHANGED vars
    BY <2>1 DEF vars, threadState, tasks, LifeInv, TasksAreLookedAfter
  <2> QED BY <2>1, LifeTaskStep, LifeTickerStep, LifeThreadStep, LifeDropExecutor DEF Next
<1>3. LifeInv => TasksAreLookedAfter
  BY DEF LifeInv
<1> QED BY <1>1, <1>2, <1>3, TypeInvariant, PlacesInvariant, PTL DEF Spec
=============================================================================
