------------------------------ MODULE TcpServer ------------------------------
(***************************************************************************)
(* The program src/examples/tcp_server.rs with the clients of              *)
(* src/examples/tcp_client.rs: the executor and the channel at work        *)
(* together.  One task logs what arrives on the channel, the future inside *)
(* run() accepts connections and spawns a task for each, and that task     *)
(* sends its value to the logger.                                          *)
(*                                                                         *)
(* A task's code runs while it is on top of the executor's stack.  When it *)
(* has to wait it is `parked`: the only step left to it is to return       *)
(* Poll::Pending.  An I/O operation waits at most once.  The reactor and   *)
(* the pool for blocking code invoke wakers on a thread of their own, or   *)
(* on the main thread when block_on processes I/O itself.  An I/O error    *)
(* ends the process, and is left out.                                      *)
(***************************************************************************)
EXTENDS EventOps, FiniteSets

CONSTANTS Conns,       \* the connections, the clients and their tasks
          Logger,      \* the task with the log file
          Runner,      \* the ticker of run()
          Main,        \* the main thread, and the Sender it keeps
          Reactor,     \* the thread that invokes wakers
          NoTask       \* what stands for no task or ticker in the executor

VARIABLES
    \* the executor's
    task_queue, mainstream_waker, thread_id, origin_thread, local_queue, thread_waker,
    active, is_mainstream_listening, is_mainstream, at, woken, st, started, cancelled,
    stack, phase, hand, executor, direct,
    \* the channel's
    data, closed, senders, receivers, event, tx, rx, pc, sent, delivered, lost, told, solo,
    \* the tasks
    conn,        \* where the task of a connection is
    logger,      \* where the logger is
    parked,      \* the task whose poll is to return Poll::Pending
    io,          \* per task, the I/O operation it waits for
    item,        \* per connection, the number of its message
    log,         \* the messages written to the file
    client       \* per connection, where its client is

executorVars == <<task_queue, mainstream_waker, thread_id, origin_thread, local_queue,
                  thread_waker, active, is_mainstream_listening, is_mainstream, at, woken,
                  st, started, cancelled, stack, phase, hand, executor, direct>>
channelVars  == <<data, closed, senders, receivers, event, tx, rx, pc, sent, delivered,
                  lost, told, solo>>
taskVars     == <<conn, logger, parked, io, item, log>>
vars == <<executorVars, channelVars, taskVars, client>>

Tasks == Conns \cup {Logger}

Ex == INSTANCE Executor WITH Runners <- {Runner}, Ticks <- {}, Origin <- Main,
                             Threads <- {Reactor}, None <- NoTask
Ch == INSTANCE Channel WITH SenderIds <- Conns \cup {Main}, ReceiverIds <- {Logger},
                            MaxItems <- Cardinality(Conns)

(* main() before its first await. *)
Init ==
    /\ Ex!Init
    /\ Ch!Init /\ tx = {Main}
    /\ conn = [c \in Conns |-> "none"] /\ logger = "none"
    /\ parked = {} /\ io = [t \in Tasks |-> "none"]
    /\ item = [c \in Conns |-> 0] /\ log = <<>>
    /\ client = [c \in Conns |-> "none"]

-----------------------------------------------------------------------------
(* The clients: connect and write the number.  The server listens from the   *)
(* first poll of run() on.                                                   *)
Connect(c) ==
    /\ client[c] = "none" /\ logger # "none"
    /\ client' = [client EXCEPT ![c] = "connected"]
    /\ UNCHANGED <<executorVars, channelVars, taskVars>>

WriteNumber(c) ==
    /\ client[c] = "connected"
    /\ client' = [client EXCEPT ![c] = "written"]
    /\ UNCHANGED <<executorVars, channelVars, taskVars>>

-----------------------------------------------------------------------------
(* The main thread is in main(), and not in a ticker or a task. *)
InMain == Ex!ProgramRuns /\ stack = <<>>

(* executor.spawn(..).detach() of the logger. *)
SpawnLogger ==
    /\ InMain /\ logger = "none"
    /\ Ex!Spawn(Logger)
    /\ logger' = "opening"
    /\ UNCHANGED <<channelVars, conn, parked, io, item, log, client>>

(* A client that is connected and not accepted. *)
InBacklog(c) == client[c] \in {"connected", "written"} /\ conn[c] = "none"

(* The future inside run() accepts a connection and spawns its task.  It     *)
(* binds a listener for each connection: with the old one its backlog goes,  *)
(* and the clients in that are reset.                                        *)
Accept(c) ==
    /\ InMain /\ InBacklog(c)
    /\ client' = [d \in Conns |-> IF d # c /\ InBacklog(d) THEN "reset" ELSE client[d]]
    /\ Ch!CloneSender(Main, c)
    /\ Ex!Spawn(c)
    /\ conn' = [conn EXCEPT ![c] = "reading"]
    /\ UNCHANGED <<logger, parked, io, item, log>>

(* run() polls its runner. *)
PollRunner ==
    /\ logger # "none"
    /\ Ex!PollFirst(Runner) \/ Ex!PollAgain(Runner)
    /\ UNCHANGED <<channelVars, taskVars, client>>

Tick ==
    /\ \/ Ex!TickLocal(Runner) \/ Ex!TickWait(Runner) \/ Ex!Register(Runner)
       \/ Ex!Recheck(Runner) \/ Ex!AfterFirst(Runner) \/ Ex!AfterLast(Runner)
    /\ UNCHANGED <<channelVars, taskVars, client>>

(* The waker of a task whose operation is ready, on the reactor's thread or  *)
(* on the main thread.                                                       *)
Ready(t) == t \in Conns /\ conn[t] = "reading" => client[t] = "written"

IoReady(t) ==
    /\ io[t] = "waiting" /\ Ready(t)
    /\ io' = [io EXCEPT ![t] = "ready"]
    /\ \/ Ex!ThreadWake(Reactor, t)
       \/ InMain /\ Ex!WakeTask(t)
    /\ UNCHANGED <<channelVars, conn, logger, parked, item, log, client>>

Schedule ==
    /\ Ex!ThreadPush(Reactor) \/ Ex!ThreadNotify(Reactor)
    /\ UNCHANGED <<channelVars, taskVars, client>>

-----------------------------------------------------------------------------
Runs(t) == stack # <<>> /\ stack[Len(stack)] = t /\ t \notin parked

(* An operation that is not ready registers the waker. *)
WaitForIo(t) ==
    /\ Runs(t) /\ io[t] = "none"
    /\ t = Logger => logger \in {"opening", "writing"}
    /\ t \in Conns => conn[t] \in {"reading", "writing"}
    /\ io' = [io EXCEPT ![t] = "waiting"]
    /\ parked' = parked \cup {t}
    /\ UNCHANGED <<executorVars, channelVars, conn, logger, item, log, client>>

ReturnPending(t) ==
    /\ t \in parked /\ parked' = parked \ {t}
    /\ Ex!Suspend(t)
    /\ UNCHANGED <<channelVars, conn, logger, io, item, log, client>>

(* The operation t waits for is over; one that was ready at once never waited. *)
IoDone(t) ==
    /\ Runs(t) /\ io[t] # "waiting" /\ Ready(t)
    /\ io' = [io EXCEPT ![t] = "none"]

(* read_exact; the values are not told apart. *)
Read(c) ==
    /\ conn[c] = "reading" /\ IoDone(c)
    /\ conn' = [conn EXCEPT ![c] = "writing"]
    /\ UNCHANGED <<executorVars, channelVars, logger, parked, item, log, client>>

(* write_all, and then tx.send, which wakes the logger if that listens. *)
Send(c) ==
    /\ conn[c] = "writing" /\ IoDone(c)
    /\ Ch!Send(c)
    /\ item' = [item EXCEPT ![c] = sent + 1]
    /\ IF Len(event'.notified) > Len(event.notified)
       THEN Ex!WakeTask(Logger) ELSE UNCHANGED executorVars
    /\ conn' = [conn EXCEPT ![c] = "sent"]
    /\ UNCHANGED <<logger, parked, log, client>>

(* The future of the connection is over and drops its Sender. *)
Finish(c) ==
    /\ Runs(c) /\ conn[c] = "sent"
    /\ Ex!Complete(c)
    /\ Ch!DropSender(c)
    /\ conn' = [conn EXCEPT ![c] = "over"]
    /\ UNCHANGED <<logger, parked, io, item, log, client>>

-----------------------------------------------------------------------------
(* The log file is open. *)
Open ==
    /\ logger = "opening" /\ IoDone(Logger)
    /\ logger' = "receiving"
    /\ UNCHANGED <<executorVars, channelVars, conn, parked, item, log, client>>

(* rx.recv().await yields a message or waits for one. *)
Receive ==
    /\ Runs(Logger) /\ logger = "receiving"
    /\ Ch!RecvFirst(Logger) \/ Ch!RecvAgain(Logger)
    /\ IF pc'[Logger] = "receiving"
       THEN parked' = parked \cup {Logger} /\ UNCHANGED logger
       ELSE logger' = "writing" /\ UNCHANGED parked
    /\ UNCHANGED <<executorVars, conn, io, item, log, client>>

(* file.write_all *)
WriteLog ==
    /\ logger = "writing" /\ IoDone(Logger)
    /\ log' = Append(log, delivered[Logger][Len(delivered[Logger])])
    /\ logger' = "receiving"
    /\ UNCHANGED <<executorVars, channelVars, conn, parked, item, client>>

TaskStep(t) ==
    \/ WaitForIo(t) \/ ReturnPending(t)
    \/ t \in Conns /\ (Read(t) \/ Send(t) \/ Finish(t))
    \/ t = Logger /\ (Open \/ Receive \/ WriteLog)

Next ==
    \/ \E c \in Conns : Connect(c) \/ WriteNumber(c) \/ Accept(c)
    \/ SpawnLogger \/ PollRunner \/ Tick \/ Schedule
    \/ \E t \in Tasks : IoReady(t) \/ TaskStep(t)

Spec == Init /\ [][Next]_vars

(***************************************************************************)
(* block_on polls its future first and whenever a waker was invoked, and a *)
(* poll goes on till it returns; the thread that pushes a runnable wakes   *)
(* the ticker; I/O that can be done is done in the end; a client that has  *)
(* connected writes its number.                                            *)
(***************************************************************************)
PollWoken ==
    /\ at[Runner] = "none" \/ Runner \in woken \/ IsNotified(thread_waker, Runner)
    /\ PollRunner

FairSpec ==
    /\ Spec
    /\ WF_vars(SpawnLogger) /\ WF_vars(PollWoken) /\ WF_vars(Tick) /\ WF_vars(Schedule)
    /\ \A t \in Tasks : WF_vars(TaskStep(t)) /\ WF_vars(IoReady(t))
    /\ \A c \in Conns : WF_vars(WriteNumber(c)) /\ SF_vars(Accept(c))

-----------------------------------------------------------------------------
(* Whoever connects is accepted, answered and logged, unless the listener    *)
(* was closed on him, and the messages are in the file in the order in which *)
(* they were sent, none lost or repeated.  No wakeup is lost between the     *)
(* client, the reactor's thread, the two queues and the event of the         *)
(* executor, and the event of the channel.                                   *)
EveryConnectionIsLogged ==
    \A c \in Conns :
        client[c] = "connected" ~>
            \/ client[c] = "reset"
            \/ /\ conn[c] = "over"
               /\ item[c] \in 1..Len(log) /\ log[item[c]] = item[c]
=============================================================================
