------------------------------- MODULE Channel -------------------------------
(***************************************************************************)
(* The multi-producer multi-consumer channel of src/src/channel.rs.  An    *)
(* item goes straight to the oldest sleeping recv() future as the tag of a *)
(* notification, Some(item), or else to the queue; closing the channel     *)
(* notifies every sleeping future with None.  Items are numbered in the    *)
(* order in which send() accepts them.  A receiver has at most one recv()  *)
(* future at a time: a second one on the same handle behaves like one on a *)
(* clone.                                                                  *)
(***************************************************************************)
EXTENDS EventOps, FiniteSets

CONSTANTS SenderIds,     \* Sender handles
          ReceiverIds,   \* Receiver handles
          MaxItems       \* bound on the items that are sent

ASSUME MaxItemsAssumption == MaxItems \in Nat

VARIABLES
    data,          \* the queue
    closed,        \* the channel is closed
    senders, receivers,      \* the handle counts kept by the channel
    event,         \* the event for new items
    tx, rx,        \* the handles that are alive
    pc,            \* per receiver "idle" or "receiving" (a pending recv() future)
    \* history
    sent,          \* how many items send() accepted
    delivered,     \* per receiver, the items it got
    lost,          \* items dropped with a listener
    told,          \* receivers that were told the channel is closed
    solo           \* so far one receiver, at most one operation of it at a time

handles == <<senders, receivers, tx, rx>>
history == <<sent, delivered, lost, told, solo>>
vars == <<data, closed, event, handles, pc, history>>

None == 0
Items == 1..MaxItems

(* The items in notifications that are not taken yet. *)
InFlight(e) == {e.notified[i].tag : i \in 1..Len(e.notified)} \ {None}

(* channel() returns one handle of each kind. *)
Init ==
    /\ data = <<>> /\ closed = FALSE
    /\ senders = 1 /\ receivers = 1
    /\ event = NewEvent
    /\ \E s \in SenderIds : tx = {s}
    /\ \E r \in ReceiverIds : rx = {r}
    /\ pc = [r \in ReceiverIds |-> "idle"]
    /\ sent = 0
    /\ delivered = [r \in ReceiverIds |-> <<>>]
    /\ lost = {} /\ told = {} /\ solo = TRUE

(* Close the channel and wake every listener with None. *)
Close ==
    /\ closed' = TRUE
    /\ event' = WakeAll(event, None, FALSE)

-----------------------------------------------------------------------------
(* The closure item.take() runs if an entry is notified; what it leaves is   *)
(* pushed to the queue.                                                      *)
FaultyAfterSend(item) == Append(data, item)
AfterSend(item) == IF Reach(event, 1, FALSE) = 1 THEN data ELSE Append(data, item)

(* Sender::send; on a closed channel it returns an error and does nothing. *)
Send(s) ==
    /\ s \in tx /\ ~closed
    /\ sent < MaxItems
    /\ sent' = sent + 1
    /\ event' = Notify(event, <<sent + 1>>, FALSE)
    /\ data' = AfterSend(sent + 1)
    /\ UNCHANGED <<closed, handles, pc, delivered, lost, told, solo>>

FaultyCloneSender(s, new) ==
    /\ s \in tx /\ new \notin tx
    /\ tx' = tx \cup {new}
    /\ UNCHANGED <<data, closed, event, senders, receivers, rx, pc, history>>

(* Sender::clone *)
CloneSender(s, new) ==
    /\ s \in tx /\ new \notin tx
    /\ senders' = senders + 1
    /\ tx' = tx \cup {new}
    /\ UNCHANGED <<data, closed, event, receivers, rx, pc, history>>

(* Sender::drop; the last one closes the channel. *)
DropSender(s) ==
    /\ s \in tx
    /\ tx' = tx \ {s}
    /\ senders' = senders - 1
    /\ IF senders = 1 THEN Close ELSE UNCHANGED <<closed, event>>
    /\ UNCHANGED <<data, receivers, rx, pc, history>>

(* Receiver::clone *)
CloneReceiver(r, new) ==
    /\ r \in rx /\ new \notin rx
    /\ receivers' = receivers + 1
    /\ rx' = rx \cup {new}
    /\ solo' = FALSE
    /\ UNCHANGED <<data, closed, event, senders, tx, pc, sent, delivered, lost, told>>

FaultyDropReceiver(r) ==
    /\ r \in rx /\ pc[r] = "idle"
    /\ rx' = rx \ {r}
    /\ receivers' = receivers - 1
    /\ UNCHANGED <<data, closed, event, senders, tx, pc, history>>

(* Receiver::drop; a recv() future borrows its receiver, so it has none. *)
DropReceiver(r) ==
    /\ r \in rx /\ pc[r] = "idle"
    /\ rx' = rx \ {r}
    /\ receivers' = receivers - 1
    /\ IF receivers = 1 THEN Close ELSE UNCHANGED <<closed, event>>
    /\ UNCHANGED <<data, senders, tx, pc, history>>

-----------------------------------------------------------------------------
Deliver(r, item) ==
    /\ delivered' = [delivered EXCEPT ![r] = Append(@, item)]
    /\ UNCHANGED <<lost, told, sent>>

FaultyPopFront(r) ==
    /\ data # <<>>
    /\ data' = Front(data)
    /\ Deliver(r, Last(data))

(* A receiver finds the queue non-empty, or empty and the channel closed. *)
PopFront(r) ==
    /\ data # <<>>
    /\ data' = Tail(data)
    /\ Deliver(r, Head(data))

FaultyReportClosed(r) ==
    /\ closed
    /\ told' = told \cup {r}
    /\ UNCHANGED <<data, sent, delivered, lost>>

ReportClosed(r) ==
    /\ data = <<>> /\ closed
    /\ told' = told \cup {r}
    /\ UNCHANGED <<data, sent, delivered, lost>>

(* Receiver::try_recv; on an empty open channel it changes nothing. *)
TryRecv(r) ==
    /\ r \in rx
    /\ PopFront(r) \/ ReportClosed(r)
    /\ solo' = (solo /\ pc[r] = "idle")
    /\ UNCHANGED <<closed, event, handles, pc>>

(* The loop of Receiver::recv up to its await, with the event in state e. *)
RecvLoop(r, e) ==
    \/ /\ PopFront(r) \/ ReportClosed(r)
       /\ event' = e
       /\ pc' = [pc EXCEPT ![r] = "idle"]
       /\ UNCHANGED solo
    \/ /\ data = <<>> /\ ~closed
       /\ event' = Insert(e, r)
       /\ pc' = [pc EXCEPT ![r] = "receiving"]
       /\ UNCHANGED <<data, history>>

(* The first poll of a recv() future. *)
RecvFirst(r) ==
    /\ r \in rx /\ pc[r] = "idle"
    /\ RecvLoop(r, event)
    /\ UNCHANGED <<closed, handles>>

(* A poll after the listener was notified: an item is returned, None makes   *)
(* the loop start over.                                                      *)
RecvAgain(r) ==
    /\ pc[r] = "receiving" /\ IsNotified(event, r)
    /\ LET e == Take(event, r)
           item == Note(event, r).tag
       IN  IF item = None
           THEN RecvLoop(r, e)
           ELSE /\ Deliver(r, item) /\ UNCHANGED solo
                /\ event' = e
                /\ pc' = [pc EXCEPT ![r] = "idle"]
                /\ UNCHANGED data
    /\ UNCHANGED <<closed, handles>>

(* A pending recv() future is dropped; what its listener holds goes to the   *)
(* next listener, if the event notifies one.                                 *)
RecvDrop(r) ==
    /\ pc[r] = "receiving"
    /\ event' = Cancel(event, r)
    /\ pc' = [pc EXCEPT ![r] = "idle"]
    /\ lost' = lost \cup (InFlight(event) \ InFlight(event'))
    /\ UNCHANGED <<data, closed, handles, sent, delivered, told, solo>>

Next ==
    \/ \E s \in SenderIds : Send(s) \/ DropSender(s)
    \/ \E s, new \in SenderIds : CloneSender(s, new)
    \/ \E r \in ReceiverIds : DropReceiver(r) \/ TryRecv(r) \/ RecvFirst(r)
                                 \/ RecvAgain(r) \/ RecvDrop(r)
    \/ \E r, new \in ReceiverIds : CloneReceiver(r, new)

Spec == Init /\ [][Next]_vars

(* Futures whose waker was invoked are polled. *)
FairSpec == Spec /\ \A r \in ReceiverIds : WF_vars(RecvAgain(r))

-----------------------------------------------------------------------------
(* Every variable has its type; the channel never notifies with `additional`. *)
TypeOK ==
    /\ data \in Seq(Items) /\ closed \in BOOLEAN
    /\ senders \in Nat /\ receivers \in Nat
    /\ event \in EventOf(ReceiverIds, Items \cup {None})
    /\ \A i \in 1..Len(event.notified) : ~event.notified[i].additional
    /\ tx \subseteq SenderIds /\ rx \subseteq ReceiverIds
    /\ pc \in [ReceiverIds -> {"idle", "receiving"}]
    /\ sent \in 0..MaxItems
    /\ delivered \in [ReceiverIds -> Seq(Items)]
    /\ lost \subseteq Items /\ told \subseteq ReceiverIds /\ solo \in BOOLEAN

(* Every step is one of ItemFlow, or changes nothing there.  The channel is   *)
(* closed by counting, and told apart from an empty one, exactly when one     *)
(* side has no handle left; a closed one accepts nothing; and no wakeup, close *)
(* or dropped future moves an item anywhere but to one receiver.              *)
Flow == INSTANCE ItemFlow WITH
    queued <- ToSet(data), handed <- InFlight(event), got <- delivered

ImplementsItemFlow == Flow!Spec

(* Every item that send() accepted is in exactly one place: in the queue, in *)
(* the notification of one listener, with one receiver, or dropped with a    *)
(* listener.  Handing an item on when a recv() future is dropped neither     *)
(* duplicates it nor lets it vanish unnoticed.                               *)
EveryItemInOnePlace ==
    LET queued == ToSet(data)
        got    == UNION {ToSet(delivered[r]) : r \in ReceiverIds}
    IN  /\ 1..sent = queued \cup InFlight(event) \cup got \cup lost
        /\ queued \cap InFlight(event) = {}
        /\ got \cap (queued \cup InFlight(event)) = {}
        /\ lost \cap (queued \cup InFlight(event) \cup got) = {}
        /\ \A i, j \in 1..Len(data) : data[i] = data[j] => i = j
        /\ \A i, j \in 1..Len(event.notified) :
              event.notified[i].tag = event.notified[j].tag =>
                  i = j \/ event.notified[i].tag = None
        /\ \A r, q \in ReceiverIds :
              \A i \in 1..Len(delivered[r]), j \in 1..Len(delivered[q]) :
                  delivered[r][i] = delivered[q][j] => r = q /\ i = j

(* Closing leaves nobody asleep, and nobody falls asleep afterwards. *)
ClosedWakesEveryone == closed => event.waiting = <<>>

(* A receiver is told that the channel is closed only after the queue has    *)
(* been drained.                                                             *)
ClosedMeansDrained == told # {} => data = <<>> /\ closed

(* No receiver sleeps beside a queued item unless some receiver was woken.   *)
(* With two receivers that sleep it is violated: the second of two sends     *)
(* goes to the queue because the first is not taken yet, and wakes nobody.   *)
NoStrandedItem == data # <<>> /\ event.waiting # <<>> => event.notified # <<>>

(* A receiver that has never been cloned, and is not asked for an item while *)
(* a recv() of it is pending, does not sleep beside a queued item, and gets  *)
(* the items in the order in which they were sent, also those that a dropped *)
(* recv() left behind.                                                       *)
OneReceiverIsServed ==
    solo => /\ NoStrandedItem
            /\ \A r \in ReceiverIds : \A i, j \in 1..Len(delivered[r]) :
                  i < j => delivered[r][i] < delivered[r][j]

(* A recv() future that is pending when the channel is closed resolves. *)
ClosedRecvResolves ==
    \A r \in ReceiverIds : closed /\ pc[r] = "receiving" ~> pc[r] = "idle"
=============================================================================
