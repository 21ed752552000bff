----------------------------- MODULE ChannelProofs -----------------------------
(***************************************************************************)
(* Proofs about Channel for every set of handles and every number of items. *)
(***************************************************************************)
EXTENDS Channel, EventOpsProofs, FiniteSetTheorems

(* What the event of a channel is. *)
ItemTags == Items \cup {None}
ItemEvent == EventOf(ReceiverIds, ItemTags)

-----------------------------------------------------------------------------
(* The channel is closed exactly when one side has no handle left. *)
ClosedByLastHandle ==
    /\ senders = Cardinality(tx) /\ receivers = Cardinality(rx)
    /\ closed <=> tx = {} \/ rx = {}

(* There are finitely many handles, and the channel counts them. *)
HandlesInv == IsFiniteSet(tx) /\ IsFiniteSet(rx) /\ ClosedByLastHandle

(* One handle less of a finite number, and one more. *)
LEMMA HandleCounts ==
    ASSUME NEW S, IsFiniteSet(S), NEW x
    PROVE  /\ Cardinality(S) \in Nat
           /\ x \notin S => /\ IsFiniteSet(S \cup {x})
                            /\ Cardinality(S \cup {x}) = Cardinality(S) + 1
           /\ x \in S => /\ IsFiniteSet(S \ {x})
                         /\ Cardinality(S \ {x}) = Cardinality(S) - 1
                         /\ Cardinality(S) = 1 <=> S \ {x} = {}
<1>1. Cardinality(S) \in Nat
  BY FS_CardinalityType
<1>2. IsFiniteSet(S \ {x}) /\ (x \in S => Cardinality(S \ {x}) = Cardinality(S) - 1)
  BY FS_RemoveElement
<1>3. Cardinality(S \ {x}) = 0 <=> S \ {x} = {}
  BY <1>2, FS_EmptySet
<1>4. x \notin S => /\ IsFiniteSet(S \cup {x})
                    /\ Cardinality(S \cup {x}) = Cardinality(S) + 1
  BY FS_AddElement
<1> QED BY <1>1, <1>2, <1>3, <1>4

(* Clones and drops keep the counts, and the drop of the last handle closes. *)
LEMMA HandlesInvariant == Spec => []HandlesInv
<1>1. Init => HandlesInv
  <2> SUFFICES ASSUME Init PROVE HandlesInv
    OBVIOUS
  <2>1. PICK s \in SenderIds, r \in ReceiverIds : tx = {s} /\ rx = {r}
    BY DEF Init
  <2>2. /\ IsFiniteSet(tx) /\ Cardinality(tx) = 1
        /\ IsFiniteSet(rx) /\ Cardinality(rx) = 1
    BY <2>1, FS_Singleton
  <2> QED BY <2>1, <2>2 DEF Init, HandlesInv, ClosedByLastHandle
<1>2. HandlesInv /\ [Next]_vars => HandlesInv'
  <2> SUFFICES ASSUME HandlesInv, [Next]_vars PROVE HandlesInv'
    OBVIOUS
  <2>1. /\ IsFiniteSet(tx) /\ IsFiniteSet(rx)
        /\ senders = Cardinality(tx) /\ receivers = Cardinality(rx)
        /\ closed <=> tx = {} \/ rx = {}
    BY DEF HandlesInv, ClosedByLastHandle
  <2>2. ASSUME UNCHANGED <<closed, handles>> PROVE HandlesInv'
    BY <2>1, <2>2 DEF handles, HandlesInv, ClosedByLastHandle
  <2>3. ASSUME NEW s \in SenderIds, NEW new \in SenderIds, CloneSender(s, new)
        PROVE  HandlesInv'
    <3>1. IsFiniteSet(tx') /\ Cardinality(tx') = Cardinality(tx) + 1
      BY <2>1, <2>3, HandleCounts DEF CloneSender
    <3> QED BY <2>1, <2>3, <3>1 DEF CloneSender, HandlesInv, ClosedByLastHandle
  <2>4. ASSUME NEW r \in ReceiverIds, NEW new \in ReceiverIds, CloneReceiver(r, new)
        PROVE  HandlesInv'
    <3>1. IsFiniteSet(rx') /\ Cardinality(rx') = Cardinality(rx) + 1
      BY <2>1, <2>4, HandleCounts DEF CloneReceiver
    <3> QED BY <2>1, <2>4, <3>1 DEF CloneReceiver, HandlesInv, ClosedByLastHandle
  <2>5. ASSUME NEW s \in SenderIds, DropSender(s) PROVE HandlesInv'
    <3>1. /\ IsFiniteSet(tx') /\ Cardinality(tx') = Cardinality(tx) - 1
          /\ Cardinality(tx) = 1 <=> tx' = {}
      BY <2>1, <2>5, HandleCounts DEF DropSender
    <3> QED BY <2>1, <2>5, <3>1 DEF DropSender, Close, HandlesInv, ClosedByLastHandle
  <2>6. ASSUME NEW r \in ReceiverIds, DropReceiver(r) PROVE HandlesInv'
    <3>1. /\ IsFiniteSet(rx') /\ Cardinality(rx') = Cardinality(rx) - 1
          /\ Cardinality(rx) = 1 <=> rx' = {}
      BY <2>1, <2>6, HandleCounts DEF DropReceiver
    <3> QED BY <2>1, <2>6, <3>1 DEF DropReceiver, Close, HandlesInv, ClosedByLastHandle
  <2> QED BY <2>2, <2>3, <2>4, <2>5, <2>6
          DEF Next, Send, TryRecv, RecvFirst, RecvAgain, RecvDrop, vars
<1> QED BY <1>1, <1>2, PTL DEF Spec

(* The channel closes exactly when one side has no handle left, whatever     *)
(* clones and drops there were, and stays closed: no handle can be cloned    *)
(* from a side that has none.                                                *)
THEOREM ClosedExactly == Spec => []ClosedByLastHandle
<1>1. HandlesInv => ClosedByLastHandle
  BY DEF HandlesInv
<1> QED BY <1>1, HandlesInvariant, PTL

-----------------------------------------------------------------------------
(* The event of a channel: its notes are plain, and hold items or None. *)
EventTyped == event \in ItemEvent /\ NoneAdditional(event)

(* Closing wakes every listener with a plain None. *)
LEMMA CloseWakes ==
    ASSUME EventTyped, Close
    PROVE  EventTyped' /\ closed' /\ event'.waiting = <<>>
<1> DEFINE add == FALSE
<1>1. add \in BOOLEAN /\ ~add /\ None \in ItemTags
  BY DEF ItemTags
<1>2. event' = WakeAll(event, None, add) /\ closed'
  BY DEF Close
<1> HIDE DEF add
<1> QED BY <1>1, <1>2, WakeAllWakesEveryone DEF EventTyped, ItemEvent

(* A new item is a plain notification of one. *)
LEMMA SendNotifies ==
    ASSUME EventTyped, NEW item \in Items
    PROVE  /\ Notify(event, <<item>>, FALSE) \in ItemEvent
           /\ NoneAdditional(Notify(event, <<item>>, FALSE))
<1> DEFINE add == FALSE
           tags == <<item>>
<1>1. add \in BOOLEAN /\ ~add /\ tags \in Seq(ItemTags)
  BY DEF ItemTags
<1> HIDE DEF add, tags
<1>2. /\ Notify(event, tags, add) \in ItemEvent
      /\ NoneAdditional(Notify(event, tags, add))
  BY <1>1, NotifyType, NotifyNoneAdditional DEF EventTyped, ItemEvent
<1> QED BY <1>2 DEF add, tags

(* The loop of recv() leaves the event as it found it, or sleeps. *)
LEMMA LoopEvent ==
    ASSUME NEW e \in ItemEvent, NoneAdditional(e), NEW r \in ReceiverIds, RecvLoop(r, e)
    PROVE  /\ EventTyped'
           /\ event' = e \/ (event' = Insert(e, r) /\ ~closed)
<1>1. Insert(e, r) \in ItemEvent /\ NoneAdditional(Insert(e, r))
  BY InsertType DEF ItemEvent, NoneAdditional
<1> QED BY <1>1 DEF RecvLoop, EventTyped

(* Every step keeps the event of that kind. *)
LEMMA EventTypedStep ==
    ASSUME EventTyped, sent \in 0..MaxItems, [Next]_vars
    PROVE  EventTyped'
<1>1. event \in ItemEvent /\ NoneAdditional(event) /\ event \in EventOf(ReceiverIds, ItemTags)
  BY DEF EventTyped, ItemEvent
<1>2. ASSUME UNCHANGED event PROVE EventTyped'
  BY <1>1, <1>2 DEF EventTyped
<1>3. ASSUME NEW s \in SenderIds, Send(s) PROVE EventTyped'
  <2>1. sent + 1 \in Items
    BY <1>3, MaxItemsAssumption DEF Send, Items
  <2> QED BY <1>3, <2>1, SendNotifies DEF Send, EventTyped
<1>4. ASSUME NEW s \in SenderIds, DropSender(s) PROVE EventTyped'
  BY <1>2, <1>4, CloseWakes DEF DropSender
<1>5. ASSUME NEW r \in ReceiverIds, DropReceiver(r) PROVE EventTyped'
  BY <1>2, <1>5, CloseWakes DEF DropReceiver
<1>6. ASSUME NEW r \in ReceiverIds, RecvFirst(r) PROVE EventTyped'
  BY <1>1, <1>6, LoopEvent DEF RecvFirst
<1>7. ASSUME NEW r \in ReceiverIds, RecvAgain(r) PROVE EventTyped'
  <2>1. Take(event, r) \in ItemEvent /\ NoneAdditional(Take(event, r))
    BY <1>1, <1>7, TakeType, TakeNoneAdditional DEF RecvAgain, ItemEvent
  <2>2. RecvLoop(r, Take(event, r)) \/ event' = Take(event, r)
    BY <1>7 DEF RecvAgain
  <2> QED BY <2>1, <2>2, LoopEvent DEF EventTyped
<1>8. ASSUME NEW r \in ReceiverIds, RecvDrop(r) PROVE EventTyped'
  <2>1. Cancel(event, r) \in ItemEvent /\ NoneAdditional(Cancel(event, r))
    BY <1>1, CancelType, CancelNoneAdditional DEF ItemEvent
  <2> QED BY <1>8, <2>1 DEF RecvDrop, EventTyped
<1> QED BY <1>2, <1>3, <1>4, <1>5, <1>6, <1>7, <1>8
        DEF Next, CloneSender, CloneReceiver, TryRecv, vars

(* What is in flight are items. *)
LEMMA InFlightItems ==
    ASSUME NEW e \in ItemEvent
    PROVE  /\ InFlight(e) \subseteq Items
           /\ \A i \in 1..Len(e.notified) : e.notified[i].tag \in ItemTags
           /\ \A r : IsNotified(e, r) => Note(e, r).tag \in ItemTags
<1>1. e.notified \in Seq(NoteOf(ReceiverIds, ItemTags)) /\ e \in EventOf(ReceiverIds, ItemTags)
  BY DEF ItemEvent, EventOf
<1>2. ASSUME NEW i \in 1..Len(e.notified) PROVE e.notified[i].tag \in ItemTags
  <2>1. e.notified[i] \in NoteOf(ReceiverIds, ItemTags)
    BY <1>1, ElementOfSeq
  <2> QED BY <2>1 DEF NoteOf
<1>3. \A r : IsNotified(e, r) => Note(e, r).tag \in ItemTags
  BY <1>1, NotifiedIndexProperties DEF NoteOf
<1> QED BY <1>2, <1>3 DEF InFlight, ItemTags

(* The channel keeps its types: what is handed on is an item or None, and    *)
(* None is never delivered to a receiver.                                    *)
LEMMA TypedStep ==
    ASSUME TypeOK, HandlesInv', [Next]_vars
    PROVE  TypeOK'
<1>1. /\ data \in Seq(Items) /\ closed \in BOOLEAN
      /\ event \in ItemEvent /\ EventTyped
      /\ tx \subseteq SenderIds /\ rx \subseteq ReceiverIds
      /\ pc \in [ReceiverIds -> {"idle", "receiving"}]
      /\ sent \in 0..MaxItems
      /\ delivered \in [ReceiverIds -> Seq(Items)]
      /\ lost \subseteq Items /\ told \subseteq ReceiverIds /\ solo \in BOOLEAN
  BY DEF TypeOK, EventTyped, ItemEvent, ItemTags, NoneAdditional
<1>2. EventTyped'
  BY <1>1, EventTypedStep
<1>3. senders' \in Nat /\ receivers' \in Nat
  BY FS_CardinalityType DEF HandlesInv, ClosedByLastHandle
<1> DEFINE Rest == /\ data' \in Seq(Items) /\ closed' \in BOOLEAN
                   /\ tx' \subseteq SenderIds /\ rx' \subseteq ReceiverIds
                   /\ pc' \in [ReceiverIds -> {"idle", "receiving"}]
                   /\ sent' \in 0..MaxItems
                   /\ delivered' \in [ReceiverIds -> Seq(Items)]
                   /\ lost' \subseteq Items /\ told' \subseteq ReceiverIds
                   /\ solo' \in BOOLEAN
<1> SUFFICES Rest
  BY <1>2, <1>3 DEF TypeOK, EventTyped, ItemEvent, ItemTags, NoneAdditional
<1>4. ASSUME NEW r \in ReceiverIds, NEW item \in Items, Deliver(r, item)
      PROVE  /\ delivered' \in [ReceiverIds -> Seq(Items)]
             /\ lost' \subseteq Items /\ told' \subseteq ReceiverIds
             /\ sent' \in 0..MaxItems
  <2>1. delivered[r] \in Seq(Items)
    BY <1>1
  <2>2. Append(delivered[r], item) \in Seq(Items)
    BY <2>1, AppendProperties
  <2> QED BY <1>1, <1>4, <2>2 DEF Deliver
<1>5. ASSUME NEW r \in ReceiverIds, PopFront(r) \/ ReportClosed(r)
      PROVE  /\ data' \in Seq(Items)
             /\ delivered' \in [ReceiverIds -> Seq(Items)]
             /\ lost' \subseteq Items /\ told' \subseteq ReceiverIds
             /\ sent' \in 0..MaxItems
  <2>1. CASE PopFront(r)
    <3>1. Head(data) \in Items /\ Tail(data) \in Seq(Items)
      BY <1>1, <2>1, HeadTailProperties DEF PopFront
    <3> QED BY <1>4, <2>1, <3>1 DEF PopFront
  <2>2. CASE ReportClosed(r)
    BY <1>1, <2>2 DEF ReportClosed
  <2> QED BY <1>5, <2>1, <2>2
<1>6. ASSUME NEW r \in ReceiverIds, NEW e, RecvLoop(r, e), UNCHANGED <<closed, handles>>
      PROVE  Rest
  BY <1>1, <1>5, <1>6 DEF RecvLoop, handles, history
<1>7. ASSUME NEW s \in SenderIds, Send(s) PROVE Rest
  <2>1. sent + 1 \in Items /\ sent + 1 \in 0..MaxItems
    BY <1>1, <1>7, MaxItemsAssumption DEF Send, Items
  <2>2. Append(data, sent + 1) \in Seq(Items)
    BY <1>1, <2>1, AppendProperties
  <2> QED BY <1>1, <1>7, <2>1, <2>2 DEF Send, AfterSend, handles
<1>8. ASSUME NEW s \in SenderIds, DropSender(s) PROVE Rest
  BY <1>1, <1>8 DEF DropSender, Close, history
<1>9. ASSUME NEW s \in SenderIds, NEW new \in SenderIds, CloneSender(s, new) PROVE Rest
  BY <1>1, <1>9 DEF CloneSender, history
<1>10. ASSUME NEW r \in ReceiverIds, NEW new \in ReceiverIds, CloneReceiver(r, new)
       PROVE  Rest
  BY <1>1, <1>10 DEF CloneReceiver
<1>11. ASSUME NEW r \in ReceiverIds, DropReceiver(r) PROVE Rest
  BY <1>1, <1>11 DEF DropReceiver, Close, history
<1>12. ASSUME NEW r \in ReceiverIds, TryRecv(r) PROVE Rest
  BY <1>1, <1>5, <1>12 DEF TryRecv, handles
<1>13. ASSUME NEW r \in ReceiverIds, RecvFirst(r) PROVE Rest
  BY <1>6, <1>13 DEF RecvFirst
<1>14. ASSUME NEW r \in ReceiverIds, RecvAgain(r) PROVE Rest
  <2>1. CASE Note(event, r).tag = None
    <3>1. RecvLoop(r, Take(event, r)) /\ UNCHANGED <<closed, handles>>
      BY <1>14, <2>1 DEF RecvAgain
    <3> QED BY <1>6, <3>1
  <2>2. CASE Note(event, r).tag # None
    <3>1. Note(event, r).tag \in Items
      BY <1>1, <1>14, <2>2, InFlightItems DEF RecvAgain, ItemTags
    <3>2. Deliver(r, Note(event, r).tag)
      BY <1>14, <2>2 DEF RecvAgain
    <3> QED BY <1>1, <1>4, <1>14, <2>2, <3>1, <3>2 DEF RecvAgain, handles
  <2> QED BY <2>1, <2>2
<1>15. ASSUME NEW r \in ReceiverIds, RecvDrop(r) PROVE Rest
  <2>1. InFlight(event) \subseteq Items
    BY <1>1, InFlightItems
  <2> QED BY <1>1, <1>15, <2>1 DEF RecvDrop, handles
<1>16. CASE UNCHANGED vars
  BY <1>1, <1>16 DEF vars, handles, history
<1> QED BY <1>7, <1>8, <1>9, <1>10, <1>11, <1>12, <1>13, <1>14, <1>15, <1>16 DEF Next

(* The channel keeps its types, with the counts of its handles. *)
THEOREM TypeCorrect == Spec => []TypeOK
<1>1. Init => TypeOK
  <2> SUFFICES ASSUME Init PROVE TypeOK
    OBVIOUS
  <2>1. <<>> \in Seq(Items) /\ NewEvent \in ItemEvent /\ NoneAdditional(NewEvent)
    BY EmptySeq, NewEventType DEF ItemEvent
  <2>2. 0 \in 0..MaxItems
    BY MaxItemsAssumption
  <2> QED BY <2>1, <2>2 DEF Init, TypeOK, ItemEvent, ItemTags, NoneAdditional
<1>2. TypeOK /\ HandlesInv' /\ [Next]_vars => TypeOK'
  BY TypedStep
<1> QED BY <1>1, <1>2, HandlesInvariant, PTL DEF Spec

-----------------------------------------------------------------------------
(***************************************************************************)
(* When the channel is closed nobody sleeps.  Close wakes every listener,  *)
(* a recv() that is polled afterwards finds the channel closed and does    *)
(* not sleep, and a dropped one passes its note on to nobody.              *)
(***************************************************************************)
THEOREM NobodySleepsClosed == Spec => []ClosedWakesEveryone
<1>1. Init => ClosedWakesEveryone
  BY DEF Init, ClosedWakesEveryone
<1>2. TypeOK /\ ClosedWakesEveryone /\ [Next]_vars => ClosedWakesEveryone'
  <2> SUFFICES ASSUME TypeOK, ClosedWakesEveryone, [Next]_vars
               PROVE  ClosedWakesEveryone'
    OBVIOUS
  <2>1. EventTyped /\ event \in EventOf(ReceiverIds, ItemTags)
    BY DEF TypeOK, EventTyped, ItemEvent, ItemTags, NoneAdditional
  <2>2. ASSUME UNCHANGED <<closed, event>> PROVE ClosedWakesEveryone'
    BY <2>2 DEF ClosedWakesEveryone
  <2>3. ASSUME Close PROVE ClosedWakesEveryone'
    BY <2>1, <2>3, CloseWakes DEF ClosedWakesEveryone
  <2>4. ASSUME NEW r \in ReceiverIds, NEW e, e.waiting = event.waiting,
               RecvLoop(r, e), UNCHANGED closed
        PROVE  ClosedWakesEveryone'
    BY <2>4 DEF RecvLoop, ClosedWakesEveryone
  <2>5. ASSUME NEW r \in ReceiverIds, RecvAgain(r) PROVE ClosedWakesEveryone'
    <3>1. Take(event, r).waiting = event.waiting
      BY <2>1, <2>5, TakeType DEF RecvAgain
    <3>2. (RecvLoop(r, Take(event, r)) \/ event' = Take(event, r)) /\ UNCHANGED closed
      BY <2>5 DEF RecvAgain
    <3> QED BY <2>4, <3>1, <3>2 DEF ClosedWakesEveryone
  <2>6. ASSUME NEW r \in ReceiverIds, RecvDrop(r) PROVE ClosedWakesEveryone'
    BY <2>1, <2>6, CancelKeepsEveryoneAwake DEF RecvDrop, ClosedWakesEveryone
  <2> QED BY <2>2, <2>3, <2>4, <2>5, <2>6
          DEF Next, Send, DropSender, DropReceiver, CloneSender, CloneReceiver,
              TryRecv, RecvFirst, ClosedWakesEveryone, vars
<1> QED BY <1>1, <1>2, TypeCorrect, PTL DEF Spec

(***************************************************************************)
(* A receiver that is told the channel is closed has missed no queued      *)
(* item, then or later: the queue is empty, and nothing is sent any more.  *)
(***************************************************************************)
THEOREM DrainedBeforeTold == Spec => []ClosedMeansDrained
<1>1. Init => ClosedMeansDrained
  BY DEF Init, ClosedMeansDrained
<1>2. ClosedMeansDrained /\ [Next]_vars => ClosedMeansDrained'
  <2> SUFFICES ASSUME ClosedMeansDrained, [Next]_vars PROVE ClosedMeansDrained'
    OBVIOUS
  <2>1. ASSUME UNCHANGED <<data, told>>, closed' = closed \/ closed'
        PROVE  ClosedMeansDrained'
    BY <2>1 DEF ClosedMeansDrained
  <2>2. ASSUME NEW r \in ReceiverIds, PopFront(r) \/ ReportClosed(r), UNCHANGED closed
        PROVE  ClosedMeansDrained'
    BY <2>2 DEF PopFront, ReportClosed, Deliver, ClosedMeansDrained
  <2>3. ASSUME NEW r \in ReceiverIds, NEW e, RecvLoop(r, e), UNCHANGED closed
        PROVE  ClosedMeansDrained'
    BY <2>1, <2>2, <2>3 DEF RecvLoop, history
  <2>4. ASSUME NEW s \in SenderIds, Send(s) PROVE ClosedMeansDrained'
    BY <2>4 DEF Send, ClosedMeansDrained
  <2>5. ASSUME NEW r \in ReceiverIds, RecvAgain(r) PROVE ClosedMeansDrained'
    <3>1. \/ RecvLoop(r, Take(event, r))
          \/ Deliver(r, Note(event, r).tag) /\ UNCHANGED data
      BY <2>5 DEF RecvAgain
    <3> QED BY <2>1, <2>3, <2>5, <3>1 DEF RecvAgain, Deliver
  <2> QED BY <2>1, <2>2, <2>3, <2>4, <2>5
          DEF Next, DropSender, DropReceiver, Close, CloneSender, CloneReceiver,
              TryRecv, RecvFirst, RecvDrop, history, vars
<1> QED BY <1>1, <1>2, PTL DEF Spec

-----------------------------------------------------------------------------
(* No item is in two notifications. *)
DistinctItems(e) ==
    \A i, j \in 1..Len(e.notified) :
        e.notified[i].tag = e.notified[j].tag => i = j \/ e.notified[i].tag = None

(* In the words of the lemmas about events. *)
LEMMA InFlightTags ==
    ASSUME NEW e
    PROVE  InFlight(e) = TagsOf(e, None) /\ (DistinctItems(e) <=> DistinctTags(e, None))
BY DEF InFlight, DistinctItems, TagsOf, DistinctTags

(* A notification of one puts its tag in flight, if it reaches anybody. *)
LEMMA NotifyItem ==
    ASSUME NEW e \in ItemEvent, NEW tag \in ItemTags, NEW add \in BOOLEAN
    PROVE  LET f == Notify(e, <<tag>>, add)
               k == Reach(e, 1, add)
           IN  /\ f \in ItemEvent
               /\ k \in {0, 1}
               /\ k = 0 => f = e
               /\ k = 1 => /\ InFlight(f) = InFlight(e) \cup ({tag} \ {None})
                           /\ DistinctItems(e) /\ tag \notin InFlight(e) => DistinctItems(f)
<1> DEFINE f == Notify(e, <<tag>>, add)
           k == Reach(e, 1, add)
<1>1. e \in EventOf(ReceiverIds, ItemTags)
  BY DEF ItemEvent
<1>2. /\ f \in EventOf(ReceiverIds, ItemTags)
      /\ k \in {0, 1}
      /\ k = 0 => f = e
      /\ k = 1 => /\ TagsOf(f, None) = TagsOf(e, None) \cup ({tag} \ {None})
                  /\ DistinctTags(e, None) /\ tag \notin TagsOf(e, None)
                       => DistinctTags(f, None)
  <2>1. f \in EventOf(ReceiverIds, ItemTags)
    BY <1>1, NotifyTag
  <2>2. k \in {0, 1}
    BY <1>1, NotifyTag
  <2>3. k = 0 => f = e
    BY <1>1, NotifyTag
  <2>4. k = 1 => TagsOf(f, None) = TagsOf(e, None) \cup ({tag} \ {None})
    BY <1>1, NotifyTag
  <2>5. k = 1 /\ DistinctTags(e, None) /\ tag \notin TagsOf(e, None) => DistinctTags(f, None)
    BY <1>1, NotifyTag
  <2> HIDE DEF f, k
  <2> QED BY <2>1, <2>2, <2>3, <2>4, <2>5
<1> HIDE DEF f, k
<1>3. /\ f \in ItemEvent
      /\ k \in {0, 1}
      /\ k = 0 => f = e
      /\ k = 1 => /\ InFlight(f) = InFlight(e) \cup ({tag} \ {None})
                  /\ DistinctItems(e) /\ tag \notin InFlight(e) => DistinctItems(f)
  BY <1>2, InFlightTags DEF ItemEvent
<1> QED BY <1>3 DEF f, k

(* The close puts nothing in flight. *)
LEMMA CloseItems ==
    ASSUME event \in ItemEvent, Close
    PROVE  /\ InFlight(event') = InFlight(event)
           /\ DistinctItems(event) => DistinctItems(event')
<1> DEFINE e == event
           m == Len(e.notified) + Len(e.waiting)
           tags == [i \in 1..m |-> None]
           add == FALSE
           f == Notify(e, tags, add)
           n == Len(e.notified)
           k == Reach(e, Len(tags), add)
<1>1. event' = f
  BY DEF Close, WakeAll
<1>2. e \in EventOf(ReceiverIds, ItemTags)
  BY DEF ItemEvent
<1>3. n \in Nat /\ Len(e.waiting) \in Nat /\ m \in Nat
  <2>1. e.notified \in Seq(NoteOf(ReceiverIds, ItemTags)) /\ e.waiting \in Seq(ReceiverIds)
    BY <1>2 DEF EventOf
  <2>2. n \in Nat
    BY <2>1, LenProperties
  <2>3. Len(e.waiting) \in Nat
    BY <2>1, LenProperties
  <2>4. m = n + Len(e.waiting)
    OBVIOUS
  <2> HIDE DEF n, m
  <2> QED BY <2>2, <2>3, <2>4
<1>4. tags \in Seq(ItemTags) /\ Len(tags) = m /\ add \in BOOLEAN
  <2> HIDE DEF m
  <2>1. tags \in [1..m -> ItemTags]
    BY DEF ItemTags
  <2>2. tags \in Seq(ItemTags)
    BY <1>3, <2>1, SeqDef
  <2> QED BY <1>3, <2>1, <2>2, LenProperties
<1>5. \A i \in 1..m : tags[i] = None
  OBVIOUS
<1> HIDE DEF e, m, tags, add
<1>6. k \in Nat /\ k <= m
  BY <1>2, <1>3, <1>4, ReachBounds
<1>7. Len(f.notified) = n + k
  BY <1>2, <1>4, NotifyType
<1>8. /\ \A i \in 1..n : f.notified[i] = e.notified[i]
      /\ \A i \in 1..k : f.notified[n + i] = [who |-> e.waiting[i], tag |-> tags[i],
                                              additional |-> add]
  BY <1>2, <1>4, NotifyNotes
<1> HIDE DEF f, k, n
<1>9. ASSUME NEW i \in 1..Len(f.notified), ~(i \in 1..n)
      PROVE  f.notified[i].tag = None
  <2>1. i - n \in 1..k /\ n + (i - n) = i /\ i - n \in 1..m
    BY <1>3, <1>6, <1>7, <1>9
  <2>2. f.notified[n + (i - n)] = [who |-> e.waiting[i - n], tag |-> tags[i - n],
                                   additional |-> add]
    BY <1>8, <2>1
  <2>3. f.notified[i].tag = tags[i - n]
    BY <2>1, <2>2
  <2> QED BY <1>5, <2>1, <2>3
<1>10. \A i \in 1..n : i \in 1..Len(f.notified)
  BY <1>3, <1>6, <1>7
<1>11. InFlight(f) = InFlight(e)
  BY <1>8, <1>9, <1>10 DEF InFlight, n
<1>12. DistinctItems(e) => DistinctItems(f)
  BY <1>8, <1>9, <1>10 DEF DistinctItems, n
<1> QED BY <1>1, <1>11, <1>12 DEF e

(* A listener that takes its note takes its item out of flight. *)
LEMMA TakeItem ==
    ASSUME NEW e \in ItemEvent, NEW r, IsNotified(e, r), DistinctItems(e)
    PROVE  /\ Take(e, r) \in ItemEvent
           /\ DistinctItems(Take(e, r))
           /\ InFlight(Take(e, r)) = InFlight(e) \ {Note(e, r).tag}
           /\ Note(e, r).tag # None => Note(e, r).tag \in InFlight(e)
<1>1. e \in EventOf(ReceiverIds, ItemTags) /\ DistinctTags(e, None)
  BY InFlightTags DEF ItemEvent
<1>2. /\ Take(e, r) \in EventOf(ReceiverIds, ItemTags)
      /\ DistinctTags(Take(e, r), None)
      /\ TagsOf(Take(e, r), None) = TagsOf(e, None) \ {Note(e, r).tag}
      /\ Note(e, r).tag # None => Note(e, r).tag \in TagsOf(e, None)
  BY <1>1, TakeTag
<1> QED BY <1>2, InFlightTags DEF ItemEvent

(* A dropped listener may drop its own item, but puts nothing new in flight. *)
LEMMA CancelItem ==
    ASSUME NEW e \in ItemEvent, NEW r, DistinctItems(e)
    PROVE  /\ InFlight(Cancel(e, r)) \subseteq InFlight(e)
           /\ InFlight(e) \ InFlight(Cancel(e, r)) \subseteq {Note(e, r).tag}
           /\ DistinctItems(Cancel(e, r))
<1>1. e \in EventOf(ReceiverIds, ItemTags) /\ DistinctTags(e, None)
  BY InFlightTags DEF ItemEvent
<1>2. /\ TagsOf(Cancel(e, r), None) \subseteq TagsOf(e, None)
      /\ TagsOf(e, None) \ TagsOf(Cancel(e, r), None) \subseteq {Note(e, r).tag}
      /\ DistinctTags(Cancel(e, r), None)
  BY <1>1, CancelTags
<1> QED BY <1>2, InFlightTags

(* The items of all receivers, and that none of them was delivered twice. *)
GotOf(d) == UNION {ToSet(d[r]) : r \in ReceiverIds}

GotOnce(d) ==
    \A r, q \in ReceiverIds : \A i \in 1..Len(d[r]), j \in 1..Len(d[q]) :
        d[r][i] = d[q][j] => r = q /\ i = j

(* The items up to n are in exactly one of four sets. *)
Partition(n, queued, flying, got, dropped) ==
    /\ 1..n = queued \cup flying \cup got \cup dropped
    /\ queued \cap flying = {}
    /\ got \cap (queued \cup flying) = {}
    /\ dropped \cap (queued \cup flying \cup got) = {}

(* The same said part by part. *)
LEMMA OnePlaceParts ==
    EveryItemInOnePlace <=>
        /\ Partition(sent, ToSet(data), InFlight(event), GotOf(delivered), lost)
        /\ Distinct(data) /\ DistinctItems(event) /\ GotOnce(delivered)
  BY DEF EveryItemInOnePlace, Partition, GotOf, GotOnce, Distinct, DistinctItems

(* Delivering an item that no receiver has yet. *)
LEMMA DeliverItem ==
    ASSUME NEW d \in [ReceiverIds -> Seq(Items)], NEW r \in ReceiverIds,
           NEW x \in Items, x \notin GotOf(d), GotOnce(d),
           NEW e, e = [d EXCEPT ![r] = Append(@, x)]
    PROVE  GotOf(e) = GotOf(d) \cup {x} /\ GotOnce(e)
<1>1. d[r] \in Seq(Items) /\ e[r] = Append(d[r], x)
      /\ \A q \in ReceiverIds \ {r} : e[q] = d[q]
  OBVIOUS
<1>2. /\ Len(e[r]) = Len(d[r]) + 1 /\ Len(d[r]) \in Nat
      /\ \A i \in 1..Len(d[r]) : e[r][i] = d[r][i]
      /\ e[r][Len(d[r]) + 1] = x
  BY <1>1, AppendProperties, LenProperties
<1>3. ToSet(e[r]) = ToSet(d[r]) \cup {x}
  BY <1>1, AppendElement
<1>4. GotOf(e) = GotOf(d) \cup {x}
  <2>1. ASSUME NEW y \in GotOf(e) PROVE y \in GotOf(d) \cup {x}
    <3>1. PICK q \in ReceiverIds : y \in ToSet(e[q])
      BY <2>1 DEF GotOf
    <3>2. CASE q = r
      BY <1>3, <3>1, <3>2 DEF GotOf
    <3>3. CASE q # r
      BY <1>1, <3>1, <3>3 DEF GotOf
    <3> QED BY <3>2, <3>3
  <2>2. ASSUME NEW y \in GotOf(d) PROVE y \in GotOf(e)
    <3>1. PICK q \in ReceiverIds : y \in ToSet(d[q])
      BY <2>2 DEF GotOf
    <3>2. y \in ToSet(e[q])
      BY <1>1, <1>3, <3>1
    <3> QED BY <3>2 DEF GotOf
  <2>3. x \in GotOf(e)
    BY <1>3 DEF GotOf
  <2> QED BY <2>1, <2>2, <2>3
<1>5. \A q \in ReceiverIds : \A j \in 1..Len(d[q]) : d[q][j] # x
  <2> SUFFICES ASSUME NEW q \in ReceiverIds, NEW j \in 1..Len(d[q]), d[q][j] = x
               PROVE  FALSE
    OBVIOUS
  <2>1. DOMAIN d[q] = 1..Len(d[q])
    BY LenProperties
  <2>2. x \in ToSet(d[q])
    BY <2>1 DEF ToSet
  <2> QED BY <2>2 DEF GotOf
<1>6. ASSUME NEW q \in ReceiverIds, NEW i \in 1..Len(e[q])
      PROVE  \/ i \in 1..Len(d[q]) /\ e[q][i] = d[q][i]
             \/ q = r /\ i = Len(d[r]) + 1 /\ e[q][i] = x
  BY <1>1, <1>2
<1>7. GotOnce(e)
  <2> SUFFICES ASSUME NEW p \in ReceiverIds, NEW q \in ReceiverIds,
                      NEW i \in 1..Len(e[p]), NEW j \in 1..Len(e[q]),
                      e[p][i] = e[q][j]
               PROVE  p = q /\ i = j
    BY DEF GotOnce
  <2>1. \/ i \in 1..Len(d[p]) /\ e[p][i] = d[p][i]
        \/ p = r /\ i = Len(d[r]) + 1 /\ e[p][i] = x
    BY <1>6
  <2>2. \/ j \in 1..Len(d[q]) /\ e[q][j] = d[q][j]
        \/ q = r /\ j = Len(d[r]) + 1 /\ e[q][j] = x
    BY <1>6
  <2> QED BY <1>5, <2>1, <2>2 DEF GotOnce
<1> QED BY <1>4, <1>7

(* Every step moves each item from at most one place to one other. *)
LEMMA OnePlaceStep ==
    ASSUME TypeOK, EveryItemInOnePlace, [Next]_vars
    PROVE  EveryItemInOnePlace'
<1> DEFINE Q == ToSet(data)
           F == InFlight(event)
           G == GotOf(delivered)
<1>1. /\ Partition(sent, Q, F, G, lost)
      /\ Distinct(data) /\ DistinctItems(event) /\ GotOnce(delivered)
  BY OnePlaceParts
<1>2. /\ data \in Seq(Items) /\ event \in ItemEvent
      /\ event \in EventOf(ReceiverIds, ItemTags)
      /\ delivered \in [ReceiverIds -> Seq(Items)] /\ sent \in 0..MaxItems
      /\ sent \in Nat
  <2>1. sent \in 0..MaxItems
    BY DEF TypeOK
  <2>2. sent \in Nat
    BY <2>1, MaxItemsAssumption
  <2> QED BY <2>2 DEF TypeOK, ItemEvent, ItemTags
<1>3. SUFFICES /\ Partition(sent', ToSet(data'), InFlight(event'), GotOf(delivered'), lost')
               /\ Distinct(data') /\ DistinctItems(event') /\ GotOnce(delivered')
  BY DEF EveryItemInOnePlace, Partition, GotOf, GotOnce, Distinct, DistinctItems
<1> DEFINE Goal == /\ Partition(sent', ToSet(data'), InFlight(event'),
                                GotOf(delivered'), lost')
                   /\ Distinct(data') /\ DistinctItems(event') /\ GotOnce(delivered')
<1>4. ASSUME UNCHANGED <<data, sent, delivered, lost>>,
             InFlight(event') = F, DistinctItems(event')
      PROVE  Goal
  BY <1>1, <1>4
<1>5. ASSUME UNCHANGED <<data, sent, delivered, lost>>, Close \/ UNCHANGED event
      PROVE  Goal
  BY <1>1, <1>2, <1>4, <1>5, CloseItems
<1>6. ASSUME NEW s \in SenderIds, Send(s) PROVE Goal
  <2> DEFINE x == sent + 1
             add == FALSE
             k == Reach(event, 1, add)
  <2>1. /\ x \in Items /\ x \in ItemTags /\ x # None /\ add \in BOOLEAN
        /\ x \notin 1..sent /\ 1..(sent + 1) = 1..sent \cup {x}
    BY <1>2, <1>6, MaxItemsAssumption DEF Send, Items, ItemTags, None
  <2>2. /\ sent' = x /\ event' = Notify(event, <<x>>, add)
        /\ data' = IF k = 1 THEN data ELSE Append(data, x)
        /\ UNCHANGED <<delivered, lost>>
    BY <1>6 DEF Send, AfterSend
  <2>3. 1..sent' = 1..sent \cup {x}
    BY <2>1, <2>2
  <2> HIDE DEF x, add
  <2>4. x \notin Q \cup F \cup G \cup lost
    BY <1>1, <2>1 DEF Partition
  <2>5. /\ k \in {0, 1}
        /\ k = 0 => event' = event
        /\ k = 1 => /\ InFlight(event') = F \cup ({x} \ {None})
                    /\ DistinctItems(event) /\ x \notin F => DistinctItems(event')
    BY <1>2, <2>1, <2>2, NotifyItem
  <2> HIDE DEF k
  <2>6. CASE k = 1
    BY <1>1, <2>1, <2>2, <2>3, <2>4, <2>5, <2>6 DEF Partition
  <2>7. CASE k = 0
    <3>1. /\ ToSet(data') = Q \cup {x}
          /\ Distinct(data) /\ x \notin Q => Distinct(data')
      BY <1>2, <2>1, <2>2, <2>7, AppendElement
    <3> QED BY <1>1, <2>1, <2>2, <2>3, <2>4, <2>5, <2>7, <3>1 DEF Partition
  <2> QED BY <2>5, <2>6, <2>7
<1>7. ASSUME NEW r \in ReceiverIds, PopFront(r),
             InFlight(event') = F, DistinctItems(event')
      PROVE  Goal
  <2> DEFINE x == Head(data)
  <2>1. /\ x \in Q /\ x \in Items /\ ToSet(data') = Q \ {x} /\ Distinct(data')
    BY <1>1, <1>2, <1>7, TailElements DEF PopFront
  <2>2. delivered' = [delivered EXCEPT ![r] = Append(@, x)] /\ UNCHANGED <<lost, sent>>
    BY <1>7 DEF PopFront, Deliver
  <2> HIDE DEF x
  <2>3. x \notin G
    BY <1>1, <2>1 DEF Partition
  <2>4. GotOf(delivered') = G \cup {x} /\ GotOnce(delivered')
    BY <1>1, <1>2, <2>1, <2>2, <2>3, DeliverItem
  <2> QED BY <1>1, <1>7, <2>1, <2>2, <2>4 DEF Partition
<1>8. ASSUME NEW r \in ReceiverIds, PopFront(r) \/ ReportClosed(r),
             InFlight(event') = F, DistinctItems(event')
      PROVE  Goal
  BY <1>4, <1>7, <1>8 DEF ReportClosed
<1>9. ASSUME NEW r \in ReceiverIds, NEW e \in ItemEvent, RecvLoop(r, e),
             InFlight(e) = F, DistinctItems(e)
      PROVE  Goal
  <2>1. Insert(e, r).notified = e.notified
    BY <1>9, InsertType DEF ItemEvent
  <2>2. InFlight(Insert(e, r)) = F /\ DistinctItems(Insert(e, r))
    BY <1>9, <2>1 DEF InFlight, DistinctItems
  <2> QED BY <1>4, <1>8, <1>9, <2>2 DEF RecvLoop, history
<1>10. ASSUME NEW r \in ReceiverIds, RecvAgain(r) PROVE Goal
  <2> DEFINE x == Note(event, r).tag
             e == Take(event, r)
  <2>1. /\ e \in ItemEvent /\ DistinctItems(e) /\ InFlight(e) = F \ {x}
        /\ x # None => x \in F
    BY <1>1, <1>2, <1>10, TakeItem DEF RecvAgain
  <2>2. CASE x = None
    <3>1. InFlight(e) = F
      BY <2>1, <2>2 DEF InFlight
    <3> QED BY <1>9, <1>10, <2>1, <2>2, <3>1 DEF RecvAgain
  <2>3. CASE x # None
    <3>1. /\ event' = e /\ data' = data /\ UNCHANGED <<lost, sent>>
          /\ delivered' = [delivered EXCEPT ![r] = Append(@, x)]
      BY <1>10, <2>3 DEF RecvAgain, Deliver
    <3>2. x \in Items
      BY <1>2, <2>1, <2>3, InFlightItems
    <3> HIDE DEF x, e
    <3>3. x \in F /\ x \notin G
      BY <1>1, <2>1, <2>3 DEF Partition
    <3>4. GotOf(delivered') = G \cup {x} /\ GotOnce(delivered')
      BY <1>1, <1>2, <3>1, <3>2, <3>3, DeliverItem
    <3> QED BY <1>1, <2>1, <3>1, <3>3, <3>4 DEF Partition
  <2> QED BY <2>2, <2>3
<1>11. ASSUME NEW r \in ReceiverIds, RecvDrop(r) PROVE Goal
  <2>1. InFlight(event') \subseteq F /\ DistinctItems(event')
    BY <1>1, <1>2, <1>11, CancelItem DEF RecvDrop
  <2>2. UNCHANGED <<data, sent, delivered>> /\ lost' = lost \cup (F \ InFlight(event'))
    BY <1>11 DEF RecvDrop
  <2> QED BY <1>1, <2>1, <2>2 DEF Partition
<1>12. ASSUME NEW r \in ReceiverIds, RecvFirst(r) PROVE Goal
  BY <1>1, <1>2, <1>9, <1>12 DEF RecvFirst
<1>13. ASSUME NEW r \in ReceiverIds, TryRecv(r) PROVE Goal
  BY <1>1, <1>8, <1>13 DEF TryRecv
<1>14. ASSUME NEW s \in SenderIds, DropSender(s) PROVE Goal
  BY <1>5, <1>14 DEF DropSender, history
<1>15. ASSUME NEW r \in ReceiverIds, DropReceiver(r) PROVE Goal
  BY <1>5, <1>15 DEF DropReceiver, history
<1> QED BY <1>5, <1>6, <1>10, <1>11, <1>12, <1>13, <1>14, <1>15
        DEF Next, CloneSender, CloneReceiver, history, vars

(***************************************************************************)
(* Every item that send() accepted is queued, in flight, delivered once to *)
(* one receiver, or lost with a dropped listener: with any number of       *)
(* handles and items, and wherever items were passed on.                   *)
(***************************************************************************)
THEOREM NoItemTwiceOrGone == Spec => []EveryItemInOnePlace
<1>1. Init => EveryItemInOnePlace
  <2> SUFFICES ASSUME Init PROVE EveryItemInOnePlace
    OBVIOUS
  <2>1. /\ data = <<>> /\ sent = 0 /\ lost = {} /\ event.notified = <<>>
        /\ \A r \in ReceiverIds : delivered[r] = <<>>
    BY NewEventType DEF Init
  <2>2. Len(<<>>) = 0 /\ ToSet(<<>>) = {}
    BY EmptySeq DEF ToSet
  <2>3. InFlight(event) = {} /\ DistinctItems(event)
    BY <2>1, <2>2 DEF InFlight, DistinctItems
  <2>4. GotOf(delivered) = {} /\ GotOnce(delivered)
    BY <2>1, <2>2 DEF GotOf, GotOnce
  <2>5. Distinct(data) /\ ToSet(data) = {} /\ 1..sent = {}
    BY <2>1, <2>2 DEF Distinct
  <2> QED BY <2>1, <2>3, <2>4, <2>5, OnePlaceParts DEF Partition
<1>2. TypeOK /\ EveryItemInOnePlace /\ [Next]_vars => EveryItemInOnePlace'
  BY OnePlaceStep
<1> QED BY <1>1, <1>2, TypeCorrect, PTL DEF Spec

-----------------------------------------------------------------------------
(* The event of one receiver, whose recv() is not pending, asleep or woken. *)
Empty(e)     == e.notified = <<>> /\ e.waiting = <<>>
Asleep(e, o) == e.notified = <<>> /\ e.waiting = <<o>>
Woken(e, o)  == Len(e.notified) = 1 /\ e.notified[1].who = o /\ e.waiting = <<>>

(* How long the two parts of such events are. *)
LEMMA ShapeLengths ==
    ASSUME NEW e \in ItemEvent, NEW o \in ReceiverIds
    PROVE  /\ Empty(e) <=> Len(e.notified) = 0 /\ Len(e.waiting) = 0
           /\ Asleep(e, o) <=> Len(e.notified) = 0 /\ Len(e.waiting) = 1 /\ e.waiting[1] = o
           /\ Woken(e, o) <=> Len(e.notified) = 1 /\ e.notified[1].who = o /\ Len(e.waiting) = 0
           /\ Len(e.notified) = 0 => InFlight(e) = {}
           /\ Len(e.notified) \in Nat /\ Len(e.waiting) \in Nat
           /\ e \in EventOf(ReceiverIds, ItemTags)
<1>1. /\ e.notified \in Seq(NoteOf(ReceiverIds, ItemTags)) /\ e.waiting \in Seq(ReceiverIds)
      /\ e \in EventOf(ReceiverIds, ItemTags)
  BY DEF ItemEvent, EventOf
<1>2. /\ e.notified = <<>> <=> Len(e.notified) = 0
      /\ e.waiting = <<>> <=> Len(e.waiting) = 0
      /\ Len(e.notified) \in Nat /\ Len(e.waiting) \in Nat
  BY <1>1, EmptySeq, LenProperties
<1>3. e.waiting = <<o>> <=> Len(e.waiting) = 1 /\ e.waiting[1] = o
  <2> DEFINE s == <<o>>
  <2>1. s \in Seq(ReceiverIds) /\ Len(s) = 1 /\ s[1] = o
    OBVIOUS
  <2> HIDE DEF s
  <2>2. ASSUME Len(e.waiting) = 1, e.waiting[1] = o PROVE e.waiting = s
    <3>1. \A i \in 1..Len(e.waiting) : e.waiting[i] = s[i]
      BY <2>1, <2>2
    <3> QED BY <1>1, <2>1, <2>2, <3>1, SeqEqual
  <2>3. e.waiting = s => Len(e.waiting) = 1 /\ e.waiting[1] = o
    BY <2>1
  <2> QED BY <2>2, <2>3 DEF s
<1>4. Len(e.notified) = 0 => InFlight(e) = {}
  BY DEF InFlight
<1> QED BY <1>1, <1>2, <1>3, <1>4 DEF Empty, Asleep, Woken

(* A notification of one wakes the receiver if it sleeps, and else nobody. *)
LEMMA NotifyShape ==
    ASSUME NEW e \in ItemEvent, NEW o \in ReceiverIds, NEW tag \in ItemTags,
           NEW add \in BOOLEAN
    PROVE  /\ Empty(e) => Reach(e, 1, add) = 0
           /\ Woken(e, o) => Reach(e, 1, add) = 0
           /\ Asleep(e, o) => Reach(e, 1, add) = 1 /\ Woken(Notify(e, <<tag>>, add), o)
<1>1. /\ Len(e.notified) \in Nat /\ Len(e.waiting) \in Nat
      /\ Empty(e) <=> Len(e.notified) = 0 /\ Len(e.waiting) = 0
      /\ Asleep(e, o) <=> Len(e.notified) = 0 /\ Len(e.waiting) = 1 /\ e.waiting[1] = o
      /\ Woken(e, o) <=> Len(e.notified) = 1 /\ e.notified[1].who = o /\ Len(e.waiting) = 0
      /\ e \in EventOf(ReceiverIds, ItemTags)
  BY ShapeLengths
<1>2. /\ Empty(e) \/ Woken(e, o) => Reach(e, 1, add) = 0
      /\ Asleep(e, o) => Reach(e, 1, add) = 1
  BY <1>1 DEF Reach
<1>3. ASSUME Asleep(e, o) PROVE Woken(Notify(e, <<tag>>, add), o)
  <2> DEFINE tags == <<tag>>
             f == Notify(e, tags, add)
             k == Reach(e, Len(tags), add)
  <2>1. tags \in Seq(ItemTags)
    OBVIOUS
  <2>2. Len(tags) = 1
    OBVIOUS
  <2>3. k = 1
    BY <1>2, <1>3, <2>2
  <2> HIDE DEF tags
  <2>4. f \in EventOf(ReceiverIds, ItemTags)
    BY <1>1, <2>1, NotifyType
  <2>5. /\ Len(f.notified) = Len(e.notified) + k
        /\ Len(f.waiting) = Len(e.waiting) - k
    BY <1>1, <2>1, NotifyType
  <2>6. \A i \in 1..k : f.notified[Len(e.notified) + i]
                          = [who |-> e.waiting[i], tag |-> tags[i], additional |-> add]
    BY <1>1, <2>1, NotifyNotes
  <2> HIDE DEF f, k
  <2>7. f.notified[1] = [who |-> e.waiting[1], tag |-> tags[1], additional |-> add]
    BY <1>1, <1>3, <2>3, <2>6
  <2>8. Len(f.notified) = 1 /\ Len(f.waiting) = 0 /\ f.notified[1].who = o
    BY <1>1, <1>3, <2>3, <2>5, <2>7
  <2>9. f \in ItemEvent
    BY <2>4 DEF ItemEvent
  <2>10. Woken(f, o)
    BY <2>8, <2>9, ShapeLengths
  <2> QED BY <2>10 DEF f, tags
<1> QED BY <1>2, <1>3

(* The close wakes the receiver if it sleeps. *)
LEMMA CloseShape ==
    ASSUME EventTyped, Close, NEW o \in ReceiverIds
    PROVE  /\ Empty(event) => Empty(event')
           /\ Asleep(event, o) \/ Woken(event, o) => Woken(event', o)
<1> DEFINE e == event
           f == event'
           n == Len(e.notified)
           m == n + Len(e.waiting)
           tags == [i \in 1..m |-> None]
           add == FALSE
           k == Reach(e, Len(tags), add)
<1>1. /\ n \in Nat /\ Len(e.waiting) \in Nat
      /\ Empty(e) <=> n = 0 /\ Len(e.waiting) = 0
      /\ Asleep(e, o) <=> n = 0 /\ Len(e.waiting) = 1 /\ e.waiting[1] = o
      /\ Woken(e, o) <=> n = 1 /\ e.notified[1].who = o /\ Len(e.waiting) = 0
      /\ e \in EventOf(ReceiverIds, ItemTags)
  BY ShapeLengths DEF EventTyped
<1>2. f = Notify(e, tags, add) /\ f \in ItemEvent /\ f.waiting = <<>>
  BY CloseWakes DEF Close, WakeAll, EventTyped
<1>3. m \in Nat /\ m = n + Len(e.waiting)
  <2> HIDE DEF n
  <2> QED BY <1>1
<1>4. tags \in Seq(ItemTags) /\ Len(tags) = m /\ add \in BOOLEAN /\ ~add
  <2> HIDE DEF m
  <2>1. tags \in [1..m -> ItemTags]
    BY DEF ItemTags
  <2>2. tags \in Seq(ItemTags)
    BY <1>3, <2>1, SeqDef
  <2>3. Len(tags) = m
    BY <1>3, <2>1, <2>2, LenProperties
  <2> HIDE DEF tags
  <2> QED BY <2>2, <2>3
<1> HIDE DEF m, tags, add
<1>5. k = Len(e.waiting)
  <2>1. k = LET wanted == IF add THEN Len(tags) ELSE Len(tags) - n
            IN  IF wanted <= 0 THEN 0
                ELSE IF wanted <= Len(e.waiting) THEN wanted ELSE Len(e.waiting)
    BY DEF Reach
  <2> HIDE DEF k, n, e
  <2> QED BY <1>1, <1>3, <1>4, <2>1
<1> HIDE DEF e
<1>6. Len(f.notified) = n + k
  BY <1>1, <1>2, <1>4, NotifyType
<1>7. /\ \A i \in 1..n : f.notified[i] = e.notified[i]
      /\ \A i \in 1..k : f.notified[n + i] = [who |-> e.waiting[i], tag |-> tags[i],
                                              additional |-> add]
  <2>1. LET g == Notify(e, tags, add)
        IN  /\ \A i \in 1..n : g.notified[i] = e.notified[i]
            /\ \A i \in 1..k : g.notified[n + i] = [who |-> e.waiting[i], tag |-> tags[i],
                                                    additional |-> add]
    BY <1>1, <1>4, NotifyNotes
  <2> HIDE DEF k, n
  <2> QED BY <1>2, <2>1
<1> HIDE DEF f, k, n
<1>8. /\ Empty(f) <=> Len(f.notified) = 0 /\ Len(f.waiting) = 0
      /\ Woken(f, o) <=> Len(f.notified) = 1 /\ f.notified[1].who = o /\ Len(f.waiting) = 0
      /\ Len(f.waiting) = 0
  BY <1>2, ShapeLengths, EmptySeq
<1>9. Empty(e) => Empty(f)
  BY <1>1, <1>5, <1>6, <1>8
<1>10. Woken(e, o) => Woken(f, o)
  BY <1>1, <1>5, <1>6, <1>7, <1>8
<1>11. ASSUME Asleep(e, o) PROVE Woken(f, o)
  <2>1. f.notified[n + 1] = [who |-> e.waiting[1], tag |-> tags[1], additional |-> add]
    BY <1>1, <1>5, <1>7, <1>11
  <2>2. f.notified[1].who = o
    BY <1>1, <1>11, <2>1
  <2> QED BY <1>1, <1>5, <1>6, <1>8, <1>11, <2>2
<1> QED BY <1>9, <1>10, <1>11 DEF e, f

(* A recv() that resolves or is dropped leaves the event empty, and one that *)
(* goes to sleep is alone there.                                             *)
LEMMA RecvShape ==
    ASSUME NEW e \in ItemEvent, NEW o \in ReceiverIds
    PROVE  /\ Empty(e) => Asleep(Insert(e, o), o)
           /\ Asleep(e, o) => ~IsNotified(e, o) /\ Empty(Cancel(e, o))
           /\ Woken(e, o) => Empty(Take(e, o)) /\ Empty(Cancel(e, o))
<1>1. /\ Len(e.notified) \in Nat /\ Len(e.waiting) \in Nat
      /\ Empty(e) <=> Len(e.notified) = 0 /\ Len(e.waiting) = 0
      /\ Asleep(e, o) <=> Len(e.notified) = 0 /\ Len(e.waiting) = 1 /\ e.waiting[1] = o
      /\ Woken(e, o) <=> Len(e.notified) = 1 /\ e.notified[1].who = o /\ Len(e.waiting) = 0
      /\ e \in EventOf(ReceiverIds, ItemTags)
  BY ShapeLengths
<1>2. ASSUME Empty(e) PROVE Asleep(Insert(e, o), o)
  <2>1. Insert(e, o).notified = <<>> /\ Insert(e, o).waiting = Append(<<>>, o)
    BY <1>1, <1>2, InsertType DEF Empty
  <2> QED BY <2>1 DEF Asleep
<1>3. ASSUME Asleep(e, o) PROVE ~IsNotified(e, o) /\ Empty(Cancel(e, o))
  <2>1. ~IsNotified(e, o) /\ IsWaiting(e, o)
    BY <1>1, <1>3 DEF IsNotified, IsWaiting
  <2>2. /\ Leave(e, o) \in ItemEvent /\ Leave(e, o).notified = e.notified
        /\ Len(Leave(e, o).waiting) = Len(e.waiting) - 1
    BY <1>1, <2>1, LeaveType DEF ItemEvent
  <2>3. Cancel(e, o) = Leave(e, o)
    BY <2>1 DEF Cancel
  <2>4. Empty(Leave(e, o))
    <3> DEFINE g == Leave(e, o)
    <3>1. g \in ItemEvent /\ Len(g.notified) = 0 /\ Len(g.waiting) = 0
      BY <1>1, <1>3, <2>2
    <3> HIDE DEF g
    <3>2. Empty(g)
      BY <3>1, ShapeLengths
    <3> QED BY <3>2 DEF g
  <2> QED BY <2>1, <2>3, <2>4
<1>4. ASSUME Woken(e, o) PROVE Empty(Take(e, o)) /\ Empty(Cancel(e, o))
  <2> DEFINE f == Take(e, o)
             tag == Note(e, o).tag
             add == Note(e, o).additional
  <2>1. IsNotified(e, o)
    BY <1>1, <1>4 DEF IsNotified
  <2>2. f \in ItemEvent /\ f.waiting = e.waiting /\ Len(f.notified) = Len(e.notified) - 1
    BY <1>1, <2>1, TakeType DEF ItemEvent
  <2>3. Empty(f)
    <3> HIDE DEF f
    <3>1. Len(f.notified) = 0 /\ Len(f.waiting) = 0
      BY <1>1, <1>4, <2>2
    <3> QED BY <2>2, <3>1, ShapeLengths
  <2>4. tag \in ItemTags /\ add \in BOOLEAN
    <3>1. Note(e, o) \in NoteOf(ReceiverIds, ItemTags)
      BY <1>1, <2>1, NotifiedIndexProperties
    <3> QED BY <3>1 DEF NoteOf
  <2>5. Cancel(e, o) = Notify(f, <<tag>>, add)
    BY <2>1 DEF Cancel, Pass
  <2> HIDE DEF f, tag, add
  <2>6. Cancel(e, o) = f
    BY <2>2, <2>3, <2>4, <2>5, NotifyShape, NotifyItem
  <2> QED BY <2>3, <2>6 DEF f
<1> QED BY <1>2, <1>3, <1>4

(* Delivered items d, items in flight f and queued items q come in the order *)
(* in which they were sent.                                                  *)
Ordered(s) == \A i, j \in 1..Len(s) : i < j => s[i] < s[j]
Before(A, B) == \A x \in A, y \in B : x < y
InOrder(d, f, q) ==
    /\ Ordered(d) /\ Ordered(q)
    /\ Before(ToSet(d), f) /\ Before(ToSet(d), ToSet(q)) /\ Before(f, ToSet(q))

(* A later item can be put at the end. *)
LEMMA AppendOrdered ==
    ASSUME NEW s \in Seq(Items), NEW x \in Items, Ordered(s), Before(ToSet(s), {x})
    PROVE  Ordered(Append(s, x)) /\ ToSet(Append(s, x)) = ToSet(s) \cup {x}
<1> DEFINE t == Append(s, x)
<1>1. /\ t \in Seq(Items) /\ Len(t) = Len(s) + 1 /\ Len(s) \in Nat
      /\ \A i \in 1..Len(s) : t[i] = s[i]
      /\ t[Len(s) + 1] = x
  BY AppendProperties, LenProperties
<1>2. DOMAIN s = 1..Len(s)
  BY LenProperties
<1>3. ToSet(t) = ToSet(s) \cup {x}
  BY AppendElement
<1> HIDE DEF t
<1>4. \A i \in 1..Len(s) : s[i] < x
  BY <1>2 DEF ToSet, Before
<1>5. Ordered(t)
  BY <1>1, <1>4 DEF Ordered
<1> QED BY <1>3, <1>5 DEF t

(* The head of an ordered queue comes before its tail. *)
LEMMA TailOrdered ==
    ASSUME NEW s \in Seq(Items), s # <<>>, Ordered(s)
    PROVE  /\ Ordered(Tail(s)) /\ Before({Head(s)}, ToSet(Tail(s)))
           /\ Head(s) \in ToSet(s) /\ Head(s) \in Items
           /\ ToSet(Tail(s)) \subseteq ToSet(s)
<1> DEFINE t == Tail(s)
           x == Head(s)
<1>1. /\ t \in Seq(Items) /\ Len(t) = Len(s) - 1 /\ Len(s) \in Nat /\ Len(s) >= 1
      /\ \A i \in 1..Len(t) : t[i] = s[i + 1]
      /\ x = s[1] /\ x \in Items
  <2>1. Head(s) = s[1]
    OBVIOUS
  <2> QED BY <2>1, HeadTailProperties, LenProperties, EmptySeq
<1>2. DOMAIN s = 1..Len(s) /\ DOMAIN t = 1..Len(t)
  BY <1>1, LenProperties
<1> HIDE DEF t, x
<1>3. x \in ToSet(s)
  BY <1>1, <1>2 DEF ToSet
<1>4. \A i \in 1..Len(t) : i + 1 \in 1..Len(s) /\ t[i] = s[i + 1]
  BY <1>1
<1>5. Ordered(t)
  <2> SUFFICES ASSUME NEW i \in 1..Len(t), NEW j \in 1..Len(t), i < j
               PROVE  t[i] < t[j]
    BY DEF Ordered
  <2>1. i + 1 < j + 1
    BY <1>1
  <2> QED BY <1>4, <2>1 DEF Ordered
<1>6. ASSUME NEW y \in ToSet(t) PROVE y \in ToSet(s) /\ x < y
  <2>1. PICK i \in 1..Len(t) : y = t[i]
    BY <1>2, <1>6 DEF ToSet
  <2>2. 1 \in 1..Len(s) /\ 1 < i + 1
    BY <1>1, <2>1
  <2> QED BY <1>1, <1>2, <1>4, <2>1, <2>2 DEF ToSet, Ordered
<1> QED BY <1>1, <1>3, <1>5, <1>6 DEF t, x, Before

(* The order is kept when the next item is delivered: from the queue, if     *)
(* nothing is in flight, or out of flight.                                   *)
LEMMA DeliverInOrder ==
    ASSUME NEW d \in Seq(Items), NEW q \in Seq(Items), NEW x \in Items
    PROVE  /\ InOrder(d, {}, q) /\ q # <<>> /\ x = Head(q)
                => InOrder(Append(d, x), {}, Tail(q))
           /\ InOrder(d, {x}, q) => InOrder(Append(d, x), {}, q)
<1>1. ASSUME InOrder(d, {}, q), q # <<>>, x = Head(q)
      PROVE  InOrder(Append(d, x), {}, Tail(q))
  <2>1. /\ Ordered(Tail(q)) /\ Before({x}, ToSet(Tail(q)))
        /\ x \in ToSet(q) /\ ToSet(Tail(q)) \subseteq ToSet(q)
    BY <1>1, TailOrdered DEF InOrder
  <2>2. Ordered(d) /\ Before(ToSet(d), {x})
    BY <1>1, <2>1 DEF InOrder, Before
  <2>3. Ordered(Append(d, x)) /\ ToSet(Append(d, x)) = ToSet(d) \cup {x}
    BY <2>2, AppendOrdered
  <2> QED BY <1>1, <2>1, <2>3 DEF InOrder, Before
<1>2. ASSUME InOrder(d, {x}, q) PROVE InOrder(Append(d, x), {}, q)
  <2>1. Ordered(Append(d, x)) /\ ToSet(Append(d, x)) = ToSet(d) \cup {x}
    BY <1>2, AppendOrdered DEF InOrder
  <2> QED BY <1>2, <2>1 DEF InOrder, Before
<1> QED BY <1>1, <1>2

(* The one receiver o of a channel: the event has at most its listener, none *)
(* between two recv() calls of it; the listener sleeps only while the queue  *)
(* is empty; and the items are in order.                                     *)
OneReceiver(o) ==
    /\ rx \subseteq {o}
    /\ \A r \in ReceiverIds \ {o} : pc[r] = "idle" /\ delivered[r] = <<>>
    /\ \/ pc[o] = "idle" /\ Empty(event)
       \/ pc[o] = "receiving" /\ Woken(event, o)
       \/ pc[o] = "receiving" /\ Asleep(event, o) /\ data = <<>>
    /\ InOrder(delivered[o], InFlight(event), data)

SoloInv == solo => \E o \in ReceiverIds : OneReceiver(o)

(* Whatever the one receiver and the senders do, it stays so. *)
LEMMA SoloStep ==
    ASSUME TypeOK, EveryItemInOnePlace, SoloInv, [Next]_vars, solo'
    PROVE  \E o \in ReceiverIds :
              /\ rx' \subseteq {o}
              /\ \A r \in ReceiverIds \ {o} : pc'[r] = "idle" /\ delivered'[r] = <<>>
              /\ \/ pc'[o] = "idle" /\ Empty(event')
                 \/ pc'[o] = "receiving" /\ Woken(event', o)
                 \/ pc'[o] = "receiving" /\ Asleep(event', o) /\ data' = <<>>
              /\ InOrder(delivered'[o], InFlight(event'), data')
<1> DEFINE F == InFlight(event)
<1>1. solo
  BY DEF Next, vars, history, Send, DropSender, CloneSender, DropReceiver, TryRecv,
         RecvFirst, RecvAgain, RecvDrop, CloneReceiver, RecvLoop
<1>2. PICK o \in ReceiverIds : OneReceiver(o)
  BY <1>1 DEF SoloInv
<1>3. /\ rx \subseteq {o}
      /\ \A r \in ReceiverIds \ {o} : pc[r] = "idle" /\ delivered[r] = <<>>
      /\ \/ pc[o] = "idle" /\ Empty(event)
         \/ pc[o] = "receiving" /\ Woken(event, o)
         \/ pc[o] = "receiving" /\ Asleep(event, o) /\ data = <<>>
      /\ InOrder(delivered[o], F, data)
  BY <1>2 DEF OneReceiver
<1>4. /\ data \in Seq(Items) /\ event \in ItemEvent /\ EventTyped
      /\ event \in EventOf(ReceiverIds, ItemTags)
      /\ delivered \in [ReceiverIds -> Seq(Items)] /\ delivered[o] \in Seq(Items)
      /\ pc \in [ReceiverIds -> {"idle", "receiving"}]
      /\ sent \in Nat /\ DistinctItems(event)
  <2>1. sent \in 0..MaxItems
    BY DEF TypeOK
  <2>2. sent \in Nat
    BY <2>1, MaxItemsAssumption
  <2>3. delivered \in [ReceiverIds -> Seq(Items)]
    BY DEF TypeOK
  <2>4. EventTyped
    BY DEF TypeOK, EventTyped, ItemEvent, ItemTags, NoneAdditional
  <2> QED BY <2>2, <2>3, <2>4, OnePlaceParts DEF TypeOK, EventTyped, ItemEvent
<1> DEFINE Goal == /\ rx' \subseteq {o}
                   /\ \A r \in ReceiverIds \ {o} : pc'[r] = "idle" /\ delivered'[r] = <<>>
                   /\ \/ pc'[o] = "idle" /\ Empty(event')
                      \/ pc'[o] = "receiving" /\ Woken(event', o)
                      \/ pc'[o] = "receiving" /\ Asleep(event', o) /\ data' = <<>>
                   /\ InOrder(delivered'[o], InFlight(event'), data')
<1>5. SUFFICES Goal
  OBVIOUS
<1>6. ASSUME rx' \subseteq rx, UNCHANGED <<data, pc, delivered>>, Close \/ UNCHANGED event
      PROVE  Goal
  <2>1. CASE UNCHANGED event
    BY <1>3, <1>6, <2>1
  <2>2. CASE Close
    <3>1. /\ Empty(event) => Empty(event')
          /\ Asleep(event, o) \/ Woken(event, o) => Woken(event', o)
          /\ InFlight(event') = F
      BY <1>4, <2>2, CloseShape, CloseItems
    <3> QED BY <1>3, <1>6, <3>1
  <2> QED BY <1>6, <2>1, <2>2
<1>7. ASSUME NEW s \in SenderIds, Send(s) PROVE Goal
  <2> DEFINE x == sent + 1
             add == FALSE
             k == Reach(event, 1, add)
  <2>1. /\ x \in Items /\ x \in ItemTags /\ x # None /\ add \in BOOLEAN
        /\ \A y \in 1..sent : y < x
    BY <1>4, <1>7, MaxItemsAssumption DEF Send, Items, ItemTags, None
  <2>2. /\ event' = Notify(event, <<x>>, add)
        /\ data' = IF k = 1 THEN data ELSE Append(data, x)
        /\ UNCHANGED <<rx, pc, delivered>>
    BY <1>7 DEF Send, AfterSend, handles
  <2>3. ToSet(data) \subseteq 1..sent /\ F \subseteq 1..sent /\ ToSet(delivered[o]) \subseteq 1..sent
    BY OnePlaceParts DEF Partition, GotOf
  <2> HIDE DEF x, add
  <2>4. Before(ToSet(data), {x}) /\ Before(F, {x}) /\ Before(ToSet(delivered[o]), {x})
    BY <2>1, <2>3 DEF Before
  <2>5. /\ k \in {0, 1}
        /\ k = 0 => event' = event
        /\ k = 1 => InFlight(event') = F \cup ({x} \ {None})
    BY <1>4, <2>1, <2>2, NotifyItem
  <2>6. /\ Empty(event) \/ Woken(event, o) => k = 0
        /\ Asleep(event, o) => k = 1 /\ Woken(event', o)
    BY <1>4, <2>1, <2>2, NotifyShape
  <2>7. Asleep(event, o) => F = {}
    BY <1>4, ShapeLengths
  <2> HIDE DEF k
  <2>8. CASE Asleep(event, o)
    <3>1. data' = data /\ InFlight(event') = {x} /\ pc[o] = "receiving" /\ data = <<>>
      <4>1. ~Empty(event) /\ ~Woken(event, o)
        BY <2>6, <2>8
      <4> QED BY <1>3, <2>1, <2>2, <2>5, <2>6, <2>7, <2>8, <4>1
    <3>2. InOrder(delivered'[o], InFlight(event'), data')
      <4>1. ToSet(data) = {}
        BY <3>1 DEF ToSet
      <4> QED BY <1>3, <2>2, <2>4, <3>1, <4>1 DEF InOrder, Before
    <3> QED BY <1>3, <2>2, <2>6, <2>8, <3>1, <3>2
  <2>9. CASE ~Asleep(event, o)
    <3>1. k = 0 /\ event' = event /\ data' = Append(data, x)
      BY <1>3, <2>2, <2>5, <2>6, <2>9
    <3>2. Ordered(data') /\ ToSet(data') = ToSet(data) \cup {x}
      BY <1>3, <1>4, <2>1, <2>4, <3>1, AppendOrdered DEF InOrder
    <3>3. InOrder(delivered'[o], InFlight(event'), data')
      BY <1>3, <2>2, <2>4, <3>1, <3>2 DEF InOrder, Before
    <3> QED BY <1>3, <2>2, <2>9, <3>1, <3>3
  <2> QED BY <2>8, <2>9
<1>8. ASSUME PopFront(o) \/ ReportClosed(o), UNCHANGED rx,
             pc' = [pc EXCEPT ![o] = "idle"], event' \in ItemEvent, Empty(event')
      PROVE  Goal
  <2>1. InFlight(event') = {}
    BY <1>8, ShapeLengths
  <2>2. InOrder(delivered[o], {}, data)
    BY <1>3 DEF InOrder, Before
  <2>3. InOrder(delivered'[o], {}, data')
    <3>1. CASE PopFront(o)
      <4> DEFINE x == Head(data)
      <4>1. /\ data # <<>> /\ data' = Tail(data)
            /\ delivered'[o] = Append(delivered[o], x)
        BY <1>4, <3>1 DEF PopFront, Deliver
      <4>2. x \in Items
        BY <1>4, <4>1
      <4> HIDE DEF x
      <4>3. x = Head(data)
        BY DEF x
      <4> QED BY <1>4, <2>2, <4>1, <4>2, <4>3, DeliverInOrder
    <3>2. CASE ReportClosed(o)
      BY <2>2, <3>2 DEF ReportClosed
    <3> QED BY <1>8, <3>1, <3>2
  <2>4. \A r \in ReceiverIds \ {o} : delivered'[r] = delivered[r]
    BY <1>4, <1>8 DEF PopFront, Deliver, ReportClosed
  <2> QED BY <1>3, <1>4, <1>8, <2>1, <2>3, <2>4
<1>9. ASSUME NEW e \in ItemEvent, Empty(e), RecvLoop(o, e), UNCHANGED rx PROVE Goal
  <2>1. CASE /\ PopFront(o) \/ ReportClosed(o)
             /\ event' = e /\ pc' = [pc EXCEPT ![o] = "idle"]
    BY <1>8, <1>9, <2>1
  <2>2. CASE /\ data = <<>> /\ event' = Insert(e, o)
             /\ pc' = [pc EXCEPT ![o] = "receiving"] /\ UNCHANGED <<data, delivered>>
    <3>1. event' \in ItemEvent /\ Asleep(event', o)
      BY <1>9, <2>2, RecvShape, InsertType DEF ItemEvent
    <3>2. InFlight(event') = {}
      BY <3>1, ShapeLengths
    <3>3. InOrder(delivered'[o], InFlight(event'), data')
      BY <1>3, <2>2, <3>2 DEF InOrder, Before
    <3> QED BY <1>3, <1>4, <1>9, <2>2, <3>1, <3>3
  <2> QED BY <1>9, <2>1, <2>2 DEF RecvLoop, history
<1>10. ASSUME NEW r \in ReceiverIds, TryRecv(r) PROVE Goal
  <2>1. r = o /\ pc[o] = "idle" /\ Empty(event)
    BY <1>3, <1>10 DEF TryRecv
  <2>2. /\ PopFront(o) \/ ReportClosed(o)
        /\ UNCHANGED <<rx, pc, event>>
    BY <1>10, <2>1 DEF TryRecv, handles
  <2>3. pc' = [pc EXCEPT ![o] = "idle"]
    BY <1>4, <2>1, <2>2
  <2> QED BY <1>4, <1>8, <2>1, <2>2, <2>3
<1>11. ASSUME NEW r \in ReceiverIds, RecvFirst(r) PROVE Goal
  <2>1. r = o /\ Empty(event)
    BY <1>3, <1>11 DEF RecvFirst
  <2> QED BY <1>4, <1>9, <1>11, <2>1 DEF RecvFirst, handles
<1>12. ASSUME NEW r \in ReceiverIds, RecvAgain(r) PROVE Goal
  <2> DEFINE x == Note(event, o).tag
             e == Take(event, o)
  <2>1. r = o /\ Woken(event, o) /\ IsNotified(event, o)
    <3>1. r = o /\ pc[o] = "receiving" /\ IsNotified(event, o)
      BY <1>3, <1>12 DEF RecvAgain
    <3>2. ~Asleep(event, o)
      BY <1>4, <3>1, RecvShape
    <3> QED BY <1>3, <3>1, <3>2
  <2>2. Empty(e)
    BY <1>4, <2>1, RecvShape
  <2>3. /\ e \in ItemEvent /\ InFlight(e) = F \ {x}
        /\ x # None => x \in F
    BY <1>4, <2>1, TakeItem
  <2>4. CASE x = None
    BY <1>9, <1>12, <2>1, <2>2, <2>3, <2>4 DEF RecvAgain, handles
  <2>5. CASE x # None
    <3>1. /\ event' = e /\ data' = data /\ UNCHANGED rx
          /\ delivered' = [delivered EXCEPT ![o] = Append(@, x)]
          /\ pc' = [pc EXCEPT ![o] = "idle"]
      BY <1>12, <2>1, <2>5 DEF RecvAgain, Deliver, handles
    <3>2. x \in Items
      BY <1>4, <2>3, <2>5, InFlightItems
    <3> HIDE DEF x, e
    <3>3. InFlight(e) = {}
      BY <2>2, <2>3, ShapeLengths
    <3>4. F = {x}
      BY <2>3, <2>5, <3>3
    <3>5. delivered'[o] = Append(delivered[o], x)
          /\ \A q \in ReceiverIds \ {o} : delivered'[q] = delivered[q] /\ pc'[q] = pc[q]
      BY <1>4, <3>1
    <3>6. InOrder(delivered'[o], {}, data')
      BY <1>3, <1>4, <3>1, <3>2, <3>4, <3>5, DeliverInOrder
    <3> QED BY <1>3, <1>4, <2>2, <3>1, <3>3, <3>5, <3>6
  <2> QED BY <2>4, <2>5
<1>13. ASSUME NEW r \in ReceiverIds, RecvDrop(r) PROVE Goal
  <2>1. r = o /\ (Woken(event, o) \/ Asleep(event, o))
    BY <1>3, <1>13 DEF RecvDrop
  <2>2. /\ event' = Cancel(event, o) /\ pc' = [pc EXCEPT ![o] = "idle"]
        /\ UNCHANGED <<data, rx, delivered>>
    BY <1>13, <2>1 DEF RecvDrop, handles
  <2>3. Empty(event')
    BY <1>4, <2>1, <2>2, RecvShape
  <2>4. InFlight(event') = {}
    <3>1. InFlight(event') = {event'.notified[i].tag : i \in 1..0} \ {None}
      BY <2>3, EmptySeq DEF Empty, InFlight
    <3> QED BY <3>1
  <2>5. InOrder(delivered'[o], InFlight(event'), data')
    BY <1>3, <2>2, <2>4 DEF InOrder, Before
  <2> QED BY <1>3, <1>4, <2>2, <2>3, <2>5
<1>14. ASSUME NEW s \in SenderIds, DropSender(s) PROVE Goal
  BY <1>6, <1>14 DEF DropSender, history
<1>15. ASSUME NEW r \in ReceiverIds, DropReceiver(r) PROVE Goal
  BY <1>6, <1>15 DEF DropReceiver, history
<1>16. CASE UNCHANGED vars
  BY <1>6, <1>16 DEF vars, handles, history
<1>17. ASSUME NEW s \in SenderIds, NEW new \in SenderIds, CloneSender(s, new) PROVE Goal
  BY <1>6, <1>17 DEF CloneSender, history
<1>18. ASSUME NEW r \in ReceiverIds, NEW new \in ReceiverIds, CloneReceiver(r, new)
       PROVE  Goal
  BY <1>18 DEF CloneReceiver
<1> HIDE DEF Goal
<1> QED BY <1>7, <1>10, <1>11, <1>12, <1>13, <1>14, <1>15, <1>16, <1>17, <1>18 DEF Next

(***************************************************************************)
(* A channel with one receiver, which is asked for one item at a time,     *)
(* never lets it sleep beside a queued item, and hands it the items in the *)
(* order in which they were sent: for any number of senders and items, and *)
(* whatever recv() futures are dropped.                                    *)
(***************************************************************************)
THEOREM OneReceiverInOrder == Spec => []OneReceiverIsServed
<1>1. Init => SoloInv
  <2> SUFFICES ASSUME Init PROVE SoloInv
    OBVIOUS
  <2>1. PICK o \in ReceiverIds : rx = {o}
    BY DEF Init
  <2>2. /\ event.notified = <<>> /\ event.waiting = <<>>
        /\ data = <<>> /\ delivered[o] = <<>>
        /\ \A r \in ReceiverIds : pc[r] = "idle" /\ delivered[r] = <<>>
    BY NewEventType DEF Init
  <2>3. Len(<<>>) = 0 /\ ToSet(<<>>) = {}
    BY EmptySeq DEF ToSet
  <2>4. InOrder(delivered[o], InFlight(event), data)
    BY <2>2, <2>3 DEF InOrder, Ordered, Before
  <2> QED BY <2>1, <2>2, <2>4 DEF SoloInv, OneReceiver, Empty
<1>2. TypeOK /\ EveryItemInOnePlace /\ SoloInv /\ [Next]_vars => SoloInv'
  BY SoloStep DEF SoloInv, OneReceiver
<1>3. TypeOK /\ SoloInv => OneReceiverIsServed
  <2> SUFFICES ASSUME TypeOK, SoloInv, solo PROVE OneReceiverIsServed
    BY DEF OneReceiverIsServed
  <2>1. PICK o \in ReceiverIds : OneReceiver(o)
    BY DEF SoloInv
  <2>2. NoStrandedItem
    BY <2>1, ShapeLengths DEF OneReceiver, NoStrandedItem, Empty, Asleep, Woken, TypeOK,
                              ItemEvent, ItemTags
  <2>3. ASSUME NEW r \in ReceiverIds PROVE Ordered(delivered[r])
    <3>1. CASE r = o
      BY <2>1, <3>1 DEF OneReceiver, InOrder
    <3>2. CASE r # o
      <4>1. Len(delivered[r]) = 0
        BY <2>1, <3>2, EmptySeq DEF OneReceiver
      <4> QED BY <4>1 DEF Ordered
    <3> QED BY <3>1, <3>2
  <2> QED BY <2>2, <2>3 DEF OneReceiverIsServed, Ordered
<1> QED BY <1>1, <1>2, <1>3, TypeCorrect, NoItemTwiceOrGone, PTL DEF Spec

-----------------------------------------------------------------------------
(* A pending recv() borrows its receiver, which is alive. *)
PendingAreAlive == \A r \in ReceiverIds : pc[r] = "receiving" => r \in rx

LEMMA PendingInvariant == Spec => []PendingAreAlive
<1>1. Init => PendingAreAlive
  BY DEF Init, PendingAreAlive
<1>2. TypeOK /\ PendingAreAlive /\ [Next]_vars => PendingAreAlive'
  <2> SUFFICES ASSUME TypeOK, PendingAreAlive, [Next]_vars PROVE PendingAreAlive'
    OBVIOUS
  <2>1. pc \in [ReceiverIds -> {"idle", "receiving"}]
    BY DEF TypeOK
  <2>2. ASSUME NEW r \in ReceiverIds, NEW e, RecvLoop(r, e), r \in rx, UNCHANGED rx
        PROVE  PendingAreAlive'
    BY <2>1, <2>2 DEF RecvLoop, PendingAreAlive
  <2>3. ASSUME NEW r \in ReceiverIds, RecvAgain(r) PROVE PendingAreAlive'
    <3>1. r \in rx /\ UNCHANGED rx
      BY <2>3 DEF RecvAgain, PendingAreAlive, handles
    <3>2. \/ RecvLoop(r, Take(event, r))
          \/ pc' = [pc EXCEPT ![r] = "idle"]
      BY <2>3 DEF RecvAgain
    <3> QED BY <2>1, <2>2, <3>1, <3>2 DEF PendingAreAlive
  <2>4. ASSUME NEW r \in ReceiverIds, RecvFirst(r) PROVE PendingAreAlive'
    BY <2>2, <2>4 DEF RecvFirst, handles
  <2>5. ASSUME NEW r \in ReceiverIds, RecvDrop(r) PROVE PendingAreAlive'
    BY <2>1, <2>5 DEF RecvDrop, PendingAreAlive, handles
  <2> QED BY <2>3, <2>4, <2>5
          DEF Next, Send, DropSender, DropReceiver, CloneSender, CloneReceiver,
              TryRecv, PendingAreAlive, handles, vars
<1> QED BY <1>1, <1>2, TypeCorrect, PTL DEF Spec

(* A step of the channel is a step of ItemFlow, or changes nothing there. *)
LEMMA FlowStep ==
    ASSUME TypeOK, HandlesInv, PendingAreAlive, EveryItemInOnePlace, [Next]_vars
    PROVE  [Flow!Next]_Flow!vars
<1> DEFINE Q == ToSet(data)
           F == InFlight(event)
<1>1. /\ Partition(sent, Q, F, GotOf(delivered), lost)
      /\ Distinct(data) /\ DistinctItems(event)
  BY OnePlaceParts
<1>2. /\ data \in Seq(Items) /\ event \in ItemEvent
      /\ sent \in Nat
      /\ closed <=> tx = {} \/ rx = {}
  <2>1. sent \in 0..MaxItems
    BY DEF TypeOK
  <2>2. sent \in Nat
    BY <2>1, MaxItemsAssumption
  <2> QED BY <2>2 DEF TypeOK, ItemEvent, ItemTags, HandlesInv, ClosedByLastHandle
<1>3. ASSUME UNCHANGED <<tx, rx, sent, data, delivered, lost, told>>, InFlight(event') = F
      PROVE  UNCHANGED Flow!vars
  BY <1>3 DEF Flow!vars, Flow!items
<1>4. ASSUME NEW s \in SenderIds, Send(s) PROVE Flow!Send
  <2> DEFINE x == sent + 1
             add == FALSE
             k == Reach(event, 1, add)
  <2>1. x \in Items /\ x \in ItemTags /\ x # None /\ add \in BOOLEAN
    BY <1>2, <1>4, MaxItemsAssumption DEF Send, Items, ItemTags, None
  <2>2. /\ tx # {} /\ rx # {} /\ sent < MaxItems /\ sent' = x
        /\ event' = Notify(event, <<x>>, add)
        /\ data' = IF k = 1 THEN data ELSE Append(data, x)
        /\ UNCHANGED <<tx, rx, delivered, lost, told>>
    BY <1>2, <1>4 DEF Send, AfterSend, handles
  <2> HIDE DEF x, add
  <2>3. /\ k \in {0, 1}
        /\ k = 0 => event' = event
        /\ k = 1 => InFlight(event') = F \cup {x}
    BY <1>2, <2>1, <2>2, NotifyItem
  <2> HIDE DEF k
  <2>4. k = 0 => ToSet(data') = Q \cup {x}
    BY <1>2, <2>1, <2>2, AppendElement
  <2>5. \/ ToSet(data') = Q \cup {x} /\ InFlight(event') = F
        \/ InFlight(event') = F \cup {x} /\ ToSet(data') = Q
    BY <2>2, <2>3, <2>4
  <2> QED BY <2>2, <2>5 DEF Flow!Send, x
<1>5. ASSUME NEW r \in ReceiverIds, PopFront(r), r \in rx, UNCHANGED <<tx, rx>>,
             InFlight(event') = F
      PROVE  Flow!Receive(r)
  <2> DEFINE x == Head(data)
  <2>1. /\ x \in Q /\ ToSet(data') = Q \ {x}
        /\ delivered' = [delivered EXCEPT ![r] = Append(@, x)]
        /\ UNCHANGED <<lost, told, sent>>
    BY <1>1, <1>2, <1>5, TailElements DEF PopFront, Deliver
  <2> HIDE DEF x
  <2>2. x \in Q \cup F /\ F = F \ {x}
    BY <1>1, <2>1 DEF Partition
  <2> QED BY <1>5, <2>1, <2>2 DEF Flow!Receive
<1>6. ASSUME NEW r \in ReceiverIds, ReportClosed(r), r \in rx, UNCHANGED <<tx, rx>>,
             InFlight(event') = F
      PROVE  Flow!ReportClosed(r)
  <2>1. Q = {}
    BY <1>6, EmptySeq DEF ReportClosed, ToSet
  <2>2. /\ tx = {} /\ told' = told \cup {r}
        /\ UNCHANGED <<data, sent, delivered, lost>>
    BY <1>2, <1>6 DEF ReportClosed
  <2>3. UNCHANGED <<tx, rx, sent, Flow!items>>
    BY <1>6, <2>2 DEF Flow!items
  <2> QED BY <1>6, <2>1, <2>2, <2>3 DEF Flow!ReportClosed
<1>7. ASSUME NEW r \in ReceiverIds, NEW e \in ItemEvent, RecvLoop(r, e),
             InFlight(e) = F, r \in rx, UNCHANGED <<tx, rx>>
      PROVE  [Flow!Next]_Flow!vars
  <2>1. InFlight(Insert(e, r)) = F
    <3>1. Insert(e, r).notified = e.notified
      BY InsertType DEF ItemEvent
    <3> QED BY <1>7, <3>1 DEF InFlight
  <2>2. \/ (PopFront(r) \/ ReportClosed(r)) /\ event' = e
        \/ event' = Insert(e, r) /\ UNCHANGED <<sent, data, delivered, lost, told>>
    BY <1>7 DEF RecvLoop, history
  <2> QED BY <1>3, <1>5, <1>6, <1>7, <2>1, <2>2 DEF Flow!Next
<1>8. ASSUME NEW r \in ReceiverIds, RecvAgain(r) PROVE [Flow!Next]_Flow!vars
  <2> DEFINE x == Note(event, r).tag
             e == Take(event, r)
  <2>1. /\ e \in ItemEvent /\ InFlight(e) = F \ {x}
        /\ x # None => x \in F
    BY <1>1, <1>2, <1>8, TakeItem DEF RecvAgain
  <2>2. r \in rx /\ UNCHANGED <<tx, rx>>
    BY <1>8 DEF RecvAgain, PendingAreAlive, handles
  <2>3. CASE x = None
    <3>1. InFlight(e) = F
      BY <2>1, <2>3 DEF InFlight
    <3> QED BY <1>7, <1>8, <2>1, <2>2, <2>3, <3>1 DEF RecvAgain
  <2>4. CASE x # None
    <3>1. /\ event' = e /\ data' = data /\ UNCHANGED <<lost, told, sent>>
          /\ delivered' = [delivered EXCEPT ![r] = Append(@, x)]
      BY <1>8, <2>4 DEF RecvAgain, Deliver
    <3> HIDE DEF x, e
    <3>2. x \in Q \cup F /\ Q = Q \ {x}
      BY <1>1, <2>1, <2>4 DEF Partition
    <3> QED BY <2>1, <2>2, <3>1, <3>2 DEF Flow!Next, Flow!Receive
  <2> QED BY <2>3, <2>4
<1>9. ASSUME NEW r \in ReceiverIds, RecvDrop(r) PROVE [Flow!Next]_Flow!vars
  <2> DEFINE x == Note(event, r).tag
  <2>1. InFlight(event') \subseteq F /\ F \ InFlight(event') \subseteq {x}
    BY <1>1, <1>2, <1>9, CancelItem DEF RecvDrop
  <2>2. /\ lost' = lost \cup (F \ InFlight(event'))
        /\ UNCHANGED <<tx, rx, sent, data, delivered, told>>
    BY <1>9 DEF RecvDrop, handles
  <2> HIDE DEF x
  <2>3. CASE InFlight(event') = F
    BY <1>3, <2>2, <2>3
  <2>4. CASE InFlight(event') # F
    <3>1. x \in F /\ InFlight(event') = F \ {x} /\ lost' = lost \cup {x}
      BY <2>1, <2>2, <2>4
    <3> QED BY <2>2, <3>1 DEF Flow!Next, Flow!Lose
  <2> QED BY <2>3, <2>4
<1>10. ASSUME NEW r \in ReceiverIds, RecvFirst(r) PROVE [Flow!Next]_Flow!vars
  BY <1>2, <1>7, <1>10 DEF RecvFirst, handles
<1>11. ASSUME NEW r \in ReceiverIds, TryRecv(r) PROVE [Flow!Next]_Flow!vars
  BY <1>5, <1>6, <1>11 DEF TryRecv, handles, Flow!Next
<1>12. ASSUME \/ \E s \in tx, new \in SenderIds :
                    tx' \in {tx \cup {new}, tx \ {s}} /\ UNCHANGED rx
              \/ \E r \in rx, new \in ReceiverIds :
                    rx' \in {rx \cup {new}, rx \ {r}} /\ UNCHANGED tx,
              Close \/ UNCHANGED event, UNCHANGED <<sent, data, delivered, lost, told>>
       PROVE  Flow!CloneOrDrop
  <2>1. InFlight(event') = F
    BY <1>2, <1>12, CloseItems
  <2> QED BY <1>12, <2>1 DEF Flow!CloneOrDrop, Flow!items
<1>13. ASSUME NEW s \in SenderIds, DropSender(s) PROVE Flow!CloneOrDrop
  BY <1>12, <1>13 DEF DropSender, history
<1>14. ASSUME NEW r \in ReceiverIds, DropReceiver(r) PROVE Flow!CloneOrDrop
  BY <1>12, <1>14 DEF DropReceiver, history
<1>15. ASSUME NEW s \in SenderIds, NEW new \in SenderIds, CloneSender(s, new)
       PROVE  Flow!CloneOrDrop
  BY <1>12, <1>15 DEF CloneSender, history
<1>16. ASSUME NEW r \in ReceiverIds, NEW new \in ReceiverIds, CloneReceiver(r, new)
       PROVE  Flow!CloneOrDrop
  BY <1>12, <1>16 DEF CloneReceiver
<1>17. CASE UNCHANGED vars
  BY <1>3, <1>17 DEF vars, handles, history
<1> QED BY <1>4, <1>8, <1>9, <1>10, <1>11, <1>13, <1>14, <1>15, <1>16, <1>17
        DEF Next, Flow!Next

(***************************************************************************)
(* The channel keeps the promise of ItemFlow: counting handles decides as  *)
(* if it looked whether there are any, and notifications, taken, passed on *)
(* or dropped, bring each item to one receiver at most.                    *)
(***************************************************************************)
THEOREM ChannelImplementsFlow == Spec => ImplementsItemFlow
<1>1. Init => Flow!Init
  <2> SUFFICES ASSUME Init PROVE Flow!Init
    OBVIOUS
  <2>1. data = <<>> /\ event.notified = <<>>
    BY NewEventType DEF Init
  <2>2. ToSet(data) = {} /\ InFlight(event) = {}
    BY <2>1, EmptySeq DEF ToSet, InFlight
  <2> QED BY <2>2 DEF Init, Flow!Init
<1>2. /\ TypeOK /\ HandlesInv /\ PendingAreAlive /\ EveryItemInOnePlace
      /\ [Next]_vars
      => [Flow!Next]_Flow!vars
  BY FlowStep
<1> QED BY <1>1, <1>2, TypeCorrect, HandlesInvariant, PendingInvariant,
           NoItemTwiceOrGone, PTL DEF Spec, ImplementsItemFlow, Flow!Spec
=============================================================================
