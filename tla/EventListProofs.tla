--------------------------- MODULE EventListProofs ---------------------------
(***************************************************************************)
(* Proofs about EventList for every set of listeners, wakers and tags and  *)
(* every set of counts: the linked list is one list in arrival order, its  *)
(* counters and `first` follow, and it implements the FIFO of EventQueue.  *)
(***************************************************************************)
EXTENDS EventList, SequenceTheorems, TLAPS

(* The lemmas about what an event does. *)
Ops == INSTANCE EventOpsProofs

(***************************************************************************)
(* The inductive invariant has three parts, about the list, the call in    *)
(* progress and the wakers.                                                *)
(***************************************************************************)
ListTyped ==
    /\ head \in Pointer /\ tail \in Pointer /\ first \in Pointer
    /\ notified \in Nat /\ len \in Nat
    /\ next \in [Listeners -> Pointer]
    /\ prev \in [Listeners -> Pointer]
    /\ state \in [Listeners -> State]
    /\ in_list \in [Listeners -> BOOLEAN]
    /\ queue \in Seq(Listeners)

ListInv == ListTyped /\ LinksFollowArrival /\ NotifiedArePrefix

(* Between two calls no tags are left over. *)
CallInv ==
    /\ borrowed \in BOOLEAN /\ tags \in Seq(Tags) /\ additional \in BOOLEAN
    /\ ~borrowed => tags = <<>>

(* An entry that waits has the waker of its last poll, and one that was not  *)
(* polled has none; the removal of an entry forgets its waker.               *)
WakerInv ==
    /\ polled \in [Listeners -> Wakers \cup {NULL}]
    /\ woken \in [Listeners -> Wakers \cup {NULL}]
    /\ \A l \in Listeners :
          /\ ~in_list[l] => polled[l] = NULL
          /\ in_list[l] /\ state[l].kind = "Created" => polled[l] = NULL
          /\ in_list[l] /\ state[l].kind = "Waiting" => polled[l] = state[l].waker
    /\ LatestWakerIsWoken

-----------------------------------------------------------------------------
(* The three kinds of entry states, and what is in them. *)
LEMMA StateProperties ==
    /\ Created \in State /\ Created.kind = "Created"
    /\ \A w \in Wakers : /\ Waiting(w) \in State
                         /\ Waiting(w).kind = "Waiting" /\ Waiting(w).waker = w
    /\ \A t \in Tags, a \in BOOLEAN :
          /\ Notified(t, a) \in State
          /\ Notified(t, a).kind = "Notified"
          /\ Notified(t, a).tag = t /\ Notified(t, a).additional = a
    /\ \A s \in State :
          /\ s.kind \in {"Created", "Waiting", "Notified"}
          /\ s.kind = "Waiting" => s.waker \in Wakers
          /\ s.kind = "Notified" => s.tag \in Tags /\ s.additional \in BOOLEAN
<1>1. /\ Created \in State /\ Created.kind = "Created"
      /\ \A w \in Wakers : /\ Waiting(w) \in State
                           /\ Waiting(w).kind = "Waiting" /\ Waiting(w).waker = w
  BY DEF State, Created, Waiting, WaitingStates
<1>2. ASSUME NEW t \in Tags, NEW a \in BOOLEAN
      PROVE  /\ Notified(t, a) \in State
             /\ Notified(t, a).kind = "Notified"
             /\ Notified(t, a).tag = t /\ Notified(t, a).additional = a
  BY DEF State, Notified, NotifiedStates
<1>3. ASSUME NEW s \in State
      PROVE  /\ s.kind \in {"Created", "Waiting", "Notified"}
             /\ s.kind = "Waiting" => s.waker \in Wakers
             /\ s.kind = "Notified" => s.tag \in Tags /\ s.additional \in BOOLEAN
  <2>1. CASE s = Created
    BY <2>1 DEF Created
  <2>2. ASSUME NEW w \in Wakers, s = Waiting(w)
        PROVE  s.kind = "Waiting" /\ s.waker \in Wakers
    BY <2>2 DEF Waiting
  <2>3. ASSUME NEW t \in Tags, NEW a \in BOOLEAN, s = Notified(t, a)
        PROVE  s.kind = "Notified" /\ s.tag \in Tags /\ s.additional \in BOOLEAN
    BY <2>3 DEF Notified
  <2> QED BY <2>1, <2>2, <2>3 DEF State, WaitingStates, NotifiedStates
<1> QED BY <1>1, <1>2, <1>3

(* The listeners in the list are listeners. *)
LEMMA QueueElements ==
    ASSUME queue \in Seq(Listeners)
    PROVE  /\ Len(queue) \in Nat
           /\ \A i \in 1..Len(queue) : queue[i] \in Listeners /\ queue[i] # NULL
           /\ queue = <<>> <=> Len(queue) = 0
  BY LenProperties, ElementOfSeq, EmptySeq, NullAssumption

(* Where the entry of a listener is in the list. *)
Position(l) == CHOOSE i \in 1..Len(queue) : queue[i] = l

(* A listener whose in_list is set has one place in the list. *)
LEMMA PositionProperties ==
    ASSUME LinksFollowArrival, NEW l \in Listeners, in_list[l]
    PROVE  Position(l) \in 1..Len(queue) /\ queue[Position(l)] = l
  BY DEF LinksFollowArrival, Position

(* Removing one entry of a sequence leaves the others, in order. *)
LEMMA RemoveAtElements ==
    ASSUME NEW S, NEW s \in Seq(S), NEW i \in 1..Len(s)
    PROVE  /\ RemoveAt(s, i) \in Seq(S)
           /\ Len(RemoveAt(s, i)) = Len(s) - 1
           /\ \A j \in 1..(Len(s) - 1) :
                 RemoveAt(s, i)[j] = IF j < i THEN s[j] ELSE s[j + 1]
  BY Ops!RemoveAtProperties DEF RemoveAt, Ops!RemoveAt

-----------------------------------------------------------------------------
(* Listener::insert links the new entry to the tail. *)
LEMMA InsertKeepsList ==
    ASSUME ListInv, NEW l \in Listeners, NEW s \in State, s.kind # "Notified",
           ~in_list[l], InsertEntry(l, s)
    PROVE  ListInv'
<1> DEFINE n == Len(queue)
<1>1. /\ ListTyped /\ LinksFollowArrival /\ NotifiedArePrefix
      /\ n \in Nat /\ \A i \in 1..n : queue[i] \in Listeners /\ queue[i] # NULL
      /\ queue = <<>> <=> n = 0
  BY QueueElements DEF ListInv, ListTyped
<1>2. /\ queue' = Append(queue, l) /\ queue' \in Seq(Listeners)
      /\ Len(queue') = n + 1
      /\ \A i \in 1..n : queue'[i] = queue[i]
      /\ queue'[n + 1] = l
      /\ queue' # <<>>
  BY AppendProperties DEF ListInv, ListTyped, InsertEntry
<1>3. \A i \in 1..n : queue[i] # l
  BY DEF ListInv, LinksFollowArrival
<1>4. l # NULL
  BY NullAssumption
<1> HIDE DEF n
<1>5. ListTyped'
  BY <1>1, <1>2 DEF ListTyped, InsertEntry, Pointer
<1>6. LinksFollowArrival'
  <2>1. len' = Len(queue')
    BY <1>1, <1>2 DEF LinksFollowArrival, InsertEntry, n
  <2>2. head' = queue'[1]
    BY <1>1, <1>2, <1>4 DEF LinksFollowArrival, InsertEntry, n
  <2>3. tail' = queue'[Len(queue')]
    BY <1>2 DEF InsertEntry
  <2>4. ASSUME NEW i \in 1..Len(queue')
        PROVE  /\ in_list'[queue'[i]]
               /\ next'[queue'[i]] = IF i = Len(queue') THEN NULL ELSE queue'[i + 1]
               /\ prev'[queue'[i]] = IF i = 1 THEN NULL ELSE queue'[i - 1]
               /\ \A j \in 1..Len(queue') : queue'[i] = queue'[j] => i = j
    <3>1. tail = IF n = 0 THEN NULL ELSE queue[n]
      BY <1>1 DEF LinksFollowArrival, n
    <3>2. CASE i = n + 1
      BY <1>1, <1>2, <1>3, <3>1, <3>2 DEF InsertEntry, ListTyped
    <3>3. CASE i \in 1..n
      <4>1. /\ in_list[queue[i]]
            /\ next[queue[i]] = IF i = n THEN NULL ELSE queue[i + 1]
            /\ prev[queue[i]] = IF i = 1 THEN NULL ELSE queue[i - 1]
            /\ \A j \in 1..n : queue[i] = queue[j] => i = j
        BY <1>1, <3>3 DEF LinksFollowArrival, n
      <4>2. queue[i] = tail <=> i = n
        BY <1>1, <3>1, <3>3, <4>1
      <4>3. queue'[i] = queue[i] /\ queue[i] \in Listeners /\ queue[i] # l
        BY <1>1, <1>2, <1>3, <3>3
      <4>4. in_list'[queue'[i]]
        BY <1>1, <4>1, <4>3 DEF InsertEntry, ListTyped
      <4>5. next'[queue'[i]] = IF i = Len(queue') THEN NULL ELSE queue'[i + 1]
        BY <1>1, <1>2, <3>3, <4>1, <4>2, <4>3 DEF InsertEntry
      <4>6. prev'[queue'[i]] = IF i = 1 THEN NULL ELSE queue'[i - 1]
        BY <1>1, <1>2, <3>3, <4>1, <4>3 DEF InsertEntry, ListTyped
      <4>7. \A j \in 1..Len(queue') : queue'[i] = queue'[j] => i = j
        BY <1>1, <1>2, <1>3, <3>3, <4>1, <4>3
      <4> QED BY <4>4, <4>5, <4>6, <4>7
    <3> QED BY <1>1, <1>2, <3>2, <3>3
  <2>5. ASSUME NEW m \in Listeners, in_list'[m]
        PROVE  \E i \in 1..Len(queue') : queue'[i] = m
    <3>1. CASE m = l
      BY <1>1, <1>2, <3>1
    <3>2. CASE m # l
      <4>1. in_list[m]
        BY <1>1, <2>5, <3>2 DEF InsertEntry, ListTyped
      <4>2. PICK i \in 1..n : queue[i] = m
        BY <1>1, <4>1 DEF LinksFollowArrival, n
      <4> QED BY <1>1, <1>2, <4>2
    <3> QED BY <3>1, <3>2
  <2> QED BY <1>2, <2>1, <2>2, <2>3, <2>4, <2>5 DEF LinksFollowArrival
<1>7. NotifiedArePrefix'
  <2>1. notified' = notified /\ notified \in Nat /\ notified <= n
    BY <1>1 DEF InsertEntry, NotifiedArePrefix, ListTyped, n
  <2>2. ASSUME NEW i \in 1..Len(queue')
        PROVE  state'[queue'[i]].kind = "Notified" <=> i <= notified'
    <3>1. CASE i = n + 1
      BY <1>1, <1>2, <2>1, <3>1 DEF InsertEntry, ListTyped
    <3>2. CASE i \in 1..n
      <4>1. state'[queue'[i]] = state[queue[i]]
        BY <1>1, <1>2, <1>3, <3>2 DEF InsertEntry, ListTyped
      <4> QED BY <1>1, <2>1, <3>2, <4>1 DEF NotifiedArePrefix, IsNotified, n
    <3> QED BY <1>1, <1>2, <3>1, <3>2
  <2>5. first' = IF notified' = Len(queue') THEN NULL ELSE queue'[notified' + 1]
    BY <1>1, <1>2, <2>1 DEF InsertEntry, NotifiedArePrefix, n
  <2> QED BY <1>1, <1>2, <2>1, <2>2, <2>5 DEF NotifiedArePrefix, IsNotified
<1> QED BY <1>5, <1>6, <1>7 DEF ListInv

(* Listener::remove links the neighbours of the entry to each other.  What   *)
(* it leaves is the old list without the place k of the entry.               *)
LEMMA UnlinkElements ==
    ASSUME ListInv, NEW l \in Listeners, in_list[l], Unlink(l),
           NEW k, k = Position(l)
    PROVE  /\ k \in 1..Len(queue) /\ queue[k] = l
           /\ queue' \in Seq(Listeners) /\ Len(queue') = Len(queue) - 1
           /\ \A j \in 1..(Len(queue) - 1) :
                 queue'[j] = IF j < k THEN queue[j] ELSE queue[j + 1]
           /\ \A j \in 1..(Len(queue) - 1) : queue'[j] \in Listeners \ {l}
<1>1. k \in 1..Len(queue) /\ queue[k] = l
  BY PositionProperties DEF ListInv
<1>2. queue \in Seq(Listeners) /\ Len(queue) \in Nat
  BY QueueElements DEF ListInv, ListTyped
<1>3. queue' = RemoveAt(queue, k)
  BY DEF Unlink, Position
<1>4. /\ queue' \in Seq(Listeners) /\ Len(queue') = Len(queue) - 1
      /\ \A j \in 1..(Len(queue) - 1) :
            queue'[j] = IF j < k THEN queue[j] ELSE queue[j + 1]
  BY <1>1, <1>2, <1>3, RemoveAtElements
<1>5. \A i \in 1..Len(queue) : queue[i] \in Listeners /\ (queue[i] = l => i = k)
  BY <1>1, <1>2, QueueElements DEF ListInv, LinksFollowArrival
<1>6. ASSUME NEW j \in 1..(Len(queue) - 1) PROVE queue'[j] \in Listeners \ {l}
  <2>1. CASE j < k
    BY <1>1, <1>2, <1>4, <1>5, <2>1
  <2>2. CASE ~(j < k)
    <3>1. queue'[j] = queue[j + 1] /\ j + 1 \in 1..Len(queue) /\ j + 1 # k
      BY <1>1, <1>2, <1>4, <2>2
    <3> QED BY <1>5, <3>1
  <2> QED BY <2>1, <2>2
<1> QED BY <1>1, <1>4, <1>6

(* The walk along the pointers skips the entry, in both directions. *)
LEMMA UnlinkKeepsLinks ==
    ASSUME ListInv, NEW l \in Listeners, in_list[l], Unlink(l)
    PROVE  LinksFollowArrival'
<1> DEFINE n == Len(queue)
           k == Position(l)
           old(j) == IF j < k THEN j ELSE j + 1
<1>1. /\ ListTyped /\ LinksFollowArrival
      /\ n \in Nat /\ \A i \in 1..n : queue[i] \in Listeners /\ queue[i] # NULL
  BY QueueElements DEF ListInv, ListTyped
<1>2. k \in 1..n /\ queue[k] = l
  BY UnlinkElements
<1>3. /\ Len(queue') = n - 1
      /\ \A j \in 1..(n - 1) : queue'[j] = queue[old(j)]
      /\ \A j \in 1..(n - 1) : queue'[j] \in Listeners \ {l}
  BY UnlinkElements
<1>4. queue' = <<>> <=> n - 1 = 0
  <2>1. queue' \in Seq(Listeners) /\ Len(queue') = n - 1
    BY UnlinkElements
  <2> QED BY <2>1, EmptySeq
<1> HIDE DEF n, k
<1>5. \A i \in 1..n :
        /\ in_list[queue[i]]
        /\ next[queue[i]] = IF i = n THEN NULL ELSE queue[i + 1]
        /\ prev[queue[i]] = IF i = 1 THEN NULL ELSE queue[i - 1]
        /\ \A j \in 1..n : queue[i] = queue[j] => i = j
  BY <1>1 DEF LinksFollowArrival, n
<1>6. /\ next[l] = IF k = n THEN NULL ELSE queue[k + 1]
      /\ prev[l] = IF k = 1 THEN NULL ELSE queue[k - 1]
  BY <1>2, <1>5
<1>7. /\ head = queue[1] /\ tail = queue[n] /\ len = n
  BY <1>1, <1>2, EmptySeq DEF LinksFollowArrival, n
<1>8. len' = Len(queue')
  BY <1>3, <1>7 DEF Unlink
<1>9. head' = IF queue' = <<>> THEN NULL ELSE queue'[1]
  BY <1>1, <1>2, <1>3, <1>4, <1>6, <1>7 DEF Unlink
<1>10. tail' = IF queue' = <<>> THEN NULL ELSE queue'[Len(queue')]
  BY <1>1, <1>2, <1>3, <1>4, <1>6, <1>7 DEF Unlink
<1>11. ASSUME NEW i \in 1..Len(queue')
       PROVE  /\ in_list'[queue'[i]]
              /\ next'[queue'[i]] = IF i = Len(queue') THEN NULL ELSE queue'[i + 1]
              /\ prev'[queue'[i]] = IF i = 1 THEN NULL ELSE queue'[i - 1]
              /\ \A j \in 1..Len(queue') : queue'[i] = queue'[j] => i = j
  <2>1. /\ i \in 1..(n - 1) /\ old(i) \in 1..n /\ queue'[i] = queue[old(i)]
        /\ queue'[i] \in Listeners /\ queue'[i] # l
    BY <1>1, <1>2, <1>3
  <2>2. in_list'[queue'[i]]
    BY <1>1, <1>5, <2>1 DEF Unlink, ListTyped
  <2>3. next'[queue'[i]] = IF i = Len(queue') THEN NULL ELSE queue'[i + 1]
    <3>1. next'[queue'[i]] = IF queue[old(i)] = prev[l] THEN next[l] ELSE next[queue[old(i)]]
      BY <2>1 DEF Unlink, NextWithout
    <3>2. queue[old(i)] = prev[l] <=> k # 1 /\ old(i) = k - 1
      BY <1>1, <1>2, <1>5, <1>6, <2>1
    <3>3. CASE k # 1 /\ old(i) = k - 1
      BY <1>1, <1>2, <1>3, <1>6, <2>1, <3>1, <3>2, <3>3
    <3>4. CASE ~(k # 1 /\ old(i) = k - 1)
      <4>1. next'[queue'[i]] = IF old(i) = n THEN NULL ELSE queue[old(i) + 1]
        BY <1>5, <2>1, <3>1, <3>2, <3>4
      <4>2. old(i) = n <=> i = n - 1
        BY <1>1, <1>2, <2>1, <3>4
      <4>3. i # n - 1 => i + 1 \in 1..(n - 1) /\ old(i + 1) = old(i) + 1
        BY <1>1, <1>2, <2>1, <3>4
      <4> QED BY <1>3, <4>1, <4>2, <4>3
    <3> QED BY <3>3, <3>4
  <2>4. prev'[queue'[i]] = IF i = 1 THEN NULL ELSE queue'[i - 1]
    <3>1. prev'[queue'[i]] = IF queue[old(i)] = next[l] THEN prev[l] ELSE prev[queue[old(i)]]
      BY <2>1 DEF Unlink, PrevWithout
    <3>2. queue[old(i)] = next[l] <=> k # n /\ old(i) = k + 1
      BY <1>1, <1>2, <1>5, <1>6, <2>1
    <3>3. CASE k # n /\ old(i) = k + 1
      BY <1>1, <1>2, <1>3, <1>6, <2>1, <3>1, <3>2, <3>3
    <3>4. CASE ~(k # n /\ old(i) = k + 1)
      <4>1. prev'[queue'[i]] = IF old(i) = 1 THEN NULL ELSE queue[old(i) - 1]
        BY <1>5, <2>1, <3>1, <3>2, <3>4
      <4>2. old(i) = 1 <=> i = 1
        BY <1>1, <1>2, <2>1, <3>4
      <4>3. i # 1 => i - 1 \in 1..(n - 1) /\ old(i - 1) = old(i) - 1
        BY <1>1, <1>2, <2>1, <3>4
      <4> QED BY <1>3, <4>1, <4>2, <4>3
    <3> QED BY <3>3, <3>4
  <2>5. ASSUME NEW j \in 1..Len(queue'), queue'[i] = queue'[j] PROVE i = j
    <3>1. j \in 1..(n - 1) /\ old(j) \in 1..n /\ queue'[j] = queue[old(j)]
      BY <1>1, <1>2, <1>3
    <3>2. queue[old(i)] = queue[old(j)] /\ old(i) \in 1..n
      BY <2>1, <2>5, <3>1
    <3>3. old(i) = old(j)
      <4> HIDE DEF old
      <4> QED BY <1>5, <3>1, <3>2
    <3> QED BY <1>2, <2>1, <3>1, <3>3
  <2> QED BY <2>2, <2>3, <2>4, <2>5
<1>12. ASSUME NEW m \in Listeners, in_list'[m]
       PROVE  \E i \in 1..Len(queue') : queue'[i] = m
  <2>1. m # l /\ in_list[m]
    BY <1>1, <1>12 DEF Unlink, ListTyped
  <2>2. PICK i \in 1..n : queue[i] = m
    BY <1>1, <2>1 DEF LinksFollowArrival, n
  <2>3. CASE i < k
    BY <1>1, <1>2, <1>3, <2>2, <2>3
  <2>4. CASE i > k
    <3>1. i - 1 \in 1..(n - 1) /\ old(i - 1) = i
      BY <1>1, <1>2, <2>4
    <3> QED BY <1>3, <2>2, <3>1
  <2> QED BY <1>2, <2>1, <2>2, <2>3, <2>4
<1> QED BY <1>8, <1>9, <1>10, <1>11, <1>12 DEF LinksFollowArrival

(* `notified` and `first` follow, wherever the entry was. *)
LEMMA UnlinkKeepsPrefix ==
    ASSUME ListInv, NEW l \in Listeners, in_list[l], Unlink(l)
    PROVE  NotifiedArePrefix' /\ notified' \in Nat
<1> DEFINE n == Len(queue)
           k == Position(l)
           old(j) == IF j < k THEN j ELSE j + 1
<1>1. /\ ListTyped /\ LinksFollowArrival /\ NotifiedArePrefix
      /\ n \in Nat /\ \A i \in 1..n : queue[i] \in Listeners /\ queue[i] # NULL
  BY QueueElements DEF ListInv, ListTyped
<1>2. k \in 1..n /\ queue[k] = l
  BY UnlinkElements
<1>3. /\ Len(queue') = n - 1
      /\ \A j \in 1..(n - 1) : queue'[j] = queue[old(j)]
      /\ \A j \in 1..(n - 1) : queue'[j] \in Listeners \ {l}
  BY UnlinkElements
<1> HIDE DEF n, k
<1>4. /\ notified \in Nat /\ notified <= n
      /\ \A i \in 1..n : state[queue[i]].kind = "Notified" <=> i <= notified
      /\ first = IF notified = n THEN NULL ELSE queue[notified + 1]
  BY <1>1 DEF NotifiedArePrefix, IsNotified, ListTyped, n
<1>5. notified' = IF k <= notified THEN notified - 1 ELSE notified
  BY <1>2, <1>4 DEF Unlink, NotifiedWithout, IsNotified
<1>6. notified' \in Nat /\ notified' <= n - 1
  BY <1>1, <1>2, <1>4, <1>5
<1>7. ASSUME NEW i \in 1..Len(queue')
      PROVE  state'[queue'[i]].kind = "Notified" <=> i <= notified'
  <2>1. i \in 1..(n - 1) /\ old(i) \in 1..n
    BY <1>1, <1>2, <1>3
  <2>2. state'[queue'[i]] = state[queue[old(i)]]
    BY <1>1, <1>3, <2>1 DEF Unlink, ListTyped
  <2>3. old(i) <= notified <=> i <= notified'
    BY <1>1, <1>2, <1>4, <1>5, <2>1
  <2> QED BY <1>4, <2>1, <2>2, <2>3
<1>8. first' = IF notified' = Len(queue') THEN NULL ELSE queue'[notified' + 1]
  <2>1. next[l] = IF k = n THEN NULL ELSE queue[k + 1]
    BY <1>1, <1>2 DEF LinksFollowArrival, n
  <2>2. first = l <=> notified + 1 = k
    <3>1. \A i \in 1..n : queue[i] = l => i = k
      BY <1>1, <1>2 DEF LinksFollowArrival, n
    <3> QED BY <1>1, <1>2, <1>4, <3>1
  <2>3. first' = IF notified + 1 = k THEN next[l] ELSE first
    BY <2>2 DEF Unlink, FirstWithout
  <2>4. CASE notified + 1 = k
    BY <1>1, <1>2, <1>3, <1>4, <1>5, <2>1, <2>3, <2>4
  <2>5. CASE k <= notified
    BY <1>1, <1>2, <1>3, <1>4, <1>5, <2>3, <2>5
  <2>6. CASE k > notified + 1
    BY <1>1, <1>2, <1>3, <1>4, <1>5, <2>3, <2>6
  <2> QED BY <1>2, <1>4, <2>4, <2>5, <2>6
<1> QED BY <1>3, <1>6, <1>7, <1>8 DEF NotifiedArePrefix, IsNotified

(* Listener::remove keeps the list in order. *)
LEMMA UnlinkKeepsList ==
    ASSUME ListInv, NEW l \in Listeners, in_list[l], Unlink(l)
    PROVE  ListInv'
<1>1. ListTyped /\ LinksFollowArrival
  BY DEF ListInv
<1>2. LinksFollowArrival' /\ NotifiedArePrefix' /\ notified' \in Nat
  BY UnlinkKeepsLinks, UnlinkKeepsPrefix
<1>3. queue' \in Seq(Listeners) /\ Len(queue') = Len(queue) - 1
  BY UnlinkElements
<1>4. len' \in Nat
  BY <1>2, <1>3, LenProperties DEF LinksFollowArrival
<1>5. ListTyped'
  BY <1>1, <1>2, <1>3, <1>4, StateProperties
     DEF ListTyped, Unlink, NextWithout, PrevWithout, FirstWithout, Pointer
<1> QED BY <1>2, <1>5 DEF ListInv

(* What is not moved stays in order: only the states count, and of these     *)
(* only whether they are Notified.                                           *)
LEMMA SameList ==
    ASSUME ListInv, UNCHANGED <<inner, next, prev, in_list, queue>>,
           state' \in [Listeners -> State],
           \A l \in Listeners : state'[l].kind = "Notified" <=> state[l].kind = "Notified"
    PROVE  ListInv'
<1>1. ListTyped' /\ LinksFollowArrival'
  BY DEF ListInv, ListTyped, LinksFollowArrival, inner
<1>2. \A i \in 1..Len(queue) : queue[i] \in Listeners
  BY QueueElements DEF ListInv, ListTyped
<1>3. NotifiedArePrefix'
  BY <1>2 DEF ListInv, NotifiedArePrefix, IsNotified, inner
<1> QED BY <1>1, <1>3 DEF ListInv

(* One round of Inner::notify moves `first` over the entry that it notifies. *)
LEMMA NotifyFirstKeepsList ==
    ASSUME ListInv, CallInv, NotifyFirst
    PROVE  /\ ListInv'
           /\ notified < Len(queue) /\ first = queue[notified + 1] /\ first \in Listeners
<1> DEFINE n == Len(queue)
<1>1. /\ ListTyped /\ LinksFollowArrival /\ NotifiedArePrefix
      /\ n \in Nat /\ \A i \in 1..n : queue[i] \in Listeners /\ queue[i] # NULL
  BY QueueElements DEF ListInv, ListTyped
<1>2. /\ notified \in Nat /\ notified < n /\ first = queue[notified + 1]
      /\ first \in Listeners
  BY <1>1 DEF NotifyFirst, NotifiedArePrefix, ListTyped
<1>3. /\ queue' = queue /\ notified' = notified + 1 /\ first' = next[first]
      /\ UNCHANGED <<head, tail, len, next, prev, in_list>>
      /\ state' = [state EXCEPT ![first] = Notified(Head(tags), additional)]
  BY DEF NotifyFirst
<1>4. Head(tags) \in Tags /\ additional \in BOOLEAN
  BY HeadTailProperties DEF CallInv, NotifyFirst
<1>5. ListTyped'
  BY <1>1, <1>2, <1>3, <1>4, StateProperties DEF ListTyped, Pointer
<1>6. LinksFollowArrival'
  BY <1>1, <1>3 DEF LinksFollowArrival
<1>7. NotifiedArePrefix'
  <2>1. notified' <= Len(queue')
    BY <1>1, <1>2, <1>3
  <2>2. first' = IF notified' = Len(queue') THEN NULL ELSE queue'[notified' + 1]
    BY <1>1, <1>2, <1>3 DEF LinksFollowArrival
  <2>3. ASSUME NEW i \in 1..Len(queue')
        PROVE  state'[queue'[i]].kind = "Notified" <=> i <= notified'
    <3>1. i \in 1..n /\ queue'[i] = queue[i] /\ queue[i] \in Listeners
      BY <1>1, <1>3
    <3>2. queue[i] = first <=> i = notified + 1
      BY <1>1, <1>2, <3>1 DEF LinksFollowArrival
    <3>3. state[queue[i]].kind = "Notified" <=> i <= notified
      BY <1>1, <3>1 DEF NotifiedArePrefix, IsNotified
    <3>4. Notified(Head(tags), additional).kind = "Notified"
      BY <1>4, StateProperties
    <3> QED BY <1>1, <1>2, <1>3, <3>1, <3>2, <3>3, <3>4 DEF ListTyped
  <2> QED BY <2>1, <2>2, <2>3 DEF NotifiedArePrefix, IsNotified
<1> QED BY <1>2, <1>5, <1>6, <1>7 DEF ListInv

-----------------------------------------------------------------------------
(* A call's tags are tags, and as many as a usize can count. *)
LEMMA NotificationProperties ==
    ASSUME NEW ts \in Notifications
    PROVE  ts \in Seq(Tags) /\ Len(ts) \in Nat
<1>1. UsizeCounts \subseteq Nat
  BY UsizeAssumption, CountsAssumption DEF UsizeCounts, IntoNotification
<1>2. PICK n \in Nat : ts \in [1..n -> Tags]
  BY <1>1 DEF Notifications
<1>3. ts \in Seq(Tags)
  BY <1>2, SeqDef
<1> QED BY <1>3, LenProperties

(* What the loop hands out are the call's first tags. *)
LEMMA LoopTagsProperties ==
    ASSUME NEW ts \in Seq(Tags), NEW add \in BOOLEAN, NEW already \in Nat,
           add \/ Len(ts) > already
    PROVE  LET loop == LoopTags(ts, add, already)
           IN  /\ loop \in Seq(Tags)
               /\ Len(loop) = IF add THEN Len(ts) ELSE Len(ts) - already
               /\ \A i \in 1..Len(loop) : loop[i] = ts[i]
<1>1. Len(ts) \in Nat /\ \A i \in 1..Len(ts) : ts[i] \in Tags
  BY LenProperties, ElementOfSeq
<1>2. CASE add
  BY <1>1, <1>2 DEF LoopTags
<1>3. CASE ~add
  <2> DEFINE m == Len(ts) - already
             loop == SubSeq(ts, 1, m)
  <2>1. m \in Int /\ m >= 1 /\ \A i \in 1..m : ts[i] \in Tags
    BY <1>1, <1>3
  <2> HIDE DEF m
  <2>2. /\ loop \in Seq(Tags)
        /\ Len(loop) = IF 1 <= m THEN m - 1 + 1 ELSE 0
        /\ \A i \in 1..(m - 1 + 1) : loop[i] = ts[1 + i - 1]
    BY <2>1, SubSeqProperties
  <2> HIDE DEF loop
  <2>3. loop \in Seq(Tags) /\ Len(loop) = m /\ \A i \in 1..m : loop[i] = ts[i]
    BY <2>1, <2>2
  <2>4. LoopTags(ts, add, already) = loop
    BY <1>3 DEF LoopTags, loop, m
  <2> QED BY <1>3, <2>3, <2>4 DEF m
<1> QED BY <1>2, <1>3

(* What a call hands to the loop are tags. *)
LEMMA BeginNotifyKeepsCall ==
    ASSUME CallInv, NEW ts \in Seq(Tags), NEW add \in BOOLEAN, NEW already \in Nat,
           BeginNotify(ts, add, already)
    PROVE  CallInv'
<1>1. CASE ~add /\ Len(ts) <= already
  BY <1>1 DEF BeginNotify, CallInv, call
<1>2. CASE add \/ ~(Len(ts) <= already)
  <2>1. Len(ts) \in Nat
    BY LenProperties
  <2>2. LoopTags(ts, add, already) \in Seq(Tags)
    BY <1>2, <2>1, LoopTagsProperties
  <2> QED BY <1>2, <2>2 DEF BeginNotify, CallInv
<1> QED BY <1>1, <1>2

-----------------------------------------------------------------------------
(* Every step keeps the list and the call; the wakers come after. *)
ListAndCall == ListInv /\ CallInv

(* Each action keeps both. *)
LEMMA ListAndCallStep ==
    ASSUME ListAndCall, [Next]_vars
    PROVE  ListAndCall'
<1>1. ListInv /\ CallInv /\ ListTyped
  BY DEF ListAndCall, ListInv
<1>2. UNCHANGED call => CallInv'
  BY <1>1 DEF CallInv, call
<1>3. ASSUME NEW l \in Listeners, Listen(l) PROVE ListAndCall'
  <2>1. ListInv'
    BY <1>1, <1>3, InsertKeepsList, StateProperties DEF Listen
  <2> QED BY <1>2, <1>3, <2>1 DEF Listen, InsertEntry, ListAndCall
<1>4. ASSUME NEW l \in Listeners, NEW w \in Wakers, PollInsert(l, w)
      PROVE  ListAndCall'
  <2>1. ListInv'
    BY <1>1, <1>4, InsertKeepsList, StateProperties DEF PollInsert
  <2> QED BY <1>2, <1>4, <2>1 DEF PollInsert, InsertEntry, ListAndCall
<1>5. ASSUME NEW l \in Listeners, NEW w \in Wakers, PollPending(l, w)
      PROVE  ListAndCall'
  <2>1. state[l] \in State /\ state[l].kind # "Notified"
    BY <1>1, <1>5 DEF PollPending, IsNotified, ListTyped
  <2>2. Register(state[l], w) \in State /\ Register(state[l], w).kind # "Notified"
    BY <2>1, StateProperties DEF Register
  <2>3. state' = [state EXCEPT ![l] = Register(state[l], w)]
    BY <1>5 DEF PollPending
  <2>4. /\ state' \in [Listeners -> State]
        /\ \A m \in Listeners :
              state'[m].kind = "Notified" <=> state[m].kind = "Notified"
    BY <1>1, <2>1, <2>2, <2>3 DEF ListTyped
  <2>5. ListInv'
    BY <1>1, <1>5, <2>4, SameList DEF PollPending
  <2> QED BY <1>2, <1>5, <2>5 DEF PollPending, ListAndCall
<1>6. ASSUME NEW l \in Listeners, PollReady(l) PROVE ListAndCall'
  <2>1. ListInv'
    BY <1>1, <1>6, UnlinkKeepsList DEF PollReady
  <2> QED BY <1>2, <1>6, <2>1 DEF PollReady, ListAndCall
<1>7. ASSUME NEW l \in Listeners, DropListener(l) PROVE ListAndCall'
  <2>1. ListInv'
    BY <1>1, <1>7, UnlinkKeepsList DEF DropListener
  <2>2. CASE ~IsNotified(l)
    BY <1>2, <1>7, <2>1, <2>2 DEF DropListener, ListAndCall
  <2>3. CASE IsNotified(l)
    <3>1. state[l].tag \in Tags /\ state[l].additional \in BOOLEAN
      BY <1>1, <2>3, StateProperties DEF IsNotified, ListTyped
    <3>2. <<state[l].tag>> \in Seq(Tags)
      BY <3>1
    <3>3. notified - 1 \in Nat
      <4>1. notified' = notified - 1 /\ notified' \in Nat
        BY <1>1, <1>7, <2>3, UnlinkKeepsPrefix DEF DropListener, Unlink, NotifiedWithout
      <4> QED BY <4>1
    <3>4. BeginNotify(<<state[l].tag>>, state[l].additional, notified - 1)
      BY <1>7, <2>3 DEF DropListener
    <3>5. CallInv'
      BY <1>1, <3>1, <3>2, <3>3, <3>4, BeginNotifyKeepsCall
    <3> QED BY <2>1, <3>5 DEF ListAndCall
  <2> QED BY <2>2, <2>3
<1>8. ASSUME UNCHANGED <<inner, entries, in_list, history>> PROVE ListInv'
  BY <1>1, <1>8, SameList DEF entries, history, ListTyped
<1>9. ASSUME NEW ts \in Notifications, NEW add \in BOOLEAN, NotifyEvent(ts, add)
      PROVE  ListAndCall'
  <2>1. ListInv'
    BY <1>8, <1>9 DEF NotifyEvent
  <2>2. ts \in Seq(Tags) /\ notified \in Nat
    BY <1>1, NotificationProperties DEF ListTyped
  <2>3. UNCHANGED call \/ BeginNotify(ts, add, notified)
    BY <1>9 DEF NotifyEvent
  <2>4. CallInv'
    BY <1>1, <1>2, <2>2, <2>3, BeginNotifyKeepsCall
  <2> QED BY <2>1, <2>4 DEF ListAndCall
<1>10. ASSUME NotifyFirst PROVE ListAndCall'
  <2>1. ListInv'
    BY <1>1, <1>10, NotifyFirstKeepsList
  <2>2. Tail(tags) \in Seq(Tags)
    BY <1>1, <1>10, HeadTailProperties DEF CallInv, NotifyFirst
  <2> QED BY <1>1, <1>10, <2>1, <2>2 DEF NotifyFirst, CallInv, ListAndCall
<1>11. ASSUME NotifyDone PROVE ListAndCall'
  <2>1. ListInv'
    BY <1>8, <1>11 DEF NotifyDone
  <2>2. <<>> \in Seq(Tags)
    BY EmptySeq
  <2> QED BY <1>11, <2>1, <2>2 DEF NotifyDone, CallInv, ListAndCall
<1>12. CASE UNCHANGED vars
  BY <1>2, <1>8, <1>12 DEF vars, ListAndCall
<1> QED BY <1>3, <1>4, <1>5, <1>6, <1>7, <1>9, <1>10, <1>11, <1>12 DEF Next

(* At first the list is empty. *)
LEMMA ListAndCallInit ==
    ASSUME Init
    PROVE  ListAndCall
<1>1. <<>> \in Seq(Listeners) /\ <<>> \in Seq(Tags) /\ Len(<<>>) = 0
  BY EmptySeq
<1>2. ListTyped
  BY <1>1, StateProperties DEF Init, ListTyped, Pointer
<1>3. LinksFollowArrival /\ NotifiedArePrefix
  BY <1>1 DEF Init, LinksFollowArrival, NotifiedArePrefix, IsNotified
<1>4. CallInv
  BY <1>1 DEF Init, CallInv
<1> QED BY <1>2, <1>3, <1>4 DEF ListAndCall, ListInv

(* The list and the call are as they should be in every state. *)
LEMMA ListAndCallInvariant == Spec => []ListAndCall
<1>1. Init => ListAndCall
  BY ListAndCallInit
<1>2. ListAndCall /\ [Next]_vars => ListAndCall'
  BY ListAndCallStep
<1> QED BY <1>1, <1>2, PTL DEF Spec

(***************************************************************************)
(* The pointer surgery of insert and remove keeps one list, in arrival     *)
(* order, whatever was polled, dropped or notified before, and in the      *)
(* middle of the loop of Inner::notify too.                                *)
(***************************************************************************)
THEOREM LinksAreOneList == Spec => []LinksFollowArrival
<1>1. ListAndCall => LinksFollowArrival
  BY DEF ListAndCall, ListInv
<1> QED BY <1>1, ListAndCallInvariant, PTL

(* The field comments of `notified` and `first` hold at every step. *)
THEOREM NotifiedEntriesLead == Spec => []NotifiedArePrefix
<1>1. ListAndCall => NotifiedArePrefix
  BY DEF ListAndCall, ListInv
<1> QED BY <1>1, ListAndCallInvariant, PTL

-----------------------------------------------------------------------------
(* Whether a listener is in the list, whether its entry waits and with which *)
(* waker, is what its last poll left.                                        *)
LEMMA WakerStep ==
    ASSUME ListAndCall, WakerInv, [Next]_vars
    PROVE  WakerInv'
<1>1. /\ in_list \in [Listeners -> BOOLEAN] /\ state \in [Listeners -> State]
      /\ polled \in [Listeners -> Wakers \cup {NULL}]
      /\ woken \in [Listeners -> Wakers \cup {NULL}]
      /\ \A l \in Listeners :
            /\ ~in_list[l] => polled[l] = NULL
            /\ in_list[l] /\ state[l].kind = "Created" => polled[l] = NULL
            /\ in_list[l] /\ state[l].kind = "Waiting" => polled[l] = state[l].waker
            /\ in_list[l] /\ state[l].kind = "Notified" /\ polled[l] # NULL
                  => woken[l] = polled[l]
  BY DEF ListAndCall, ListInv, ListTyped, WakerInv, LatestWakerIsWoken, IsNotified
<1> DEFINE OneListener(l) ==
              /\ ~in_list'[l] => polled'[l] = NULL
              /\ in_list'[l] /\ state'[l].kind = "Created" => polled'[l] = NULL
              /\ in_list'[l] /\ state'[l].kind = "Waiting" => polled'[l] = state'[l].waker
              /\ in_list'[l] /\ state'[l].kind = "Notified" /\ polled'[l] # NULL
                    => woken'[l] = polled'[l]
<1>2. ASSUME /\ polled' \in [Listeners -> Wakers \cup {NULL}]
             /\ woken' \in [Listeners -> Wakers \cup {NULL}],
             \A l \in Listeners : OneListener(l)
      PROVE  WakerInv'
  BY <1>2 DEF WakerInv, LatestWakerIsWoken, IsNotified
<1>3. ASSUME NEW l \in Listeners, Listen(l) PROVE WakerInv'
  BY <1>1, <1>2, <1>3, StateProperties DEF Listen, InsertEntry
<1>4. ASSUME NEW l \in Listeners, NEW w \in Wakers, PollInsert(l, w)
      PROVE  WakerInv'
  <2>1. Waiting(w).kind = "Waiting" /\ Waiting(w).waker = w
    BY StateProperties
  <2> QED BY <1>1, <1>2, <1>4, <2>1 DEF PollInsert, InsertEntry
<1>5. ASSUME NEW l \in Listeners, NEW w \in Wakers, PollPending(l, w)
      PROVE  WakerInv'
  <2>1. /\ Register(state[l], w).kind = "Waiting"
        /\ Register(state[l], w).waker = w
    BY <1>5, StateProperties DEF PollPending, IsNotified, Register
  <2> QED BY <1>1, <1>2, <1>5, <2>1 DEF PollPending
<1>6. ASSUME NEW l \in Listeners, Unlink(l) PROVE WakerInv'
  BY <1>1, <1>2, <1>6 DEF Unlink
<1>7. ASSUME NotifyFirst PROVE WakerInv'
  <2>1. first \in Listeners /\ first = queue[notified + 1] /\ notified < Len(queue)
    BY <1>7, NotifyFirstKeepsList DEF ListAndCall
  <2>2. in_list[first]
    <3>1. notified \in Nat /\ Len(queue) \in Nat
      BY QueueElements DEF ListAndCall, ListInv, ListTyped
    <3> QED BY <2>1, <3>1 DEF ListAndCall, ListInv, LinksFollowArrival
  <2>3. Head(tags) \in Tags /\ additional \in BOOLEAN
    BY <1>7, HeadTailProperties DEF NotifyFirst, ListAndCall, CallInv
  <2>4. Notified(Head(tags), additional).kind = "Notified"
    BY <2>3, StateProperties
  <2>5. state[first].kind \in {"Created", "Waiting"}
    <3>1. notified + 1 \in 1..Len(queue) /\ ~(notified + 1 <= notified)
      BY <2>1, QueueElements DEF ListAndCall, ListInv, ListTyped
    <3>2. state[first].kind # "Notified"
      BY <2>1, <3>1 DEF ListAndCall, ListInv, NotifiedArePrefix, IsNotified
    <3> QED BY <1>1, <2>1, <3>2, StateProperties
  <2>6. state[first].kind = "Waiting" => state[first].waker \in Wakers
    BY <1>1, <2>1, StateProperties
  <2> QED BY <1>1, <1>2, <1>7, <2>1, <2>2, <2>4, <2>5, <2>6 DEF NotifyFirst
<1>8. ASSUME UNCHANGED <<inner, entries, in_list, history>> PROVE WakerInv'
  BY <1>1, <1>2, <1>8 DEF entries, history
<1> QED BY <1>3, <1>4, <1>5, <1>6, <1>7, <1>8
        DEF Next, PollReady, DropListener, NotifyEvent, NotifyDone, vars

(* So are the wakers. *)
LEMMA WakerInvariant == Spec => []WakerInv
<1>1. Init => WakerInv
  BY DEF Init, WakerInv, LatestWakerIsWoken
<1>2. ListAndCall /\ WakerInv /\ [Next]_vars => WakerInv'
  BY WakerStep
<1> QED BY <1>1, <1>2, ListAndCallInvariant, PTL DEF Spec

(* The list keeps its types; no counter falls below zero, where the code's   *)
(* subtractions would overflow, because each entry is counted once.          *)
THEOREM TypeCorrect == Spec => []TypeOK
<1>1. ListAndCall /\ WakerInv => TypeOK
  BY DEF ListAndCall, ListInv, ListTyped, CallInv, WakerInv, TypeOK
<1> QED BY <1>1, ListAndCallInvariant, WakerInvariant, PTL

(* The waker that is invoked is that of the latest poll, however often the   *)
(* wakers changed between polls, and for an entry that left the list and was *)
(* inserted again.                                                           *)
THEOREM LatestWaker == Spec => []LatestWakerIsWoken
<1>1. WakerInv => LatestWakerIsWoken
  BY DEF WakerInv
<1> QED BY <1>1, WakerInvariant, PTL

-----------------------------------------------------------------------------
(* The values of the FIFO. *)
Event == Ops!EventOf(Listeners, Tags)

(* The note of an entry, where s is the value of `state`. *)
EntryNote(s, l) == [who |-> l, tag |-> s[l].tag, additional |-> s[l].additional]

(* The event as its entries stand, without the call in progress. *)
EntriesState ==
    [notified |-> [i \in 1..notified |-> EntryNote(state, queue[i])],
     waiting  |-> SubSeq(queue, notified + 1, Len(queue))]

(* What an index of EntriesState is, and of FifoState, which also counts the *)
(* entries that the call in progress will reach.                             *)
EntriesView ==
    /\ EntriesState \in Event
    /\ notified \in Nat /\ Len(queue) \in Nat /\ notified <= Len(queue)
    /\ \A i \in 1..Len(queue) : queue[i] \in Listeners
    /\ Len(EntriesState.notified) = notified
    /\ \A i \in 1..notified : EntriesState.notified[i] = EntryNote(state, queue[i])
    /\ Len(EntriesState.waiting) = Len(queue) - notified
    /\ \A i \in 1..(Len(queue) - notified) :
          EntriesState.waiting[i] = queue[notified + i]

FifoView ==
    /\ FifoState \in Event
    /\ InReach \in Nat /\ InReach <= Len(tags) /\ notified + InReach <= Len(queue)
    /\ Len(FifoState.notified) = notified + InReach
    /\ \A i \in 1..(notified + InReach) : FifoState.notified[i] = NoteAt(i)
    /\ Len(FifoState.waiting) = Len(queue) - (notified + InReach)
    /\ \A i \in 1..(Len(queue) - (notified + InReach)) :
          FifoState.waiting[i] = queue[notified + InReach + i]

(* Two events with the same entries are the same event. *)
LEMMA SameEvent ==
    ASSUME NEW e \in Event, NEW f \in Event,
           Len(e.notified) = Len(f.notified),
           \A i \in 1..Len(e.notified) : e.notified[i] = f.notified[i],
           Len(e.waiting) = Len(f.waiting),
           \A i \in 1..Len(e.waiting) : e.waiting[i] = f.waiting[i]
    PROVE  e = f
  BY Ops!SameEvent DEF Event

(* The rest of the queue after its first k entries. *)
LEMMA RestOfQueue ==
    ASSUME ListInv, NEW k \in Nat, k <= Len(queue)
    PROVE  LET rest == SubSeq(queue, k + 1, Len(queue))
           IN  /\ rest \in Seq(Listeners)
               /\ Len(rest) = Len(queue) - k
               /\ \A i \in 1..(Len(queue) - k) : rest[i] = queue[k + i]
<1> DEFINE rest == SubSeq(queue, k + 1, Len(queue))
<1>1. Len(queue) \in Nat /\ \A i \in 1..Len(queue) : queue[i] \in Listeners
  BY QueueElements DEF ListInv, ListTyped
<1>2. \A i \in (k + 1)..Len(queue) : queue[i] \in Listeners
  BY <1>1
<1>3. /\ rest \in Seq(Listeners)
      /\ Len(rest) = IF k + 1 <= Len(queue) THEN Len(queue) - (k + 1) + 1 ELSE 0
      /\ \A i \in 1..(Len(queue) - (k + 1) + 1) : rest[i] = queue[(k + 1) + i - 1]
  BY <1>1, <1>2, SubSeqProperties
<1> HIDE DEF rest
<1>4. ASSUME NEW i \in 1..(Len(queue) - k) PROVE rest[i] = queue[k + i]
  <2>1. i \in 1..(Len(queue) - (k + 1) + 1) /\ (k + 1) + i - 1 = k + i
    BY <1>1
  <2> QED BY <1>3, <2>1
<1>5. Len(rest) = Len(queue) - k
  BY <1>1, <1>3
<1> QED BY <1>3, <1>4, <1>5 DEF rest

(* Both are events, whose entries are where the list has them. *)
LEMMA ListAndCallViews == ListAndCall => EntriesView /\ FifoView
<1> SUFFICES ASSUME ListAndCall PROVE EntriesView /\ FifoView
  OBVIOUS
<1> DEFINE note == Ops!NoteOf(Listeners, Tags)
<1>1. /\ ListInv /\ ListTyped /\ LinksFollowArrival /\ NotifiedArePrefix /\ CallInv
      /\ notified \in Nat /\ Len(queue) \in Nat /\ notified <= Len(queue)
      /\ \A i \in 1..Len(queue) : queue[i] \in Listeners
  BY QueueElements DEF ListAndCall, ListInv, ListTyped, NotifiedArePrefix
<1>2. ASSUME NEW i \in 1..notified
      PROVE  EntryNote(state, queue[i]) \in note
  <2>1. queue[i] \in Listeners /\ state[queue[i]].kind = "Notified"
    BY <1>1 DEF NotifiedArePrefix, IsNotified
  <2>2. state[queue[i]].tag \in Tags /\ state[queue[i]].additional \in BOOLEAN
    BY <1>1, <2>1, StateProperties DEF ListTyped
  <2> QED BY <2>1, <2>2 DEF EntryNote, Ops!NoteOf
<1>3. EntriesView
  <2> DEFINE n == [i \in 1..notified |-> EntryNote(state, queue[i])]
             w == SubSeq(queue, notified + 1, Len(queue))
  <2>1. n \in Seq(note) /\ Len(n) = notified
    <3>1. n \in [1..notified -> note]
      BY <1>2
    <3>2. n \in Seq(note)
      BY <1>1, <3>1, SeqDef
    <3> QED BY <1>1, <3>1, <3>2, LenProperties
  <2>2. /\ w \in Seq(Listeners) /\ Len(w) = Len(queue) - notified
        /\ \A i \in 1..(Len(queue) - notified) : w[i] = queue[notified + i]
    BY <1>1, RestOfQueue
  <2>3. \A i \in 1..notified : n[i] = EntryNote(state, queue[i])
    OBVIOUS
  <2>4. EntriesState = [notified |-> n, waiting |-> w]
    BY DEF EntriesState
  <2> HIDE DEF n, w
  <2>5. EntriesState.notified = n /\ EntriesState.waiting = w
    BY <2>4
  <2>6. EntriesState \in Event
    BY <2>1, <2>2, <2>4 DEF Event, Ops!EventOf
  <2> QED BY <1>1, <2>1, <2>2, <2>3, <2>5, <2>6 DEF EntriesView
<1>4. FifoView
  <2> DEFINE k == notified + InReach
             n == [i \in 1..k |-> NoteAt(i)]
             w == SubSeq(queue, k + 1, Len(queue))
  <2>1. InReach \in Nat /\ InReach <= Len(tags) /\ k \in Nat /\ k <= Len(queue)
    BY <1>1, LenProperties DEF InReach, CallInv
  <2>2. ASSUME NEW i \in 1..k PROVE NoteAt(i) \in note
    <3>1. CASE i <= notified
      <4>1. i \in 1..notified
        BY <3>1
      <4> QED BY <1>2, <3>1, <4>1 DEF NoteAt, EntryNote
    <3>2. CASE ~(i <= notified)
      <4>1. i - notified \in 1..Len(tags) /\ i \in 1..Len(queue)
        BY <1>1, <2>1, <3>2, LenProperties DEF CallInv
      <4>2. tags[i - notified] \in Tags /\ queue[i] \in Listeners /\ additional \in BOOLEAN
        BY <1>1, <4>1, ElementOfSeq DEF CallInv
      <4> QED BY <3>2, <4>2 DEF NoteAt, Ops!NoteOf
    <3> QED BY <3>1, <3>2
  <2>3. FifoState = [notified |-> n, waiting |-> w]
    BY DEF FifoState
  <2>4. n \in Seq(note) /\ Len(n) = k
    <3> HIDE DEF k
    <3>1. n \in [1..k -> note]
      BY <2>2
    <3>2. n \in Seq(note)
      BY <2>1, <3>1, SeqDef
    <3> QED BY <2>1, <3>1, <3>2, LenProperties
  <2>5. /\ w \in Seq(Listeners) /\ Len(w) = Len(queue) - k
        /\ \A i \in 1..(Len(queue) - k) : w[i] = queue[k + i]
    <3> HIDE DEF k
    <3> QED BY <1>1, <2>1, RestOfQueue
  <2>6. \A i \in 1..k : n[i] = NoteAt(i)
    OBVIOUS
  <2> HIDE DEF n, w
  <2>7. FifoState.notified = n /\ FifoState.waiting = w
    BY <2>3
  <2>8. FifoState \in Event
    BY <2>3, <2>4, <2>5 DEF Event, Ops!EventOf
  <2> QED BY <2>1, <2>4, <2>5, <2>6, <2>7, <2>8 DEF FifoView
<1> QED BY <1>3, <1>4


(* Between two calls the FIFO is what the entries say. *)
QuietView == ~borrowed => FifoState = EntriesState

(* No call in progress means that no entry is in reach. *)
LEMMA QuietFifo == ListAndCall => QuietView
<1> SUFFICES ASSUME ListAndCall, ~borrowed PROVE FifoState = EntriesState
  BY DEF QuietView
<1>1. EntriesView /\ FifoView
  BY ListAndCallViews
<1>2. Len(tags) = 0
  BY EmptySeq DEF ListAndCall, CallInv
<1>3. InReach = 0
  BY <1>1, <1>2 DEF FifoView
<1>4. \A i \in 1..notified : NoteAt(i) = EntryNote(state, queue[i])
  BY DEF NoteAt, EntryNote
<1>5. /\ FifoState \in Event /\ EntriesState \in Event
      /\ Len(FifoState.notified) = Len(EntriesState.notified)
      /\ Len(FifoState.waiting) = Len(EntriesState.waiting)
  BY <1>1, <1>3 DEF EntriesView, FifoView
<1>6. ASSUME NEW i \in 1..Len(FifoState.notified)
      PROVE  FifoState.notified[i] = EntriesState.notified[i]
  BY <1>1, <1>3, <1>4 DEF EntriesView, FifoView
<1>7. ASSUME NEW i \in 1..Len(FifoState.waiting)
      PROVE  FifoState.waiting[i] = EntriesState.waiting[i]
  BY <1>1, <1>3 DEF EntriesView, FifoView
<1> QED BY <1>5, <1>6, <1>7, SameEvent

(* Fifo speaks of the same operators as the lemmas about them. *)
LEMMA FifoOperators ==
    /\ Fifo!NewEvent = Ops!NewEvent
    /\ \A e, l : /\ Fifo!InList(e, l) = Ops!InList(e, l)
                 /\ Fifo!IsNotified(e, l) = Ops!IsNotified(e, l)
                 /\ Fifo!Insert(e, l) = Ops!Insert(e, l)
                 /\ Fifo!Take(e, l) = Ops!Take(e, l)
                 /\ Fifo!Cancel(e, l) = Ops!Cancel(e, l)
    /\ \A e, ts, a : Fifo!Notify(e, ts, a) = Ops!Notify(e, ts, a)
<1>1. \A e, ts, a : Fifo!Notify(e, ts, a) = Ops!Notify(e, ts, a)
  BY DEF Fifo!Notify, Ops!Notify, Fifo!Reach, Ops!Reach, Fifo!Notes, Ops!Notes
<1>2. ASSUME NEW e, NEW l
      PROVE  /\ Fifo!InList(e, l) = Ops!InList(e, l)
             /\ Fifo!IsNotified(e, l) = Ops!IsNotified(e, l)
             /\ Fifo!IsWaiting(e, l) = Ops!IsWaiting(e, l)
             /\ Fifo!Insert(e, l) = Ops!Insert(e, l)
             /\ Fifo!Take(e, l) = Ops!Take(e, l)
             /\ Fifo!Leave(e, l) = Ops!Leave(e, l)
             /\ Fifo!Note(e, l) = Ops!Note(e, l)
  BY DEF Fifo!InList, Ops!InList, Fifo!IsNotified, Ops!IsNotified,
         Fifo!IsWaiting, Ops!IsWaiting, Fifo!Insert, Ops!Insert,
         Fifo!Take, Ops!Take, Fifo!Leave, Ops!Leave, Fifo!Note, Ops!Note,
         Fifo!NotifiedIndex, Ops!NotifiedIndex, Fifo!WaitingIndex, Ops!WaitingIndex,
         RemoveAt, Fifo!RemoveAt, Ops!RemoveAt
<1>3. ASSUME NEW e, NEW l PROVE Fifo!Cancel(e, l) = Ops!Cancel(e, l)
  BY <1>1, <1>2 DEF Fifo!Cancel, Ops!Cancel, Fifo!Pass, Ops!Pass
<1>4. Fifo!NewEvent = Ops!NewEvent
  BY DEF Fifo!NewEvent, Ops!NewEvent
<1> QED BY <1>1, <1>2, <1>3, <1>4

(* A listener is in the list where its in_list says, in the part its state says. *)
LEMMA EntriesMembers ==
    ASSUME ListInv, EntriesView, NEW l \in Listeners
    PROVE  /\ Ops!IsNotified(EntriesState, l) <=> in_list[l] /\ IsNotified(l)
           /\ Ops!IsWaiting(EntriesState, l) <=> in_list[l] /\ ~IsNotified(l)
           /\ in_list[l] /\ IsNotified(l) =>
                 /\ Ops!NotifiedIndex(EntriesState, l) = Position(l)
                 /\ Ops!Note(EntriesState, l) = EntryNote(state, l)
                 /\ Position(l) \in 1..notified
           /\ in_list[l] /\ ~IsNotified(l) =>
                 /\ Ops!WaitingIndex(EntriesState, l) = Position(l) - notified
                 /\ Position(l) \in (notified + 1)..Len(queue)
<1> DEFINE e == EntriesState
           n == Len(queue)
<1>1. /\ notified \in Nat /\ n \in Nat /\ notified <= n
      /\ Len(e.notified) = notified /\ Len(e.waiting) = n - notified
      /\ \A i \in 1..notified : e.notified[i] = EntryNote(state, queue[i])
      /\ \A i \in 1..notified : e.notified[i].who = queue[i]
      /\ \A i \in 1..(n - notified) : e.waiting[i] = queue[notified + i]
  <2>1. \A m \in Listeners : EntryNote(state, m).who = m
    BY DEF EntryNote
  <2>2. \A i \in 1..notified : e.notified[i] = EntryNote(state, queue[i])
    BY DEF EntriesView
  <2>3. \A i \in 1..notified : queue[i] \in Listeners
    BY DEF EntriesView
  <2>4. \A i \in 1..notified : e.notified[i].who = queue[i]
    BY <2>1, <2>2, <2>3
  <2> QED BY <2>2, <2>4 DEF EntriesView
<1>2. /\ \A i \in 1..n : in_list[queue[i]]
      /\ \A i, j \in 1..n : queue[i] = queue[j] => i = j
      /\ in_list[l] => Position(l) \in 1..n /\ queue[Position(l)] = l
      /\ \A i \in 1..n : IsNotified(queue[i]) <=> i <= notified
  BY PositionProperties DEF ListInv, LinksFollowArrival, NotifiedArePrefix
<1> HIDE DEF e, n
<1>3. ASSUME Ops!IsNotified(e, l)
      PROVE  in_list[l] /\ IsNotified(l)
  BY <1>1, <1>2, <1>3 DEF Ops!IsNotified
<1>4. ASSUME Ops!IsWaiting(e, l)
      PROVE  in_list[l] /\ ~IsNotified(l)
  <2>1. PICK i \in 1..(n - notified) : e.waiting[i] = l
    BY <1>1, <1>4 DEF Ops!IsWaiting
  <2>2. queue[notified + i] = l /\ notified + i \in 1..n /\ ~(notified + i <= notified)
    BY <1>1, <2>1
  <2> QED BY <1>2, <2>2
<1>5. ASSUME in_list[l], IsNotified(l)
      PROVE  /\ Ops!IsNotified(e, l)
             /\ Ops!NotifiedIndex(e, l) = Position(l)
             /\ Ops!Note(e, l) = EntryNote(state, l)
             /\ Position(l) \in 1..notified
  <2>1. Position(l) \in 1..notified /\ e.notified[Position(l)].who = l
    BY <1>1, <1>2, <1>5
  <2>2. Ops!IsNotified(e, l)
    BY <1>1, <2>1 DEF Ops!IsNotified
  <2>3. \A i \in 1..Len(e.notified) : e.notified[i].who = l => i = Position(l)
    BY <1>1, <1>2, <1>5
  <2>4. Ops!NotifiedIndex(e, l) = Position(l)
    BY <1>1, <2>1, <2>3 DEF Ops!NotifiedIndex
  <2> QED BY <1>1, <1>2, <1>5, <2>1, <2>2, <2>4 DEF Ops!Note
<1>6. ASSUME in_list[l], ~IsNotified(l)
      PROVE  /\ Ops!IsWaiting(e, l)
             /\ Ops!WaitingIndex(e, l) = Position(l) - notified
             /\ Position(l) \in (notified + 1)..n
  <2> DEFINE p == Position(l) - notified
  <2>1. Position(l) \in (notified + 1)..n /\ p \in 1..(n - notified) /\ e.waiting[p] = l
    BY <1>1, <1>2, <1>6
  <2>2. Ops!IsWaiting(e, l)
    BY <1>1, <2>1 DEF Ops!IsWaiting
  <2>3. ASSUME NEW i \in 1..Len(e.waiting), e.waiting[i] = l PROVE i = p
    <3>1. i \in 1..(n - notified) /\ notified + i \in 1..n /\ queue[notified + i] = l
      BY <1>1, <2>3
    <3>2. notified + i = Position(l)
      BY <1>2, <1>6, <3>1
    <3> QED BY <1>1, <2>1, <3>1, <3>2
  <2> HIDE DEF p
  <2>4. Ops!WaitingIndex(e, l) = p
    BY <1>1, <2>1, <2>3 DEF Ops!WaitingIndex
  <2> QED BY <2>1, <2>2, <2>4 DEF p
<1> QED BY <1>3, <1>4, <1>5, <1>6 DEF e, n

(* Listener::insert adds one sleeper and leaves the states of the others. *)
LEMMA InsertIsInsert ==
    ASSUME ListInv, EntriesView, EntriesView', NEW l \in Listeners, NEW s \in State,
           ~in_list[l], InsertEntry(l, s)
    PROVE  EntriesState' = Ops!Insert(EntriesState, l)
<1> DEFINE e == EntriesState
           f == EntriesState'
           n == Len(queue)
           g == Ops!Insert(e, l)
<1>1. /\ queue' = Append(queue, l) /\ notified' = notified
      /\ state' = [state EXCEPT ![l] = s] /\ state \in [Listeners -> State]
      /\ queue \in Seq(Listeners)
  BY DEF InsertEntry, ListInv, ListTyped
<1>2. /\ Len(queue') = n + 1 /\ \A i \in 1..n : queue'[i] = queue[i]
      /\ queue'[n + 1] = l
  BY <1>1, AppendProperties
<1>3. \A i \in 1..n : queue[i] \in Listeners /\ queue[i] # l
  BY DEF EntriesView, ListInv, LinksFollowArrival
<1>4. /\ notified \in Nat /\ n \in Nat /\ notified <= n
      /\ e \in Event /\ f \in Event
      /\ Len(e.notified) = notified /\ Len(f.notified) = notified
      /\ Len(e.waiting) = n - notified /\ Len(f.waiting) = n + 1 - notified
      /\ \A i \in 1..notified : e.notified[i] = EntryNote(state, queue[i])
      /\ \A i \in 1..notified : f.notified[i] = EntryNote(state', queue'[i])
      /\ \A i \in 1..(n - notified) : e.waiting[i] = queue[notified + i]
      /\ \A i \in 1..(n + 1 - notified) : f.waiting[i] = queue'[notified + i]
  <2>1. /\ f \in Event /\ Len(f.notified) = notified'
        /\ \A i \in 1..notified' : f.notified[i] = EntryNote(state', queue'[i])
        /\ Len(f.waiting) = Len(queue') - notified'
        /\ \A i \in 1..(Len(queue') - notified') : f.waiting[i] = queue'[notified' + i]
    BY DEF EntriesView
  <2>2. Len(queue') = n + 1 /\ notified' = notified
    BY <1>1, <1>2
  <2>3. /\ notified \in Nat /\ n \in Nat /\ notified <= n
        /\ e \in Event /\ Len(e.notified) = notified /\ Len(e.waiting) = n - notified
        /\ \A i \in 1..notified : e.notified[i] = EntryNote(state, queue[i])
        /\ \A i \in 1..(n - notified) : e.waiting[i] = queue[notified + i]
    BY DEF EntriesView
  <2> HIDE DEF e, f, n
  <2> QED BY <2>1, <2>2, <2>3
<1>5. g \in Event /\ g.notified = e.notified /\ g.waiting = Append(e.waiting, l)
  BY <1>4, Ops!InsertType DEF Event
<1>6. /\ Len(Append(e.waiting, l)) = n - notified + 1
      /\ \A i \in 1..(n - notified) : Append(e.waiting, l)[i] = e.waiting[i]
      /\ Append(e.waiting, l)[n - notified + 1] = l
  <2>1. e.waiting \in Seq(Listeners)
    BY <1>4 DEF Event, Ops!EventOf
  <2> QED BY <1>4, <2>1, AppendProperties
<1> HIDE DEF e, f, n, g
<1>7. ASSUME NEW i \in 1..Len(f.notified) PROVE f.notified[i] = g.notified[i]
  <2>1. i \in 1..notified /\ i \in 1..n /\ queue'[i] = queue[i] /\ state'[queue[i]] = state[queue[i]]
    BY <1>1, <1>2, <1>3, <1>4
  <2>2. f.notified[i] = EntryNote(state', queue'[i])
    BY <1>4
  <2> QED BY <1>4, <1>5, <2>1, <2>2 DEF EntryNote
<1>8. ASSUME NEW i \in 1..Len(f.waiting) PROVE f.waiting[i] = g.waiting[i]
  <2>1. CASE i = n + 1 - notified
    BY <1>2, <1>4, <1>5, <1>6, <2>1
  <2>2. CASE i \in 1..(n - notified)
    BY <1>2, <1>4, <1>5, <1>6, <2>2
  <2> QED BY <1>4, <2>1, <2>2
<1>9. f = g
  <2>1. Len(f.notified) = Len(g.notified) /\ Len(f.waiting) = Len(g.waiting)
    BY <1>1, <1>3, <1>4, <1>5, <1>6
  <2> QED BY <1>4, <1>5, <1>7, <1>8, <2>1, SameEvent
<1> QED BY <1>9 DEF e, f, g

(* Listener::remove of a notified entry takes its note. *)
LEMMA UnlinkIsTake ==
    ASSUME ListInv, EntriesView, EntriesView', NEW l \in Listeners,
           in_list[l], IsNotified(l), Unlink(l)
    PROVE  EntriesState' = Ops!Take(EntriesState, l)
<1> DEFINE e == EntriesState
           f == EntriesState'
           n == Len(queue)
           g == Ops!Take(e, l)
           k == Position(l)
           old(j) == IF j < k THEN j ELSE j + 1
<1>1. /\ k \in 1..notified /\ Ops!NotifiedIndex(e, l) = k
      /\ Ops!IsNotified(e, l)
  BY EntriesMembers
<1>2. /\ Len(queue') = n - 1 /\ \A j \in 1..(n - 1) : queue'[j] = queue[old(j)]
      /\ \A j \in 1..(n - 1) : queue'[j] \in Listeners \ {l}
  BY UnlinkElements
<1>3. /\ notified' = notified - 1 /\ state' = [state EXCEPT ![l] = Created]
      /\ state \in [Listeners -> State]
  BY DEF Unlink, NotifiedWithout, ListInv, ListTyped
<1>4. /\ notified \in Nat /\ n \in Nat /\ notified <= n
      /\ e \in Event /\ f \in Event
      /\ Len(e.notified) = notified /\ Len(f.notified) = notified'
      /\ Len(e.waiting) = n - notified /\ Len(f.waiting) = n - 1 - notified'
      /\ \A i \in 1..notified : e.notified[i] = EntryNote(state, queue[i])
      /\ \A i \in 1..notified' : f.notified[i] = EntryNote(state', queue'[i])
      /\ \A i \in 1..(n - notified) : e.waiting[i] = queue[notified + i]
      /\ \A i \in 1..(n - 1 - notified') : f.waiting[i] = queue'[notified' + i]
  BY <1>2 DEF EntriesView
<1>5. /\ g \in Event /\ g.waiting = e.waiting
      /\ g.notified = Ops!RemoveAt(e.notified, k)
      /\ Len(g.notified) = notified - 1
  BY <1>1, <1>4, Ops!TakeType DEF Event
<1>6. \A j \in 1..(notified - 1) : g.notified[j] = e.notified[old(j)]
  <2>1. e.notified \in Seq(Ops!NoteOf(Listeners, Tags)) /\ k \in 1..Len(e.notified)
    BY <1>1, <1>4 DEF Event, Ops!EventOf
  <2> HIDE DEF e, f, n, g, k
  <2>2. \A j \in 1..(Len(e.notified) - 1) :
          Ops!RemoveAt(e.notified, k)[j] =
            IF j < k THEN e.notified[j] ELSE e.notified[j + 1]
    BY <2>1, Ops!RemoveAtProperties
  <2> QED BY <1>4, <1>5, <2>2
<1> HIDE DEF e, f, n, g, k
<1>7. ASSUME NEW i \in 1..Len(f.notified) PROVE f.notified[i] = g.notified[i]
  <2>1. i \in 1..(notified - 1) /\ i \in 1..(n - 1) /\ old(i) \in 1..notified
    BY <1>1, <1>3, <1>4
  <2>2. queue'[i] = queue[old(i)] /\ queue'[i] \in Listeners /\ queue'[i] # l
    BY <1>2, <2>1
  <2>3. state'[queue'[i]] = state[queue'[i]]
    BY <1>3, <2>2
  <2>4. f.notified[i] = EntryNote(state', queue'[i])
    BY <1>3, <1>4, <2>1
  <2>5. g.notified[i] = EntryNote(state, queue[old(i)])
    BY <1>4, <1>6, <2>1
  <2> QED BY <2>2, <2>3, <2>4, <2>5 DEF EntryNote
<1>8. ASSUME NEW i \in 1..Len(f.waiting) PROVE f.waiting[i] = g.waiting[i]
  <2>1. /\ i \in 1..(n - notified) /\ notified' + i \in 1..(n - 1)
        /\ old(notified' + i) = notified + i
    BY <1>1, <1>3, <1>4
  <2> QED BY <1>2, <1>3, <1>4, <1>5, <2>1
<1>9. f = g
  <2>1. Len(f.notified) = Len(g.notified) /\ Len(f.waiting) = Len(g.waiting)
    BY <1>1, <1>3, <1>4, <1>5, <1>6
  <2> QED BY <1>4, <1>5, <1>7, <1>8, <2>1, SameEvent
<1> QED BY <1>9 DEF e, f, g

(* Listener::remove of an entry that waits leaves the others as they are. *)
LEMMA UnlinkIsLeave ==
    ASSUME ListInv, EntriesView, EntriesView', NEW l \in Listeners,
           in_list[l], ~IsNotified(l), Unlink(l)
    PROVE  EntriesState' = Ops!Leave(EntriesState, l)
<1> DEFINE e == EntriesState
           f == EntriesState'
           n == Len(queue)
           g == Ops!Leave(e, l)
           k == Position(l)
           p == k - notified
           old(j) == IF j < k THEN j ELSE j + 1
<1>1. /\ k \in (notified + 1)..n /\ Ops!WaitingIndex(e, l) = p
      /\ Ops!IsWaiting(e, l)
  BY EntriesMembers
<1>2. /\ Len(queue') = n - 1 /\ \A j \in 1..(n - 1) : queue'[j] = queue[old(j)]
      /\ \A j \in 1..(n - 1) : queue'[j] \in Listeners \ {l}
  BY UnlinkElements
<1>3. /\ notified' = notified /\ state' = [state EXCEPT ![l] = Created]
      /\ state \in [Listeners -> State]
  BY DEF Unlink, NotifiedWithout, ListInv, ListTyped
<1>4. /\ notified \in Nat /\ n \in Nat /\ notified <= n
      /\ e \in Event /\ f \in Event
      /\ Len(e.notified) = notified /\ Len(f.notified) = notified
      /\ Len(e.waiting) = n - notified /\ Len(f.waiting) = n - 1 - notified
      /\ \A i \in 1..notified : e.notified[i] = EntryNote(state, queue[i])
      /\ \A i \in 1..notified : f.notified[i] = EntryNote(state', queue'[i])
      /\ \A i \in 1..(n - notified) : e.waiting[i] = queue[notified + i]
      /\ \A i \in 1..(n - 1 - notified) : f.waiting[i] = queue'[notified + i]
  BY <1>2, <1>3 DEF EntriesView
<1>5. /\ g \in Event /\ g.notified = e.notified
      /\ g.waiting = Ops!RemoveAt(e.waiting, p)
      /\ Len(g.waiting) = n - notified - 1
  BY <1>1, <1>4, Ops!LeaveType DEF Event
<1>6. \A j \in 1..(n - notified - 1) :
        g.waiting[j] = IF j < p THEN e.waiting[j] ELSE e.waiting[j + 1]
  <2>1. e.waiting \in Seq(Listeners) /\ p \in 1..Len(e.waiting)
    BY <1>1, <1>4 DEF Event, Ops!EventOf
  <2> HIDE DEF e, f, n, g, p
  <2>2. \A j \in 1..(Len(e.waiting) - 1) :
          Ops!RemoveAt(e.waiting, p)[j] =
            IF j < p THEN e.waiting[j] ELSE e.waiting[j + 1]
    BY <2>1, Ops!RemoveAtProperties
  <2> QED BY <1>4, <1>5, <2>2
<1> HIDE DEF e, f, n, g, k
<1>7. ASSUME NEW i \in 1..Len(f.notified) PROVE f.notified[i] = g.notified[i]
  <2>1. i \in 1..notified /\ i \in 1..(n - 1) /\ old(i) = i
    BY <1>1, <1>4
  <2>2. queue'[i] = queue[i] /\ queue'[i] \in Listeners /\ queue'[i] # l
    BY <1>2, <2>1
  <2>3. state'[queue'[i]] = state[queue'[i]]
    BY <1>3, <2>2
  <2>4. f.notified[i] = EntryNote(state', queue'[i])
    BY <1>4, <2>1
  <2>5. g.notified[i] = EntryNote(state, queue[i])
    BY <1>4, <1>5, <2>1
  <2> QED BY <2>2, <2>3, <2>4, <2>5 DEF EntryNote
<1>8. ASSUME NEW i \in 1..Len(f.waiting) PROVE f.waiting[i] = g.waiting[i]
  <2>1. /\ i \in 1..(n - notified - 1) /\ notified + i \in 1..(n - 1)
        /\ f.waiting[i] = queue[old(notified + i)]
    BY <1>1, <1>2, <1>4
  <2>2. CASE i < p
    BY <1>1, <1>4, <1>6, <2>1, <2>2
  <2>3. CASE ~(i < p)
    <3>1. old(notified + i) = notified + (i + 1) /\ i + 1 \in 1..(n - notified)
      BY <1>1, <1>4, <2>1, <2>3
    <3> QED BY <1>4, <1>6, <2>1, <2>3, <3>1
  <2> QED BY <2>2, <2>3
<1>9. f = g
  <2>1. Len(f.notified) = Len(g.notified) /\ Len(f.waiting) = Len(g.waiting)
    BY <1>1, <1>3, <1>4, <1>5, <1>6
  <2> QED BY <1>4, <1>5, <1>7, <1>8, <2>1, SameEvent
<1> QED BY <1>9 DEF e, f, g


(* The same of the state after a step. *)
LEMMA ViewsAfter == ListAndCall' => EntriesView' /\ FifoView' /\ QuietView'
  BY ListAndCallViews, QuietFifo, PTL

(* A notification that reaches nobody changes nothing. *)
LEMMA NotifyNobody ==
    ASSUME NEW e \in Event, NEW ts \in Seq(Tags), NEW add \in BOOLEAN,
           Ops!Reach(e, Len(ts), add) = 0
    PROVE  Ops!Notify(e, ts, add) = e
  BY Ops!NotifyNobody DEF Event

(* Where a notification puts the entries of an event with these listeners. *)
LEMMA NotifyPlaces ==
    ASSUME NEW e \in Event, NEW ts \in Seq(Tags), NEW add \in BOOLEAN
    PROVE  LET f == Ops!Notify(e, ts, add)
               k == Ops!Reach(e, Len(ts), add)
           IN  /\ \A i \in 1..Len(e.notified) : f.notified[i] = e.notified[i]
               /\ \A i \in 1..k :
                     f.notified[Len(e.notified) + i]
                       = [who |-> e.waiting[i], tag |-> ts[i], additional |-> add]
               /\ \A i \in 1..Len(f.waiting) : f.waiting[i] = e.waiting[i + k]
<1> DEFINE f == Ops!Notify(e, ts, add)
           k == Ops!Reach(e, Len(ts), add)
<1>1. e \in Ops!EventOf(Listeners, Tags)
  BY DEF Event
<1>2. /\ \A i \in 1..Len(e.notified) : f.notified[i] = e.notified[i]
      /\ \A i \in 1..k :
            f.notified[Len(e.notified) + i]
              = [who |-> e.waiting[i], tag |-> ts[i], additional |-> add]
      /\ \A i \in 1..Len(f.waiting) : f.waiting[i] = e.waiting[i + k]
  BY <1>1, Ops!NotifyNotes
<1> QED BY <1>2

(* When Inner::notify has decided how many tags its loop may hand out, the   *)
(* FIFO has made its notification: the loop will reach exactly those entries. *)
LEMMA BeginIsNotify ==
    ASSUME ListAndCall', ~borrowed, NEW ts \in Seq(Tags), NEW add \in BOOLEAN,
           notified' \in Nat, BeginNotify(ts, add, notified')
    PROVE  FifoState' = Ops!Notify(EntriesState', ts, add)
<1> DEFINE e == EntriesState'
           f == FifoState'
           g == Ops!Notify(e, ts, add)
           n == notified'
           w == Len(queue') - notified'
           k == Ops!Reach(e, Len(ts), add)
<1>1. EntriesView' /\ FifoView'
  BY ViewsAfter
<1>2. /\ n \in Nat /\ w \in Nat /\ Len(ts) \in Nat
      /\ e \in Event /\ Len(e.notified) = n /\ Len(e.waiting) = w
      /\ \A i \in 1..n : e.notified[i] = EntryNote(state', queue'[i])
      /\ \A i \in 1..w : e.waiting[i] = queue'[n + i]
  <2>1. Len(ts) \in Nat
    BY LenProperties
  <2>2. /\ notified' \in Nat /\ Len(queue') \in Nat /\ notified' <= Len(queue')
        /\ e \in Event /\ Len(e.notified) = notified'
        /\ Len(e.waiting) = Len(queue') - notified'
        /\ \A i \in 1..notified' : e.notified[i] = EntryNote(state', queue'[i])
        /\ \A i \in 1..(Len(queue') - notified') : e.waiting[i] = queue'[notified' + i]
    BY <1>1 DEF EntriesView
  <2> HIDE DEF e
  <2> QED BY <2>1, <2>2
<1>3. k = LET wanted == IF add THEN Len(ts) ELSE Len(ts) - n
          IN  IF wanted <= 0 THEN 0 ELSE IF wanted <= w THEN wanted ELSE w
  BY <1>2 DEF Ops!Reach
<1>4. CASE ~add /\ Len(ts) <= n
  <2>1. ~borrowed'
    BY <1>4 DEF BeginNotify, call
  <2>2. FifoState' = EntriesState'
    BY <2>1, ViewsAfter DEF QuietView
  <2>3. k = 0
    BY <1>2, <1>3, <1>4
  <2>4. g = e
    BY <1>2, <2>3, NotifyNobody
  <2> QED BY <2>2, <2>4
<1>5. CASE add \/ Len(ts) > n
  <2>1. tags' = LoopTags(ts, add, n) /\ additional' = add
    BY <1>2, <1>5 DEF BeginNotify
  <2>2. /\ Len(tags') = IF add THEN Len(ts) ELSE Len(ts) - n
        /\ \A i \in 1..Len(tags') : tags'[i] = ts[i]
    BY <1>2, <1>5, <2>1, LoopTagsProperties
  <2>3. InReach' = k
    <3>1. InReach' = IF Len(tags') <= w THEN Len(tags') ELSE w
      BY DEF InReach
    <3> HIDE DEF w, k, n
    <3> QED BY <1>2, <1>3, <1>5, <2>2, <3>1
  <2>4. k \in Nat /\ k <= w /\ k <= Len(tags')
    <3>1. k \in Nat /\ k <= Len(tags')
      BY <1>1, <2>3 DEF FifoView
    <3> HIDE DEF k, w, n
    <3> QED BY <1>2, <1>3, <3>1
  <2>5. /\ f \in Event /\ Len(f.notified) = n + k /\ Len(f.waiting) = Len(queue') - (n + k)
        /\ \A i \in 1..(n + k) : f.notified[i] = NoteAt(i)'
        /\ \A i \in 1..(Len(queue') - (n + k)) : f.waiting[i] = queue'[n + k + i]
    <3> HIDE DEF k
    <3> QED BY <1>1, <2>3 DEF FifoView
  <2>6. \A i \in 1..(n + k) :
          NoteAt(i)' = IF i <= n THEN EntryNote(state', queue'[i])
                       ELSE [who |-> queue'[i], tag |-> tags'[i - n],
                             additional |-> additional']
    BY DEF NoteAt, EntryNote
  <2>7. /\ g \in Event /\ Len(g.notified) = n + k /\ Len(g.waiting) = w - k
    <3>1. /\ e \in Ops!EventOf(Listeners, Tags)
          /\ Len(e.notified) = n /\ Len(e.waiting) = w
      BY <1>2 DEF Event
    <3> HIDE DEF e, n, w
    <3> QED BY <3>1, Ops!NotifyType DEF Event
  <2>8. /\ \A i \in 1..n : g.notified[i] = e.notified[i]
        /\ \A i \in 1..k :
              g.notified[n + i] = [who |-> e.waiting[i], tag |-> ts[i], additional |-> add]
        /\ \A i \in 1..(w - k) : g.waiting[i] = e.waiting[i + k]
    <3>1. e \in Ops!EventOf(Listeners, Tags) /\ Len(e.notified) = n
      BY <1>2 DEF Event
    <3>2. Len(g.waiting) = w - k
      BY <2>7
    <3>3. /\ \A i \in 1..Len(e.notified) : g.notified[i] = e.notified[i]
          /\ \A i \in 1..k :
                g.notified[Len(e.notified) + i]
                  = [who |-> e.waiting[i], tag |-> ts[i], additional |-> add]
          /\ \A i \in 1..Len(g.waiting) : g.waiting[i] = e.waiting[i + k]
      <4> HIDE DEF e
      <4> QED BY NotifyPlaces, <1>2
    <3> HIDE DEF e, n, w, g, k
    <3> QED BY <3>1, <3>2, <3>3
  <2>9. Len(queue') = n + w
    <3>1. Len(queue') \in Nat /\ n \in Nat
      BY <1>1 DEF EntriesView
    <3> QED BY <3>1
  <2> HIDE DEF e, f, g, n, w, k
  <2>10. ASSUME NEW i \in 1..Len(f.notified) PROVE f.notified[i] = g.notified[i]
    <3>1. CASE i \in 1..n
      BY <1>2, <2>4, <2>5, <2>6, <2>8, <3>1
    <3>2. CASE i \in (n + 1)..(n + k)
      <4>1. i - n \in 1..k /\ n + (i - n) = i /\ i - n \in 1..w /\ i - n \in 1..Len(tags')
        BY <1>2, <2>4, <3>2
      <4>2. f.notified[i] = [who |-> queue'[i], tag |-> tags'[i - n],
                             additional |-> additional']
        BY <1>2, <2>4, <2>5, <2>6, <3>2
      <4>3. g.notified[n + (i - n)] = [who |-> e.waiting[i - n], tag |-> ts[i - n],
                                       additional |-> add]
        BY <2>8, <4>1
      <4>4. e.waiting[i - n] = queue'[n + (i - n)] /\ tags'[i - n] = ts[i - n]
        BY <1>2, <2>2, <4>1
      <4> QED BY <2>1, <4>1, <4>2, <4>3, <4>4
    <3> QED BY <1>2, <2>4, <2>5, <3>1, <3>2
  <2>11. ASSUME NEW i \in 1..Len(f.waiting) PROVE f.waiting[i] = g.waiting[i]
    <3>1. /\ i \in 1..(w - k) /\ i \in 1..(Len(queue') - (n + k))
          /\ i + k \in 1..w /\ n + (i + k) = n + k + i
      BY <1>2, <2>4, <2>5, <2>9
    <3>2. f.waiting[i] = queue'[n + k + i]
      BY <2>5, <3>1
    <3>3. g.waiting[i] = e.waiting[i + k] /\ e.waiting[i + k] = queue'[n + (i + k)]
      BY <1>2, <2>8, <3>1
    <3> QED BY <3>1, <3>2, <3>3
  <2>12. Len(f.notified) = Len(g.notified) /\ Len(f.waiting) = Len(g.waiting)
    BY <1>2, <2>4, <2>5, <2>7, <2>9
  <2>13. f = g
    BY <2>5, <2>7, <2>10, <2>11, <2>12, SameEvent
  <2> QED BY <2>13 DEF f, g, e
<1> QED BY <1>2, <1>4, <1>5

(* A call of the list does to the FIFO what that call of the FIFO does. *)
LEMMA CallsAreCalls ==
    ASSUME ListAndCall, ListAndCall'
    PROVE  CallsActOnFifo
<1>1. ListInv /\ EntriesView /\ QuietView /\ EntriesView' /\ QuietView'
  BY ListAndCallViews, QuietFifo, ViewsAfter DEF ListAndCall
<1>2. notified \in Nat /\ notified' \in Nat /\ EntriesState \in Event /\ ListTyped
  BY <1>1 DEF EntriesView, ListInv
<1>3. ASSUME NEW l \in Listeners, ~borrowed
      PROVE  /\ FifoState = EntriesState
             /\ Ops!IsNotified(FifoState, l) <=> in_list[l] /\ IsNotified(l)
             /\ Ops!IsWaiting(FifoState, l) <=> in_list[l] /\ ~IsNotified(l)
             /\ Ops!InList(FifoState, l) <=> in_list[l]
  BY <1>1, <1>3, EntriesMembers DEF QuietView, Ops!InList
<1>4. ASSUME NEW l \in Listeners, NEW s \in State, ~borrowed, ~in_list[l],
             InsertEntry(l, s)
      PROVE  Fifo!Listen(l)
  <2>1. EntriesState' = Ops!Insert(EntriesState, l)
    BY <1>1, <1>4, InsertIsInsert
  <2>2. FifoState' = EntriesState'
    BY <1>1, <1>4 DEF QuietView, InsertEntry, call
  <2> QED BY <1>3, <1>4, <2>1, <2>2, FifoOperators DEF Fifo!Listen
<1>5. ASSUME NEW l \in Listeners, Listen(l) PROVE Fifo!Listen(l)
  BY <1>4, <1>5, StateProperties DEF Listen
<1>6. ASSUME NEW l \in Listeners, NEW w \in Wakers, PollInsert(l, w)
      PROVE  Fifo!Listen(l)
  BY <1>4, <1>6, StateProperties DEF PollInsert
<1>7. ASSUME NEW l \in Listeners, PollReady(l) PROVE Fifo!Resolve(l)
  <2>1. EntriesState' = Ops!Take(EntriesState, l)
    BY <1>1, <1>7, UnlinkIsTake DEF PollReady
  <2>2. FifoState' = EntriesState'
    BY <1>1, <1>7 DEF QuietView, PollReady, call
  <2> QED BY <1>3, <1>7, <2>1, <2>2, FifoOperators DEF Fifo!Resolve, PollReady
<1>8. ASSUME NEW l \in Listeners, DropListener(l) PROVE Fifo!DropListener(l)
  <2>1. FifoState' = Ops!Cancel(FifoState, l)
    <3>1. CASE IsNotified(l)
      <4>1. EntriesState' = Ops!Take(EntriesState, l)
        BY <1>1, <1>8, <3>1, UnlinkIsTake DEF DropListener
      <4>2. Ops!Note(EntriesState, l) = EntryNote(state, l)
        BY <1>1, <1>8, <3>1, EntriesMembers DEF DropListener
      <4>3. state[l].tag \in Tags /\ state[l].additional \in BOOLEAN
        BY <1>2, <3>1, StateProperties DEF IsNotified, ListTyped
      <4>4. <<state[l].tag>> \in Seq(Tags)
        BY <4>3
      <4>5. notified' = notified - 1
        BY <1>8, <3>1 DEF DropListener, Unlink, NotifiedWithout
      <4>6. BeginNotify(<<state[l].tag>>, state[l].additional, notified') /\ ~borrowed
        BY <1>8, <3>1, <4>5 DEF DropListener
      <4>7. FifoState' = Ops!Notify(EntriesState', <<state[l].tag>>, state[l].additional)
        BY <1>2, <4>3, <4>4, <4>6, BeginIsNotify
      <4>8. Ops!Cancel(EntriesState, l)
              = Ops!Notify(Ops!Take(EntriesState, l), <<state[l].tag>>, state[l].additional)
        <5>1. Ops!IsNotified(EntriesState, l)
          BY <1>1, <1>8, <3>1, EntriesMembers DEF DropListener
        <5>2. /\ EntryNote(state, l).tag = state[l].tag
              /\ EntryNote(state, l).additional = state[l].additional
          BY DEF EntryNote
        <5> QED BY <4>2, <5>1, <5>2 DEF Ops!Cancel, Ops!Pass
      <4> QED BY <1>3, <4>1, <4>6, <4>7, <4>8
    <3>2. CASE ~IsNotified(l)
      <4>1. EntriesState' = Ops!Leave(EntriesState, l)
        BY <1>1, <1>8, <3>2, UnlinkIsLeave DEF DropListener
      <4>2. FifoState' = EntriesState' /\ FifoState = EntriesState
        BY <1>1, <1>8, <3>2 DEF QuietView, DropListener, call
      <4>3. Ops!Cancel(FifoState, l) = Ops!Leave(FifoState, l)
        BY <1>3, <1>8, <3>2 DEF Ops!Cancel, DropListener
      <4> QED BY <4>1, <4>2, <4>3
    <3> QED BY <3>1, <3>2
  <2> QED BY <1>3, <1>8, <2>1, FifoOperators DEF Fifo!DropListener, DropListener
<1>9. ASSUME NEW ts \in Notifications, NEW add \in BOOLEAN, NotifyEvent(ts, add)
      PROVE  Fifo!NotifyEvent(ts, add)
  <2>1. ts \in Seq(Tags) /\ Len(ts) \in Nat
    BY NotificationProperties
  <2>2. EntriesState' = EntriesState /\ notified' = notified
    BY <1>9 DEF NotifyEvent, inner, entries, history, EntriesState, EntryNote
  <2>3. FifoState = EntriesState /\ ~borrowed
    BY <1>1, <1>9 DEF QuietView, NotifyEvent
  <2>4. FifoState' = Ops!Notify(FifoState, ts, add)
    <3>1. CASE (add /\ len = 0) \/ (~add /\ notified > Len(ts))
      <4>1. FifoState' = EntriesState'
        BY <1>1, <1>9, <3>1 DEF QuietView, NotifyEvent, call
      <4>2. /\ Len(EntriesState.notified) = notified
            /\ Len(EntriesState.waiting) = Len(queue) - notified
            /\ notified <= Len(queue) /\ Len(queue) \in Nat /\ len = Len(queue)
        BY <1>1 DEF EntriesView, ListInv, LinksFollowArrival
      <4>3. Ops!Reach(EntriesState, Len(ts), add) = 0
        BY <1>2, <2>1, <3>1, <4>2 DEF Ops!Reach
      <4>4. Ops!Notify(EntriesState, ts, add) = EntriesState
        BY <1>2, <2>1, <4>3, NotifyNobody
      <4> QED BY <2>2, <2>3, <4>1, <4>4
    <3>2. CASE ~((add /\ len = 0) \/ (~add /\ notified > Len(ts)))
      <4>1. BeginNotify(ts, add, notified')
        BY <1>9, <2>2, <3>2 DEF NotifyEvent
      <4>2. FifoState' = Ops!Notify(EntriesState', ts, add)
        BY <1>2, <2>1, <2>3, <4>1, BeginIsNotify
      <4> QED BY <2>2, <2>3, <4>2
    <3> QED BY <3>1, <3>2
  <2> QED BY <2>4, FifoOperators DEF Fifo!NotifyEvent
<1> QED BY <1>5, <1>6, <1>7, <1>8, <1>9 DEF CallsActOnFifo

(* A round of the loop notifies an entry that the FIFO counts as notified. *)
LEMMA NotifyFirstIsStutter ==
    ASSUME ListAndCall, ListAndCall', NotifyFirst
    PROVE  FifoState' = FifoState
<1> DEFINE e == FifoState
           f == FifoState'
           n == Len(queue)
           k == notified + InReach
<1>1. /\ notified < n /\ first = queue[notified + 1] /\ first \in Listeners
      /\ ListInv /\ CallInv
  BY NotifyFirstKeepsList DEF ListAndCall
<1>2. FifoView /\ FifoView' /\ EntriesView
  BY ListAndCallViews, ViewsAfter
<1>3. /\ queue' = queue /\ notified' = notified + 1 /\ tags' = Tail(tags)
      /\ additional' = additional
      /\ state' = [state EXCEPT ![first] = Notified(Head(tags), additional)]
      /\ state \in [Listeners -> State]
  BY <1>1 DEF NotifyFirst, ListInv, ListTyped
<1>4. /\ Head(tags) \in Tags /\ Head(tags) = tags[1] /\ additional \in BOOLEAN
      /\ Len(tags) \in Nat /\ Len(tags) >= 1 /\ Len(tags') = Len(tags) - 1
      /\ \A i \in 1..(Len(tags) - 1) : tags'[i] = tags[i + 1]
  <2>1. tags \in Seq(Tags) /\ tags # <<>> /\ additional \in BOOLEAN
    BY <1>1 DEF CallInv, NotifyFirst
  <2>2. Head(tags) = tags[1]
    BY <2>1
  <2> QED BY <1>3, <2>1, <2>2, HeadTailProperties, LenProperties, EmptySeq
<1>5. notified \in Nat /\ n \in Nat /\ \A i \in 1..n : queue[i] \in Listeners
  BY <1>2 DEF EntriesView
<1>6. InReach' = InReach - 1
  BY <1>1, <1>3, <1>4, <1>5 DEF InReach
<1>7. k \in Nat /\ k <= n /\ InReach \in Nat /\ InReach <= Len(tags) /\ notified' + InReach' = k
  BY <1>2, <1>3, <1>5, <1>6 DEF FifoView
<1>8. /\ e \in Event /\ Len(e.notified) = k /\ Len(e.waiting) = n - k
      /\ \A i \in 1..k : e.notified[i] = NoteAt(i)
      /\ \A i \in 1..(n - k) : e.waiting[i] = queue[k + i]
  BY <1>2 DEF FifoView
<1>9. /\ f \in Event /\ Len(f.notified) = k /\ Len(f.waiting) = n - k
      /\ \A i \in 1..k : f.notified[i] = NoteAt(i)'
      /\ \A i \in 1..(n - k) : f.waiting[i] = queue[k + i]
  <2> HIDE DEF k
  <2> QED BY <1>2, <1>3, <1>7 DEF FifoView
<1>10. ASSUME NEW i \in 1..k PROVE NoteAt(i)' = NoteAt(i)
  <2>1. i \in 1..n /\ queue[i] \in Listeners
    BY <1>5, <1>7
  <2>2. \A j \in 1..n : queue[i] = queue[j] => i = j
    BY <1>1, <2>1 DEF ListInv, LinksFollowArrival
  <2>3. NoteAt(i)' = IF i <= notified + 1
                     THEN [who |-> queue[i], tag |-> state'[queue[i]].tag,
                           additional |-> state'[queue[i]].additional]
                     ELSE [who |-> queue[i], tag |-> tags'[i - (notified + 1)],
                           additional |-> additional]
    BY <1>3 DEF NoteAt
  <2>4. CASE i <= notified
    <3>1. queue[i] # first
      BY <1>1, <1>5, <2>1, <2>2, <2>4
    <3>2. state'[queue[i]] = state[queue[i]]
      BY <1>3, <2>1, <3>1
    <3>3. i <= notified + 1
      BY <1>5, <2>4
    <3> QED BY <2>3, <2>4, <3>2, <3>3 DEF NoteAt
  <2>5. CASE i = notified + 1
    <3>1. state'[queue[i]] = Notified(Head(tags), additional)
      BY <1>1, <1>3, <2>5
    <3>2. state'[queue[i]].tag = tags[1] /\ state'[queue[i]].additional = additional
      BY <1>4, <3>1, StateProperties
    <3>3. i <= notified + 1 /\ ~(i <= notified) /\ i - notified = 1
      BY <1>5, <2>5
    <3> QED BY <2>3, <3>2, <3>3 DEF NoteAt
  <2>6. CASE i > notified + 1
    <3>1. /\ i - (notified + 1) \in 1..(Len(tags) - 1)
          /\ (i - (notified + 1)) + 1 = i - notified
          /\ ~(i <= notified) /\ ~(i <= notified + 1)
      BY <1>4, <1>5, <1>7, <2>6
    <3>2. tags'[i - (notified + 1)] = tags[i - notified]
      BY <1>4, <3>1
    <3> QED BY <2>3, <3>1, <3>2 DEF NoteAt
  <2> QED BY <1>5, <2>1, <2>4, <2>5, <2>6
<1> HIDE DEF e, f, n, k
<1>11. f = e
  BY <1>8, <1>9, <1>10, SameEvent
<1> QED BY <1>11 DEF e, f

(* The end of the loop leaves no entry in its reach. *)
LEMMA NotifyDoneIsStutter ==
    ASSUME ListAndCall, ListAndCall', NotifyDone
    PROVE  FifoState' = FifoState
<1>1. FifoView /\ FifoView' /\ EntriesView /\ ListInv /\ CallInv
  BY ListAndCallViews, ViewsAfter DEF ListAndCall
<1>2. InReach = 0 /\ InReach' = 0
  <2>1. Len(tags') = 0
    BY EmptySeq DEF NotifyDone
  <2>2. tags = <<>> => Len(tags) = 0
    BY EmptySeq
  <2>3. first = NULL => notified = Len(queue)
    <3>1. notified # Len(queue) => notified + 1 \in 1..Len(queue)
      BY <1>1 DEF EntriesView
    <3> QED BY <1>1, <3>1, NullAssumption DEF EntriesView, ListInv, NotifiedArePrefix
  <2>4. tags = <<>> \/ first = NULL
    BY DEF NotifyDone
  <2>5. InReach = 0
    <3>1. /\ InReach \in Nat /\ InReach <= Len(tags) /\ notified + InReach <= Len(queue)
          /\ notified \in Nat /\ Len(queue) \in Nat
      BY <1>1 DEF FifoView, EntriesView
    <3>2. CASE tags = <<>>
      BY <2>2, <3>1, <3>2
    <3>3. CASE first = NULL
      BY <2>3, <3>1, <3>3
    <3> QED BY <2>4, <3>2, <3>3
  <2> QED BY <1>1, <2>1, <2>5 DEF FifoView
<1>3. queue' = queue /\ state' = state /\ notified' = notified /\ notified \in Nat
  BY <1>1 DEF NotifyDone, inner, entries, history, EntriesView
<1>4. ASSUME NEW i \in 1..notified PROVE NoteAt(i)' = NoteAt(i)
  BY <1>3 DEF NoteAt
<1>5. FifoState = [notified |-> [i \in 1..notified |-> NoteAt(i)],
                   waiting  |-> SubSeq(queue, notified + 1, Len(queue))]
  <2>1. notified + InReach = notified
    BY <1>2, <1>3
  <2> QED BY <2>1 DEF FifoState
<1>6. FifoState' = [notified |-> [i \in 1..notified |-> NoteAt(i)'],
                    waiting  |-> SubSeq(queue, notified + 1, Len(queue))]
  <2>1. notified' + InReach' = notified
    BY <1>2, <1>3
  <2> QED BY <1>3, <2>1 DEF FifoState
<1> QED BY <1>4, <1>5, <1>6

(* A poll that stays pending changes an entry that is not notified. *)
LEMMA PollPendingIsStutter ==
    ASSUME ListAndCall, ListAndCall', NEW l \in Listeners, NEW w \in Wakers,
           PollPending(l, w)
    PROVE  FifoState' = FifoState
<1>1. /\ EntriesView /\ EntriesView' /\ ListInv /\ ListTyped
      /\ FifoState = EntriesState /\ FifoState' = EntriesState'
  BY ListAndCallViews, QuietFifo, ViewsAfter
     DEF ListAndCall, ListInv, QuietView, PollPending, call
<1>2. /\ queue' = queue /\ notified' = notified /\ notified \in Nat
      /\ \A m \in Listeners \ {l} : state'[m] = state[m]
  BY <1>1 DEF PollPending, inner, ListTyped
<1>3. ASSUME NEW i \in 1..notified
      PROVE  EntryNote(state', queue[i]) = EntryNote(state, queue[i])
  <2>1. queue[i] \in Listeners /\ IsNotified(queue[i]) /\ ~IsNotified(l)
    BY <1>1 DEF EntriesView, ListInv, NotifiedArePrefix, PollPending
  <2>2. queue[i] # l
    BY <2>1
  <2> QED BY <1>2, <2>1, <2>2 DEF EntryNote
<1>4. EntriesState' = EntriesState
  BY <1>2, <1>3 DEF EntriesState
<1> QED BY <1>1, <1>4

(***************************************************************************)
(* The linked list, with the wakers called one at a time from its loop,    *)
(* implements the FIFO: a call takes effect at once, when it decides how   *)
(* many tags its loop may hand out, and the rounds of the loop only carry  *)
(* that out.                                                               *)
(***************************************************************************)
THEOREM ListImplementsFifo == Spec => ImplementsFifo
<1>1. Init => Fifo!Init
  <2> SUFFICES ASSUME Init PROVE FifoState = Fifo!NewEvent
    BY DEF Fifo!Init
  <2>1. EntriesView /\ FifoState = EntriesState
    BY ListAndCallInit, ListAndCallViews, QuietFifo DEF QuietView, Init
  <2>2. notified = 0 /\ Len(queue) = 0
    BY EmptySeq DEF Init
  <2>3. Ops!NewEvent \in Event /\ Ops!NewEvent.notified = <<>> /\ Ops!NewEvent.waiting = <<>>
    BY Ops!NewEventType DEF Event
  <2>4. Len(Ops!NewEvent.notified) = 0 /\ Len(Ops!NewEvent.waiting) = 0
    BY <2>3, EmptySeq
  <2>5. Len(EntriesState.notified) = 0 /\ Len(EntriesState.waiting) = 0
    BY <2>1, <2>2 DEF EntriesView
  <2>6. EntriesState = Ops!NewEvent
    <3>1. EntriesState \in Event
      BY <2>1 DEF EntriesView
    <3> QED BY <2>3, <2>4, <2>5, <3>1, SameEvent
  <2> QED BY <2>1, <2>6, FifoOperators
<1>2. ListAndCall /\ ListAndCall' => CallsActOnFifo
  BY CallsAreCalls
<1>3. ListAndCall /\ ListAndCall' /\ [Next]_vars => [Fifo!Next]_FifoState
  <2> SUFFICES ASSUME ListAndCall, ListAndCall', [Next]_vars
               PROVE  Fifo!Next \/ FifoState' = FifoState
    OBVIOUS
  <2>1. CallsActOnFifo
    BY <1>2
  <2>2. ASSUME NEW l \in Listeners, Listen(l) \/ PollReady(l) \/ DropListener(l)
        PROVE  Fifo!Next
    BY <2>1, <2>2 DEF CallsActOnFifo, Fifo!Next
  <2>3. ASSUME NEW l \in Listeners, NEW w \in Wakers, PollInsert(l, w)
        PROVE  Fifo!Next
    BY <2>1, <2>3 DEF CallsActOnFifo, Fifo!Next
  <2>4. ASSUME NEW ts \in Notifications, NEW add \in BOOLEAN, NotifyEvent(ts, add)
        PROVE  Fifo!Next
    <3>1. Fifo!NotifyEvent(ts, add) /\ ts \in Fifo!Notifications
      BY <2>1, <2>4 DEF CallsActOnFifo, Notifications, Fifo!Notifications
    <3> QED BY <3>1 DEF Fifo!Next
  <2>5. UNCHANGED vars => FifoState' = FifoState
    BY DEF vars, inner, entries, call, history, FifoState, NoteAt, InReach
  <2> QED BY <2>2, <2>3, <2>4, <2>5, PollPendingIsStutter, NotifyFirstIsStutter,
             NotifyDoneIsStutter
          DEF Next
<1> QED BY <1>1, <1>2, <1>3, ListAndCallInvariant, PTL DEF Spec, ImplementsFifo, Fifo!Spec

-----------------------------------------------------------------------------
(* The entry of l is nearer to the head of the list than that of m. *)
Ahead(l, m) == \E i, j \in 1..Len(queue) : i < j /\ queue[i] = l /\ queue[j] = m

(* Two listeners that stay in the list keep their order, and the later one   *)
(* is not notified before the earlier one.                                   *)
NobodyOvertakes ==
    \A l, m \in Listeners :
        Ahead(l, m) /\ in_list'[l] /\ in_list'[m] =>
            /\ Ahead(l, m)'
            /\ IsNotified(m)' => IsNotified(l)'

(* A notification is not taken back, and its tag and flag are not replaced, *)
(* while its listener stays in the list.                                    *)
NotesAreFinal ==
    \A l \in Listeners :
        in_list[l] /\ IsNotified(l) /\ in_list'[l] => state'[l] = state[l]

(* The removal of another entry does not bring one past the other. *)
LEMMA UnlinkKeepsOrder ==
    ASSUME ListInv, NEW u \in Listeners, in_list[u], Unlink(u),
           NEW l \in Listeners \ {u}, NEW m \in Listeners \ {u}, Ahead(l, m)
    PROVE  Ahead(l, m)'
<1>1. PICK i, j \in 1..Len(queue) : i < j /\ queue[i] = l /\ queue[j] = m
  BY DEF Ahead
<1> DEFINE k == Position(u)
           Place(x) == IF x < k THEN x ELSE x - 1
<1>2. /\ k \in 1..Len(queue) /\ queue[k] = u /\ Len(queue) \in Nat
      /\ Len(queue') = Len(queue) - 1
      /\ \A x \in 1..(Len(queue) - 1) :
            queue'[x] = IF x < k THEN queue[x] ELSE queue[x + 1]
  BY UnlinkElements, QueueElements DEF ListInv, ListTyped
<1> HIDE DEF k
<1>3. i # k /\ j # k
  BY <1>1, <1>2
<1>4. /\ Place(i) \in 1..Len(queue') /\ queue'[Place(i)] = l
      /\ Place(j) \in 1..Len(queue') /\ queue'[Place(j)] = m
      /\ Place(i) < Place(j)
  BY <1>1, <1>2, <1>3
<1> QED BY <1>4 DEF Ahead

(***************************************************************************)
(* First come, first served: no call moves one listener past another or    *)
(* notifies it first, whatever its count and flag, even in the middle of   *)
(* the loop of Inner::notify; and what a listener was notified with is     *)
(* what its future will return.  The order is that of the pointers, by     *)
(* LinksAreOneList.                                                        *)
(***************************************************************************)
THEOREM FirstComeFirstServed == Spec => [][NobodyOvertakes /\ NotesAreFinal]_vars
<1>1. ASSUME ListAndCall, ListAndCall', Next
      PROVE  NobodyOvertakes
  <2>1. ListInv /\ ListInv' /\ ListTyped /\ Len(queue) \in Nat
    BY <1>1, QueueElements DEF ListAndCall, ListInv, ListTyped
  <2>2. SUFFICES ASSUME NEW l \in Listeners, NEW m \in Listeners,
                        Ahead(l, m), in_list'[l], in_list'[m]
                 PROVE  Ahead(l, m)'
    <3>1. ASSUME NEW l \in Listeners, NEW m \in Listeners, Ahead(l, m)', IsNotified(m)'
          PROVE  IsNotified(l)'
      BY <2>1, <3>1 DEF Ahead, ListInv, NotifiedArePrefix, ListTyped
    <3> QED BY <2>2, <3>1 DEF NobodyOvertakes
  <2>3. ASSUME NEW x \in Listeners, NEW s, InsertEntry(x, s) PROVE Ahead(l, m)'
    <3>1. /\ Len(queue') = Len(queue) + 1
          /\ \A i \in 1..Len(queue) : queue'[i] = queue[i]
      BY <2>1, <2>3, AppendProperties DEF InsertEntry, ListTyped
    <3> QED BY <2>1, <2>2, <3>1 DEF Ahead
  <2>4. ASSUME NEW u \in Listeners, in_list[u], Unlink(u) PROVE Ahead(l, m)'
    <3>1. l # u /\ m # u
      BY <2>1, <2>2, <2>4 DEF Unlink, ListTyped
    <3> QED BY <2>1, <2>2, <2>4, <3>1, UnlinkKeepsOrder
  <2>5. CASE queue' = queue
    BY <2>2, <2>5 DEF Ahead
  <2> QED BY <1>1, <2>3, <2>4, <2>5
          DEF Next, Listen, PollInsert, PollPending, PollReady, DropListener,
              NotifyEvent, NotifyFirst, NotifyDone, history
<1>2. ASSUME ListAndCall, Next
      PROVE  NotesAreFinal
  <2>1. /\ ListInv /\ CallInv
        /\ state \in [Listeners -> State] /\ in_list \in [Listeners -> BOOLEAN]
    BY <1>2 DEF ListAndCall, ListInv, ListTyped
  <2>2. SUFFICES ASSUME NEW l \in Listeners, in_list[l], IsNotified(l), in_list'[l]
                 PROVE  state'[l] = state[l]
    BY DEF NotesAreFinal
  <2>3. ASSUME NEW x \in Listeners, NEW s, ~in_list[x], InsertEntry(x, s)
        PROVE  state'[l] = state[l]
    BY <2>1, <2>2, <2>3 DEF InsertEntry
  <2>4. ASSUME NEW u \in Listeners, Unlink(u) PROVE state'[l] = state[l]
    BY <2>1, <2>2, <2>4 DEF Unlink
  <2>5. ASSUME NEW x \in Listeners, NEW w \in Wakers, PollPending(x, w)
        PROVE  state'[l] = state[l]
    BY <2>1, <2>2, <2>5 DEF PollPending
  <2>6. ASSUME NotifyFirst PROVE state'[l] = state[l]
    <3>1. /\ first = queue[notified + 1] /\ notified < Len(queue)
          /\ Len(queue) \in Nat /\ notified \in Nat
      BY <2>1, <2>6, NotifyFirstKeepsList, QueueElements DEF ListInv, ListTyped
    <3>2. ~IsNotified(first)
      BY <2>1, <3>1 DEF ListInv, NotifiedArePrefix
    <3> QED BY <2>1, <2>2, <2>6, <3>2 DEF NotifyFirst
  <2>7. CASE UNCHANGED entries
    BY <2>7 DEF entries
  <2> QED BY <1>2, <2>3, <2>4, <2>5, <2>6, <2>7
          DEF Next, Listen, PollInsert, PollReady, DropListener, NotifyEvent, NotifyDone
<1> QED BY <1>1, <1>2, ListAndCallInvariant, PTL DEF Spec
=============================================================================
