--------------------------- MODULE EventOpsProofs ---------------------------
(***************************************************************************)
(* Facts about the operators of EventOps, for every set of listeners and   *)
(* tags, that the proofs about the components cite.                        *)
(***************************************************************************)
EXTENDS EventOps, SequenceTheorems, TLAPS

(* No note of the event is `additional`, so notify(1) counts them all. *)
NoneAdditional(e) == \A i \in 1..Len(e.notified) : ~e.notified[i].additional

(* Every note of the event is `additional`. *)
AllAdditional(e) == \A i \in 1..Len(e.notified) : e.notified[i].additional

(* Removing one entry of a sequence leaves the others, in order. *)
LEMMA RemoveAtProperties ==
    ASSUME NEW S, NEW s \in Seq(S), NEW i \in 1..Len(s)
    PROVE  /\ RemoveAt(s, i) \in Seq(S)
           /\ Len(RemoveAt(s, i)) = Len(s) - 1
           /\ \A j \in 1..(Len(s) - 1) :
                 RemoveAt(s, i)[j] = IF j < i THEN s[j] ELSE s[j + 1]
<1> DEFINE a == SubSeq(s, 1, i - 1)
           b == SubSeq(s, i + 1, Len(s))
<1>1. /\ Len(s) \in Nat /\ i \in Nat
      /\ \A j \in 1..(i - 1) : s[j] \in S
      /\ \A j \in (i + 1)..Len(s) : s[j] \in S
  BY LenProperties, ElementOfSeq
<1>2. /\ a \in Seq(S) /\ Len(a) = i - 1
      /\ \A j \in 1..(i - 1) : a[j] = s[j]
  BY <1>1, SubSeqProperties
<1>3. /\ b \in Seq(S) /\ Len(b) = Len(s) - i
      /\ \A j \in 1..(Len(s) - i) : b[j] = s[i + j]
  <2>1. /\ b \in Seq(S)
        /\ Len(b) = (IF i + 1 <= Len(s) THEN Len(s) - (i + 1) + 1 ELSE 0)
        /\ \A j \in 1..(Len(s) - (i + 1) + 1) : b[j] = s[(i + 1) + j - 1]
    BY <1>1, SubSeqProperties
  <2> HIDE DEF b
  <2> QED BY <2>1, <1>1
<1>4. RemoveAt(s, i) = a \o b
  BY DEF RemoveAt
<1> HIDE DEF a, b
<1>5. /\ a \o b \in Seq(S)
      /\ Len(a \o b) = Len(a) + Len(b)
      /\ \A j \in 1..(Len(a) + Len(b)) :
            (a \o b)[j] = IF j <= Len(a) THEN a[j] ELSE b[j - Len(a)]
  BY <1>2, <1>3, ConcatProperties
<1> QED
  BY <1>1, <1>2, <1>3, <1>4, <1>5

(* How many entries a notification reaches. *)
LEMMA ReachBounds ==
    ASSUME NEW L, NEW T, NEW e \in EventOf(L, T), NEW n \in Nat, NEW add \in BOOLEAN
    PROVE  /\ Reach(e, n, add) \in Nat
           /\ Reach(e, n, add) <= n
           /\ Reach(e, n, add) <= Len(e.waiting)
           /\ ~add /\ n >= 1 /\ e.notified = <<>> /\ e.waiting # <<>>
                => Reach(e, n, add) >= 1
<1>1. e.notified \in Seq(NoteOf(L, T)) /\ e.waiting \in Seq(L)
  BY DEF EventOf
<1>2. /\ Len(e.notified) \in Nat /\ Len(e.waiting) \in Nat
      /\ e.notified = <<>> => Len(e.notified) = 0
      /\ e.waiting # <<>> => Len(e.waiting) >= 1
  BY <1>1, LenProperties, EmptySeq
<1> QED
  BY <1>2 DEF Reach

(* The entries a notification makes are notes. *)
LEMMA NotesType ==
    ASSUME NEW L, NEW T, NEW e \in EventOf(L, T), NEW tags \in Seq(T),
           NEW add \in BOOLEAN, NEW k \in Nat,
           k <= Len(tags), k <= Len(e.waiting)
    PROVE  /\ Notes(e, tags, add, k) \in Seq(NoteOf(L, T))
           /\ Len(Notes(e, tags, add, k)) = k
<1> DEFINE n == Notes(e, tags, add, k)
<1>1. e.waiting \in Seq(L)
  BY DEF EventOf
<1>2. Len(tags) \in Nat /\ Len(e.waiting) \in Nat
  BY <1>1, LenProperties
<1>3. \A i \in 1..k : tags[i] \in T /\ e.waiting[i] \in L
  BY <1>1, <1>2, ElementOfSeq
<1>4. n \in [1..k -> NoteOf(L, T)]
  BY <1>3 DEF Notes, NoteOf
<1>5. n \in Seq(NoteOf(L, T))
  BY <1>4, SeqDef
<1>6. DOMAIN n = 1..k
  BY <1>4
<1>7. Len(n) = k
  BY <1>5, <1>6, LenProperties
<1> QED BY <1>5, <1>7

(* What is left asleep by a notification is the end of the list. *)
LEMMA NotifyType ==
    ASSUME NEW L, NEW T, NEW e \in EventOf(L, T), NEW tags \in Seq(T),
           NEW add \in BOOLEAN
    PROVE  /\ Notify(e, tags, add) \in EventOf(L, T)
           /\ Len(Notify(e, tags, add).notified)
                = Len(e.notified) + Reach(e, Len(tags), add)
           /\ Len(Notify(e, tags, add).waiting)
                = Len(e.waiting) - Reach(e, Len(tags), add)
<1> DEFINE k == Reach(e, Len(tags), add)
           n == Notes(e, tags, add, k)
           w == SubSeq(e.waiting, k + 1, Len(e.waiting))
<1>1. e.notified \in Seq(NoteOf(L, T)) /\ e.waiting \in Seq(L)
  BY DEF EventOf
<1>2. Len(tags) \in Nat /\ Len(e.waiting) \in Nat
  BY <1>1, LenProperties
<1>3. k \in Nat /\ k <= Len(tags) /\ k <= Len(e.waiting)
  BY <1>2, ReachBounds
<1>4. n \in Seq(NoteOf(L, T)) /\ Len(n) = k
  BY <1>3, NotesType
<1>5. w \in Seq(L) /\ Len(w) = Len(e.waiting) - k
  <2>1. \A i \in (k + 1)..Len(e.waiting) : e.waiting[i] \in L
    BY <1>1, <1>2, <1>3, ElementOfSeq
  <2>2. /\ w \in Seq(L)
        /\ Len(w) = (IF k + 1 <= Len(e.waiting) THEN Len(e.waiting) - (k + 1) + 1 ELSE 0)
    <3> HIDE DEF k
    <3> QED BY <1>2, <1>3, <2>1, SubSeqProperties
  <2> HIDE DEF k, w
  <2> QED BY <1>2, <1>3, <2>2
<1>6. /\ e.notified \o n \in Seq(NoteOf(L, T))
      /\ Len(e.notified \o n) = Len(e.notified) + Len(n)
  BY <1>1, <1>4, ConcatProperties
<1>7. Notify(e, tags, add) = [notified |-> e.notified \o n, waiting |-> w]
  BY DEF Notify
<1> HIDE DEF n, w
<1> QED BY <1>4, <1>5, <1>6, <1>7 DEF EventOf

(* A listener that is notified has an index among the notes. *)
LEMMA NotifiedIndexProperties ==
    ASSUME NEW L, NEW T, NEW e \in EventOf(L, T), NEW l, IsNotified(e, l)
    PROVE  /\ NotifiedIndex(e, l) \in 1..Len(e.notified)
           /\ e.notified[NotifiedIndex(e, l)].who = l
           /\ Note(e, l) \in NoteOf(L, T)
<1>1. \E i \in 1..Len(e.notified) : e.notified[i].who = l
  BY DEF IsNotified
<1>2. /\ NotifiedIndex(e, l) \in 1..Len(e.notified)
      /\ e.notified[NotifiedIndex(e, l)].who = l
  BY <1>1 DEF NotifiedIndex
<1>3. e.notified \in Seq(NoteOf(L, T))
  BY DEF EventOf
<1> QED BY <1>2, <1>3, ElementOfSeq DEF Note

(* A listener that is asleep has an index among the waiting entries. *)
LEMMA WaitingIndexProperties ==
    ASSUME NEW e, NEW l, IsWaiting(e, l)
    PROVE  /\ WaitingIndex(e, l) \in 1..Len(e.waiting)
           /\ e.waiting[WaitingIndex(e, l)] = l
  BY DEF IsWaiting, WaitingIndex

(* Taking a notification removes one note and wakes nobody. *)
LEMMA TakeType ==
    ASSUME NEW L, NEW T, NEW e \in EventOf(L, T), NEW l, IsNotified(e, l)
    PROVE  /\ Take(e, l) \in EventOf(L, T)
           /\ Take(e, l).notified = RemoveAt(e.notified, NotifiedIndex(e, l))
           /\ Take(e, l).waiting = e.waiting
           /\ Len(Take(e, l).notified) = Len(e.notified) - 1
<1>1. e.notified \in Seq(NoteOf(L, T)) /\ e.waiting \in Seq(L)
  BY DEF EventOf
<1>2. NotifiedIndex(e, l) \in 1..Len(e.notified)
  BY NotifiedIndexProperties
<1>3. /\ RemoveAt(e.notified, NotifiedIndex(e, l)) \in Seq(NoteOf(L, T))
      /\ Len(RemoveAt(e.notified, NotifiedIndex(e, l))) = Len(e.notified) - 1
  BY <1>1, <1>2, RemoveAtProperties
<1> QED BY <1>1, <1>3 DEF Take, EventOf

(* A sleeping listener that is dropped removes itself only. *)
LEMMA LeaveType ==
    ASSUME NEW L, NEW T, NEW e \in EventOf(L, T), NEW l, IsWaiting(e, l)
    PROVE  /\ Leave(e, l) \in EventOf(L, T)
           /\ Leave(e, l).notified = e.notified
           /\ Leave(e, l).waiting = RemoveAt(e.waiting, WaitingIndex(e, l))
           /\ Len(Leave(e, l).waiting) = Len(e.waiting) - 1
<1>1. e.notified \in Seq(NoteOf(L, T)) /\ e.waiting \in Seq(L)
  BY DEF EventOf
<1>2. WaitingIndex(e, l) \in 1..Len(e.waiting)
  BY WaitingIndexProperties
<1>3. /\ RemoveAt(e.waiting, WaitingIndex(e, l)) \in Seq(L)
      /\ Len(RemoveAt(e.waiting, WaitingIndex(e, l))) = Len(e.waiting) - 1
  BY <1>1, <1>2, RemoveAtProperties
<1> QED BY <1>1, <1>3 DEF Leave, EventOf

(* A new entry keeps the type of the event and is its last sleeper. *)
LEMMA InsertType ==
    ASSUME NEW L, NEW T, NEW e \in EventOf(L, T), NEW l \in L
    PROVE  /\ Insert(e, l) \in EventOf(L, T)
           /\ Insert(e, l).notified = e.notified
           /\ Insert(e, l).waiting = Append(e.waiting, l)
<1>1. Append(e.waiting, l) \in Seq(L)
  BY AppendProperties DEF EventOf
<1> QED BY <1>1 DEF Insert, EventOf

(* A new event has no entries, of whatever type. *)
LEMMA NewEventType ==
    ASSUME NEW L, NEW T
    PROVE  /\ NewEvent \in EventOf(L, T)
           /\ NewEvent.notified = <<>> /\ NewEvent.waiting = <<>>
           /\ NoneAdditional(NewEvent) /\ AllAdditional(NewEvent)
<1>1. NewEvent.notified = <<>> /\ NewEvent.waiting = <<>>
  BY DEF NewEvent
<1>2. NewEvent \in EventOf(L, T)
  BY EmptySeq DEF NewEvent, EventOf
<1>3. Len(<<>>) = 0
  BY EmptySeq
<1> QED BY <1>1, <1>2, <1>3 DEF NoneAdditional, AllAdditional

(* The tag of one note is a notification of one. *)
LEMMA SingletonTag ==
    ASSUME NEW T, NEW t \in T
    PROVE  <<t>> \in Seq(T) /\ Len(<<t>>) = 1
  OBVIOUS

(* Passing a note on keeps the type of the event. *)
LEMMA PassType ==
    ASSUME NEW L, NEW T, NEW e \in EventOf(L, T), NEW note \in NoteOf(L, T)
    PROVE  Pass(e, note) \in EventOf(L, T)
<1>1. note.tag \in T /\ note.additional \in BOOLEAN
  BY DEF NoteOf
<1>2. <<note.tag>> \in Seq(T)
  BY <1>1, SingletonTag
<1> QED BY <1>1, <1>2, NotifyType DEF Pass

(* Dropping a listener keeps the type of the event, whatever its state. *)
LEMMA CancelType ==
    ASSUME NEW L, NEW T, NEW e \in EventOf(L, T), NEW l
    PROVE  Cancel(e, l) \in EventOf(L, T)
<1>1. CASE IsNotified(e, l)
  <2>1. Take(e, l) \in EventOf(L, T) /\ Note(e, l) \in NoteOf(L, T)
    BY <1>1, TakeType, NotifiedIndexProperties
  <2> QED BY <1>1, <2>1, PassType DEF Cancel
<1>2. CASE ~IsNotified(e, l) /\ IsWaiting(e, l)
  BY <1>2, LeaveType DEF Cancel
<1>3. CASE ~IsNotified(e, l) /\ ~IsWaiting(e, l)
  BY <1>3 DEF Cancel
<1> QED BY <1>1, <1>2, <1>3

(* notify(1) keeps the type of an event without data. *)
LEMMA WakeType ==
    ASSUME NEW L, NEW e \in EventOf(L, {Unit})
    PROVE  Wake(e) \in EventOf(L, {Unit})
<1>1. <<Unit>> \in Seq({Unit})
  OBVIOUS
<1> QED BY <1>1, NotifyType DEF Wake

(***************************************************************************)
(* A notification of one or more leaves nobody asleep unless somebody is   *)
(* awake.                                                                  *)
(***************************************************************************)
LEMMA NotifyWakesSomeone ==
    ASSUME NEW L, NEW T, NEW e \in EventOf(L, T), NEW tags \in Seq(T),
           NEW add \in BOOLEAN, tags # <<>>,
           Notify(e, tags, add).waiting # <<>>
    PROVE  Notify(e, tags, add).notified # <<>>
<1> DEFINE f == Notify(e, tags, add)
           k == Reach(e, Len(tags), add)
<1>1. /\ f \in EventOf(L, T)
      /\ Len(f.notified) = Len(e.notified) + k
      /\ Len(f.waiting) = Len(e.waiting) - k
  BY NotifyType
<1>2. /\ e.notified \in Seq(NoteOf(L, T)) /\ e.waiting \in Seq(L)
      /\ f.notified \in Seq(NoteOf(L, T)) /\ f.waiting \in Seq(L)
  <2> HIDE DEF f
  <2> QED BY <1>1 DEF EventOf
<1>3. /\ Len(e.notified) \in Nat /\ Len(e.waiting) \in Nat
      /\ Len(f.waiting) >= 1 /\ Len(tags) \in Nat /\ Len(tags) >= 1
      /\ f.notified = <<>> => Len(f.notified) = 0
  <2> HIDE DEF f
  <2>1. f.waiting # <<>>
    BY DEF f
  <2> QED BY <1>2, <2>1, LenProperties, EmptySeq
<1>4. Len(e.notified) = 0 => k >= 1
  <2>1. ASSUME Len(e.notified) = 0 PROVE k >= 1
    <3>1. Len(e.waiting) >= 1
      BY <1>1, <1>3, ReachBounds
    <3> QED BY <1>3, <2>1, <3>1 DEF Reach
  <2> QED BY <2>1
<1>5. k \in Nat
  BY <1>3, ReachBounds
<1> HIDE DEF f, k
<1>6. Len(f.notified) # 0
  BY <1>1, <1>3, <1>4, <1>5
<1> QED BY <1>3, <1>6 DEF f

(* A dropped listener that was woken wakes another one, if there is one. *)
LEMMA CancelKeepsSomeoneAwake ==
    ASSUME NEW L, NEW T, NEW e \in EventOf(L, T), NEW l,
           e.waiting # <<>> => e.notified # <<>>
    PROVE  Cancel(e, l).waiting # <<>> => Cancel(e, l).notified # <<>>
<1>1. CASE IsNotified(e, l)
  <2> DEFINE note == Note(e, l)
             f == Take(e, l)
  <2>1. f \in EventOf(L, T) /\ note \in NoteOf(L, T)
    BY <1>1, TakeType, NotifiedIndexProperties
  <2>2. note.tag \in T /\ note.additional \in BOOLEAN
    BY <2>1 DEF NoteOf
  <2> HIDE DEF note, f
  <2>3. <<note.tag>> \in Seq(T) /\ <<note.tag>> # <<>>
    BY <2>2
  <2>4. Notify(f, <<note.tag>>, note.additional).waiting # <<>>
          => Notify(f, <<note.tag>>, note.additional).notified # <<>>
    BY <2>1, <2>2, <2>3, NotifyWakesSomeone
  <2>5. Cancel(e, l) = Notify(f, <<note.tag>>, note.additional)
    BY <1>1 DEF Cancel, Pass, f, note
  <2> QED BY <2>4, <2>5
<1>2. CASE ~IsNotified(e, l) /\ IsWaiting(e, l)
  <2>1. Cancel(e, l) = Leave(e, l) /\ Leave(e, l).notified = e.notified
    BY <1>2, LeaveType DEF Cancel
  <2>2. e.waiting \in Seq(L)
    BY DEF EventOf
  <2>3. e.waiting # <<>>
    BY <1>2, <2>2, LenProperties, EmptySeq DEF IsWaiting
  <2> QED BY <2>1, <2>3
<1>3. CASE ~IsNotified(e, l) /\ ~IsWaiting(e, l)
  BY <1>3 DEF Cancel
<1> QED BY <1>1, <1>2, <1>3

(* Where the entries go: the old notes stay in front, the first k sleepers     *)
(* get the tags in order, and the other sleepers keep their order.             *)
LEMMA NotifyNotes ==
    ASSUME NEW L, NEW T, NEW e \in EventOf(L, T), NEW tags \in Seq(T),
           NEW add \in BOOLEAN
    PROVE  LET f == Notify(e, tags, add)
           IN  /\ \A i \in 1..Len(e.notified) : f.notified[i] = e.notified[i]
               /\ \A i \in 1..Reach(e, Len(tags), add) :
                     f.notified[Len(e.notified) + i]
                       = [who |-> e.waiting[i], tag |-> tags[i], additional |-> add]
               /\ \A i \in 1..Len(f.waiting) :
                     f.waiting[i] = e.waiting[i + Reach(e, Len(tags), add)]
<1> DEFINE k == Reach(e, Len(tags), add)
           n == Notes(e, tags, add, k)
           w == SubSeq(e.waiting, k + 1, Len(e.waiting))
           f == Notify(e, tags, add)
<1>1. e.notified \in Seq(NoteOf(L, T)) /\ e.waiting \in Seq(L)
  BY DEF EventOf
<1>2. Len(tags) \in Nat /\ Len(e.waiting) \in Nat /\ Len(e.notified) \in Nat
  BY <1>1, LenProperties
<1>3. k \in Nat /\ k <= Len(tags) /\ k <= Len(e.waiting)
  BY <1>2, ReachBounds
<1>4. n \in Seq(NoteOf(L, T)) /\ Len(n) = k
  BY <1>3, NotesType
<1>5. f.notified = e.notified \o n /\ f.waiting = w
  BY DEF Notify
<1>6. Len(f.waiting) = Len(e.waiting) - k
  BY NotifyType
<1>7. \A i \in 1..k :
        n[i] = [who |-> e.waiting[i], tag |-> tags[i], additional |-> add]
  BY DEF Notes
<1>8. \A i \in 1..(Len(e.waiting) - k) : w[i] = e.waiting[i + k]
  <2>1. \A i \in (k + 1)..Len(e.waiting) : e.waiting[i] \in L
    BY <1>1, <1>2, <1>3, ElementOfSeq
  <2>2. \A i \in 1..(Len(e.waiting) - (k + 1) + 1) : w[i] = e.waiting[(k + 1) + i - 1]
    <3> HIDE DEF k
    <3> QED BY <1>2, <1>3, <2>1, SubSeqProperties
  <2> HIDE DEF k, w
  <2>3. ASSUME NEW i \in 1..(Len(e.waiting) - k) PROVE w[i] = e.waiting[i + k]
    <3>1. i \in 1..(Len(e.waiting) - (k + 1) + 1) /\ (k + 1) + i - 1 = i + k
      BY <1>2, <1>3
    <3> QED BY <2>2, <3>1
  <2> QED BY <2>3
<1> HIDE DEF k, n, w, f
<1>9. \A i \in 1..(Len(e.notified) + Len(n)) :
        (e.notified \o n)[i] = IF i <= Len(e.notified) THEN e.notified[i]
                                                      ELSE n[i - Len(e.notified)]
  BY <1>1, <1>4, ConcatProperties
<1>10. \A i \in 1..Len(e.notified) : f.notified[i] = e.notified[i]
  BY <1>2, <1>3, <1>4, <1>5, <1>9
<1>11. ASSUME NEW i \in 1..k
       PROVE  f.notified[Len(e.notified) + i]
                = [who |-> e.waiting[i], tag |-> tags[i], additional |-> add]
  <2>1. /\ Len(e.notified) + i \in 1..(Len(e.notified) + Len(n))
        /\ ~(Len(e.notified) + i <= Len(e.notified))
        /\ Len(e.notified) + i - Len(e.notified) = i
    BY <1>2, <1>3, <1>4
  <2>2. f.notified[Len(e.notified) + i] = n[i]
    BY <1>5, <1>9, <2>1
  <2> QED BY <1>7, <2>2
<1> QED BY <1>5, <1>6, <1>8, <1>10, <1>11 DEF k, f

(* Two events with the same entries are the same event. *)
LEMMA SameEvent ==
    ASSUME NEW L, NEW T, NEW e \in EventOf(L, T), NEW f \in EventOf(L, T),
           Len(e.notified) = Len(f.notified),
           \A i \in 1..Len(e.notified) : e.notified[i] = f.notified[i],
           Len(e.waiting) = Len(f.waiting),
           \A i \in 1..Len(e.waiting) : e.waiting[i] = f.waiting[i]
    PROVE  e = f
<1>1. /\ e.notified \in Seq(NoteOf(L, T)) /\ e.waiting \in Seq(L)
      /\ f.notified \in Seq(NoteOf(L, T)) /\ f.waiting \in Seq(L)
  BY DEF EventOf
<1>2. e.notified = f.notified /\ e.waiting = f.waiting
  BY <1>1, SeqEqual
<1> QED BY <1>2 DEF EventOf

(* A notification that reaches nobody changes nothing. *)
LEMMA NotifyNobody ==
    ASSUME NEW L, NEW T, NEW e \in EventOf(L, T), NEW tags \in Seq(T),
           NEW add \in BOOLEAN, Reach(e, Len(tags), add) = 0
    PROVE  Notify(e, tags, add) = e
<1> DEFINE f == Notify(e, tags, add)
<1>1. Len(e.notified) \in Nat /\ Len(e.waiting) \in Nat
  BY LenProperties DEF EventOf
<1>2. f \in EventOf(L, T) /\ Len(f.notified) = Len(e.notified) /\ Len(f.waiting) = Len(e.waiting)
  <2>1. /\ f \in EventOf(L, T)
        /\ Len(f.notified) = Len(e.notified) + Reach(e, Len(tags), add)
        /\ Len(f.waiting) = Len(e.waiting) - Reach(e, Len(tags), add)
    BY NotifyType
  <2> HIDE DEF f
  <2> QED BY <1>1, <2>1
<1>3. /\ \A i \in 1..Len(e.notified) : f.notified[i] = e.notified[i]
      /\ \A i \in 1..Len(f.waiting) : f.waiting[i] = e.waiting[i + 0]
  BY NotifyNotes
<1> HIDE DEF f
<1>4. \A i \in 1..Len(f.waiting) : f.waiting[i] = e.waiting[i]
  BY <1>1, <1>2, <1>3
<1>5. f = e
  BY <1>2, <1>3, <1>4, SameEvent
<1> QED BY <1>5 DEF f

(* A note of an event after a notification is an old one or has its flag. *)
LEMMA NotifyFlags ==
    ASSUME NEW L, NEW T, NEW e \in EventOf(L, T), NEW tags \in Seq(T),
           NEW add \in BOOLEAN, NEW i \in 1..Len(Notify(e, tags, add).notified)
    PROVE  \/ \E j \in 1..Len(e.notified) :
                 Notify(e, tags, add).notified[i] = e.notified[j]
           \/ Notify(e, tags, add).notified[i].additional = add
<1> DEFINE f == Notify(e, tags, add)
           k == Reach(e, Len(tags), add)
<1>1. Len(f.notified) = Len(e.notified) + k
  BY NotifyType
<1>2. Len(e.notified) \in Nat /\ k \in Nat
  BY LenProperties, ReachBounds DEF EventOf
<1>3. \A j \in 1..Len(e.notified) : f.notified[j] = e.notified[j]
  BY NotifyNotes
<1>4. \A j \in 1..k :
        f.notified[Len(e.notified) + j]
          = [who |-> e.waiting[j], tag |-> tags[j], additional |-> add]
  BY NotifyNotes
<1>5. i \in 1..Len(f.notified)
  OBVIOUS
<1> HIDE DEF f, k
<1>6. CASE i <= Len(e.notified)
  BY <1>1, <1>2, <1>3, <1>5, <1>6 DEF f
<1>7. CASE i > Len(e.notified)
  <2>1. PICK j \in 1..k : Len(e.notified) + j = i
    <3>1. i - Len(e.notified) \in 1..k /\ Len(e.notified) + (i - Len(e.notified)) = i
      BY <1>1, <1>2, <1>5, <1>7
    <3> QED BY <3>1
  <2>2. f.notified[i] = [who |-> e.waiting[j], tag |-> tags[j], additional |-> add]
    BY <1>4, <2>1
  <2> QED BY <2>2 DEF f
<1> QED BY <1>1, <1>2, <1>5, <1>6, <1>7

(* The notes left by a listener that takes its own were there before. *)
LEMMA TakeNotes ==
    ASSUME NEW L, NEW T, NEW e \in EventOf(L, T), NEW l, IsNotified(e, l),
           NEW i \in 1..Len(Take(e, l).notified)
    PROVE  \E j \in 1..Len(e.notified) : Take(e, l).notified[i] = e.notified[j]
<1> DEFINE n == NotifiedIndex(e, l)
<1>1. e.notified \in Seq(NoteOf(L, T)) /\ Len(e.notified) \in Nat
  BY LenProperties DEF EventOf
<1>2. n \in 1..Len(e.notified)
  BY NotifiedIndexProperties
<1>3. i \in 1..(Len(e.notified) - 1)
  BY TakeType
<1>4. Take(e, l).notified = RemoveAt(e.notified, n)
  BY TakeType
<1> HIDE DEF n
<1>5. RemoveAt(e.notified, n)[i] = IF i < n THEN e.notified[i] ELSE e.notified[i + 1]
  BY <1>1, <1>2, <1>3, RemoveAtProperties
<1> QED BY <1>1, <1>2, <1>3, <1>4, <1>5

(* A note of an event after a listener was dropped has the flag of a note    *)
(* before: what is passed on keeps its flag.                                 *)
LEMMA CancelFlags ==
    ASSUME NEW L, NEW T, NEW e \in EventOf(L, T), NEW l,
           NEW i \in 1..Len(Cancel(e, l).notified)
    PROVE  \E j \in 1..Len(e.notified) :
              Cancel(e, l).notified[i].additional = e.notified[j].additional
<1>1. CASE IsNotified(e, l)
  <2> DEFINE n == NotifiedIndex(e, l)
             f == Take(e, l)
             note == Note(e, l)
             add == note.additional
             tags == <<note.tag>>
  <2>1. f \in EventOf(L, T) /\ note \in NoteOf(L, T)
    BY <1>1, TakeType, NotifiedIndexProperties
  <2>2. n \in 1..Len(e.notified) /\ add = e.notified[n].additional
    BY <1>1, NotifiedIndexProperties DEF Note
  <2>3. Cancel(e, l) = Notify(f, tags, add)
    BY <1>1 DEF Cancel, Pass
  <2>4. \A j \in 1..Len(f.notified) :
          \E m \in 1..Len(e.notified) : f.notified[j] = e.notified[m]
    BY <1>1, TakeNotes
  <2>5. note.tag \in T /\ add \in BOOLEAN
    BY <2>1 DEF NoteOf
  <2> HIDE DEF n, f, note, add
  <2>6. tags \in Seq(T)
    BY <2>5, SingletonTag
  <2> HIDE DEF tags
  <2>7. \/ \E j \in 1..Len(f.notified) : Cancel(e, l).notified[i] = f.notified[j]
        \/ Cancel(e, l).notified[i].additional = add
    BY <2>1, <2>3, <2>5, <2>6, NotifyFlags
  <2> QED BY <2>2, <2>4, <2>7
<1>2. CASE ~IsNotified(e, l) /\ IsWaiting(e, l)
  BY <1>2, LeaveType DEF Cancel
<1>3. CASE ~IsNotified(e, l) /\ ~IsWaiting(e, l)
  BY <1>3 DEF Cancel
<1> QED BY <1>1, <1>2, <1>3

(* A plain notification adds plain notes. *)
LEMMA NotifyNoneAdditional ==
    ASSUME NEW L, NEW T, NEW e \in EventOf(L, T), NEW tags \in Seq(T),
           NEW add \in BOOLEAN, ~add, NoneAdditional(e)
    PROVE  NoneAdditional(Notify(e, tags, add))
  BY NotifyFlags DEF NoneAdditional

(* Taking a note out of plain notes leaves plain notes. *)
LEMMA TakeNoneAdditional ==
    ASSUME NEW L, NEW T, NEW e \in EventOf(L, T), NEW l, IsNotified(e, l),
           NoneAdditional(e)
    PROVE  NoneAdditional(Take(e, l))
  BY TakeNotes DEF NoneAdditional

(* Dropping a listener passes a plain note on as a plain note. *)
LEMMA CancelNoneAdditional ==
    ASSUME NEW L, NEW T, NEW e \in EventOf(L, T), NEW l, NoneAdditional(e)
    PROVE  NoneAdditional(Cancel(e, l))
  BY CancelFlags DEF NoneAdditional

(* A notification with `additional` adds notes of its kind. *)
LEMMA NotifyAllAdditional ==
    ASSUME NEW L, NEW T, NEW e \in EventOf(L, T), NEW tags \in Seq(T),
           NEW add \in BOOLEAN, add, AllAdditional(e)
    PROVE  AllAdditional(Notify(e, tags, add))
  BY NotifyFlags DEF AllAdditional

(* Taking one of such notes leaves such notes. *)
LEMMA TakeAllAdditional ==
    ASSUME NEW L, NEW T, NEW e \in EventOf(L, T), NEW l, IsNotified(e, l),
           AllAdditional(e)
    PROVE  AllAdditional(Take(e, l))
  BY TakeNotes DEF AllAdditional

(* Dropping a listener passes such a note on as one. *)
LEMMA CancelAllAdditional ==
    ASSUME NEW L, NEW T, NEW e \in EventOf(L, T), NEW l, AllAdditional(e)
    PROVE  AllAdditional(Cancel(e, l))
  BY CancelFlags DEF AllAdditional

(* notify(1) adds plain notes. *)
LEMMA WakeNoneAdditional ==
    ASSUME NEW L, NEW e \in EventOf(L, {Unit}), NoneAdditional(e)
    PROVE  NoneAdditional(Wake(e))
<1> DEFINE add == FALSE
           tags == <<Unit>>
<1>1. tags \in Seq({Unit}) /\ add \in BOOLEAN /\ ~add
  OBVIOUS
<1>2. Wake(e) = Notify(e, tags, add)
  BY DEF Wake
<1> HIDE DEF add, tags
<1> QED BY <1>1, <1>2, NotifyNoneAdditional

(* notify(1) leaves nobody asleep unless somebody is awake. *)
LEMMA WakeWakesSomeone ==
    ASSUME NEW L, NEW e \in EventOf(L, {Unit})
    PROVE  Wake(e).waiting # <<>> => Wake(e).notified # <<>>
<1> DEFINE add == FALSE
           tags == <<Unit>>
<1>1. tags \in Seq({Unit}) /\ tags # <<>> /\ add \in BOOLEAN
  OBVIOUS
<1>2. Wake(e) = Notify(e, tags, add)
  BY DEF Wake
<1> HIDE DEF add, tags
<1> QED BY <1>1, <1>2, NotifyWakesSomeone

(* notify(usize::MAX) keeps the type and leaves nobody asleep, with either flag. *)
LEMMA WakeAllWakesEveryone ==
    ASSUME NEW L, NEW T, NEW e \in EventOf(L, T), NEW tag \in T, NEW add \in BOOLEAN
    PROVE  /\ WakeAll(e, tag, add) \in EventOf(L, T)
           /\ WakeAll(e, tag, add).waiting = <<>>
           /\ add /\ AllAdditional(e) => AllAdditional(WakeAll(e, tag, add))
           /\ ~add /\ NoneAdditional(e) => NoneAdditional(WakeAll(e, tag, add))
<1> DEFINE a == Len(e.notified)
           b == Len(e.waiting)
           n == a + b
           tags == [i \in 1..n |-> tag]
           f == Notify(e, tags, add)
<1>1. /\ e.notified \in Seq(NoteOf(L, T)) /\ e.waiting \in Seq(L)
      /\ Len(e.notified) \in Nat /\ Len(e.waiting) \in Nat
  <2>1. e.notified \in Seq(NoteOf(L, T)) /\ e.waiting \in Seq(L)
    BY DEF EventOf
  <2> QED BY <2>1, LenProperties
<1>2. n \in Nat
  <2>1. a \in Nat /\ b \in Nat
    BY <1>1
  <2> HIDE DEF a, b
  <2> QED BY <2>1
<1>3. tags \in Seq(T) /\ Len(tags) = n
  <2> HIDE DEF n
  <2>1. tags \in [1..n -> T]
    OBVIOUS
  <2>2. tags \in Seq(T) /\ DOMAIN tags = 1..n
    BY <1>2, <2>1, SeqDef
  <2> QED BY <1>2, <2>2, LenProperties
<1>4. WakeAll(e, tag, add) = f
  BY DEF WakeAll
<1>5. Reach(e, n, add) = Len(e.waiting)
  <2>1. a \in Nat /\ b \in Nat
    BY <1>1
  <2>2. Reach(e, n, add) =
          LET wanted == IF add THEN n ELSE n - a
          IN  IF wanted <= 0 THEN 0 ELSE IF wanted <= b THEN wanted ELSE b
    BY DEF Reach
  <2> HIDE DEF a, b
  <2>3. Reach(e, n, add) = b
    BY <2>1, <2>2
  <2> QED BY <2>3 DEF b
<1> HIDE DEF tags, n
<1>6. /\ f \in EventOf(L, T)
      /\ Len(f.waiting) = Len(e.waiting) - Reach(e, Len(tags), add)
  BY <1>3, NotifyType
<1>7. f.waiting \in Seq(L) /\ Len(f.waiting) = 0
  <2> HIDE DEF f
  <2> QED BY <1>1, <1>3, <1>5, <1>6 DEF EventOf
<1>8. f.waiting = <<>>
  <2> HIDE DEF f
  <2> QED BY <1>7, EmptySeq
<1>9. /\ add /\ AllAdditional(e) => AllAdditional(f)
      /\ ~add /\ NoneAdditional(e) => NoneAdditional(f)
  BY <1>3, NotifyAllAdditional, NotifyNoneAdditional
<1> HIDE DEF f
<1> QED BY <1>4, <1>6, <1>8, <1>9

(* Where nobody sleeps a notification changes nothing about that. *)
LEMMA NotifyKeepsEveryoneAwake ==
    ASSUME NEW L, NEW T, NEW e \in EventOf(L, T), NEW tags \in Seq(T),
           NEW add \in BOOLEAN, e.waiting = <<>>
    PROVE  Notify(e, tags, add).waiting = <<>>
<1> DEFINE f == Notify(e, tags, add)
<1>1. Len(tags) \in Nat
  BY LenProperties
<1>2. /\ f \in EventOf(L, T)
      /\ Len(f.waiting) = Len(e.waiting) - Reach(e, Len(tags), add)
  BY NotifyType
<1>3. Len(e.waiting) = 0 /\ Reach(e, Len(tags), add) \in Nat
      /\ Reach(e, Len(tags), add) <= Len(e.waiting)
  BY <1>1, ReachBounds, EmptySeq
<1> HIDE DEF f
<1>4. f.waiting \in Seq(L) /\ Len(f.waiting) = 0
  BY <1>2, <1>3 DEF EventOf
<1> QED BY <1>4, EmptySeq DEF f

(* The same of notify(1). *)
LEMMA WakeKeepsEveryoneAwake ==
    ASSUME NEW L, NEW e \in EventOf(L, {Unit}), e.waiting = <<>>
    PROVE  Wake(e).waiting = <<>>
<1> DEFINE add == FALSE
           tags == <<Unit>>
<1>1. tags \in Seq({Unit}) /\ add \in BOOLEAN
  OBVIOUS
<1>2. Wake(e) = Notify(e, tags, add)
  BY DEF Wake
<1> HIDE DEF add, tags
<1> QED BY <1>1, <1>2, NotifyKeepsEveryoneAwake

(* The same of a dropped listener. *)
LEMMA CancelKeepsEveryoneAwake ==
    ASSUME NEW L, NEW T, NEW e \in EventOf(L, T), NEW l, e.waiting = <<>>
    PROVE  Cancel(e, l).waiting = <<>>
<1>1. CASE IsNotified(e, l)
  <2> DEFINE f == Take(e, l)
             note == Note(e, l)
             tags == <<note.tag>>
             add == note.additional
  <2>1. f \in EventOf(L, T) /\ f.waiting = <<>> /\ note \in NoteOf(L, T)
    BY <1>1, TakeType, NotifiedIndexProperties
  <2>2. Cancel(e, l) = Notify(f, tags, add)
    BY <1>1 DEF Cancel, Pass
  <2> HIDE DEF f, note
  <2>3. tags \in Seq(T) /\ add \in BOOLEAN
    BY <2>1, SingletonTag DEF NoteOf
  <2> HIDE DEF tags, add
  <2> QED BY <2>1, <2>2, <2>3, NotifyKeepsEveryoneAwake
<1>2. CASE ~IsNotified(e, l)
  <2>1. ~IsWaiting(e, l)
    BY EmptySeq DEF IsWaiting
  <2> QED BY <1>2, <2>1 DEF Cancel
<1> QED BY <1>1, <1>2

-----------------------------------------------------------------------------
(* The linked list of the code: the notified entries and then the others. *)
Size(e) == Len(e.notified) + Len(e.waiting)
ListenerAt(e, i) ==
    IF i <= Len(e.notified) THEN e.notified[i].who ELSE e.waiting[i - Len(e.notified)]

(* The list holds each listener of S once, and no other. *)
ListHolds(e, S) ==
    /\ \A i \in 1..Size(e) : ListenerAt(e, i) \in S
    /\ \A l \in S : \E i \in 1..Size(e) : ListenerAt(e, i) = l
    /\ \A i, j \in 1..Size(e) : ListenerAt(e, i) = ListenerAt(e, j) => i = j

(* Each position is in one of the two parts of the list. *)
TwoParts(e) ==
    /\ \A i \in 1..Len(e.notified) :
          i \in 1..Size(e) /\ ListenerAt(e, i) = e.notified[i].who
    /\ \A i \in 1..Len(e.waiting) :
          /\ Len(e.notified) + i \in 1..Size(e)
          /\ ListenerAt(e, Len(e.notified) + i) = e.waiting[i]
    /\ \A i \in 1..Size(e) :
          \/ i \in 1..Len(e.notified)
          \/ \E j \in 1..Len(e.waiting) : i = Len(e.notified) + j

(* The lengths of the parts are numbers, and their sum is that of the list. *)
LEMMA ListPositions ==
    ASSUME NEW L, NEW T, NEW e \in EventOf(L, T)
    PROVE  /\ Len(e.notified) \in Nat /\ Len(e.waiting) \in Nat /\ Size(e) \in Nat
           /\ Size(e) = Len(e.notified) + Len(e.waiting)
           /\ TwoParts(e)
<1>1. Len(e.notified) \in Nat /\ Len(e.waiting) \in Nat
  BY LenProperties DEF EventOf
<1> DEFINE n == Len(e.notified)
           m == Len(e.waiting)
<1>2. Size(e) = n + m /\ n \in Nat /\ m \in Nat
  BY <1>1 DEF Size
<1>3. \A i : ListenerAt(e, i) = IF i <= n THEN e.notified[i].who ELSE e.waiting[i - n]
  BY DEF ListenerAt
<1> HIDE DEF n, m
<1>4. \A i \in 1..m : n + i \in 1..(n + m) /\ ~(n + i <= n) /\ (n + i) - n = i
  BY <1>2
<1>5. ASSUME NEW i \in 1..(n + m), ~(i \in 1..n)
      PROVE  \E j \in 1..m : i = n + j
  <2>1. i - n \in 1..m /\ i = n + (i - n)
    BY <1>2, <1>5
  <2> QED BY <2>1
<1>6. \A i \in 1..n : i \in 1..(n + m) /\ i <= n
  BY <1>2
<1>7. n + m \in Nat
  BY <1>2
<1>8. \A i \in 1..n : i \in 1..Size(e) /\ ListenerAt(e, i) = e.notified[i].who
  BY <1>2, <1>3, <1>6
<1>9. \A i \in 1..m : n + i \in 1..Size(e) /\ ListenerAt(e, n + i) = e.waiting[i]
  BY <1>2, <1>3, <1>4
<1>10. \A i \in 1..Size(e) : i \in 1..n \/ \E j \in 1..m : i = n + j
  BY <1>2, <1>5
<1>11. TwoParts(e)
  BY <1>8, <1>9, <1>10 DEF TwoParts, n, m
<1> QED BY <1>1, <1>2, <1>7, <1>11 DEF n, m

(* ListenersAre says the same of the two parts of the list. *)
LEMMA ListenersInList ==
    ASSUME NEW L, NEW T, NEW e \in EventOf(L, T), NEW S
    PROVE  ListenersAre(e, S) <=> ListHolds(e, S)
<1> DEFINE n == Len(e.notified)
           m == Len(e.waiting)
<1>1. /\ n \in Nat /\ m \in Nat
      /\ \A i \in 1..n : i \in 1..Size(e) /\ ListenerAt(e, i) = e.notified[i].who
      /\ \A i \in 1..m : n + i \in 1..Size(e) /\ ListenerAt(e, n + i) = e.waiting[i]
      /\ \A i \in 1..Size(e) : i \in 1..n \/ \E j \in 1..m : i = n + j
  <2>1. n \in Nat /\ m \in Nat /\ TwoParts(e)
    BY ListPositions
  <2> QED BY <2>1 DEF TwoParts
<1>2. /\ \A l : IsNotified(e, l) <=> \E i \in 1..n : ListenerAt(e, i) = l
      /\ \A l : IsWaiting(e, l) <=> \E i \in 1..m : ListenerAt(e, n + i) = l
  BY <1>1 DEF IsNotified, IsWaiting
<1> HIDE DEF n, m
<1>3. \A i \in 1..n, j \in 1..m : i # n + j
  BY <1>1
<1>4. \A i, j \in 1..m : n + i = n + j => i = j
  BY <1>1
<1>5. ASSUME ListenersAre(e, S) PROVE ListHolds(e, S)
  <2>1. /\ \A l \in S : InList(e, l)
        /\ \A i \in 1..n : ListenerAt(e, i) \in S
        /\ \A i \in 1..m : ListenerAt(e, n + i) \in S
        /\ \A i, j \in 1..n : ListenerAt(e, i) = ListenerAt(e, j) => i = j
        /\ \A i, j \in 1..m : ListenerAt(e, n + i) = ListenerAt(e, n + j) => i = j
        /\ \A l \in S : ~(IsNotified(e, l) /\ IsWaiting(e, l))
    BY <1>1, <1>5 DEF ListenersAre, n, m
  <2>2. \A i \in 1..n, j \in 1..m : ListenerAt(e, i) # ListenerAt(e, n + j)
    BY <1>2, <2>1
  <2>3. \A i \in 1..Size(e) : ListenerAt(e, i) \in S
    BY <1>1, <2>1
  <2>4. \A l \in S : \E i \in 1..Size(e) : ListenerAt(e, i) = l
    BY <1>1, <1>2, <2>1 DEF InList
  <2>5. ASSUME NEW i \in 1..Size(e), NEW j \in 1..Size(e),
               ListenerAt(e, i) = ListenerAt(e, j)
        PROVE  i = j
    BY <1>1, <2>1, <2>2, <2>5
  <2> QED BY <2>3, <2>4, <2>5 DEF ListHolds
<1>6. ASSUME ListHolds(e, S) PROVE ListenersAre(e, S)
  <2>1. \A l \in S : InList(e, l)
    <3> SUFFICES ASSUME NEW l \in S PROVE InList(e, l)
      OBVIOUS
    <3>1. PICK i \in 1..Size(e) : ListenerAt(e, i) = l
      BY <1>6 DEF ListHolds
    <3> QED BY <1>1, <1>2, <3>1 DEF InList
  <2>2. /\ \A i \in 1..n : e.notified[i].who \in S
        /\ \A i \in 1..m : e.waiting[i] \in S
    BY <1>1, <1>6 DEF ListHolds
  <2>3. \A i, j \in 1..n : e.notified[i].who = e.notified[j].who => i = j
    BY <1>1, <1>6 DEF ListHolds
  <2>4. \A i, j \in 1..m : e.waiting[i] = e.waiting[j] => i = j
    BY <1>1, <1>4, <1>6 DEF ListHolds
  <2>5. \A l \in S : ~(IsNotified(e, l) /\ IsWaiting(e, l))
    <3> SUFFICES ASSUME NEW l \in S, IsNotified(e, l), IsWaiting(e, l) PROVE FALSE
      OBVIOUS
    <3>1. PICK i \in 1..n : ListenerAt(e, i) = l
      BY <1>2
    <3>2. PICK j \in 1..m : ListenerAt(e, n + j) = l
      BY <1>2
    <3>3. i \in 1..Size(e) /\ n + j \in 1..Size(e)
      BY <1>1
    <3>4. i = n + j
      BY <1>6, <3>1, <3>2, <3>3 DEF ListHolds
    <3> QED BY <1>3, <3>4
  <2> QED BY <2>1, <2>2, <2>3, <2>4, <2>5 DEF ListenersAre, n, m
<1> QED BY <1>5, <1>6

(* A new event has no listener. *)
LEMMA NewEventListeners == ListenersAre(NewEvent, {})
<1>1. NewEvent.notified = <<>> /\ NewEvent.waiting = <<>> /\ Len(<<>>) = 0
  BY EmptySeq DEF NewEvent
<1> QED BY <1>1 DEF ListenersAre

(* An entry that is inserted is one more listener. *)
LEMMA InsertListeners ==
    ASSUME NEW L, NEW T, NEW e \in EventOf(L, T), NEW l \in L,
           NEW S, ListenersAre(e, S), l \notin S
    PROVE  ListenersAre(Insert(e, l), S \cup {l})
<1> DEFINE f == Insert(e, l)
           n == Len(e.notified)
           m == Len(e.waiting)
<1>1. /\ f \in EventOf(L, T) /\ f.notified = e.notified
      /\ f.waiting = Append(e.waiting, l)
  BY InsertType
<1>2. Len(f.waiting) = m + 1
  BY <1>1, AppendProperties DEF EventOf
<1>3. \A i \in 1..m : f.waiting[i] = e.waiting[i]
  BY <1>1, AppendProperties DEF EventOf
<1>4. f.waiting[m + 1] = l
  BY <1>1, AppendProperties DEF EventOf
<1>5. n \in Nat /\ m \in Nat
  BY ListPositions
<1>6. \A i : ListenerAt(e, i) = IF i <= n THEN e.notified[i].who ELSE e.waiting[i - n]
  BY DEF ListenerAt
<1>7. Size(e) = n + m
  BY DEF Size
<1>8. Len(f.notified) = n
  BY <1>1
<1>9. ListHolds(e, S)
  BY ListenersInList
<1> HIDE DEF f, n, m
<1>10. \A i : ListenerAt(f, i) = IF i <= n THEN f.notified[i].who ELSE f.waiting[i - n]
  BY <1>8 DEF ListenerAt
<1>11. Size(f) = n + (m + 1)
  BY <1>2, <1>8 DEF Size
<1>12. ListenerAt(f, n + (m + 1)) = l
  <2>1. ~(n + (m + 1) <= n) /\ (n + (m + 1)) - n = m + 1
    BY <1>5
  <2> QED BY <1>4, <1>10, <2>1
<1>13. ASSUME NEW i \in 1..(n + m) PROVE ListenerAt(f, i) = ListenerAt(e, i)
  <2>1. CASE i <= n
    BY <1>1, <1>6, <1>10, <2>1
  <2>2. CASE ~(i <= n)
    <3>1. i - n \in 1..m
      BY <1>5, <2>2
    <3> QED BY <1>3, <1>6, <1>10, <2>2, <3>1
  <2> QED BY <2>1, <2>2
<1>14. \A i \in 1..(n + (m + 1)) : i \in 1..(n + m) \/ i = n + (m + 1)
  BY <1>5
<1>15. n + (m + 1) \in 1..(n + (m + 1)) /\ \A i \in 1..(n + m) : i \in 1..(n + (m + 1))
  BY <1>5
<1>16. ListHolds(f, S \cup {l})
  BY <1>7, <1>9, <1>11, <1>12, <1>13, <1>14, <1>15 DEF ListHolds
<1> QED BY <1>1, <1>16, ListenersInList DEF f

(* A notification changes entries and moves none: the listeners are the same. *)
LEMMA NotifyListeners ==
    ASSUME NEW L, NEW T, NEW e \in EventOf(L, T), NEW tags \in Seq(T),
           NEW add \in BOOLEAN, NEW S, ListenersAre(e, S)
    PROVE  ListenersAre(Notify(e, tags, add), S)
<1> DEFINE f == Notify(e, tags, add)
           k == Reach(e, Len(tags), add)
           n == Len(e.notified)
           m == Len(e.waiting)
<1>1. /\ f \in EventOf(L, T) /\ Len(f.notified) = n + k /\ Len(f.waiting) = m - k
  BY NotifyType
<1>2. /\ \A i \in 1..n : f.notified[i] = e.notified[i]
      /\ \A i \in 1..k : f.notified[n + i] = [who |-> e.waiting[i], tag |-> tags[i],
                                              additional |-> add]
      /\ \A i \in 1..Len(f.waiting) : f.waiting[i] = e.waiting[i + k]
  BY NotifyNotes
<1>3. n \in Nat /\ m \in Nat /\ Size(e) = n + m
  BY ListPositions
<1>4. k \in Nat /\ k <= m
  BY LenProperties, ReachBounds
<1>5. \A i \in 1..k : f.notified[n + i].who = e.waiting[i]
  <2> HIDE DEF f, k, n
  <2> SUFFICES ASSUME NEW i \in 1..k PROVE f.notified[n + i].who = e.waiting[i]
    OBVIOUS
  <2>1. f.notified[n + i] = [who |-> e.waiting[i], tag |-> tags[i], additional |-> add]
    BY <1>2
  <2> QED BY <2>1
<1>6. \A i : ListenerAt(e, i) = IF i <= n THEN e.notified[i].who ELSE e.waiting[i - n]
  BY DEF ListenerAt
<1>7. ListHolds(e, S)
  BY ListenersInList
<1> HIDE DEF f, k, n, m
<1>8. Size(f) = Size(e)
  <2>1. Size(f) = (n + k) + (m - k)
    BY <1>1 DEF Size
  <2> QED BY <1>3, <1>4, <2>1
<1>9. \A i : ListenerAt(f, i) = IF i <= n + k THEN f.notified[i].who
                                ELSE f.waiting[i - (n + k)]
  BY <1>1 DEF ListenerAt
<1>10. ASSUME NEW i \in 1..Size(e) PROVE ListenerAt(f, i) = ListenerAt(e, i)
  <2>1. CASE i <= n
    <3>1. i \in 1..n /\ i <= n + k
      BY <1>3, <1>4, <2>1
    <3> QED BY <1>2, <1>6, <1>9, <2>1, <3>1
  <2>2. CASE n < i /\ i <= n + k
    <3>1. i - n \in 1..k /\ n + (i - n) = i /\ ~(i <= n)
      BY <1>3, <1>4, <2>2
    <3>2. f.notified[i].who = e.waiting[i - n]
      BY <1>5, <3>1
    <3> QED BY <1>6, <1>9, <2>2, <3>1, <3>2
  <2>3. CASE n + k < i
    <3>1. /\ i - (n + k) \in 1..(m - k) /\ (i - (n + k)) + k = i - n
          /\ ~(i <= n) /\ ~(i <= n + k)
      BY <1>3, <1>4, <2>3
    <3>2. f.waiting[i - (n + k)] = e.waiting[i - n]
      BY <1>1, <1>2, <3>1
    <3> QED BY <1>6, <1>9, <3>1, <3>2
  <2> QED BY <1>3, <1>4, <2>1, <2>2, <2>3
<1>11. ListHolds(f, S)
  BY <1>7, <1>8, <1>10 DEF ListHolds
<1> QED BY <1>1, <1>11, ListenersInList DEF f

(* A list without the entry at position p has the other listeners. *)
LEMMA RemoveListener ==
    ASSUME NEW e, NEW f, NEW S, NEW p \in 1..Size(e),
           Size(e) \in Nat, Size(f) = Size(e) - 1, ListHolds(e, S),
           \A i \in 1..Size(f) :
              ListenerAt(f, i) = IF i < p THEN ListenerAt(e, i) ELSE ListenerAt(e, i + 1)
    PROVE  ListHolds(f, S \ {ListenerAt(e, p)})
<1> DEFINE N == Size(e)
           l == ListenerAt(e, p)
           old(i) == IF i < p THEN i ELSE i + 1
<1>1. \A i \in 1..(N - 1) : old(i) \in 1..N /\ old(i) # p
  OBVIOUS
<1>2. \A i, j \in 1..(N - 1) : old(i) = old(j) => i = j
  OBVIOUS
<1>3. \A i \in 1..(N - 1) : ListenerAt(f, i) = ListenerAt(e, old(i))
  OBVIOUS
<1>4. ASSUME NEW i \in 1..N, i # p PROVE \E j \in 1..(N - 1) : old(j) = i
  <2>1. CASE i < p
    <3>1. i \in 1..(N - 1) /\ old(i) = i
      BY <2>1
    <3> QED BY <3>1
  <2>2. CASE i > p
    <3>1. i - 1 \in 1..(N - 1) /\ old(i - 1) = i
      BY <2>2
    <3> QED BY <3>1
  <2> QED BY <1>4, <2>1, <2>2
<1> HIDE DEF old
<1>5. /\ \A i \in 1..N : ListenerAt(e, i) \in S
      /\ \A x \in S : \E i \in 1..N : ListenerAt(e, i) = x
      /\ \A i, j \in 1..N : ListenerAt(e, i) = ListenerAt(e, j) => i = j
  BY DEF ListHolds
<1>6. \A i \in 1..(N - 1) : ListenerAt(f, i) \in S \ {l}
  BY <1>1, <1>3, <1>5
<1>7. \A x \in S \ {l} : \E i \in 1..(N - 1) : ListenerAt(f, i) = x
  BY <1>3, <1>4, <1>5
<1>8. \A i, j \in 1..(N - 1) : ListenerAt(f, i) = ListenerAt(f, j) => i = j
  BY <1>1, <1>2, <1>3, <1>5
<1> QED BY <1>6, <1>7, <1>8 DEF ListHolds

(* A future that takes its note leaves the list. *)
LEMMA TakeListeners ==
    ASSUME NEW L, NEW T, NEW e \in EventOf(L, T), NEW l, IsNotified(e, l),
           NEW S, ListenersAre(e, S)
    PROVE  ListenersAre(Take(e, l), S \ {l})
<1> DEFINE f == Take(e, l)
           p == NotifiedIndex(e, l)
           n == Len(e.notified)
           m == Len(e.waiting)
<1>1. /\ f \in EventOf(L, T) /\ f.notified = RemoveAt(e.notified, p)
      /\ f.waiting = e.waiting
  BY TakeType
<1>2. Len(f.notified) = n - 1
  BY TakeType
<1>3. p \in 1..n /\ e.notified[p].who = l
  BY NotifiedIndexProperties
<1>4. \A i \in 1..(n - 1) :
        RemoveAt(e.notified, p)[i] = IF i < p THEN e.notified[i] ELSE e.notified[i + 1]
  <2>1. e.notified \in Seq(NoteOf(L, T))
    BY DEF EventOf
  <2> HIDE DEF p
  <2> QED BY <1>3, <2>1, RemoveAtProperties
<1>5. n \in Nat /\ m \in Nat
  BY ListPositions
<1>6. \A i : ListenerAt(e, i) = IF i <= n THEN e.notified[i].who ELSE e.waiting[i - n]
  BY DEF ListenerAt
<1>7. Size(e) = n + m
  BY DEF Size
<1>8. ListHolds(e, S)
  BY ListenersInList
<1> HIDE DEF f, p, n, m
<1>9. \A i : ListenerAt(f, i) = IF i <= n - 1 THEN f.notified[i].who
                                ELSE e.waiting[i - (n - 1)]
  BY <1>1, <1>2 DEF ListenerAt
<1>10. Size(f) = Size(e) - 1
  <2>1. Size(f) = (n - 1) + m
    BY <1>1, <1>2 DEF Size, m
  <2> QED BY <1>5, <1>7, <2>1
<1>11. p \in 1..Size(e) /\ ListenerAt(e, p) = l /\ Size(e) \in Nat
  BY <1>3, <1>5, <1>6, <1>7
<1>12. ASSUME NEW i \in 1..Size(f)
       PROVE  ListenerAt(f, i) = IF i < p THEN ListenerAt(e, i) ELSE ListenerAt(e, i + 1)
  <2>1. CASE i <= n - 1
    <3>1. i \in 1..(n - 1) /\ i <= n /\ i + 1 <= n
      BY <1>5, <2>1
    <3>2. f.notified[i] = IF i < p THEN e.notified[i] ELSE e.notified[i + 1]
      BY <1>1, <1>4, <3>1
    <3> QED BY <1>6, <1>9, <2>1, <3>1, <3>2
  <2>2. CASE ~(i <= n - 1)
    <3>1. ~(i < p) /\ ~(i + 1 <= n) /\ i - (n - 1) = (i + 1) - n
      BY <1>3, <1>5, <2>2
    <3> QED BY <1>6, <1>9, <2>2, <3>1
  <2> QED BY <2>1, <2>2
<1>13. ListHolds(f, S \ {l})
  BY <1>8, <1>10, <1>11, <1>12, RemoveListener
<1> QED BY <1>1, <1>13, ListenersInList DEF f

(* A sleeper that is dropped leaves the list. *)
LEMMA LeaveListeners ==
    ASSUME NEW L, NEW T, NEW e \in EventOf(L, T), NEW l, IsWaiting(e, l),
           NEW S, ListenersAre(e, S)
    PROVE  ListenersAre(Leave(e, l), S \ {l})
<1> DEFINE f == Leave(e, l)
           p == WaitingIndex(e, l)
           n == Len(e.notified)
           m == Len(e.waiting)
<1>1. /\ f \in EventOf(L, T) /\ f.waiting = RemoveAt(e.waiting, p)
      /\ f.notified = e.notified
  BY LeaveType
<1>2. Len(f.waiting) = m - 1
  BY LeaveType
<1>3. p \in 1..m /\ e.waiting[p] = l
  BY WaitingIndexProperties
<1>4. \A i \in 1..(m - 1) :
        RemoveAt(e.waiting, p)[i] = IF i < p THEN e.waiting[i] ELSE e.waiting[i + 1]
  <2>1. e.waiting \in Seq(L)
    BY DEF EventOf
  <2> HIDE DEF p
  <2> QED BY <1>3, <2>1, RemoveAtProperties
<1>5. n \in Nat /\ m \in Nat
  BY ListPositions
<1>6. \A i : ListenerAt(e, i) = IF i <= n THEN e.notified[i].who ELSE e.waiting[i - n]
  BY DEF ListenerAt
<1>7. Size(e) = n + m
  BY DEF Size
<1>8. ListHolds(e, S)
  BY ListenersInList
<1>9. Len(f.notified) = n
  BY <1>1
<1> HIDE DEF f, p, n, m
<1>10. \A i : ListenerAt(f, i) = IF i <= n THEN e.notified[i].who ELSE f.waiting[i - n]
  BY <1>1, <1>9 DEF ListenerAt
<1>11. Size(f) = Size(e) - 1
  <2>1. Size(f) = n + (m - 1)
    BY <1>2, <1>9 DEF Size
  <2> QED BY <1>5, <1>7, <2>1
<1>12. n + p \in 1..Size(e) /\ ListenerAt(e, n + p) = l /\ Size(e) \in Nat
  <2>1. ~(n + p <= n) /\ (n + p) - n = p
    BY <1>3, <1>5
  <2> QED BY <1>3, <1>5, <1>6, <1>7, <2>1
<1>13. ASSUME NEW i \in 1..Size(f)
       PROVE  ListenerAt(f, i) = IF i < n + p THEN ListenerAt(e, i) ELSE ListenerAt(e, i + 1)
  <2>1. CASE i <= n
    <3>1. i < n + p
      BY <1>3, <1>5, <2>1
    <3> QED BY <1>6, <1>10, <2>1, <3>1
  <2>2. CASE ~(i <= n)
    <3>1. /\ i - n \in 1..(m - 1) /\ ~(i + 1 <= n) /\ (i + 1) - n = (i - n) + 1
          /\ i - n < p <=> i < n + p
      BY <1>3, <1>5, <1>7, <1>11, <2>2
    <3>2. f.waiting[i - n] = IF i - n < p THEN e.waiting[i - n] ELSE e.waiting[(i - n) + 1]
      BY <1>1, <1>4, <3>1
    <3> QED BY <1>6, <1>10, <2>2, <3>1, <3>2
  <2> QED BY <2>1, <2>2
<1>14. ListHolds(f, S \ {l})
  BY <1>8, <1>11, <1>12, <1>13, RemoveListener
<1> QED BY <1>1, <1>14, ListenersInList DEF f

(* A dropped listener leaves the list, also if it passes its note on. *)
LEMMA CancelListeners ==
    ASSUME NEW L, NEW T, NEW e \in EventOf(L, T), NEW S, ListenersAre(e, S), NEW l \in S
    PROVE  ListenersAre(Cancel(e, l), S \ {l})
<1>1. CASE IsNotified(e, l)
  <2> DEFINE f == Take(e, l)
             tags == <<Note(e, l).tag>>
             add == Note(e, l).additional
  <2>1. f \in EventOf(L, T) /\ ListenersAre(f, S \ {l})
    BY <1>1, TakeType, TakeListeners
  <2>2. tags \in Seq(T) /\ add \in BOOLEAN
    <3>1. Note(e, l) \in NoteOf(L, T)
      BY <1>1, NotifiedIndexProperties
    <3>2. Note(e, l).tag \in T /\ Note(e, l).additional \in BOOLEAN
      BY <3>1 DEF NoteOf
    <3> QED BY <3>2
  <2>3. Cancel(e, l) = Notify(f, tags, add)
    BY <1>1 DEF Cancel, Pass
  <2> HIDE DEF f, tags, add
  <2> QED BY <2>1, <2>2, <2>3, NotifyListeners
<1>2. CASE ~IsNotified(e, l)
  <2>1. IsWaiting(e, l)
    BY <1>2 DEF ListenersAre, InList
  <2>2. ListenersAre(Leave(e, l), S \ {l})
    BY <2>1, LeaveListeners
  <2> QED BY <1>2, <2>1, <2>2 DEF Cancel
<1> QED BY <1>1, <1>2

(* notify(1) wakes and removes nobody. *)
LEMMA WakeListeners ==
    ASSUME NEW L, NEW e \in EventOf(L, {Unit}), NEW S, ListenersAre(e, S)
    PROVE  ListenersAre(Wake(e), S)
<1> DEFINE tags == <<Unit>>
           add == FALSE
<1>1. tags \in Seq({Unit}) /\ add \in BOOLEAN
  OBVIOUS
<1>2. Wake(e) = Notify(e, tags, add)
  BY DEF Wake
<1> HIDE DEF tags, add
<1> QED BY <1>1, <1>2, NotifyListeners

-----------------------------------------------------------------------------
(* No element is in a sequence twice. *)
Distinct(s) == \A i, j \in 1..Len(s) : s[i] = s[j] => i = j

(* An item at the end of a sequence is one more element of it. *)
LEMMA AppendElement ==
    ASSUME NEW S, NEW s \in Seq(S), NEW x \in S
    PROVE  /\ ToSet(Append(s, x)) = ToSet(s) \cup {x}
           /\ Distinct(s) /\ x \notin ToSet(s) => Distinct(Append(s, x))
<1> DEFINE t == Append(s, x)
<1>1. /\ t \in Seq(S) /\ Len(t) = Len(s) + 1 /\ Len(s) \in Nat
      /\ \A i \in 1..Len(s) : t[i] = s[i]
      /\ t[Len(s) + 1] = x
  BY AppendProperties, LenProperties
<1>2. DOMAIN s = 1..Len(s) /\ DOMAIN t = 1..Len(t)
  BY <1>1, LenProperties
<1> HIDE DEF t
<1>3. ToSet(t) = ToSet(s) \cup {x}
  BY <1>1, <1>2 DEF ToSet
<1>4. ASSUME Distinct(s), x \notin ToSet(s) PROVE Distinct(t)
  <2>1. \A i \in 1..Len(s) : s[i] # x
    BY <1>2, <1>4 DEF ToSet
  <2> QED BY <1>1, <1>4, <2>1 DEF Distinct
<1> QED BY <1>3, <1>4 DEF t

(* The rest of a sequence has its other elements. *)
LEMMA TailElements ==
    ASSUME NEW S, NEW s \in Seq(S), s # <<>>, Distinct(s)
    PROVE  /\ Head(s) \in ToSet(s) /\ Head(s) \in S
           /\ ToSet(Tail(s)) = ToSet(s) \ {Head(s)}
           /\ Distinct(Tail(s))
<1> DEFINE t == Tail(s)
           x == Head(s)
<1>1. /\ t \in Seq(S) /\ Len(t) = Len(s) - 1 /\ Len(s) \in Nat /\ Len(s) >= 1
      /\ \A i \in 1..Len(t) : t[i] = s[i + 1]
      /\ x = s[1] /\ x \in S
  <2>1. Head(s) = s[1]
    OBVIOUS
  <2> QED BY <2>1, HeadTailProperties, LenProperties, EmptySeq
<1>2. DOMAIN s = 1..Len(s) /\ DOMAIN t = 1..Len(t)
  BY <1>1, LenProperties
<1> HIDE DEF t, x
<1>3. x \in ToSet(s)
  BY <1>1, <1>2 DEF ToSet
<1>4. Distinct(t)
  BY <1>1 DEF Distinct
<1>5. ASSUME NEW y \in ToSet(t) PROVE y \in ToSet(s) \ {x}
  <2>1. PICK i \in 1..Len(t) : y = t[i]
    BY <1>2, <1>5 DEF ToSet
  <2>2. y = s[i + 1] /\ i + 1 \in 1..Len(s) /\ i + 1 # 1
    BY <1>1, <2>1
  <2> QED BY <1>1, <1>2, <2>2 DEF ToSet, Distinct
<1>6. ASSUME NEW y \in ToSet(s) \ {x} PROVE y \in ToSet(t)
  <2>1. PICK i \in 1..Len(s) : y = s[i]
    BY <1>2, <1>6 DEF ToSet
  <2>2. i - 1 \in 1..Len(t) /\ t[i - 1] = s[(i - 1) + 1] /\ (i - 1) + 1 = i
    BY <1>1, <1>6, <2>1
  <2> QED BY <1>2, <2>1, <2>2 DEF ToSet
<1> QED BY <1>1, <1>3, <1>4, <1>5, <1>6 DEF t, x

(* A sequence is cut in two: its elements are divided between the parts. *)
LEMMA SplitElements ==
    ASSUME NEW S, NEW s \in Seq(S), Distinct(s), NEW n \in Nat, n <= Len(s)
    PROVE  LET a == SubSeq(s, 1, n)
               b == SubSeq(s, n + 1, Len(s))
           IN  /\ Distinct(a) /\ Distinct(b)
               /\ ToSet(a) \cup ToSet(b) = ToSet(s) /\ ToSet(a) \cap ToSet(b) = {}
<1> DEFINE m == Len(s)
           a == SubSeq(s, 1, n)
           b == SubSeq(s, n + 1, m)
<1>1. m \in Nat /\ n <= m /\ \A i \in 1..m : s[i] \in S
  BY LenProperties, ElementOfSeq
<1>2. \A i \in 1..n : i \in 1..m
  BY <1>1
<1>3. \A i \in 1..(m - n) : n + i \in 1..m
  BY <1>1
<1> HIDE DEF m
<1>4. /\ a \in Seq(S) /\ Len(a) = n
      /\ \A i \in 1..n : a[i] = s[i]
  BY <1>1, <1>2, SubSeqProperties
<1>5. /\ b \in Seq(S) /\ Len(b) = m - n
      /\ \A i \in 1..(m - n) : b[i] = s[n + i]
  <2>1. \A i \in (n + 1)..m : s[i] \in S
    BY <1>1
  <2>2. /\ b \in Seq(S)
        /\ Len(b) = (IF n + 1 <= m THEN m - (n + 1) + 1 ELSE 0)
        /\ \A i \in 1..(m - (n + 1) + 1) : b[i] = s[(n + 1) + i - 1]
    BY <1>1, <2>1, SubSeqProperties
  <2> HIDE DEF b
  <2>3. Len(b) = m - n
    BY <1>1, <2>2
  <2>4. ASSUME NEW i \in 1..(m - n) PROVE b[i] = s[n + i]
    <3>1. i \in 1..(m - (n + 1) + 1) /\ (n + 1) + i - 1 = n + i
      BY <1>1
    <3> QED BY <2>2, <3>1
  <2> QED BY <2>2, <2>3, <2>4
<1>6. DOMAIN s = 1..m /\ DOMAIN a = 1..n /\ DOMAIN b = 1..(m - n)
  BY <1>4, <1>5, LenProperties DEF m
<1>7. \A i, j \in 1..m : s[i] = s[j] => i = j
  BY DEF Distinct, m
<1> HIDE DEF a, b
<1>8. /\ \A x : x \in ToSet(a) <=> \E i \in 1..n : x = s[i]
      /\ \A x : x \in ToSet(b) <=> \E i \in 1..(m - n) : x = s[n + i]
      /\ \A x : x \in ToSet(s) <=> \E i \in 1..m : x = s[i]
  <2>1. \A x : x \in ToSet(a) <=> \E i \in 1..n : x = s[i]
    BY <1>4, <1>6 DEF ToSet
  <2>2. \A x : x \in ToSet(b) <=> \E i \in 1..(m - n) : x = s[n + i]
    BY <1>5, <1>6 DEF ToSet
  <2>3. \A x : x \in ToSet(s) <=> \E i \in 1..m : x = s[i]
    BY <1>6 DEF ToSet
  <2> QED BY <2>1, <2>2, <2>3
<1>9. \A i \in 1..m : i \in 1..n \/ \E j \in 1..(m - n) : i = n + j
  <2> SUFFICES ASSUME NEW i \in 1..m, ~(i \in 1..n) PROVE \E j \in 1..(m - n) : i = n + j
    OBVIOUS
  <2>1. i - n \in 1..(m - n) /\ i = n + (i - n)
    BY <1>1
  <2> QED BY <2>1
<1>10. \A i \in 1..n, j \in 1..(m - n) : i # n + j
  BY <1>1
<1>11. ToSet(a) \cup ToSet(b) = ToSet(s)
  BY <1>2, <1>3, <1>8, <1>9
<1>12. ToSet(a) \cap ToSet(b) = {}
  BY <1>2, <1>3, <1>7, <1>8, <1>10
<1>13. Distinct(a)
  BY <1>2, <1>4, <1>7 DEF Distinct
<1>14. Distinct(b)
  <2>1. \A i, j \in 1..(m - n) : n + i = n + j => i = j
    BY <1>1
  <2> QED BY <1>3, <1>5, <1>7, <2>1 DEF Distinct
<1> QED BY <1>11, <1>12, <1>13, <1>14 DEF a, b, m

(* The tags in the notes, `none` left out, and that no other is there twice. *)
TagsOf(e, none) == {e.notified[i].tag : i \in 1..Len(e.notified)} \ {none}

DistinctTags(e, none) ==
    \A i, j \in 1..Len(e.notified) :
        e.notified[i].tag = e.notified[j].tag => i = j \/ e.notified[i].tag = none

(* A notification of one adds its tag to the notes, if it reaches anybody. *)
LEMMA NotifyTag ==
    ASSUME NEW L, NEW T, NEW none, NEW e \in EventOf(L, T), NEW tag \in T,
           NEW add \in BOOLEAN
    PROVE  LET f == Notify(e, <<tag>>, add)
               k == Reach(e, 1, add)
           IN  /\ f \in EventOf(L, T)
               /\ k \in {0, 1}
               /\ k = 0 => f = e
               /\ k = 1 => /\ TagsOf(f, none) = TagsOf(e, none) \cup ({tag} \ {none})
                           /\ DistinctTags(e, none) /\ tag \notin TagsOf(e, none)
                                => DistinctTags(f, none)
<1> DEFINE tags == <<tag>>
           f == Notify(e, tags, add)
           k == Reach(e, Len(tags), add)
           n == Len(e.notified)
<1>1. tags \in Seq(T) /\ Len(tags) = 1 /\ tags[1] = tag
  OBVIOUS
<1>2. e \in EventOf(L, T)
  OBVIOUS
<1>3. n \in Nat
  BY <1>2, LenProperties DEF EventOf
<1>4. k \in {0, 1}
  <2>1. k \in Nat /\ k <= 1
    BY <1>1, <1>2, ReachBounds
  <2> QED BY <2>1
<1>5. k = Reach(e, 1, add)
  BY <1>1
<1> HIDE DEF tags
<1>6. f \in EventOf(L, T) /\ Len(f.notified) = n + k
  <2>1. f \in EventOf(L, T)
    BY <1>1, <1>2, NotifyType
  <2>2. tags \in Seq(T)
    BY <1>1
  <2>3. Len(f.notified) = n + k
    BY <1>2, <2>2, NotifyType
  <2> QED BY <2>1, <2>3
<1>7. /\ \A i \in 1..n : f.notified[i] = e.notified[i]
      /\ \A i \in 1..k : f.notified[n + i] = [who |-> e.waiting[i], tag |-> tags[i],
                                              additional |-> add]
  <2>1. tags \in Seq(T)
    BY <1>1
  <2> QED BY <1>2, <2>1, NotifyNotes
<1>8. k = 0 => f = e
  <2>1. tags \in Seq(T)
    BY <1>1
  <2> QED BY <1>2, <2>1, NotifyNobody
<1> HIDE DEF f, k, n
<1>9. ASSUME k = 1
      PROVE  /\ TagsOf(f, none) = TagsOf(e, none) \cup ({tag} \ {none})
             /\ DistinctTags(e, none) /\ tag \notin TagsOf(e, none) => DistinctTags(f, none)
  <2>1. f.notified[n + 1].tag = tag
    <3>1. f.notified[n + 1] = [who |-> e.waiting[1], tag |-> tags[1], additional |-> add]
      BY <1>7, <1>9
    <3> QED BY <1>1, <3>1
  <2>2. Len(f.notified) = n + 1
    BY <1>6, <1>9
  <2>3. TagsOf(f, none) = TagsOf(e, none) \cup ({tag} \ {none})
    BY <1>3, <1>7, <2>1, <2>2 DEF TagsOf, n
  <2>4. ASSUME DistinctTags(e, none), tag \notin TagsOf(e, none) PROVE DistinctTags(f, none)
    <3>1. \A i \in 1..n : e.notified[i].tag = tag => tag = none
      BY <2>4 DEF TagsOf, n
    <3>2. \A i \in 1..n : f.notified[i].tag = e.notified[i].tag
      BY <1>7
    <3>3. \A i \in 1..(n + 1) : i \in 1..n \/ i = n + 1
      BY <1>3
    <3>4. \A i, j \in 1..n : e.notified[i].tag = e.notified[j].tag
                                => i = j \/ e.notified[i].tag = none
      BY <2>4 DEF DistinctTags, n
    <3> QED BY <2>1, <2>2, <3>1, <3>2, <3>3, <3>4 DEF DistinctTags
  <2> QED BY <2>3, <2>4
<1> QED BY <1>4, <1>5, <1>6, <1>8, <1>9 DEF f, tags

(* A listener that takes its note takes its tag out of them. *)
LEMMA TakeTag ==
    ASSUME NEW L, NEW T, NEW none, NEW e \in EventOf(L, T),
           NEW r, IsNotified(e, r), DistinctTags(e, none)
    PROVE  /\ Take(e, r) \in EventOf(L, T)
           /\ DistinctTags(Take(e, r), none)
           /\ TagsOf(Take(e, r), none) = TagsOf(e, none) \ {Note(e, r).tag}
           /\ Note(e, r).tag # none => Note(e, r).tag \in TagsOf(e, none)
<1> DEFINE p == NotifiedIndex(e, r)
           n == Len(e.notified)
           f == Take(e, r)
           x == Note(e, r).tag
           old(i) == IF i < p THEN i ELSE i + 1
<1>1. /\ e \in EventOf(L, T)
      /\ e.notified \in Seq(NoteOf(L, T)) /\ n \in Nat
  <2>1. e.notified \in Seq(NoteOf(L, T))
    BY DEF EventOf
  <2> QED BY <2>1, LenProperties
<1>2. p \in 1..n /\ x = e.notified[p].tag
  BY <1>1, NotifiedIndexProperties DEF Note
<1>3. /\ f \in EventOf(L, T) /\ f.notified = RemoveAt(e.notified, p)
      /\ Len(f.notified) = n - 1
  BY <1>1, TakeType
<1> HIDE DEF p, f, x
<1>4. \A i \in 1..(n - 1) : f.notified[i] = e.notified[old(i)] /\ old(i) \in 1..n
  <2>1. \A i \in 1..(Len(e.notified) - 1) :
          RemoveAt(e.notified, p)[i] = IF i < p THEN e.notified[i] ELSE e.notified[i + 1]
    BY <1>1, <1>2, RemoveAtProperties
  <2> QED BY <1>1, <1>2, <1>3, <2>1
<1>5. DistinctTags(f, none)
  <2> SUFFICES ASSUME NEW i \in 1..(n - 1), NEW j \in 1..(n - 1),
                      f.notified[i].tag = f.notified[j].tag, f.notified[i].tag # none
               PROVE  i = j
    BY <1>3 DEF DistinctTags
  <2>1. old(i) = old(j)
    <3>1. /\ e.notified[old(i)].tag = e.notified[old(j)].tag
          /\ e.notified[old(i)].tag # none /\ old(i) \in 1..n /\ old(j) \in 1..n
      BY <1>4
    <3> HIDE DEF old
    <3> QED BY <3>1 DEF DistinctTags
  <2> QED BY <1>2, <2>1
<1>6. x # none => x \in TagsOf(e, none)
  BY <1>2 DEF TagsOf
<1>7. ASSUME NEW y \in TagsOf(f, none) PROVE y \in TagsOf(e, none) \ {x}
  <2>1. PICK i \in 1..(n - 1) : f.notified[i].tag = y /\ y # none
    BY <1>3, <1>7 DEF TagsOf
  <2>2. old(i) \in 1..n /\ old(i) # p /\ e.notified[old(i)].tag = y
    BY <1>1, <1>2, <1>4, <2>1
  <2> HIDE DEF old
  <2> QED BY <1>2, <2>1, <2>2 DEF TagsOf, DistinctTags
<1>8. ASSUME NEW y \in TagsOf(e, none) \ {x} PROVE y \in TagsOf(f, none)
  <2>1. PICK i \in 1..n : e.notified[i].tag = y /\ y # none
    BY <1>8 DEF TagsOf
  <2>2. i # p
    BY <1>2, <1>8, <2>1
  <2>3. PICK j \in 1..(n - 1) : old(j) = i
    <3>1. CASE i < p
      <4>1. i \in 1..(n - 1) /\ old(i) = i
        BY <1>1, <1>2, <3>1
      <4> QED BY <4>1
    <3>2. CASE i > p
      <4>1. i - 1 \in 1..(n - 1) /\ old(i - 1) = i
        BY <1>1, <1>2, <3>2
      <4> QED BY <4>1
    <3> QED BY <1>1, <1>2, <2>2, <3>1, <3>2
  <2>4. f.notified[j].tag = y
    BY <1>4, <2>1, <2>3
  <2> QED BY <1>3, <2>1, <2>4 DEF TagsOf
<1> QED BY <1>3, <1>5, <1>6, <1>7, <1>8 DEF f, x

(* A dropped listener may drop its own tag, and adds no other. *)
LEMMA CancelTags ==
    ASSUME NEW L, NEW T, NEW none, NEW e \in EventOf(L, T), NEW r, DistinctTags(e, none)
    PROVE  /\ TagsOf(Cancel(e, r), none) \subseteq TagsOf(e, none)
           /\ TagsOf(e, none) \ TagsOf(Cancel(e, r), none) \subseteq {Note(e, r).tag}
           /\ ~IsNotified(e, r) => TagsOf(Cancel(e, r), none) = TagsOf(e, none)
           /\ DistinctTags(Cancel(e, r), none)
<1>1. CASE IsNotified(e, r)
  <2> DEFINE f == Take(e, r)
             x == Note(e, r).tag
             add == Note(e, r).additional
  <2>1. /\ f \in EventOf(L, T) /\ DistinctTags(f, none)
        /\ TagsOf(f, none) = TagsOf(e, none) \ {x}
        /\ x # none => x \in TagsOf(e, none)
    BY <1>1, TakeTag
  <2>2. x \in T /\ add \in BOOLEAN
    <3>1. Note(e, r) \in NoteOf(L, T)
      BY <1>1, NotifiedIndexProperties
    <3> QED BY <3>1 DEF NoteOf
  <2>3. Cancel(e, r) = Notify(f, <<x>>, add)
    BY <1>1 DEF Cancel, Pass
  <2> HIDE DEF f, x, add
  <2>4. \/ Cancel(e, r) = f
        \/ /\ TagsOf(Cancel(e, r), none) = TagsOf(f, none) \cup ({x} \ {none})
           /\ x \notin TagsOf(f, none) => DistinctTags(Cancel(e, r), none)
    BY <2>1, <2>2, <2>3, NotifyTag
  <2>5. x = Note(e, r).tag
    BY DEF x
  <2> QED BY <1>1, <2>1, <2>4, <2>5
<1>2. CASE ~IsNotified(e, r) /\ IsWaiting(e, r)
  <2>1. Cancel(e, r).notified = e.notified
    BY <1>2, LeaveType DEF Cancel
  <2> QED BY <2>1 DEF TagsOf, DistinctTags
<1>3. CASE ~IsNotified(e, r) /\ ~IsWaiting(e, r)
  BY <1>3 DEF Cancel
<1> QED BY <1>1, <1>2, <1>3
-----------------------------------------------------------------------------
(* A notification leaves those notified who were, *)
LEMMA NotifyKeepsNotified ==
    ASSUME NEW L, NEW T, NEW e \in EventOf(L, T), NEW tags \in Seq(T),
           NEW add \in BOOLEAN, NEW l, IsNotified(e, l)
    PROVE  IsNotified(Notify(e, tags, add), l)
<1> DEFINE f == Notify(e, tags, add)
           k == Reach(e, Len(tags), add)
<1>1. /\ Len(f.notified) = Len(e.notified) + k
      /\ \A i \in 1..Len(e.notified) : f.notified[i] = e.notified[i]
  BY NotifyType, NotifyNotes
<1>2. k \in Nat
  BY LenProperties, ReachBounds
<1>3. Len(e.notified) \in Nat
  BY LenProperties DEF EventOf
<1>4. PICK i \in 1..Len(e.notified) : e.notified[i].who = l
  BY DEF IsNotified
<1> HIDE DEF f, k
<1>5. i \in 1..Len(f.notified) /\ f.notified[i].who = l
  BY <1>1, <1>2, <1>3, <1>4
<1> QED BY <1>5 DEF IsNotified, f

(* so does a listener that takes its own note, *)
LEMMA TakeKeepsNotified ==
    ASSUME NEW L, NEW T, NEW e \in EventOf(L, T), NEW r, IsNotified(e, r),
           NEW l, l # r, IsNotified(e, l)
    PROVE  IsNotified(Take(e, r), l)
<1> DEFINE f == Take(e, r)
           p == NotifiedIndex(e, r)
           n == Len(e.notified)
<1>1. e.notified \in Seq(NoteOf(L, T)) /\ n \in Nat
  BY LenProperties DEF EventOf
<1>2. p \in 1..n /\ e.notified[p].who = r
  BY NotifiedIndexProperties
<1>3. /\ Len(f.notified) = n - 1
      /\ \A j \in 1..(n - 1) :
            f.notified[j] = IF j < p THEN e.notified[j] ELSE e.notified[j + 1]
  <2>1. f.notified = RemoveAt(e.notified, p)
    BY TakeType
  <2> HIDE DEF f, p
  <2> QED BY <1>1, <1>2, <2>1, RemoveAtProperties
<1>4. PICK i \in 1..n : e.notified[i].who = l
  BY DEF IsNotified
<1>5. i # p
  BY <1>2, <1>4
<1> HIDE DEF f, p, n
<1>6. CASE i < p
  <2>1. i \in 1..(n - 1)
    BY <1>1, <1>2, <1>4, <1>6
  <2> QED BY <1>3, <1>4, <1>6, <2>1 DEF IsNotified, f
<1>7. CASE i > p
  <2>1. i - 1 \in 1..(n - 1) /\ ~(i - 1 < p) /\ (i - 1) + 1 = i
    BY <1>1, <1>2, <1>4, <1>7
  <2> QED BY <1>3, <1>4, <2>1 DEF IsNotified, f
<1> QED BY <1>1, <1>2, <1>4, <1>5, <1>6, <1>7

(* and so does one that is dropped. *)
LEMMA CancelKeepsNotified ==
    ASSUME NEW L, NEW T, NEW e \in EventOf(L, T), NEW r, NEW l, l # r, IsNotified(e, l)
    PROVE  IsNotified(Cancel(e, r), l)
<1>1. CASE IsNotified(e, r)
  <2> DEFINE f == Take(e, r)
             tags == <<Note(e, r).tag>>
             add == Note(e, r).additional
  <2>1. f \in EventOf(L, T) /\ IsNotified(f, l)
    BY <1>1, TakeType, TakeKeepsNotified
  <2>2. tags \in Seq(T) /\ add \in BOOLEAN
    <3>1. Note(e, r) \in NoteOf(L, T)
      BY <1>1, NotifiedIndexProperties
    <3>2. Note(e, r).tag \in T /\ Note(e, r).additional \in BOOLEAN
      BY <3>1 DEF NoteOf
    <3> QED BY <3>2
  <2>3. Cancel(e, r) = Notify(f, tags, add)
    BY <1>1 DEF Cancel, Pass
  <2> HIDE DEF f, tags, add
  <2> QED BY <2>1, <2>2, <2>3, NotifyKeepsNotified
<1>2. CASE ~IsNotified(e, r) /\ IsWaiting(e, r)
  <2>1. Cancel(e, r).notified = e.notified
    BY <1>2, LeaveType DEF Cancel
  <2> QED BY <2>1 DEF IsNotified
<1>3. CASE ~IsNotified(e, r) /\ ~IsWaiting(e, r)
  BY <1>3 DEF Cancel
<1> QED BY <1>1, <1>2, <1>3

(* notify(usize::MAX) moves no entry and notifies every listener. *)
LEMMA WakeAllListeners ==
    ASSUME NEW L, NEW T, NEW e \in EventOf(L, T), NEW tag \in T, NEW add \in BOOLEAN,
           NEW S, ListenersAre(e, S)
    PROVE  /\ ListenersAre(WakeAll(e, tag, add), S)
           /\ \A l \in S : IsNotified(WakeAll(e, tag, add), l)
<1> DEFINE f == WakeAll(e, tag, add)
           n == Len(e.notified) + Len(e.waiting)
           tags == [i \in 1..n |-> tag]
<1>1. n \in Nat
  BY LenProperties DEF EventOf
<1>2. f = Notify(e, tags, add)
  BY DEF WakeAll
<1> HIDE DEF n
<1>3. tags \in Seq(T)
  BY <1>1, IsASeq
<1> HIDE DEF tags
<1>4. ListenersAre(f, S)
  BY <1>2, <1>3, NotifyListeners
<1>5. f.waiting = <<>>
  BY WakeAllWakesEveryone
<1> HIDE DEF f
<1>6. \A l \in S : IsNotified(f, l)
  <2>1. \A l \in S : IsNotified(f, l) \/ IsWaiting(f, l)
    BY <1>4 DEF ListenersAre, InList
  <2>2. Len(f.waiting) = 0
    BY <1>5, EmptySeq
  <2> QED BY <2>1, <2>2 DEF IsWaiting
<1> QED BY <1>4, <1>6 DEF f
=============================================================================
