------------------------------ MODULE EventOps ------------------------------
(***************************************************************************)
(* What an Event of src/src/event.rs does, as operators on one value:      *)
(*                                                                         *)
(*   e.notified   the entries in State::Notified, oldest first, each with  *)
(*                the tag and the `additional` flag it was notified with   *)
(*   e.waiting    the listeners whose entry is still Created or Waiting,   *)
(*                oldest first                                             *)
(*                                                                         *)
(* The linked list of the code is e.notified followed by e.waiting.        *)
(* EventQueue is the state machine of these operators; EventList, which    *)
(* models the pointers, implements it.  The locks and the channel use the  *)
(* operators for the events they own.  A notification is the sequence of   *)
(* tags its next_tag() would produce, so its count() is the length.        *)
(*                                                                         *)
(* A definition called Faulty... is a slip in the definition that follows  *)
(* it, for the properties to catch; the specifications do not use it.      *)
(***************************************************************************)
EXTENDS Integers, Sequences, SequencesExt

(* The events of the locks carry no data: T = (). *)
Unit == "()"

(* An event whose listeners are in L and whose tags are in T. *)
NoteOf(L, T) == [who : L, tag : T, additional : BOOLEAN]
EventOf(L, T) == [notified : Seq(NoteOf(L, T)), waiting : Seq(L)]

NewEvent == [notified |-> <<>>, waiting |-> <<>>]

(* The listener's future resolves when it is polled next. *)
IsNotified(e, l) == \E i \in 1..Len(e.notified) : e.notified[i].who = l

IsWaiting(e, l) == \E i \in 1..Len(e.waiting) : e.waiting[i] = l

InList(e, l) == IsNotified(e, l) \/ IsWaiting(e, l)

NotifiedIndex(e, l) ==
    CHOOSE i \in 1..Len(e.notified) : e.notified[i].who = l

WaitingIndex(e, l) ==
    CHOOSE i \in 1..Len(e.waiting) : e.waiting[i] = l

(* The tag and `additional` flag the listener was notified with. *)
Note(e, l) == e.notified[NotifiedIndex(e, l)]

(* Listener::insert: a new entry goes to the tail. *)
Insert(e, l) == [e EXCEPT !.waiting = Append(@, l)]

(***************************************************************************)
(* How many entries a notification reaches.  Without `additional` the      *)
(* entries that are notified already count towards it.                     *)
(***************************************************************************)
Reach(e, count, additional) ==
    LET wanted == IF additional THEN count ELSE count - Len(e.notified)
    IN  IF wanted <= 0 THEN 0
        ELSE IF wanted <= Len(e.waiting) THEN wanted ELSE Len(e.waiting)

(* What the first k waiting entries become. *)
Notes(e, tags, additional, k) ==
    [i \in 1..k |-> [who |-> e.waiting[i], tag |-> tags[i], additional |-> additional]]

(* Inner::notify: the oldest entries that are not notified yet get a tag each. *)
Notify(e, tags, additional) ==
    LET k == Reach(e, Len(tags), additional)
    IN  [notified |-> e.notified \o Notes(e, tags, additional, k),
         waiting  |-> SubSeq(e.waiting, k + 1, Len(e.waiting))]

(* Listener::remove(false): the future takes its tag and leaves the list. *)
Take(e, l) == [e EXCEPT !.notified = RemoveAt(@, NotifiedIndex(e, l))]

(* A listener that was not notified leaves the list. *)
FaultyLeave(e, l) == e
Leave(e, l) == [e EXCEPT !.waiting = RemoveAt(@, WaitingIndex(e, l))]

(* SingleNotify: the tag of a dropped listener is a notification of one. *)
FaultyPass(e, note) == e
FaultyPassAdditional(e, note) == Notify(e, <<note.tag>>, TRUE)
Pass(e, note) == Notify(e, <<note.tag>>, note.additional)

(* Listener::drop, that is remove(true) of an entry that is in the list. *)
Cancel(e, l) ==
    IF IsNotified(e, l) THEN Pass(Take(e, l), Note(e, l))
    ELSE IF IsWaiting(e, l) THEN Leave(e, l) ELSE e

(* event.notify(1) on an event without data. *)
FaultyWake(e) == Notify(e, <<Unit>>, TRUE)
FaultyWakeNobody(e) == e
Wake(e) == Notify(e, <<Unit>>, FALSE)

(* event.notify(usize::MAX), where the next_tag() is always `tag`: there are  *)
(* fewer entries than that, so this count stands for it.                     *)
FaultyWakeAll(e, tag, additional) == Notify(e, <<tag>>, additional)
FaultyWakeAllPlain(e, tag, additional) ==
    Notify(e, [i \in 1..(Len(e.notified) + Len(e.waiting)) |-> tag], FALSE)
WakeAll(e, tag, additional) ==
    Notify(e, [i \in 1..(Len(e.notified) + Len(e.waiting)) |-> tag], additional)

(* Each listener has one entry, and the listeners in the list are those in S. *)
ListenersAre(e, S) ==
    /\ \A l \in S : InList(e, l)
    /\ \A i \in 1..Len(e.notified) : e.notified[i].who \in S
    /\ \A i \in 1..Len(e.waiting) : e.waiting[i] \in S
    /\ \A i, j \in 1..Len(e.notified) : e.notified[i].who = e.notified[j].who => i = j
    /\ \A i, j \in 1..Len(e.waiting) : e.waiting[i] = e.waiting[j] => i = j
    /\ \A l \in S : ~(IsNotified(e, l) /\ IsWaiting(e, l))

=============================================================================
