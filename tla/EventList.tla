------------------------------ MODULE EventList ------------------------------
(***************************************************************************)
(* The Event of src/src/event.rs: an intrusive doubly linked list of       *)
(* listener entries, with a pointer to the first entry that is not         *)
(* notified and counters for all and for the notified entries.             *)
(*                                                                         *)
(* Everything runs on one thread, so each method is one step, except that  *)
(* Inner::notify takes one step per entry it notifies: it calls a waker    *)
(* for each while it holds the RefCell, and `borrowed` is that borrow.     *)
(* Nothing else may touch the event until the loop has ended.              *)
(*                                                                         *)
(* A definition called Faulty... is a slip in the definition that follows  *)
(* it, for the properties to catch; the specification does not use it.     *)
(***************************************************************************)
EXTENDS Integers, Sequences, SequencesExt

CONSTANTS Listeners,     \* the pinned EventListener / EventListenerRc values
          Wakers,        \* wakers, told apart by Waker::will_wake
          Tags,          \* values of the event's type T
          Counts,        \* the integers notify() is called with
          UsizeValues,   \* how many values a usize has
          NULL           \* None, for a pointer or a waker

ASSUME NullAssumption == NULL \notin Listeners /\ NULL \notin Wakers
ASSUME CountsAssumption == Counts \subseteq Int
ASSUME UsizeAssumption == UsizeValues \in Nat \ {0}

VARIABLES
    \* Inner
    head, tail, first, notified, len,
    \* Entry
    next, prev, state,
    \* Listener
    in_list,
    \* the Inner::notify call in progress
    borrowed, tags, additional,
    \* history: arrival order of the listeners in the list, the waker of a
    \* listener's last pending poll, and the waker invoked on its behalf
    queue, polled, woken

inner   == <<head, tail, first, notified, len>>
entries == <<next, prev, state>>
call    == <<borrowed, tags, additional>>
history == <<queue, polled, woken>>
vars    == <<inner, entries, in_list, call, history>>

Pointer == Listeners \cup {NULL}

Created         == [kind |-> "Created"]
Waiting(w)      == [kind |-> "Waiting", waker |-> w]
Notified(t, a)  == [kind |-> "Notified", tag |-> t, additional |-> a]
WaitingStates   == { Waiting(w) : w \in Wakers }
NotifiedStates  == { Notified(t, a) : t \in Tags, a \in BOOLEAN }
State == {Created} \cup WaitingStates \cup NotifiedStates

IsNotified(l) == state[l].kind = "Notified"

(* into_notification of an integer, which may be wider than a usize.  With a *)
(* negative one it panics before the event is touched: there is no call.     *)
IntoNotification(n) == n % UsizeValues
UsizeCounts == { IntoNotification(n) : n \in { m \in Counts : m >= 0 } }

Notifications == UNION { [1..n -> Tags] : n \in UsizeCounts }

-----------------------------------------------------------------------------
(* Event::new and Listener::new *)
Init ==
    /\ head = NULL /\ tail = NULL /\ first = NULL
    /\ notified = 0 /\ len = 0
    /\ next = [l \in Listeners |-> NULL]
    /\ prev = [l \in Listeners |-> NULL]
    /\ state = [l \in Listeners |-> Created]
    /\ in_list = [l \in Listeners |-> FALSE]
    /\ borrowed = FALSE /\ tags = <<>> /\ additional = FALSE
    /\ queue = <<>>
    /\ polled = [l \in Listeners |-> NULL]
    /\ woken = [l \in Listeners |-> NULL]

(* Listener::insert; the entry starts in state s. *)
InsertEntry(l, s) ==
    /\ prev' = [prev EXCEPT ![l] = tail]
    /\ next' = [m \in Listeners |-> IF m = l THEN NULL
                                    ELSE IF m = tail THEN l ELSE next[m]]
    /\ state' = [state EXCEPT ![l] = s]
    /\ tail' = l
    /\ head' = IF tail = NULL THEN l ELSE head
    /\ first' = IF first = NULL THEN l ELSE first
    /\ len' = len + 1
    /\ in_list' = [in_list EXCEPT ![l] = TRUE]
    /\ queue' = Append(queue, l)
    /\ UNCHANGED <<notified, call>>

(* What the fields are once the entry of l is taken out of the list. *)
NextWithout(l) == [m \in Listeners |-> IF m = l THEN NULL
                                       ELSE IF m = prev[l] THEN next[l] ELSE next[m]]
FaultyPrevWithout(l) == [prev EXCEPT ![l] = NULL]
PrevWithout(l) == [m \in Listeners |-> IF m = l THEN NULL
                                       ELSE IF m = next[l] THEN prev[l] ELSE prev[m]]
FaultyFirstWithout(l) == first
FirstWithout(l) == IF first = l THEN next[l] ELSE first
FaultyNotifiedWithout(l) == notified - 1
NotifiedWithout(l) == IF IsNotified(l) THEN notified - 1 ELSE notified

(* Listener::remove up to the tag. *)
Unlink(l) ==
    /\ head' = IF prev[l] = NULL THEN next[l] ELSE head
    /\ tail' = IF next[l] = NULL THEN prev[l] ELSE tail
    /\ next' = NextWithout(l)
    /\ prev' = PrevWithout(l)
    /\ first' = FirstWithout(l)
    /\ notified' = NotifiedWithout(l)
    /\ state' = [state EXCEPT ![l] = Created]
    /\ len' = len - 1
    /\ in_list' = [in_list EXCEPT ![l] = FALSE]
    /\ queue' = RemoveAt(queue, CHOOSE i \in 1..Len(queue) : queue[i] = l)
    /\ polled' = [polled EXCEPT ![l] = NULL]
    /\ woken' = [woken EXCEPT ![l] = NULL]

(***************************************************************************)
(* Inner::notify before its loop, with `already` entries notified: either  *)
(* an early return or the loop with the tags it can still hand out.        *)
(***************************************************************************)
FaultyLoopTags(ts, add, already) == ts
LoopTags(ts, add, already) ==
    IF add THEN ts ELSE SubSeq(ts, 1, Len(ts) - already)

BeginNotify(ts, add, already) ==
    IF ~add /\ Len(ts) <= already
    THEN UNCHANGED call
    ELSE /\ borrowed' = TRUE
         /\ tags' = LoopTags(ts, add, already)
         /\ additional' = add

-----------------------------------------------------------------------------
(* EventListener::listen *)
Listen(l) ==
    /\ ~borrowed
    /\ ~in_list[l]
    /\ InsertEntry(l, Created)
    /\ UNCHANGED <<polled, woken>>

(* Listener::poll of an entry that is not in the list: insert, then register. *)
PollInsert(l, w) ==
    /\ ~borrowed
    /\ ~in_list[l]
    /\ InsertEntry(l, Waiting(w))
    /\ polled' = [polled EXCEPT ![l] = w]
    /\ UNCHANGED woken

FaultyRegister(s, w) == IF s.kind = "Waiting" THEN s ELSE Waiting(w)

(* What register leaves in an entry that is not notified: the waker it is    *)
(* given, unless the entry has one already that would wake the same task.    *)
Register(s, w) ==
    IF s.kind = "Waiting" /\ s.waker = w THEN s ELSE Waiting(w)

PollPending(l, w) ==
    /\ ~borrowed
    /\ in_list[l] /\ ~IsNotified(l)
    /\ state' = [state EXCEPT ![l] = Register(@, w)]
    /\ polled' = [polled EXCEPT ![l] = w]
    /\ UNCHANGED <<inner, next, prev, in_list, call, queue, woken>>

(* Listener::poll of a notified entry: remove(false), Poll::Ready(tag). *)
PollReady(l) ==
    /\ ~borrowed
    /\ in_list[l] /\ IsNotified(l)
    /\ Unlink(l)
    /\ UNCHANGED call

(***************************************************************************)
(* Listener::drop, remove(true): the tag of a notified entry goes on as a  *)
(* SingleNotify.                                                           *)
(***************************************************************************)
DropListener(l) ==
    /\ ~borrowed
    /\ in_list[l]
    /\ Unlink(l)
    /\ IF IsNotified(l)
       THEN BeginNotify(<<state[l].tag>>, state[l].additional, notified - 1)
       ELSE UNCHANGED call

(* Event::notify, with its own early returns. *)
NotifyEvent(ts, add) ==
    /\ ~borrowed
    /\ IF (add /\ len = 0) \/ (~add /\ notified > Len(ts))
       THEN UNCHANGED call
       ELSE BeginNotify(ts, add, notified)
    /\ UNCHANGED <<inner, entries, in_list, history>>

(* One round of the loop of Inner::notify. *)
NotifyFirst ==
    /\ borrowed
    /\ tags # <<>> /\ first # NULL
    /\ tags' = Tail(tags)
    /\ first' = next[first]
    /\ state' = [state EXCEPT ![first] = Notified(Head(tags), additional)]
    /\ woken' = IF state[first].kind = "Waiting"
                THEN [woken EXCEPT ![first] = state[first].waker] ELSE woken
    /\ notified' = notified + 1
    /\ UNCHANGED <<head, tail, len, next, prev, in_list, borrowed, additional,
                   queue, polled>>

(* The loop ends: the count is used up or every entry is notified. *)
NotifyDone ==
    /\ borrowed
    /\ tags = <<>> \/ first = NULL
    /\ borrowed' = FALSE /\ tags' = <<>> /\ additional' = FALSE
    /\ UNCHANGED <<inner, entries, in_list, history>>

Next ==
    \/ \E l \in Listeners : Listen(l) \/ PollReady(l) \/ DropListener(l)
    \/ \E l \in Listeners, w \in Wakers : PollInsert(l, w) \/ PollPending(l, w)
    \/ \E ts \in Notifications, add \in BOOLEAN : NotifyEvent(ts, add)
    \/ NotifyFirst
    \/ NotifyDone

Spec == Init /\ [][Next]_vars

-----------------------------------------------------------------------------
(* Every variable has its type; in particular no counter goes below zero,    *)
(* where the code's `notified -= 1` and `len -= 1` would overflow a usize.   *)
TypeOK ==
    /\ head \in Pointer /\ tail \in Pointer /\ first \in Pointer
    /\ notified \in Nat /\ len \in Nat
    /\ next \in [Listeners -> Pointer]
    /\ prev \in [Listeners -> Pointer]
    /\ state \in [Listeners -> State]
    /\ in_list \in [Listeners -> BOOLEAN]
    /\ borrowed \in BOOLEAN /\ tags \in Seq(Tags) /\ additional \in BOOLEAN
    /\ queue \in Seq(Listeners)
    /\ polled \in [Listeners -> Wakers \cup {NULL}]
    /\ woken \in [Listeners -> Wakers \cup {NULL}]

(* The pointer surgery of insert and remove keeps one list: walking `next`   *)
(* from `head`, or `prev` from `tail`, visits exactly the listeners whose    *)
(* in_list is set, in the order in which they arrived, and `len` counts them. *)
LinksFollowArrival ==
    /\ len = Len(queue)
    /\ head = (IF queue = <<>> THEN NULL ELSE queue[1])
    /\ tail = (IF queue = <<>> THEN NULL ELSE queue[Len(queue)])
    /\ \A i \in 1..Len(queue) :
          /\ in_list[queue[i]]
          /\ next[queue[i]] = (IF i = Len(queue) THEN NULL ELSE queue[i + 1])
          /\ prev[queue[i]] = (IF i = 1 THEN NULL ELSE queue[i - 1])
          /\ \A j \in 1..Len(queue) : queue[i] = queue[j] => i = j
    /\ \A l \in Listeners : in_list[l] => \E i \in 1..Len(queue) : queue[i] = l

(* The notified entries are the `notified` oldest ones and `first` is the    *)
(* entry after them: the field comments "Number of entries that are          *)
(* currently notified" and "The first non-notified entry in the linked list" *)
(* hold whatever polls, drops and partial notifications came before.         *)
NotifiedArePrefix ==
    /\ notified <= Len(queue)
    /\ \A i \in 1..Len(queue) : IsNotified(queue[i]) <=> i <= notified
    /\ first = (IF notified = Len(queue) THEN NULL ELSE queue[notified + 1])

(* A listener that was notified after a pending poll has had the waker of    *)
(* its latest poll invoked, not an older one: changing the waker between     *)
(* two polls loses no wakeup.                                                *)
LatestWakerIsWoken ==
    \A l \in Listeners :
        in_list[l] /\ IsNotified(l) /\ polled[l] # NULL => woken[l] = polled[l]

(***************************************************************************)
(* The list implements the FIFO of EventQueue.  A notification takes       *)
(* effect at once there, so while its loop runs the entries it will still  *)
(* reach count as notified.                                                *)
(***************************************************************************)
InReach == IF Len(tags) <= Len(queue) - notified THEN Len(tags)
                                                 ELSE Len(queue) - notified

NoteAt(i) ==
    IF i <= notified
    THEN [who |-> queue[i], tag |-> state[queue[i]].tag,
          additional |-> state[queue[i]].additional]
    ELSE [who |-> queue[i], tag |-> tags[i - notified], additional |-> additional]

FifoState ==
    [notified |-> [i \in 1..(notified + InReach) |-> NoteAt(i)],
     waiting  |-> SubSeq(queue, notified + InReach + 1, Len(queue))]

Fifo == INSTANCE EventQueue WITH Counts <- UsizeCounts, ev <- FifoState

(* What a call does to the list is what that call does to the FIFO. *)
CallsActOnFifo ==
    /\ \A l \in Listeners :
          /\ Listen(l) \/ (\E w \in Wakers : PollInsert(l, w)) => Fifo!Listen(l)
          /\ PollReady(l) => Fifo!Resolve(l)
          /\ DropListener(l) => Fifo!DropListener(l)
    /\ \A ts \in Notifications, add \in BOOLEAN :
          NotifyEvent(ts, add) => Fifo!NotifyEvent(ts, add)

(* Every step of the list is a step of the FIFO or leaves it alone, and each *)
(* call is that call of the FIFO: which listener is notified, with which     *)
(* tag, and where the tag of a dropped listener goes, depends on the call    *)
(* and on arrival order alone.                                               *)
ImplementsFifo == Fifo!Spec /\ [][CallsActOnFifo]_vars
=============================================================================
