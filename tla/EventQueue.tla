----------------------------- MODULE EventQueue -----------------------------
(***************************************************************************)
(* What an Event promises: a FIFO of listeners, of which the oldest ones   *)
(* hold a notification.  A notification goes to the listeners that waited  *)
(* longest, each listener takes its own at most once, and a listener that  *)
(* is dropped hands a notification it has not taken to the next one.       *)
(***************************************************************************)
EXTENDS EventOps

CONSTANTS Listeners,     \* the EventListener values
          Tags,          \* values of the event's type T
          Counts         \* the counts notify() is called with

VARIABLE ev

(* The tags a notification of each count can produce. *)
Notifications == UNION { [1..n -> Tags] : n \in Counts }

Init == ev = NewEvent

Listen(l) ==
    /\ ~InList(ev, l)
    /\ ev' = Insert(ev, l)

Resolve(l) ==
    /\ IsNotified(ev, l)
    /\ ev' = Take(ev, l)

DropListener(l) ==
    /\ InList(ev, l)
    /\ ev' = Cancel(ev, l)

NotifyEvent(tags, additional) ==
    ev' = Notify(ev, tags, additional)

Next ==
    \/ \E l \in Listeners : Listen(l) \/ Resolve(l) \/ DropListener(l)
    \/ \E tags \in Notifications, additional \in BOOLEAN :
          NotifyEvent(tags, additional)

Spec == Init /\ [][Next]_ev
=============================================================================
