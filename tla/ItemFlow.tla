------------------------------ MODULE ItemFlow ------------------------------
(***************************************************************************)
(* What a channel promises, whatever roads its items take.  As long as     *)
(* there is a receiver, an item that is sent is queued, or handed to a     *)
(* recv() future; one receiver gets it, and only an item that was handed   *)
(* to a future that is dropped may get lost.  A receiver is told that the  *)
(* channel is closed when no sender and no queued item is left.            *)
(***************************************************************************)
EXTENDS Naturals, Sequences

CONSTANTS SenderIds,     \* Sender handles
          ReceiverIds,   \* Receiver handles
          MaxItems       \* bound on the items that are sent

VARIABLES
    tx, rx,        \* the handles that are alive
    sent,          \* how many items were sent
    queued,        \* items that wait for a receiver
    handed,        \* items on the way to one recv() future
    got,           \* per receiver, the items it got
    lost,          \* items that nobody gets
    told           \* receivers that were told the channel is closed

items == <<queued, handed, got, lost>>
vars == <<tx, rx, sent, items, told>>

Init ==
    /\ \E s \in SenderIds : tx = {s}
    /\ \E r \in ReceiverIds : rx = {r}
    /\ sent = 0
    /\ queued = {} /\ handed = {}
    /\ got = [r \in ReceiverIds |-> <<>>]
    /\ lost = {} /\ told = {}

Send ==
    /\ tx # {} /\ rx # {}
    /\ sent < MaxItems
    /\ sent' = sent + 1
    /\ \/ queued' = queued \cup {sent + 1} /\ UNCHANGED handed
       \/ handed' = handed \cup {sent + 1} /\ UNCHANGED queued
    /\ UNCHANGED <<tx, rx, got, lost, told>>

Receive(r) ==
    /\ r \in rx
    /\ \E i \in queued \cup handed :
          /\ queued' = queued \ {i} /\ handed' = handed \ {i}
          /\ got' = [got EXCEPT ![r] = Append(@, i)]
    /\ UNCHANGED <<tx, rx, sent, lost, told>>

Lose(i) ==
    /\ i \in handed
    /\ handed' = handed \ {i}
    /\ lost' = lost \cup {i}
    /\ UNCHANGED <<tx, rx, sent, queued, got, told>>

ReportClosed(r) ==
    /\ r \in rx
    /\ tx = {} /\ queued = {}
    /\ told' = told \cup {r}
    /\ UNCHANGED <<tx, rx, sent, items>>

(* A side that has no handle left gets none any more. *)
CloneOrDrop ==
    /\ \/ \E s \in tx, new \in SenderIds : tx' \in {tx \cup {new}, tx \ {s}} /\ UNCHANGED rx
       \/ \E r \in rx, new \in ReceiverIds : rx' \in {rx \cup {new}, rx \ {r}} /\ UNCHANGED tx
    /\ UNCHANGED <<sent, items, told>>

Next ==
    \/ Send \/ CloneOrDrop
    \/ \E r \in ReceiverIds : Receive(r) \/ ReportClosed(r)
    \/ \E i \in handed : Lose(i)

Spec == Init /\ [][Next]_vars
=============================================================================
