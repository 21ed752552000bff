----------------------------- MODULE MCEventList -----------------------------
(* Three listeners, so that an entry can be unlinked at the head, in the     *)
(* middle and at the tail; counts up to one more than there are listeners,   *)
(* a negative one, and two that do not fit into a usize of eight values.     *)
EXTENDS EventList

MCCounts == {-1, 0, 1, 2, 4, 8, 10}
=============================================================================
