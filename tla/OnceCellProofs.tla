---------------------------- MODULE OnceCellProofs ----------------------------
(***************************************************************************)
(* Proofs about OnceCell for every set of tasks.                           *)
(***************************************************************************)
EXTENDS OnceCell, EventOpsProofs

(* The labels of pc. *)
Labels == {"idle", "initializing", "setting", "waiting"}

(* The cell keeps its types, and `passive` holds notes of the kind that wakes *)
(* everyone: only the end of a successful setter notifies it, and a dropped   *)
(* wait() passes such a note on.                                              *)
THEOREM TypeCorrect == Spec => []TypeOK
<1>1. Init => TypeOK
  BY NewEventType DEF Init, TypeOK, AllAdditional
<1>2. TypeOK /\ [Next]_vars => TypeOK'
  <2> SUFFICES ASSUME TypeOK, [Next]_vars PROVE TypeOK'
    OBVIOUS
  <2>1. /\ data \in Tasks \cup {Empty} /\ writing \in BOOLEAN
        /\ active \in EventOf(Tasks, {Unit})
        /\ passive \in EventOf(Tasks, {Unit}) /\ AllAdditional(passive)
        /\ pc \in [Tasks -> Labels]
    BY DEF TypeOK, AllAdditional, Labels
  <2> SUFFICES /\ data' \in Tasks \cup {Empty} /\ writing' \in BOOLEAN
               /\ active' \in EventOf(Tasks, {Unit})
               /\ passive' \in EventOf(Tasks, {Unit}) /\ AllAdditional(passive')
               /\ pc' \in [Tasks -> Labels]
    BY DEF TypeOK, AllAdditional, Labels
  <2>2. ASSUME NEW t \in Tasks, NEW e \in EventOf(Tasks, {Unit}), InitLoop(t, e)
        PROVE  /\ writing' \in BOOLEAN
               /\ active' \in EventOf(Tasks, {Unit})
               /\ pc' \in [Tasks -> Labels]
    <3>1. Insert(e, t) \in EventOf(Tasks, {Unit})
      BY InsertType
    <3> QED BY <2>1, <2>2, <3>1 DEF InitLoop, Goto, Labels
  <2>3. ASSUME NEW t \in Tasks, NEW e \in EventOf(Tasks, {Unit}), AllAdditional(e),
               WaitLoop(t, e)
        PROVE  /\ passive' \in EventOf(Tasks, {Unit}) /\ AllAdditional(passive')
               /\ pc' \in [Tasks -> Labels]
    <3>1. Insert(e, t) \in EventOf(Tasks, {Unit}) /\ AllAdditional(Insert(e, t))
      BY <2>3, InsertType DEF AllAdditional
    <3>2. passive' = Insert(e, t) \/ passive' = e
      BY <2>3 DEF WaitLoop
    <3>3. pc' \in [Tasks -> Labels]
      BY <2>1, <2>3 DEF WaitLoop, Goto, Labels
    <3> QED BY <2>3, <3>1, <3>2, <3>3
  <2>4. CASE \E t \in Tasks : InitFirst(t)
    BY <2>1, <2>2, <2>4 DEF InitFirst
  <2>5. CASE \E t \in Tasks : InitAgain(t)
    BY <2>1, <2>2, <2>5, TakeType DEF InitAgain
  <2>6. CASE \E t \in Tasks : SetterOk(t)
    <3>1. PICK t \in Tasks : SetterOk(t)
      BY <2>6
    <3> DEFINE add == TRUE
    <3>2. add \in BOOLEAN /\ add /\ Unit \in {Unit}
      OBVIOUS
    <3>3. passive' = WakeAll(passive, Unit, add) /\ active' = Wake(WakeAll(active, Unit, add))
      BY <3>1 DEF SetterOk
    <3>4. data' = t /\ writing' = FALSE /\ pc' \in [Tasks -> Labels]
      BY <2>1, <3>1 DEF SetterOk, Goto, Labels
    <3> HIDE DEF add
    <3>5. passive' \in EventOf(Tasks, {Unit}) /\ AllAdditional(passive')
      BY <2>1, <3>2, <3>3, WakeAllWakesEveryone
    <3>6. WakeAll(active, Unit, add) \in EventOf(Tasks, {Unit})
      BY <2>1, <3>2, WakeAllWakesEveryone
    <3>7. active' \in EventOf(Tasks, {Unit})
      BY <3>3, <3>6, WakeType
    <3> QED BY <3>4, <3>5, <3>7
  <2>7. CASE \E t \in Tasks : SetterFails(t)
    BY <2>1, <2>7, WakeType DEF SetterFails, Goto, Labels
  <2>8. CASE \E t \in Tasks : InitDrop(t)
    BY <2>1, <2>8, CancelType DEF InitDrop, Goto, Labels
  <2>9. CASE \E t \in Tasks : WaitFirst(t)
    BY <2>1, <2>3, <2>9 DEF WaitFirst
  <2>10. CASE \E t \in Tasks : WaitAgain(t)
    BY <2>1, <2>3, <2>10, TakeType, TakeAllAdditional DEF WaitAgain
  <2>11. CASE \E t \in Tasks : WaitDrop(t)
    BY <2>1, <2>11, CancelType, CancelAllAdditional DEF WaitDrop, Goto, Labels
  <2>12. CASE TakeValue
    BY <2>1, <2>12 DEF TakeValue
  <2>13. CASE UNCHANGED vars
    BY <2>1, <2>13 DEF vars
  <2> QED BY <2>4, <2>5, <2>6, <2>7, <2>8, <2>9, <2>10, <2>11, <2>12, <2>13 DEF Next
<1> QED BY <1>1, <1>2, PTL DEF Spec

(* At most one setter runs, `writing` is set exactly while it does, and none  *)
(* runs when there is a value: the write through the UnsafeCell is exclusive. *)
THEOREM SetterIsAlone == Spec => []OneSetter
<1>1. Init => OneSetter
  BY DEF Init, OneSetter
<1>2. TypeOK /\ OneSetter /\ [Next]_vars => OneSetter'
  <2> SUFFICES ASSUME TypeOK, OneSetter, [Next]_vars PROVE OneSetter'
    OBVIOUS
  <2>1. pc \in [Tasks -> Labels]
    BY DEF TypeOK, Labels
  <2>2. ASSUME NEW t \in Tasks, NEW l \in Labels \ {"setting"}, Goto(t, l),
               pc[t] # "setting", writing' = writing, data' = data \/ ~writing
        PROVE  OneSetter'
    <3>1. \A s \in Tasks : pc'[s] = "setting" <=> pc[s] = "setting"
      BY <2>1, <2>2 DEF Goto
    <3> QED BY <2>2, <3>1 DEF OneSetter
  <2>3. ASSUME NEW t \in Tasks, pc[t] = "setting", Goto(t, "idle"), writing' = FALSE
        PROVE  OneSetter'
    <3>1. \A s \in Tasks : pc'[s] # "setting"
      BY <2>1, <2>3 DEF Goto, OneSetter
    <3> QED BY <2>3, <3>1 DEF OneSetter
  <2>4. ASSUME NEW t \in Tasks, NEW e, InitLoop(t, e), pc[t] # "setting", data' = data
        PROVE  OneSetter'
    <3>1. CASE Goto(t, "setting") /\ data = Empty /\ ~writing /\ writing' = TRUE
      <4>1. \A s \in Tasks : pc'[s] = "setting" <=> s = t
        BY <2>1, <3>1 DEF Goto, OneSetter
      <4> QED BY <2>4, <3>1, <4>1 DEF OneSetter
    <3>2. CASE (Goto(t, "idle") \/ Goto(t, "initializing")) /\ writing' = writing
      BY <2>2, <2>4, <3>2 DEF Labels
    <3> QED BY <2>4, <3>1, <3>2 DEF InitLoop
  <2>5. CASE \E t \in Tasks : InitFirst(t) \/ InitAgain(t)
    BY <2>4, <2>5 DEF InitFirst, InitAgain
  <2>6. CASE \E t \in Tasks : SetterOk(t) \/ SetterFails(t)
    BY <2>3, <2>6 DEF SetterOk, SetterFails
  <2>7. CASE \E t \in Tasks : InitDrop(t) \/ WaitDrop(t)
    BY <2>2, <2>7 DEF InitDrop, WaitDrop, Labels
  <2>8. CASE \E t \in Tasks : WaitFirst(t) \/ WaitAgain(t)
    BY <2>2, <2>8 DEF WaitFirst, WaitAgain, WaitLoop, Labels
  <2>9. CASE TakeValue
    BY <2>9 DEF TakeValue, OneSetter
  <2>10. CASE UNCHANGED vars
    BY <2>10 DEF vars, OneSetter
  <2> QED BY <2>5, <2>6, <2>7, <2>8, <2>9, <2>10 DEF Next
<1> QED BY <1>1, <1>2, TypeCorrect, PTL DEF Spec

(* Once there is a value nobody sleeps on either event, whoever fell asleep  *)
(* before, and whatever futures are dropped or come back afterwards.         *)
THEOREM EveryoneIsWoken == Spec => []ReadyWakesEveryone
<1>1. Init => ReadyWakesEveryone
  BY NewEventType DEF Init, ReadyWakesEveryone
<1>2. TypeOK /\ ReadyWakesEveryone /\ [Next]_vars => ReadyWakesEveryone'
  <2> SUFFICES ASSUME TypeOK, ReadyWakesEveryone, [Next]_vars, data' # Empty
               PROVE  active'.waiting = <<>> /\ passive'.waiting = <<>>
    BY DEF ReadyWakesEveryone
  <2>1. active \in EventOf(Tasks, {Unit}) /\ passive \in EventOf(Tasks, {Unit})
    BY DEF TypeOK
  <2>2. data # Empty => active.waiting = <<>> /\ passive.waiting = <<>>
    BY DEF ReadyWakesEveryone
  <2>3. CASE \E t \in Tasks : InitFirst(t) \/ InitAgain(t)
    BY <2>1, <2>2, <2>3, TakeType DEF InitFirst, InitAgain, InitLoop
  <2>4. CASE \E t \in Tasks : InitDrop(t)
    BY <2>1, <2>2, <2>4, CancelKeepsEveryoneAwake DEF InitDrop
  <2>5. CASE \E t \in Tasks : SetterOk(t)
    <3> DEFINE add == TRUE
               woken == WakeAll(active, Unit, add)
    <3>1. add \in BOOLEAN /\ Unit \in {Unit}
      OBVIOUS
    <3>2. passive' = WakeAll(passive, Unit, add) /\ active' = Wake(woken)
      BY <2>5 DEF SetterOk
    <3> HIDE DEF add
    <3>3. passive'.waiting = <<>>
      BY <2>1, <3>1, <3>2, WakeAllWakesEveryone
    <3>4. woken \in EventOf(Tasks, {Unit}) /\ woken.waiting = <<>>
      BY <2>1, <3>1, WakeAllWakesEveryone
    <3> HIDE DEF woken
    <3>5. active'.waiting = <<>>
      BY <3>2, <3>4, WakeKeepsEveryoneAwake
    <3> QED BY <3>3, <3>5
  <2>6. CASE \E t \in Tasks : SetterFails(t)
    BY <2>1, <2>2, <2>6, WakeKeepsEveryoneAwake DEF SetterFails
  <2>7. CASE \E t \in Tasks : WaitFirst(t) \/ WaitAgain(t)
    BY <2>1, <2>2, <2>7, TakeType DEF WaitFirst, WaitAgain, WaitLoop
  <2>8. CASE \E t \in Tasks : WaitDrop(t)
    BY <2>1, <2>2, <2>8, CancelKeepsEveryoneAwake DEF WaitDrop
  <2>9. CASE TakeValue
    BY <2>9 DEF TakeValue
  <2>10. CASE UNCHANGED vars
    BY <2>2, <2>10 DEF vars
  <2> QED BY <2>3, <2>4, <2>5, <2>6, <2>7, <2>8, <2>9, <2>10 DEF Next
<1> QED BY <1>1, <1>2, TypeCorrect, PTL DEF Spec

(* While nobody writes to the empty cell, some sleeping initializer has been  *)
(* woken: failed and dropped setters, and dropped initializers, hand the turn *)
(* on.  It needs ReadyWakesEveryone for the one step that empties a full      *)
(* cell, TakeValue.                                                           *)
THEOREM WakeupIsKept == Spec => []NoLostWakeup
<1>1. Init => NoLostWakeup
  BY NewEventType DEF Init, NoLostWakeup
<1>2. TypeOK /\ ReadyWakesEveryone /\ NoLostWakeup /\ [Next]_vars => NoLostWakeup'
  <2> SUFFICES ASSUME TypeOK, ReadyWakesEveryone, NoLostWakeup, [Next]_vars
               PROVE  NoLostWakeup'
    OBVIOUS
  <2>1. active \in EventOf(Tasks, {Unit})
    BY DEF TypeOK
  <2>2. CASE \E t \in Tasks : InitFirst(t) \/ InitAgain(t)
    <3>1. writing' \/ data' # Empty
      BY <2>2 DEF InitFirst, InitAgain, InitLoop
    <3> QED BY <3>1 DEF NoLostWakeup
  <2>3. CASE \E t \in Tasks : InitDrop(t)
    <3>1. PICK t \in Tasks : InitDrop(t)
      BY <2>3
    <3>2. active' = Cancel(active, t) /\ data' = data /\ writing' = writing
      BY <3>1 DEF InitDrop
    <3>3. CASE ~writing /\ data = Empty
      <4>1. active.waiting # <<>> => active.notified # <<>>
        BY <3>3 DEF NoLostWakeup
      <4>2. active'.waiting # <<>> => active'.notified # <<>>
        BY <2>1, <3>2, <4>1, CancelKeepsSomeoneAwake
      <4> QED BY <4>2 DEF NoLostWakeup
    <3>4. CASE writing \/ data # Empty
      BY <3>2, <3>4 DEF NoLostWakeup
    <3> QED BY <3>3, <3>4
  <2>4. CASE \E t \in Tasks : SetterOk(t)
    BY <2>4, EmptyAssumption DEF SetterOk, NoLostWakeup
  <2>5. CASE \E t \in Tasks : SetterFails(t)
    BY <2>1, <2>5, WakeWakesSomeone DEF SetterFails, NoLostWakeup
  <2>6. CASE \E t \in Tasks : WaitFirst(t) \/ WaitAgain(t) \/ WaitDrop(t)
    BY <2>6 DEF WaitFirst, WaitAgain, WaitDrop, NoLostWakeup
  <2>7. CASE TakeValue
    BY <2>7 DEF TakeValue, ReadyWakesEveryone, NoLostWakeup
  <2>8. CASE UNCHANGED vars
    BY <2>8 DEF vars, NoLostWakeup
  <2> QED BY <2>2, <2>3, <2>4, <2>5, <2>6, <2>7, <2>8 DEF Next
<1> QED BY <1>1, <1>2, TypeCorrect, EveryoneIsWoken, PTL DEF Spec

(* The value references are handed out to is never replaced, and is taken     *)
(* only when no future of the cell exists: the setter that stores a value     *)
(* found none, by OneSetter.                                                  *)
THEOREM KeptValue == Spec => ValueIsKept
<1>1. OneSetter /\ [Next]_vars
        => [data # Empty => data' = data \/ \A t \in Tasks : pc[t] = "idle"]_vars
  <2> SUFFICES ASSUME OneSetter, Next, data # Empty
               PROVE  data' = data \/ \A t \in Tasks : pc[t] = "idle"
    OBVIOUS
  <2>1. ASSUME NEW t \in Tasks, SetterOk(t) PROVE FALSE
    BY <2>1 DEF SetterOk, OneSetter
  <2>2. ASSUME NEW t \in Tasks,
               InitFirst(t) \/ InitAgain(t) \/ InitDrop(t) \/ SetterFails(t)
                 \/ WaitFirst(t) \/ WaitAgain(t) \/ WaitDrop(t)
        PROVE  data' = data
    BY <2>2 DEF InitFirst, InitAgain, InitDrop, SetterFails, WaitFirst, WaitAgain, WaitDrop
  <2>3. CASE TakeValue
    BY <2>3 DEF TakeValue
  <2> QED BY <2>1, <2>2, <2>3 DEF Next
<1> QED BY <1>1, SetterIsAlone, PTL DEF Spec, ValueIsKept
=============================================================================
