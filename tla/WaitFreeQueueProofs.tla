------------------------- MODULE WaitFreeQueueProofs -------------------------
(***************************************************************************)
(* The safety of the ring for every number of slots and every set of       *)
(* items.                                                                  *)
(***************************************************************************)
EXTENDS WaitFreeQueue, SequenceTheorems, TLAPS

\* The mask is a conditional: the successor of the last slot is slot 0.
LEMMA SuccIsConditional ==
  ASSUME NEW i \in Slots
  PROVE  Succ(i) = (IF i = N - 1 THEN 0 ELSE i + 1)
  BY RingAssumption DEF Succ, Slots

\* Succ stays in the ring.
LEMMA SuccInSlots ==
  ASSUME NEW i \in Slots
  PROVE  Succ(i) \in Slots
  BY SuccIsConditional, RingAssumption DEF Slots
\* One step of Succ away from the start or from the end of a stretch of the
\* ring changes its length by one.
LEMMA DistanceBySucc ==
  ASSUME NEW a \in Slots, NEW b \in Slots
  PROVE  /\ Distance(a, b) \in 0 .. N - 1
         /\ Distance(a, b) = 0 <=> a = b
         /\ a # Succ(b) => Distance(a, Succ(b)) = Distance(a, b) + 1
         /\ a # b => Distance(Succ(a), b) = Distance(a, b) - 1
  BY SuccIsConditional, RingAssumption DEF Distance, Slots

\* The initial state satisfies the inductive invariant.
LEMMA InitInv == Init => Inv
  BY RingAssumption
  DEF Init, Inv, TypeOK, RingOrder, AdmittedPush, AdmittedPop, Written, Distance, Slots

\* Every step of push(), of pop() and of the memory preserves it.
LEMMA NextInv == Inv /\ [Next]_vars => Inv'
<1>. SUFFICES ASSUME Inv, [Next]_vars PROVE Inv'
  OBVIOUS
<1>. USE DEF Inv, TypeOK, Written
<1>1. ASSUME NEW v \in Values, PushCall(v) PROVE Inv'
  BY <1>1 DEF PushCall, RingOrder, AdmittedPush, AdmittedPop
<1>2. CASE PushRefused
  BY <1>2 DEF PushRefused, RingOrder, AdmittedPush, AdmittedPop
<1>3. CASE PushAdmitted
  BY <1>3 DEF PushAdmitted, Full, RingOrder, AdmittedPush, AdmittedPop
<1>4. CASE PushWrite
  BY <1>4 DEF PushWrite, RingOrder, AdmittedPush, AdmittedPop
<1>5. CASE PushPublish
  <2>1. TypeOK'
    BY <1>5, SuccInSlots DEF PushPublish
  <2>2. Succ(tail) # headView
    BY <1>5 DEF PushPublish, AdmittedPush
  <2>3. Succ(tail) # tailView
    <3>. SUFFICES ASSUME Succ(tail) = tailView PROVE FALSE
      OBVIOUS
    <3>1. Distance(tailView, tail) = N - 1
      BY SuccIsConditional, RingAssumption DEF Distance, Slots
    <3>2. Distance(headView, head) = 0 /\ Distance(head, tailView) = 0
      BY <3>1, DistanceBySucc, RingAssumption DEF RingOrder
    <3>. QED BY <2>2, <3>2, DistanceBySucc
  <2>4. RingOrder'
    BY <1>5, <2>2, <2>3, DistanceBySucc, SuccInSlots DEF PushPublish, RingOrder
  <2>5. AdmittedPush' /\ AdmittedPop' /\ Written'
    BY <1>5 DEF PushPublish, AdmittedPush, AdmittedPop
  <2>. QED BY <2>1, <2>4, <2>5
<1>6. CASE PopCall
  BY <1>6 DEF PopCall, RingOrder, AdmittedPush, AdmittedPop
<1>7. CASE PopRefused
  BY <1>7 DEF PopRefused, RingOrder, AdmittedPush, AdmittedPop
<1>8. CASE PopAdmitted
  BY <1>8 DEF PopAdmitted, Empty, RingOrder, AdmittedPush, AdmittedPop
<1>9. CASE PopRead
  BY <1>9 DEF PopRead, RingOrder, AdmittedPush, AdmittedPop
<1>10. CASE PopAdvance
  <2>1. TypeOK'
    BY <1>10, SuccInSlots DEF PopAdvance
  <2>2. head # tailView
    BY <1>10 DEF PopAdvance, AdmittedPop
  <2>3. Succ(head) # headView
    BY <2>2, SuccIsConditional, RingAssumption DEF RingOrder, Distance, Slots
  <2>4. RingOrder'
    BY <1>10, <2>2, <2>3, DistanceBySucc, SuccInSlots DEF PopAdvance, RingOrder
  <2>5. AdmittedPush' /\ AdmittedPop' /\ Written'
    BY <1>10 DEF PopAdvance, AdmittedPush, AdmittedPop
  <2>. QED BY <2>1, <2>4, <2>5
<1>11. CASE PropagateHead
  <2>1. RingOrder'
    BY <1>11, RingAssumption DEF PropagateHead, RingOrder, Distance, Slots
  <2>2. AdmittedPush'
    BY <1>11, SuccIsConditional, RingAssumption
    DEF PropagateHead, AdmittedPush, RingOrder, Distance, Slots
  <2>3. TypeOK' /\ AdmittedPop' /\ Written'
    BY <1>11 DEF PropagateHead, AdmittedPop
  <2>. QED BY <2>1, <2>2, <2>3
<1>12. CASE PropagateTail
  <2>1. RingOrder'
    BY <1>12, RingAssumption DEF PropagateTail, RingOrder, Distance, Slots
  <2>2. AdmittedPop'
    BY <1>12, RingAssumption DEF PropagateTail, AdmittedPop, RingOrder, Distance, Slots
  <2>3. TypeOK' /\ AdmittedPush' /\ Written'
    BY <1>12 DEF PropagateTail, AdmittedPush
  <2>. QED BY <2>1, <2>2, <2>3
<1>13. CASE UNCHANGED vars
  BY <1>13 DEF vars, RingOrder, AdmittedPush, AdmittedPop
<1>. QED
  BY <1>1, <1>2, <1>3, <1>4, <1>5, <1>6, <1>7, <1>8, <1>9, <1>10, <1>11, <1>12, <1>13
  DEF Next, PushStep, PopStep

\* The ring keeps its inductive invariant: the indices stay in cyclic order
\* within one turn, and an admitted call keeps its slot.
THEOREM InvAlways == SafetySpec => []Inv
<1>. QED BY InitInv, NextInv, PTL DEF SafetySpec

\* push() and pop() are type correct for every N and every set of items.
THEOREM TypeCorrect == SafetySpec => []TypeOK
<1>1. Inv => TypeOK
  BY DEF Inv
<1>. QED BY <1>1, InvAlways, PTL

\* head, tail and what each side sees of the other never leave their order.
THEOREM OrderAlways == SafetySpec => []RingOrder
<1>1. Inv => RingOrder
  BY DEF Inv
<1>. QED BY <1>1, InvAlways, PTL

\* The slot push() writes is never the slot pop() is reading.
THEOREM RaceFree == SafetySpec => []NoDataRace
<1>1. Inv => NoDataRace
  <2>. SUFFICES ASSUME Inv, consumer = "read", tail = head PROVE FALSE
    BY DEF NoDataRace
  <2>1. Distance(head, tailView) # 0
    BY DistanceBySucc DEF Inv, TypeOK, AdmittedPop
  <2>. QED BY <2>1, DistanceBySucc DEF Inv, TypeOK, RingOrder
<1>. QED BY <1>1, InvAlways, PTL

------------------------------------------------------------------------------
\* The slot k places after slot a, without the remainder.
LEMMA SlotAfterIsConditional ==
  ASSUME NEW a \in Slots, NEW k \in 0 .. N - 1
  PROVE  SlotAfter(a, k) = (IF a + k < N THEN a + k ELSE a + k - N)
  BY RingAssumption DEF SlotAfter, Slots

\* What the stretch of slots that Items reads is, for the steps below.
LEMMA ItemsFacts ==
  ASSUME Inv
  PROVE  /\ FirstItem \in Slots
         /\ Distance(FirstItem, tail) \in 0 .. N - 1
         /\ Items \in Seq(Values \cup {NoValue})
         /\ Len(Items) = Distance(FirstItem, tail)
         /\ consumer = "advance" => head # tail
<1>1. FirstItem \in Slots
  BY SuccInSlots DEF Inv, TypeOK, FirstItem
<1>2. Distance(FirstItem, tail) \in 0 .. N - 1
  BY <1>1, DistanceBySucc DEF Inv, TypeOK
<1>3. \A i \in 1 .. Distance(FirstItem, tail) :
        buffer[SlotAfter(FirstItem, i - 1)] \in Values \cup {NoValue}
  <2>1. ASSUME NEW i \in 1 .. Distance(FirstItem, tail)
        PROVE  SlotAfter(FirstItem, i - 1) \in Slots
    BY <1>1, <1>2, SlotAfterIsConditional, RingAssumption DEF Slots
  <2>. QED BY <2>1 DEF Inv, TypeOK
<1>4. consumer = "advance" => head # tail
  BY DistanceBySucc DEF Inv, TypeOK, AdmittedPop, RingOrder
<1>. QED BY <1>1, <1>2, <1>3, <1>4 DEF Items

\* A write by push() touches none of the waiting items.
LEMMA WriteKeepsItems ==
  ASSUME Inv, PushWrite
  PROVE  Items' = Items
<1>. DEFINE D == Distance(FirstItem, tail)
<1>1. FirstItem' = FirstItem /\ tail' = tail
  BY DEF PushWrite, FirstItem
<1>2. ASSUME NEW i \in 1 .. D
      PROVE  buffer'[SlotAfter(FirstItem, i - 1)] = buffer[SlotAfter(FirstItem, i - 1)]
  <2>1. FirstItem \in Slots /\ D \in 0 .. N - 1 /\ i - 1 \in 0 .. N - 1
    BY ItemsFacts, RingAssumption
  <2>2. SlotAfter(FirstItem, i - 1)
          = IF FirstItem + (i - 1) < N THEN FirstItem + (i - 1) ELSE FirstItem + (i - 1) - N
    BY <2>1, SlotAfterIsConditional
  <2>3. D = IF FirstItem <= tail THEN tail - FirstItem ELSE tail - FirstItem + N
    BY DEF Distance
  <2>4. tail \in Slots
    BY DEF Inv, TypeOK
  <2>5. SlotAfter(FirstItem, i - 1) \in Slots /\ SlotAfter(FirstItem, i - 1) # tail
    BY <2>1, <2>2, <2>3, <2>4, RingAssumption DEF Slots
  <2>. QED BY <2>5 DEF PushWrite, Inv, TypeOK
<1>3. Distance(FirstItem, tail)' = D
  BY <1>1 DEF Distance
<1>. QED BY <1>1, <1>2, <1>3 DEF Items

\* The store of tail appends the pushed item, for which there is room.
LEMMA PublishPuts ==
  ASSUME Inv, PushPublish
  PROVE  Fifo!Put(val)
<1>. DEFINE D == Distance(FirstItem, tail)
<1>1. FirstItem' = FirstItem /\ tail' = Succ(tail) /\ buffer' = buffer /\ out' = out
  BY DEF PushPublish, FirstItem
<1>2. FirstItem \in Slots /\ D \in 0 .. N - 1 /\ Len(Items) = D /\ tail \in Slots
  BY ItemsFacts DEF Inv, TypeOK
<1>3. Succ(tail) # FirstItem
  <2>. SUFFICES ASSUME Succ(tail) = FirstItem PROVE FALSE
    OBVIOUS
  <2>1. Distance(FirstItem, tail) = N - 1
    BY <1>2, SuccIsConditional, RingAssumption DEF Distance, Slots
  <2>2. Distance(head, tail) >= N - 1
    BY <1>2, <2>1, ItemsFacts, DistanceBySucc, RingAssumption
    DEF FirstItem, Inv, TypeOK
  <2>3. Distance(head, tail) = Distance(head, tailView) + Distance(tailView, tail)
    BY RingAssumption DEF Inv, TypeOK, RingOrder, Distance, Slots
  <2>4. Distance(headView, head) = 0
    BY <2>2, <2>3, DistanceBySucc, RingAssumption DEF Inv, TypeOK, RingOrder
  <2>5. Succ(tail) # head
    BY <2>4, DistanceBySucc DEF Inv, TypeOK, AdmittedPush, PushPublish
  <2>6. consumer = "advance"
    BY <2>5 DEF FirstItem
  <2>7. Distance(FirstItem, tail) = Distance(head, tail) - 1
    BY <2>6, ItemsFacts, DistanceBySucc DEF FirstItem, Inv, TypeOK
  <2>. QED BY <2>1, <2>7, DistanceBySucc, RingAssumption DEF Inv, TypeOK
<1>4. Distance(FirstItem, tail)' = D + 1 /\ D + 1 \in 0 .. N - 1
  BY <1>1, <1>2, <1>3, DistanceBySucc, SuccInSlots, RingAssumption DEF Distance
<1>5. SlotAfter(FirstItem, D) = tail
  BY <1>2, SlotAfterIsConditional, RingAssumption DEF Distance, Slots
<1>6. Items' = [i \in 1 .. D + 1 |-> buffer[SlotAfter(FirstItem, i - 1)]]
  BY <1>1, <1>4 DEF Items
<1>7. \A i \in 1 .. D + 1 : SlotAfter(FirstItem, i - 1) \in Slots
  <2>. SUFFICES ASSUME NEW i \in 1 .. D + 1 PROVE SlotAfter(FirstItem, i - 1) \in Slots
    OBVIOUS
  <2>1. i - 1 \in 0 .. N - 1
    BY <1>4, <1>2, RingAssumption
  <2>2. SlotAfter(FirstItem, i - 1)
          = IF FirstItem + (i - 1) < N THEN FirstItem + (i - 1) ELSE FirstItem + (i - 1) - N
    BY <1>2, <2>1, SlotAfterIsConditional
  <2>. QED BY <1>2, <2>1, <2>2, RingAssumption DEF Slots
<1>8. Items' \in Seq(Values \cup {NoValue}) /\ Len(Items') = D + 1
  BY <1>2, <1>6, <1>7 DEF Inv, TypeOK
<1>9. /\ val \in Values \cup {NoValue}
      /\ buffer[tail] = val
  BY DEF Inv, TypeOK, Written, PushPublish
<1>10. \A i \in 1 .. D + 1 : Items'[i] = IF i = D + 1 THEN val ELSE Items[i]
  <2>1. ASSUME NEW i \in 1 .. D PROVE Items'[i] = Items[i]
    <3>1. Items[i] = buffer[SlotAfter(FirstItem, i - 1)]
      BY DEF Items
    <3>. QED BY <1>2, <1>6, <3>1
  <2>2. Items'[D + 1] = val
    BY <1>2, <1>5, <1>6, <1>9
  <2>. QED BY <1>2, <2>1, <2>2
<1>11. Items' = Append(Items, val)
  <2>1. /\ Append(Items, val) \in Seq(Values \cup {NoValue})
        /\ Len(Append(Items, val)) = D + 1
        /\ \A i \in 1 .. D : Append(Items, val)[i] = Items[i]
        /\ Append(Items, val)[D + 1] = val
    BY <1>2, <1>9, ItemsFacts, AppendProperties
  <2>2. \A i \in 1 .. D + 1 : Items'[i] = Append(Items, val)[i]
    BY <1>2, <1>10, <2>1
  <2>. QED BY <1>8, <2>1, <2>2, SeqEqual
<1>. QED BY <1>1, <1>2, <1>4, <1>11, RingAssumption DEF Fifo!Put

\* The copy out of the slot takes the oldest item.
LEMMA ReadTakes ==
  ASSUME Inv, PopRead
  PROVE  Fifo!Take
<1>. DEFINE D == Distance(head, tail)
<1>1. FirstItem = head /\ FirstItem' = Succ(head) /\ tail' = tail /\ buffer' = buffer
  BY DEF PopRead, FirstItem
<1>2. head \in Slots /\ D \in 0 .. N - 1 /\ Len(Items) = D /\ tail \in Slots
  BY <1>1, ItemsFacts DEF Inv, TypeOK
<1>3. head # tail
  BY DistanceBySucc DEF Inv, TypeOK, AdmittedPop, RingOrder, PopRead
<1>4. D \in 1 .. N - 1 /\ Distance(FirstItem, tail)' = D - 1
  BY <1>1, <1>2, <1>3, DistanceBySucc DEF Distance
<1>5. Items # <<>> /\ Items[1] = buffer[head]
  BY <1>1, <1>2, <1>4, SlotAfterIsConditional, RingAssumption DEF Items, Slots
<1>6. Items' = [i \in 1 .. D - 1 |-> buffer[SlotAfter(Succ(head), i - 1)]]
  BY <1>1, <1>4 DEF Items
<1>7. ASSUME NEW i \in 1 .. D - 1
      PROVE  /\ SlotAfter(Succ(head), i - 1) = SlotAfter(head, i)
             /\ SlotAfter(head, i) \in Slots
  <2>1. i - 1 \in 0 .. N - 1 /\ i \in 0 .. N - 1
    BY <1>2, RingAssumption
  <2>2. SlotAfter(Succ(head), i - 1)
          = IF Succ(head) + (i - 1) < N THEN Succ(head) + (i - 1) ELSE Succ(head) + (i - 1) - N
    BY <1>2, <2>1, SuccInSlots, SlotAfterIsConditional
  <2>3. SlotAfter(head, i) = IF head + i < N THEN head + i ELSE head + i - N
    BY <1>2, <2>1, SlotAfterIsConditional
  <2>4. Succ(head) = IF head = N - 1 THEN 0 ELSE head + 1
    BY <1>2, SuccIsConditional
  <2>. QED BY <1>2, <2>1, <2>2, <2>3, <2>4, RingAssumption DEF Slots
<1>8. /\ Items' \in Seq(Values \cup {NoValue})
      /\ Len(Items') = D - 1
      /\ \A i \in 1 .. D - 1 : Items'[i] = buffer[SlotAfter(head, i)]
  BY <1>4, <1>6, <1>7 DEF Inv, TypeOK
<1>9. /\ Tail(Items) \in Seq(Values \cup {NoValue})
      /\ Len(Tail(Items)) = D - 1
      /\ \A i \in 1 .. D - 1 : Tail(Items)[i] = Items[i + 1]
  BY <1>2, <1>5, ItemsFacts, HeadTailProperties
<1>10. \A i \in 1 .. D - 1 : Items[i + 1] = buffer[SlotAfter(head, i)]
  BY <1>1, <1>2, <1>4 DEF Items, Slots
<1>11. Items' = Tail(Items)
  BY <1>8, <1>9, <1>10, SeqEqual
<1>. QED BY <1>5, <1>11, ItemsFacts DEF PopRead, Fifo!Take

\* The release of a slot already read leaves the waiting items alone.
LEMMA AdvanceKeepsItems ==
  ASSUME Inv, PopAdvance
  PROVE  Items' = Items
  BY DEF PopAdvance, Items, FirstItem, Distance

\* Every step of the ring is a Put, a Take or a stutter of the channel.
LEMMA StepRefines == Inv /\ [Next]_vars => [Fifo!Next]_(Fifo!vars)
<1>. SUFFICES ASSUME Inv, [Next]_vars
              PROVE  Fifo!Next \/ (Items' = Items /\ out' = out)
  BY DEF Fifo!vars
<1>1. ASSUME UNCHANGED <<buffer, tail, FirstItem, out>> PROVE Items' = Items /\ out' = out
  BY <1>1 DEF Items, Distance
<1>2. CASE PushPublish
  BY <1>2, PublishPuts DEF Fifo!Next, Inv, Written, PushPublish
<1>3. CASE PopRead
  BY <1>3, ReadTakes DEF Fifo!Next
<1>4. CASE PushWrite
  BY <1>4, WriteKeepsItems DEF PushWrite
<1>5. CASE PopAdvance
  BY <1>5, AdvanceKeepsItems DEF PopAdvance
<1>6. ASSUME NEW v \in Values, PushCall(v) PROVE Items' = Items /\ out' = out
  BY <1>1, <1>6 DEF PushCall, FirstItem
<1>7. CASE PushRefused \/ PushAdmitted
  BY <1>1, <1>7 DEF PushRefused, PushAdmitted, FirstItem
<1>8. CASE PopCall \/ PopRefused \/ PopAdmitted
  BY <1>1, <1>8 DEF PopCall, PopRefused, PopAdmitted, FirstItem
<1>9. CASE PropagateHead \/ PropagateTail
  BY <1>1, <1>9 DEF PropagateHead, PropagateTail, FirstItem
<1>10. CASE UNCHANGED vars
  BY <1>1, <1>10 DEF vars, FirstItem
<1>. QED
  BY <1>2, <1>3, <1>4, <1>5, <1>6, <1>7, <1>8, <1>9, <1>10 DEF Next, PushStep, PopStep

\* The ring implements the bounded channel: nothing accepted is lost,
\* duplicated or reordered, for every N and every set of items.
THEOREM RingImplementsFifo == SafetySpec => ImplementsFifo
<1>1. Init => Fifo!Init
  BY RingAssumption DEF Init, Fifo!Init, Items, FirstItem, Distance
<1>. QED BY <1>1, StepRefines, InvAlways, PTL DEF SafetySpec, ImplementsFifo, Fifo!Spec
==============================================================================
