---------------------------- MODULE WsQueueProofs ----------------------------
(***************************************************************************)
(* The work-stealing queue keeps its positions in order and implements the *)
(* abstract deque, for any set of thieves and tasks and every capacity.    *)
(***************************************************************************)
EXTENDS WsQueue, QueueCapacityProofs, SequenceTheorems

Assumptions ==
    NoItemAssumption /\ RequestsAssumption /\ BoundsAssumption /\ ThreadsAssumption

-----------------------------------------------------------------------------
(* Facts about a state *)

\* The variables that are numbers.
LEMMA Numbers ==
    ASSUME Assumptions, TypeOK
    PROVE  /\ top \in Nat /\ bottom \in Int /\ capacity \in Nat /\ otop \in Nat
           /\ MaxPos \in Nat /\ Settled \in Int
           /\ \A t \in Thief : ttop[t] \in Nat
BY DEF Assumptions, BoundsAssumption, TypeOK, Settled

\* The slot of a position is one of the slots, and holds an item or NULL.
LEMMA SlotOf ==
    ASSUME TypeOK, capacity # 0, NEW q \in Nat
    PROVE  /\ Slot(q, capacity) \in Slots
           /\ buffer[Slot(q, capacity)] \in Item \cup {NoItem}
<1>1. capacity \in Nat \ {0}
  BY DEF TypeOK
<1>2. Slot(q, capacity) \in Slots
  BY <1>1, SlotInRange DEF Slots
<1> QED
  BY <1>2 DEF TypeOK

-----------------------------------------------------------------------------
(* The owner's steps *)

LEMMA CreateKeeps ==
    ASSUME Assumptions, PositionsSound, NEW request \in Requests, Create(request)
    PROVE  PositionsSound'
<1>1. PICK n \in Nat \ {0} : capacity' = n
  BY DEF Assumptions, RequestsAssumption, Create
<1>2. /\ top = 0 /\ bottom = 0 /\ capacity = 0 /\ UNCHANGED <<top, bottom, owner, thieves, out>>
      /\ buffer' = [s \in 0..(n - 1) |-> NoItem]
  BY <1>1 DEF Create, PositionsSound, PositionsInOrder
<1>3. opc = "idle" /\ \A t \in Thief : tpc[t] = "idle"
  BY <1>2 DEF PositionsSound, OwnerSound, ThiefSound
<1>4. TypeOK'
  <2>1. Slots' = 0..(n - 1)
    BY <1>1 DEF Slots
  <2>2. buffer' \in [0..(n - 1) -> Item \cup {NoItem}]
    BY <1>2
  <2> QED
    BY <1>1, <1>2, <2>1, <2>2 DEF PositionsSound, TypeOK, owner, thieves
<1>5. Settled' = 0 /\ opc' = "idle"
  BY <1>2, <1>3 DEF Settled, owner
<1>6. PositionsInOrder'
  BY <1>1, <1>2, <1>5 DEF PositionsInOrder, Assumptions, BoundsAssumption
<1>7. SlotsHoldItems'
  <2>1. top'..(Settled' - 1) = {}
    BY <1>2, <1>5
  <2> QED
    BY <2>1 DEF SlotsHoldItems
<1>8. OwnerSound' /\ \A t \in Thief : ThiefSound(t)'
  BY <1>2, <1>3 DEF OwnerSound, ThiefSound, owner, thieves
<1> QED
  BY <1>4, <1>6, <1>7, <1>8 DEF PositionsSound

LEMMA DestroyKeeps ==
    ASSUME Assumptions, PositionsSound, Destroy
    PROVE  PositionsSound'
<1>1. /\ capacity' = 0 /\ buffer' = [s \in {} |-> NoItem] /\ top' = 0 /\ bottom' = 0
      /\ UNCHANGED <<owner, thieves, out>>
      /\ opc = "idle" /\ \A t \in Thief : tpc[t] = "idle"
  BY DEF Destroy
<1>2. TypeOK'
  <2>1. Slots' = {}
    BY <1>1 DEF Slots
  <2>2. 0 \in 0..MaxPos /\ 0 \in -1..MaxPos /\ 0 \in Nat
    BY DEF Assumptions, BoundsAssumption
  <2> QED
    BY <1>1, <2>1, <2>2 DEF PositionsSound, TypeOK, owner, thieves
<1>3. Settled' = 0 /\ opc' = "idle"
  BY <1>1 DEF Settled, owner
<1>4. PositionsInOrder'
  BY <1>1, <1>3 DEF PositionsInOrder, Assumptions, BoundsAssumption
<1>5. SlotsHoldItems'
  <2>1. top'..(Settled' - 1) = {}
    BY <1>1, <1>3
  <2> QED
    BY <2>1 DEF SlotsHoldItems
<1>6. OwnerSound' /\ \A t \in Thief : ThiefSound(t)'
  BY <1>1 DEF OwnerSound, ThiefSound, owner, thieves
<1> QED
  BY <1>2, <1>4, <1>5, <1>6 DEF PositionsSound

LEMMA PushKeeps ==
    ASSUME Assumptions, PositionsSound, NEW item \in Item, Push(item)
    PROVE  PositionsSound'
<1>1. TypeOK /\ PositionsInOrder /\ SlotsHoldItems /\ OwnerSound
  BY DEF PositionsSound
<1>2. /\ capacity # 0 /\ opc = "idle" /\ bottom < MaxPos /\ bottom - top < capacity
      /\ oitem' = item /\ opc' = "write"
      /\ UNCHANGED <<memory, top, bottom, otop, thieves, out>>
  BY DEF Push
<1>3. TypeOK'
  BY <1>1, <1>2 DEF TypeOK, memory, thieves, Slots
<1>4. Settled' = Settled
  BY <1>2 DEF Settled
<1>5. PositionsInOrder' /\ SlotsHoldItems' /\ OwnerSound' /\ \A t \in Thief : ThiefSound(t)'
  <2>1. bottom < top + capacity
    BY <1>1, <1>2, Numbers
  <2> QED
    BY <1>1, <1>2, <1>4, <2>1 DEF PositionsInOrder, SlotsHoldItems, OwnerSound, ThiefSound,
                                  PositionsSound, memory, thieves
<1> QED
  BY <1>3, <1>5 DEF PositionsSound

\* The slot above the youngest item is nobody's: a thief that still reads it holds
\* an old top.
LEMMA PushWriteKeeps ==
    ASSUME Assumptions, PositionsSound, PushWrite
    PROVE  PositionsSound'
<1>1. TypeOK /\ PositionsInOrder /\ SlotsHoldItems /\ OwnerSound
  BY DEF PositionsSound
<1>2. /\ opc = "write" /\ opc' = "publish"
      /\ buffer' = [buffer EXCEPT ![Slot(bottom, capacity)] = oitem]
      /\ UNCHANGED <<capacity, top, bottom, oitem, otop, thieves, out>>
  BY DEF PushWrite
<1>3. Settled = bottom /\ Settled' = bottom
  BY <1>2 DEF Settled
<1>4. /\ capacity \in Nat \ {0} /\ top \in Nat /\ bottom \in Nat
      /\ top <= bottom /\ bottom < top + capacity /\ oitem \in Item
  BY <1>1, <1>2, <1>3, Numbers DEF OwnerSound, PositionsInOrder
<1>5. Slot(bottom, capacity) \in Slots
  BY <1>1, <1>4, SlotOf
<1>6. TypeOK'
  BY <1>1, <1>2, <1>4, <1>5 DEF TypeOK, thieves, Slots
<1>7. PositionsInOrder'
  BY <1>1, <1>2, <1>3 DEF PositionsInOrder
<1>8. ASSUME NEW q \in top..(bottom - 1)
      PROVE  buffer'[Slot(q, capacity)] = buffer[Slot(q, capacity)]
  <2>1. Slot(q, capacity) # Slot(bottom, capacity)
    BY <1>4, SlotInjective
  <2> QED
    BY <1>1, <1>2, <2>1 DEF TypeOK
<1>9. SlotsHoldItems'
  BY <1>1, <1>2, <1>3, <1>8 DEF SlotsHoldItems
<1>10. OwnerSound'
  BY <1>1, <1>2, <1>4, <1>5 DEF OwnerSound, TypeOK
<1>11. ASSUME NEW t \in Thief PROVE ThiefSound(t)'
  <2>1. ThiefSound(t)
    BY DEF PositionsSound
  <2>2. ASSUME tpc[t] = "cas", ttop[t] = top
        PROVE  buffer'[Slot(top, capacity)] = buffer[Slot(top, capacity)]
    <3>1. top \in top..(bottom - 1)
      BY <1>3, <1>4, <2>1, <2>2 DEF ThiefSound
    <3> QED
      BY <1>8, <3>1
  <2> QED
    BY <1>2, <1>3, <2>1, <2>2 DEF ThiefSound, thieves
<1> QED
  BY <1>6, <1>7, <1>9, <1>10, <1>11 DEF PositionsSound

LEMMA PushPublishKeeps ==
    ASSUME Assumptions, PositionsSound, PushPublish
    PROVE  PositionsSound'
<1>1. TypeOK /\ PositionsInOrder /\ SlotsHoldItems /\ OwnerSound
  BY DEF PositionsSound
<1>2. /\ opc = "publish" /\ opc' = "idle" /\ bottom' = bottom + 1
      /\ UNCHANGED <<memory, top, oitem, otop, thieves, out>>
  BY DEF PushPublish
<1>3. Settled = bottom /\ Settled' = bottom + 1
  BY <1>2 DEF Settled
<1>4. /\ capacity \in Nat \ {0} /\ top \in Nat /\ bottom \in Nat /\ MaxPos \in Nat
      /\ top <= bottom /\ bottom < top + capacity /\ bottom < MaxPos
      /\ buffer[Slot(bottom, capacity)] \in Item
  BY <1>1, <1>2, <1>3, Numbers DEF OwnerSound, PositionsInOrder
<1>5. TypeOK'
  <2>1. bottom' \in -1..MaxPos
    BY <1>2, <1>4
  <2> QED
    BY <1>1, <1>2, <2>1 DEF TypeOK, thieves, memory, Slots
<1>6. PositionsInOrder'
  BY <1>1, <1>2, <1>3, <1>4 DEF PositionsInOrder, memory
<1>7. SlotsHoldItems'
  <2> SUFFICES ASSUME NEW q \in top..bottom PROVE buffer[Slot(q, capacity)] \in Item
    BY <1>2, <1>3, <1>4 DEF SlotsHoldItems, memory
  <2>1. q = bottom \/ q \in top..(bottom - 1)
    BY <1>4
  <2> QED
    BY <1>1, <1>3, <1>4, <2>1 DEF SlotsHoldItems
<1>8. OwnerSound'
  BY <1>2 DEF OwnerSound
<1>9. ASSUME NEW t \in Thief PROVE ThiefSound(t)'
  <2>1. ThiefSound(t)
    BY DEF PositionsSound
  <2>2. top < Settled'
    BY <1>3, <1>4
  <2> QED
    BY <1>2, <2>1, <2>2 DEF ThiefSound, thieves, memory
<1> QED
  BY <1>5, <1>6, <1>7, <1>8, <1>9 DEF PositionsSound

LEMMA PopKeeps ==
    ASSUME Assumptions, PositionsSound, Pop
    PROVE  PositionsSound'
<1>1. TypeOK /\ PositionsInOrder /\ SlotsHoldItems /\ OwnerSound
  BY DEF PositionsSound
<1>2. /\ capacity # 0 /\ opc = "idle" /\ opc' = "look" /\ bottom' = bottom - 1
      /\ UNCHANGED <<memory, top, oitem, otop, thieves, out>>
  BY DEF Pop
<1>3. bottom \in Int /\ top \in Nat /\ MaxPos \in Nat
  BY <1>1, Numbers
<1>4. Settled = bottom /\ Settled' = bottom
  BY <1>2, <1>3 DEF Settled
<1>5. TypeOK'
  <2>1. bottom' \in -1..MaxPos
    BY <1>1, <1>2, <1>3, <1>4 DEF PositionsInOrder
  <2> QED
    BY <1>1, <1>2, <2>1 DEF TypeOK, thieves, memory, Slots
<1>6. PositionsInOrder' /\ SlotsHoldItems' /\ OwnerSound' /\ \A t \in Thief : ThiefSound(t)'
  BY <1>1, <1>2, <1>4 DEF PositionsInOrder, SlotsHoldItems, OwnerSound, ThiefSound,
                          PositionsSound, memory, thieves
<1> QED
  BY <1>5, <1>6 DEF PositionsSound

\* Pop decides: with a second item inside the youngest is the owner's.
LEMMA PopLookKeeps ==
    ASSUME Assumptions, PositionsSound, PopLook
    PROVE  PositionsSound'
<1>1. TypeOK /\ PositionsInOrder /\ SlotsHoldItems /\ OwnerSound
  BY DEF PositionsSound
<1>2. /\ opc = "look" /\ otop' = top
      /\ UNCHANGED <<memory, top, bottom, thieves>>
      /\ opc' = IF top < bottom THEN "idle" ELSE IF top = bottom THEN "cas" ELSE "restore"
      /\ oitem' = IF top <= bottom THEN buffer[Slot(bottom, capacity)] ELSE oitem
      /\ out' = IF top < bottom THEN [out EXCEPT ![Owner] = <<oitem'>>] ELSE out
  BY DEF PopLook
<1>3. /\ bottom \in Int /\ top \in Nat /\ capacity \in Nat \ {0} /\ MaxPos \in Nat
      /\ Settled = bottom + 1
      /\ top <= bottom + 1 /\ bottom + 1 <= top + capacity /\ bottom + 1 <= MaxPos
  BY <1>1, <1>2, Numbers DEF Settled, PositionsInOrder, OwnerSound
<1>4. Settled' = IF top < bottom THEN bottom ELSE bottom + 1
  BY <1>2, <1>3 DEF Settled
<1>5. top <= bottom => buffer[Slot(bottom, capacity)] \in Item
  <2>1. top <= bottom => bottom \in top..(Settled - 1)
    BY <1>3
  <2> QED
    BY <1>1, <2>1 DEF SlotsHoldItems
<1>6. out' \in [Thief \cup {Owner} -> Seq(Item)]
  <2>1. CASE top < bottom
    <3>1. oitem' \in Item
      BY <1>2, <1>3, <1>5, <2>1
    <3>2. <<oitem'>> \in Seq(Item)
      BY <3>1
    <3> QED
      BY <1>1, <1>2, <2>1, <3>2 DEF TypeOK
  <2>2. CASE ~(top < bottom)
    BY <1>1, <1>2, <2>2 DEF TypeOK
  <2> QED
    BY <2>1, <2>2
<1>7. TypeOK'
  <2>1. oitem' \in Item \cup {NoItem}
    BY <1>1, <1>2, <1>5 DEF TypeOK
  <2> QED
    BY <1>1, <1>2, <1>6, <2>1 DEF TypeOK, thieves, memory, Slots
<1>8. PositionsInOrder'
  <2>1. top <= Settled' /\ Settled' <= top + capacity /\ Settled' <= MaxPos
    BY <1>3, <1>4
  <2>2. opc' \in {"restore", "settle"} => top = Settled'
    BY <1>2, <1>3, <1>4
  <2> QED
    BY <1>2, <1>3, <2>1, <2>2 DEF PositionsInOrder, memory
<1>9. SlotsHoldItems'
  <2> SUFFICES ASSUME NEW q \in top..(Settled' - 1) PROVE buffer[Slot(q, capacity)] \in Item
    BY <1>2 DEF SlotsHoldItems, memory
  <2>1. q \in top..(Settled - 1)
    BY <1>3, <1>4
  <2> QED
    BY <1>1, <2>1 DEF SlotsHoldItems
<1>10. OwnerSound'
  <2>1. CASE top < bottom
    BY <1>2, <2>1 DEF OwnerSound
  <2>2. CASE top = bottom
    BY <1>2, <1>3, <2>2 DEF OwnerSound, memory
  <2>3. CASE top > bottom
    BY <1>2, <1>3, <1>4, <2>3 DEF OwnerSound, memory
  <2> QED
    BY <1>3, <2>1, <2>2, <2>3
<1>11. ASSUME NEW t \in Thief PROVE ThiefSound(t)'
  <2>1. ThiefSound(t)
    BY DEF PositionsSound
  <2>2. top < Settled => top < Settled'
    BY <1>3, <1>4
  <2> QED
    BY <1>2, <2>1, <2>2 DEF ThiefSound, thieves, memory
<1> QED
  BY <1>7, <1>8, <1>9, <1>10, <1>11 DEF PositionsSound

LEMMA PopCasKeeps ==
    ASSUME Assumptions, PositionsSound, PopCas
    PROVE  PositionsSound'
<1>1. TypeOK /\ PositionsInOrder /\ SlotsHoldItems /\ OwnerSound
  BY DEF PositionsSound
<1>2. /\ opc = "cas" /\ opc' = "settle" /\ UNCHANGED <<memory, bottom, oitem, otop, thieves>>
      /\ otop = bottom /\ top \in {otop, otop + 1} /\ oitem = buffer[Slot(otop, capacity)]
      /\ capacity # 0
      /\ top = otop => out' = [out EXCEPT ![Owner] = <<oitem>>]
      /\ top # otop => out' = out
  BY <1>1 DEF PopCas, OwnerSound
<1>3. /\ bottom \in Nat /\ top \in Nat /\ otop \in Nat /\ capacity \in Nat \ {0} /\ MaxPos \in Nat
      /\ Settled = bottom + 1 /\ Settled' = bottom + 1
      /\ top <= bottom + 1 /\ bottom + 1 <= top + capacity /\ bottom + 1 <= MaxPos
  BY <1>1, <1>2, Numbers DEF Settled, PositionsInOrder
<1>4. top' = bottom + 1
  BY <1>2, <1>3 DEF PopCas
<1>5. out' \in [Thief \cup {Owner} -> Seq(Item)]
  <2>1. CASE top = otop
    <3>1. bottom \in top..(Settled - 1)
      BY <1>2, <1>3, <2>1
    <3>2. oitem \in Item
      BY <1>1, <1>2, <3>1 DEF SlotsHoldItems
    <3>3. <<oitem>> \in Seq(Item)
      BY <3>2
    <3> QED
      BY <1>1, <1>2, <2>1, <3>3 DEF TypeOK
  <2> QED
    BY <1>1, <1>2, <2>1 DEF TypeOK
<1>6. TypeOK'
  <2>1. top' \in 0..MaxPos
    BY <1>3, <1>4
  <2> QED
    BY <1>1, <1>2, <1>5, <2>1 DEF TypeOK, thieves, memory, Slots
<1>7. PositionsInOrder'
  BY <1>1, <1>2, <1>3, <1>4 DEF PositionsInOrder, memory
<1>8. SlotsHoldItems'
  <2>1. top'..(Settled' - 1) = {}
    BY <1>3, <1>4
  <2> QED
    BY <2>1 DEF SlotsHoldItems
<1>9. OwnerSound'
  BY <1>2 DEF OwnerSound, memory
<1>10. ASSUME NEW t \in Thief PROVE ThiefSound(t)'
  <2>1. ThiefSound(t) /\ ttop[t] \in Nat
    BY <1>1, Numbers DEF PositionsSound
  <2>2. ASSUME tpc[t] \in {"read", "cas"}, ttop[t] = top' PROVE FALSE
    <3>1. ttop[t] <= top /\ (ttop[t] = top => top < Settled)
      BY <2>1, <2>2 DEF ThiefSound
    <3> QED
      BY <1>2, <1>3, <1>4, <2>1, <2>2, <3>1
  <2>3. tpc[t] # "idle" => ttop[t] <= top'
    BY <1>3, <1>4, <2>1 DEF ThiefSound
  <2> QED
    BY <1>2, <2>1, <2>2, <2>3 DEF ThiefSound, thieves, memory
<1> QED
  BY <1>6, <1>7, <1>8, <1>9, <1>10 DEF PositionsSound

\* Pop puts bottom back to where the items end.
LEMMA PopEndsKeeps ==
    ASSUME Assumptions, PositionsSound, PopSettle \/ PopRestore
    PROVE  PositionsSound'
<1>1. TypeOK /\ PositionsInOrder /\ SlotsHoldItems /\ OwnerSound
  BY DEF PositionsSound
<1>2. /\ opc \in {"settle", "restore"} /\ opc' = "idle"
      /\ UNCHANGED <<memory, top, oitem, otop, thieves, out>>
      /\ opc = "settle" => bottom' = otop + 1
      /\ opc = "restore" => bottom' = otop
  BY DEF PopSettle, PopRestore
<1>3. bottom \in Int /\ otop \in Nat /\ top \in Nat /\ MaxPos \in Nat
  BY <1>1, Numbers
<1>4. Settled = bottom + 1 /\ bottom' = Settled
  BY <1>1, <1>2, <1>3 DEF Settled, OwnerSound
<1>5. Settled' = Settled
  BY <1>2, <1>4 DEF Settled
<1>6. TypeOK'
  <2>1. bottom' \in -1..MaxPos
    BY <1>1, <1>3, <1>4 DEF PositionsInOrder
  <2> QED
    BY <1>1, <1>2, <2>1 DEF TypeOK, thieves, memory, Slots
<1>7. capacity # 0
  BY <1>1, <1>2 DEF OwnerSound
<1>8. PositionsInOrder' /\ SlotsHoldItems' /\ OwnerSound' /\ \A t \in Thief : ThiefSound(t)'
  BY <1>1, <1>2, <1>5, <1>7 DEF PositionsInOrder, SlotsHoldItems, OwnerSound, ThiefSound,
                          PositionsSound, memory, thieves
<1> QED
  BY <1>6, <1>8 DEF PositionsSound

-----------------------------------------------------------------------------
(* A thief's steps *)

LEMMA StealQuietKeeps ==
    ASSUME Assumptions, PositionsSound, NEW t \in Thief,
           Steal(t) \/ StealLook(t) \/ StealRead(t)
    PROVE  PositionsSound'
<1>1. TypeOK /\ PositionsInOrder /\ SlotsHoldItems /\ OwnerSound /\ ThiefSound(t)
  BY DEF PositionsSound
<1>2. UNCHANGED <<memory, top, bottom, owner, out>>
  BY DEF Steal, StealLook, StealRead
<1>3. /\ top \in Nat /\ bottom \in Int /\ ttop[t] \in Nat /\ Settled \in Int /\ bottom <= Settled
  BY <1>1, Numbers DEF Settled
<1>4. Settled' = Settled
  BY <1>2 DEF Settled, owner
<1>5. TypeOK'
  <2>1. /\ tpc' \in [Thief -> {"idle", "bottom", "read", "cas"}]
        /\ ttop' \in [Thief -> 0..MaxPos]
    BY <1>1 DEF TypeOK, Steal, StealLook, StealRead
  <2>2. titem' \in [Thief -> Item \cup {NoItem}]
    <3>1. CASE StealRead(t)
      <4>1. buffer[Slot(ttop[t], capacity)] \in Item \cup {NoItem}
        BY <1>1, <1>3, <3>1, SlotOf DEF StealRead, ThiefSound
      <4> QED
        BY <1>1, <3>1, <4>1 DEF StealRead, TypeOK
    <3>2. CASE Steal(t) \/ StealLook(t)
      BY <1>1, <3>2 DEF Steal, StealLook, TypeOK
    <3> QED
      BY <3>1, <3>2
  <2> QED
    BY <1>1, <1>2, <2>1, <2>2 DEF TypeOK, owner, memory, Slots
<1>6. PositionsInOrder' /\ SlotsHoldItems' /\ OwnerSound'
  BY <1>1, <1>2, <1>4 DEF PositionsInOrder, SlotsHoldItems, OwnerSound, memory, owner
<1>7. ASSUME NEW u \in Thief PROVE ThiefSound(u)'
  <2>1. CASE u # t
    <3>1. ThiefSound(u) /\ tpc'[u] = tpc[u] /\ ttop'[u] = ttop[u] /\ titem'[u] = titem[u]
      BY <1>1, <2>1 DEF Steal, StealLook, StealRead, TypeOK, PositionsSound
    <3> QED
      BY <1>2, <1>4, <3>1 DEF ThiefSound, memory
  <2>2. CASE u = t /\ Steal(t)
    BY <1>1, <1>2, <1>3, <2>2 DEF Steal, ThiefSound, TypeOK, memory
  <2>3. CASE u = t /\ StealLook(t)
    <3>1. tpc'[t] = (IF ttop[t] < bottom THEN "read" ELSE "idle") /\ ttop'[t] = ttop[t]
      BY <1>1, <2>3 DEF StealLook, TypeOK
    <3>2. ttop[t] <= top /\ capacity # 0
      BY <1>1, <2>3 DEF ThiefSound, StealLook
    <3>3. tpc'[t] = "read" /\ ttop[t] = top => top < Settled
      BY <1>3, <3>1
    <3> QED
      BY <1>2, <1>4, <2>3, <3>1, <3>2, <3>3 DEF ThiefSound, memory
  <2>4. CASE u = t /\ StealRead(t)
    <3>1. /\ tpc[t] = "read" /\ tpc'[t] = "cas" /\ ttop'[t] = ttop[t]
          /\ titem'[t] = buffer[Slot(ttop[t], capacity)]
      BY <1>1, <2>4 DEF StealRead, TypeOK
    <3> QED
      BY <1>1, <1>2, <1>4, <2>4, <3>1 DEF ThiefSound, memory
  <2> QED
    BY <2>1, <2>2, <2>3, <2>4
<1> QED
  BY <1>5, <1>6, <1>7 DEF PositionsSound

\* A steal that succeeds takes an item the owner has not taken.
LEMMA StealCasKeeps ==
    ASSUME Assumptions, PositionsSound, NEW t \in Thief, StealCas(t)
    PROVE  PositionsSound'
<1>1. TypeOK /\ PositionsInOrder /\ SlotsHoldItems /\ OwnerSound /\ ThiefSound(t)
  BY DEF PositionsSound
<1>2. /\ UNCHANGED <<memory, bottom, owner, titem, ttop>> /\ tpc[t] = "cas"
      /\ tpc' = [tpc EXCEPT ![t] = "idle"]
      /\ top = ttop[t] => top' = top + 1 /\ out' = [out EXCEPT ![t] = <<titem[t]>>]
      /\ top # ttop[t] => top' = top /\ out' = out
  BY DEF StealCas
<1>3. /\ top \in Nat /\ bottom \in Int /\ Settled \in Int /\ MaxPos \in Nat
      /\ capacity \in Nat \ {0} /\ otop \in Nat /\ \A u \in Thief : ttop[u] \in Nat
  BY <1>1, <1>2, Numbers DEF ThiefSound
<1>4. Settled' = Settled
  BY <1>2 DEF Settled, owner
<1>5. /\ top' \in Nat /\ top <= top' /\ top' <= Settled /\ Settled <= top' + capacity
      /\ Settled <= MaxPos
  BY <1>1, <1>2, <1>3 DEF ThiefSound, PositionsInOrder
<1>6. out' \in [Thief \cup {Owner} -> Seq(Item)]
  <2>1. CASE top = ttop[t]
    <3>1. titem[t] = buffer[Slot(top, capacity)] /\ top < Settled
      BY <1>1, <1>2, <2>1 DEF ThiefSound
    <3>2. top \in top..(Settled - 1)
      BY <1>3, <3>1
    <3>3. titem[t] \in Item
      BY <1>1, <3>1, <3>2 DEF SlotsHoldItems
    <3>4. <<titem[t]>> \in Seq(Item)
      BY <3>3
    <3> QED
      BY <1>1, <1>2, <2>1, <3>4 DEF TypeOK
  <2> QED
    BY <1>1, <1>2, <2>1 DEF TypeOK
<1>7. TypeOK'
  <2>1. top' \in 0..MaxPos
    BY <1>3, <1>5
  <2> QED
    BY <1>1, <1>2, <1>6, <2>1 DEF TypeOK, owner, memory, Slots
<1>8. PositionsInOrder'
  <2>1. opc \in {"restore", "settle"} => top' = Settled
    BY <1>1, <1>3, <1>5 DEF PositionsInOrder
  <2> QED
    BY <1>2, <1>3, <1>4, <1>5, <2>1 DEF PositionsInOrder, memory, owner
<1>9. SlotsHoldItems'
  <2> SUFFICES ASSUME NEW q \in top'..(Settled - 1) PROVE buffer[Slot(q, capacity)] \in Item
    BY <1>2, <1>4 DEF SlotsHoldItems, memory
  <2>1. q \in top..(Settled - 1)
    BY <1>3, <1>5
  <2> QED
    BY <1>1, <2>1 DEF SlotsHoldItems
<1>10. OwnerSound'
  <2>1. opc = "cas" => top' \in {otop, otop + 1}
    <3>1. opc = "cas" => Settled = otop + 1 /\ top \in {otop, otop + 1}
      BY <1>1 DEF OwnerSound, Settled
    <3> QED
      BY <1>2, <1>3, <1>5, <3>1
  <2>2. opc \in {"write", "publish"} => bottom < top' + capacity
    <3>1. opc \in {"write", "publish"} => bottom < top + capacity
      BY <1>1 DEF OwnerSound
    <3>2. PICK n \in Nat : top' = n /\ top <= n
      BY <1>5
    <3> QED
      BY <1>3, <3>1, <3>2
  <2> QED
    BY <1>1, <1>2, <1>4, <2>1, <2>2 DEF OwnerSound, memory, owner
<1>11. ASSUME NEW u \in Thief PROVE ThiefSound(u)'
  <2>1. ThiefSound(u)
    BY DEF PositionsSound
  <2>2. CASE u = t
    <3>1. tpc'[t] = "idle"
      BY <1>1, <1>2 DEF TypeOK
    <3> QED
      BY <2>2, <3>1 DEF ThiefSound
  <2>3. CASE u # t
    <3>1. tpc'[u] = tpc[u] /\ ttop'[u] = ttop[u] /\ titem'[u] = titem[u]
      BY <1>1, <1>2, <2>3 DEF TypeOK
    <3>2. tpc[u] # "idle" => capacity # 0 /\ ttop[u] <= top'
      BY <1>3, <1>5, <2>1 DEF ThiefSound
    <3>3. ASSUME tpc[u] \in {"read", "cas"}, ttop[u] = top' PROVE top' = top
      BY <1>2, <1>3, <1>5, <2>1, <3>3 DEF ThiefSound
    <3> QED
      BY <1>2, <1>4, <2>1, <3>1, <3>2, <3>3 DEF ThiefSound, memory
  <2> QED
    BY <2>2, <2>3
<1> QED
  BY <1>7, <1>8, <1>9, <1>10, <1>11 DEF PositionsSound

-----------------------------------------------------------------------------
(* The theorem *)

LEMMA InitKeeps ==
    ASSUME Assumptions
    PROVE  Init => PositionsSound
<1> SUFFICES ASSUME Init PROVE PositionsSound
  OBVIOUS
<1>1. TypeOK
  <2>1. Slots = {}
    BY DEF Init, Slots
  <2>2. 0 \in 0..MaxPos /\ 0 \in -1..MaxPos /\ 0 \in Nat /\ <<>> \in Seq(Item)
    BY DEF Assumptions, BoundsAssumption
  <2> QED
    BY <2>1, <2>2 DEF Init, TypeOK
<1>2. Settled = 0
  BY DEF Init, Settled
<1>3. PositionsInOrder /\ OwnerSound /\ \A t \in Thief : ThiefSound(t)
  BY <1>2 DEF Init, PositionsInOrder, OwnerSound, ThiefSound, Assumptions, BoundsAssumption
<1>4. SlotsHoldItems
  <2>1. top..(Settled - 1) = {}
    BY <1>2 DEF Init
  <2> QED
    BY <2>1 DEF SlotsHoldItems
<1> QED
  BY <1>1, <1>3, <1>4 DEF PositionsSound

LEMMA NextKeeps ==
    ASSUME Assumptions, PositionsSound, [Next]_vars
    PROVE  PositionsSound'
<1>1. CASE UNCHANGED vars
  BY <1>1 DEF PositionsSound, vars, memory, owner, thieves, TypeOK, Slots, PositionsInOrder,
              SlotsHoldItems, OwnerSound, ThiefSound, Settled
<1>2. ASSUME NEW t \in Thief, Steal(t) \/ StealStep(t) PROVE PositionsSound'
  BY <1>2, StealQuietKeeps, StealCasKeeps DEF StealStep
<1>3. CASE OwnerStep
  BY <1>3, PushWriteKeeps, PushPublishKeeps, PopLookKeeps, PopCasKeeps, PopEndsKeeps DEF OwnerStep
<1> QED
  BY <1>1, <1>2, <1>3, CreateKeeps, DestroyKeeps, PushKeeps, PopKeeps DEF Next

\* eg_wsqueue_t between any two steps: top and bottom are in order and at most a
\* capacity apart, and what the owner and each thief know holds, whatever the
\* others did since they looked.
THEOREM PositionsAreSound ==
    ASSUME Assumptions
    PROVE  Spec => []PositionsSound
<1>1. Init => PositionsSound
  BY InitKeeps
<1>2. PositionsSound /\ [Next]_vars => PositionsSound'
  BY NextKeeps
<1> QED
  BY <1>1, <1>2, PTL DEF Spec

-----------------------------------------------------------------------------
(* Why steal returns false *)

\* A thief that goes idle after its look at bottom did so by that look.
LEMMA ThievesOwnSteps ==
    ASSUME [Next]_vars, tpc \in [Thief -> {"idle", "bottom", "read", "cas"}], NEW t \in Thief,
           tpc[t] = "bottom", tpc'[t] = "idle"
    PROVE  StealLook(t)
<1>1. CASE \E u \in Thief : Steal(u) \/ StealStep(u)
  <2>1. PICK u \in Thief : Steal(u) \/ StealStep(u)
    BY <1>1
  <2>2. CASE u = t
    BY <2>1, <2>2 DEF Steal, StealStep, StealRead, StealCas
  <2>3. CASE u # t
    <3>1. tpc'[t] = tpc[t]
      BY <2>1, <2>3 DEF Steal, StealStep, StealLook, StealRead, StealCas
    <3> QED
      BY <3>1
  <2> QED
    BY <2>2, <2>3
<1>2. CASE ~\E u \in Thief : Steal(u) \/ StealStep(u)
  <2>1. tpc' = tpc
    BY <1>2 DEF thieves, Next, vars, Destroy, Create, Push, Pop, OwnerStep, PushWrite, PushPublish,
                PopLook, PopCas, PopSettle, PopRestore
  <2> QED
    BY <2>1
<1> QED
  BY <1>1, <1>2

\* What StealLook finds when it gives up.
LEMMA StealGivesUp ==
    ASSUME Assumptions, PositionsSound, NEW t \in Thief, StealLook(t), tpc'[t] = "idle"
    PROVE  \/ top = Settled
           \/ ttop[t] < top
           \/ opc \in {"look", "cas"} /\ Settled = top + 1
<1>1. /\ top \in Int /\ bottom \in Int /\ ttop[t] \in Int /\ Settled \in Int
      /\ ttop[t] <= top /\ top <= Settled
  BY Numbers DEF PositionsSound, ThiefSound, StealLook, PositionsInOrder
<1>2. bottom <= ttop[t]
  <2>1. tpc'[t] = IF ttop[t] < bottom THEN "read" ELSE "idle"
    BY DEF StealLook, PositionsSound, TypeOK
  <2> QED
    BY <1>1, <2>1
<1>3. CASE ttop[t] = top /\ top # Settled
  <2>1. bottom < Settled
    BY <1>1, <1>2, <1>3
  <2>2. opc \in {"look", "cas", "restore", "settle"} /\ Settled = bottom + 1
    BY <1>1, <2>1 DEF Settled
  <2>3. opc \notin {"restore", "settle"}
    BY <1>3 DEF PositionsSound, PositionsInOrder
  <2> QED
    BY <1>1, <1>2, <1>3, <2>1, <2>2, <2>3
<1> QED
  BY <1>1, <1>3

\* eg_wsqueue_steal: a thief is sent away only because there is nothing, because
\* somebody was faster, or because the owner is about to take the last item or lose it.
THEOREM FailedStealsHaveCause ==
    ASSUME Assumptions
    PROVE  Spec => FailedStealHasCause
<1>1. PositionsSound /\ [Next]_vars =>
         [\A t \in Thief : tpc[t] = "bottom" /\ tpc'[t] = "idle" =>
             \/ top = Settled
             \/ ttop[t] < top
             \/ opc \in {"look", "cas"} /\ Settled = top + 1]_vars
  <2> SUFFICES ASSUME PositionsSound, [Next]_vars, NEW t \in Thief,
                      tpc[t] = "bottom", tpc'[t] = "idle"
               PROVE  \/ top = Settled
                      \/ ttop[t] < top
                      \/ opc \in {"look", "cas"} /\ Settled = top + 1
    OBVIOUS
  <2>1. tpc \in [Thief -> {"idle", "bottom", "read", "cas"}]
    BY DEF PositionsSound, TypeOK
  <2> QED
    BY <2>1, ThievesOwnSteps, StealGivesUp
<1> QED
  BY <1>1, PositionsAreSound, PTL DEF Spec, FailedStealHasCause

-----------------------------------------------------------------------------
(* The deque as its callers see it *)

\* One item per position from top on.
LEMMA ContentsSeq ==
    ASSUME Assumptions, PositionsSound
    PROVE  /\ Settled - top \in Nat /\ Len(Contents) = Settled - top
           /\ Contents \in Seq(Item)
           /\ \A i \in 1..(Settled - top) : Contents[i] = buffer[Slot(top + i - 1, capacity)]
<1>1. Settled \in Int /\ top \in Nat /\ Settled - top \in Nat
  <2>1. Settled \in Int /\ top \in Nat /\ top <= Settled
    BY Numbers DEF PositionsSound, PositionsInOrder
  <2> QED
    BY <2>1
<1>2. ASSUME NEW i \in 1..(Settled - top)
      PROVE  buffer[Slot(top + i - 1, capacity)] \in Item
  <2>1. top + i - 1 \in top..(Settled - 1)
    BY <1>1
  <2> QED
    BY <2>1 DEF PositionsSound, SlotsHoldItems
<1>3. Contents \in [1..(Settled - top) -> Item]
  BY <1>2 DEF Contents
<1>4. Contents \in Seq(Item)
  BY <1>1, <1>3, SeqDef
<1>5. Len(Contents) = Settled - top
  BY <1>1, <1>3, <1>4, LenProperties
<1> QED
  BY <1>1, <1>4, <1>5 DEF Contents

\* The same of the state after a step that leaves the slots alone.
LEMMA ContentsSeqAfter ==
    ASSUME Assumptions, PositionsSound', NEW first \in Nat, NEW last \in Int,
           top' = first, Settled' = last, UNCHANGED memory
    PROVE  /\ Contents' \in Seq(Item) /\ Len(Contents') = last - first
           /\ \A i \in 1..(last - first) : Contents'[i] = buffer[Slot(first + i - 1, capacity)]
<1>1. /\ (Len(Contents) = Settled - top)' /\ (Contents \in Seq(Item))'
      /\ (\A i \in 1..(Settled - top) : Contents[i] = buffer[Slot(top + i - 1, capacity)])'
  BY ContentsSeq, PTL
<1> QED
  BY <1>1 DEF memory

\* A step that moves neither end and keeps the slots in between keeps the contents.
LEMMA ContentsKept ==
    ASSUME Assumptions, PositionsSound, UNCHANGED <<capacity, top>>, Settled' = Settled,
           \A q \in top..(Settled - 1) :
               buffer'[Slot(q, capacity)] = buffer[Slot(q, capacity)]
    PROVE  Contents' = Contents
<1>1. Settled \in Int /\ top \in Nat
  BY Numbers DEF PositionsSound
<1>2. ASSUME NEW i \in 1..(Settled - top)
      PROVE  buffer'[Slot(top + i - 1, capacity)] = buffer[Slot(top + i - 1, capacity)]
  <2>1. top + i - 1 \in top..(Settled - 1)
    BY <1>1
  <2> QED
    BY <2>1
<1> QED
  BY <1>2 DEF Contents

\* Nothing between the ends: the empty deque.
LEMMA ContentsEmpty == top = Settled /\ top \in Nat => Contents = <<>>
<1> SUFFICES ASSUME top = Settled, top \in Nat
             PROVE  Contents = <<>>
  OBVIOUS
<1>1. 1..(Settled - top) = {}
  OBVIOUS
<1> QED
  BY <1>1 DEF Contents

-----------------------------------------------------------------------------
(* Every step is a step of WorkDeque or is not seen *)

LEMMA InitRefines == Init => Deque!Init
<1> SUFFICES ASSUME Init PROVE Deque!Init
  OBVIOUS
<1>1. top = Settled /\ top \in Nat
  BY DEF Init, Settled
<1> QED
  BY <1>1, ContentsEmpty DEF Init, Deque!Init, Offered

LEMMA CreateRefines ==
    ASSUME Assumptions, PositionsSound, NEW request \in Requests, Create(request)
    PROVE  Deque!Open
<1>1. /\ capacity = 0 /\ capacity' \in Nat \ {0}
      /\ UNCHANGED <<top, bottom, owner, thieves, out>>
  BY DEF Assumptions, RequestsAssumption, Create
<1>2. Settled' = Settled /\ Offered' = Offered
  BY <1>1 DEF Settled, Offered, owner
<1>3. Settled - top = 0
  BY <1>1 DEF PositionsSound, OwnerSound, PositionsInOrder, Settled
<1>4. Contents' = Contents
  <2>1. 1..(Settled - top) = {}
    BY <1>3
  <2> QED
    BY <1>1, <1>2, <2>1 DEF Contents
<1> QED
  BY <1>1, <1>2, <1>4 DEF Deque!Open

LEMMA DestroyRefines ==
    ASSUME Assumptions, PositionsSound, Destroy
    PROVE  Deque!Close
<1>1. /\ capacity # 0 /\ capacity' = 0 /\ top' = 0 /\ bottom' = 0 /\ opc = "idle"
      /\ UNCHANGED <<owner, out>>
  BY DEF Destroy
<1>2. Settled' = 0 /\ Offered' = Offered
  BY <1>1 DEF Settled, Offered, owner
<1>3. Contents' = <<>>
  <2>1. (top = Settled /\ top \in Nat => Contents = <<>>)'
    BY ContentsEmpty, PTL
  <2> QED
    BY <1>1, <1>2, <2>1
<1> QED
  BY <1>1, <1>2, <1>3 DEF Deque!Close

LEMMA PushRefines ==
    ASSUME Assumptions, PositionsSound, NEW item \in Item, Push(item)
    PROVE  Deque!Offer(item)
<1>1. /\ opc = "idle" /\ opc' = "write" /\ oitem' = item /\ bottom - top < capacity
      /\ UNCHANGED <<memory, top, bottom, out>>
  BY DEF Push
<1>2. Settled = bottom /\ Settled' = bottom /\ Offered = <<>> /\ Offered' = <<item>>
  BY <1>1 DEF Settled, Offered
<1>3. Contents' = Contents
  BY <1>1, <1>2, ContentsKept DEF memory
<1>4. Len(Contents) < capacity
  BY <1>1, <1>2, ContentsSeq
<1> QED
  BY <1>1, <1>2, <1>3, <1>4 DEF Deque!Offer, memory

LEMMA PushWriteRefines ==
    ASSUME Assumptions, PositionsSound, PushWrite
    PROVE  UNCHANGED Deque!vars
<1>1. /\ opc = "write" /\ opc' = "publish"
      /\ buffer' = [buffer EXCEPT ![Slot(bottom, capacity)] = oitem]
      /\ UNCHANGED <<capacity, top, bottom, oitem, out>>
  BY DEF PushWrite
<1>2. Settled = bottom /\ Settled' = bottom /\ Offered' = Offered
  BY <1>1 DEF Settled, Offered
<1>3. /\ capacity \in Nat \ {0} /\ top \in Nat /\ bottom \in Nat
      /\ top <= bottom /\ bottom < top + capacity
  BY <1>1, <1>2, Numbers DEF PositionsSound, OwnerSound, PositionsInOrder
<1>4. ASSUME NEW q \in top..(Settled - 1)
      PROVE  buffer'[Slot(q, capacity)] = buffer[Slot(q, capacity)]
  <2>1. Slot(q, capacity) # Slot(bottom, capacity)
    BY <1>2, <1>3, SlotInjective
  <2> QED
    BY <1>1, <2>1 DEF TypeOK, PositionsSound
<1>5. Contents' = Contents
  BY <1>1, <1>2, <1>4, ContentsKept
<1> QED
  BY <1>1, <1>2, <1>5 DEF Deque!vars

LEMMA PushPublishRefines ==
    ASSUME Assumptions, PositionsSound, PushPublish
    PROVE  Deque!Push
<1>1. /\ opc = "publish" /\ opc' = "idle" /\ bottom' = bottom + 1
      /\ UNCHANGED <<memory, top, out>>
  BY DEF PushPublish
<1>2. /\ Settled = bottom /\ Settled' = bottom + 1
      /\ Offered = <<oitem>> /\ Offered' = <<>> /\ Offered # <<>>
  BY <1>1 DEF Settled, Offered
<1>3. /\ capacity \in Nat \ {0} /\ top \in Nat /\ bottom \in Nat /\ bottom + 1 \in Int
      /\ top <= bottom /\ bottom < top + capacity /\ oitem \in Item
      /\ buffer[Slot(bottom, capacity)] = oitem
  BY <1>1, <1>2, Numbers DEF PositionsSound, OwnerSound, PositionsInOrder
<1>4. /\ Contents \in Seq(Item) /\ Len(Contents) = bottom - top
      /\ \A i \in 1..(bottom - top) : Contents[i] = buffer[Slot(top + i - 1, capacity)]
  BY <1>2, ContentsSeq
<1>5. /\ Contents' \in Seq(Item) /\ Len(Contents') = bottom + 1 - top
      /\ \A i \in 1..(bottom + 1 - top) : Contents'[i] = buffer[Slot(top + i - 1, capacity)]
  <2>1. PositionsSound'
    BY PushPublishKeeps
  <2> QED
    BY <1>1, <1>2, <1>3, <2>1, ContentsSeqAfter
<1>6. Contents' = Append(Contents, oitem)
  <2> HIDE DEF Contents
  <2>1. /\ Append(Contents, oitem) \in Seq(Item)
        /\ Len(Append(Contents, oitem)) = bottom - top + 1
        /\ \A i \in 1..(bottom - top) : Append(Contents, oitem)[i] = Contents[i]
        /\ Append(Contents, oitem)[bottom - top + 1] = oitem
    BY <1>3, <1>4, AppendProperties
  <2>2. ASSUME NEW i \in 1..(bottom + 1 - top)
        PROVE  Contents'[i] = Append(Contents, oitem)[i]
    <3>1. CASE i \in 1..(bottom - top)
      BY <1>4, <1>5, <2>1, <3>1
    <3>2. CASE i = bottom - top + 1
      <4>1. top + i - 1 = bottom
        BY <1>3, <3>2
      <4> QED
        BY <1>3, <1>5, <2>1, <3>2, <4>1
    <3>3. i \in 1..(bottom - top) \/ i = bottom - top + 1
      BY <1>3
    <3> QED
      BY <3>1, <3>2, <3>3
  <2>3. Len(Contents') = Len(Append(Contents, oitem))
    BY <1>3, <1>5, <2>1
  <2> QED
    BY <1>5, <2>1, <2>2, <2>3, SeqEqual
<1>7. Contents' = Contents \o Offered
  BY <1>2, <1>3, <1>4, <1>6, AppendIsConcat
<1>8. Len(Contents') <= capacity
  BY <1>3, <1>5
<1> QED
  BY <1>1, <1>2, <1>7, <1>8 DEF Deque!Push, memory

\* The decrement pop begins with, and the corrections it ends with, are not seen.
LEMMA PopQuietRefines ==
    ASSUME Assumptions, PositionsSound, Pop \/ PopSettle \/ PopRestore
    PROVE  UNCHANGED Deque!vars
<1>1. /\ UNCHANGED <<memory, top, oitem, out>>
      /\ opc \in {"idle", "settle", "restore"} /\ opc' \in {"look", "idle"}
  BY DEF Pop, PopSettle, PopRestore
<1>2. Settled' = Settled
  <2>1. bottom \in Int /\ otop \in Nat
    BY Numbers DEF PositionsSound
  <2>2. CASE Pop
    BY <2>1, <2>2 DEF Pop, Settled
  <2>3. CASE PopSettle
    BY <2>1, <2>3 DEF PopSettle, Settled, PositionsSound, OwnerSound
  <2>4. CASE PopRestore
    BY <2>1, <2>4 DEF PopRestore, Settled, PositionsSound, OwnerSound
  <2> QED
    BY <2>2, <2>3, <2>4
<1>3. Contents' = Contents
  BY <1>1, <1>2, ContentsKept DEF memory
<1>4. Offered' = Offered
  BY <1>1 DEF Offered
<1> QED
  BY <1>1, <1>3, <1>4 DEF Deque!vars, memory

\* An end of the deque is taken: the youngest item.
LEMMA YoungestTaken ==
    ASSUME Assumptions, PositionsSound, PositionsSound', top < Settled,
           UNCHANGED memory,
           \/ top' = top /\ Settled' = Settled - 1
           \/ top' = top + 1 /\ Settled' = Settled /\ Settled = top + 1
    PROVE  /\ Contents # <<>>
           /\ Contents[Len(Contents)] = buffer[Slot(Settled - 1, capacity)]
           /\ Contents' = SubSeq(Contents, 1, Len(Contents) - 1)
<1>1. top \in Nat /\ Settled \in Int
  BY Numbers DEF PositionsSound
<1>2. /\ Contents \in Seq(Item) /\ Len(Contents) = Settled - top
      /\ \A i \in 1..(Settled - top) : Contents[i] = buffer[Slot(top + i - 1, capacity)]
  BY ContentsSeq
<1>3. Contents # <<>>
  <2>1. Len(Contents) # 0
    BY <1>1, <1>2
  <2> QED
    BY <2>1
<1>4. Contents[Len(Contents)] = buffer[Slot(Settled - 1, capacity)]
  <2>1. Settled - top \in 1..(Settled - top) /\ top + (Settled - top) - 1 = Settled - 1
    BY <1>1
  <2> QED
    BY <1>2, <2>1
<1>5. PICK first \in Nat, last \in Int :
         /\ top' = first /\ Settled' = last /\ last - first = Settled - top - 1
         /\ (last - first = 0 \/ first = top)
  BY <1>1
<1>6. /\ Contents' \in Seq(Item) /\ Len(Contents') = last - first
      /\ \A i \in 1..(last - first) : Contents'[i] = buffer[Slot(first + i - 1, capacity)]
  BY <1>5, ContentsSeqAfter
<1> DEFINE rest == SubSeq(Contents, 1, Len(Contents) - 1)
<1>7. Contents' = rest
  <2> HIDE DEF Contents
  <2>1. /\ rest \in Seq(Item) /\ Len(rest) = Settled - top - 1
        /\ \A i \in 1..(Settled - top - 1) : rest[i] = Contents[i]
    BY <1>1, <1>2, SubSeqProperties, ElementOfSeq
  <2>2. ASSUME NEW i \in 1..(last - first) PROVE Contents'[i] = rest[i]
    <3>1. first = top /\ i \in 1..(Settled - top - 1) /\ i \in 1..(Settled - top)
      BY <1>1, <1>5
    <3> QED
      BY <1>2, <1>6, <2>1, <3>1
  <2> HIDE DEF rest
  <2>3. Len(Contents') = Len(rest) /\ \A i \in 1..Len(Contents') : Contents'[i] = rest[i]
    BY <1>5, <1>6, <2>1, <2>2
  <2> QED
    BY <1>6, <2>1, <2>3, SeqEqual
<1> QED
  BY <1>3, <1>4, <1>7

\* Pop takes the youngest item when it sees another one above it.
LEMMA PopLookRefines ==
    ASSUME Assumptions, PositionsSound, PopLook
    PROVE  Deque!Pop \/ UNCHANGED Deque!vars
<1>1. /\ opc = "look" /\ opc' \in {"idle", "cas", "restore"}
      /\ UNCHANGED <<memory, top, bottom>> /\ bottom \in Int /\ top \in Nat
      /\ Settled = bottom + 1 /\ PositionsSound'
  BY Numbers, PopLookKeeps DEF PopLook, Settled, PositionsSound
<1>2. Offered' = Offered
  BY <1>1 DEF Offered
<1>3. CASE top < bottom
  <2>1. Settled' = bottom
    BY <1>1, <1>3 DEF PopLook, Settled
  <2>2. Settled' = Settled - 1 /\ top < Settled /\ Settled - 1 = bottom
    BY <1>1, <1>3, <2>1
  <2>3. /\ Contents # <<>>
        /\ Contents[Len(Contents)] = buffer[Slot(bottom, capacity)]
        /\ Contents' = SubSeq(Contents, 1, Len(Contents) - 1)
    BY <1>1, <2>2, YoungestTaken
  <2>4. out' = [out EXCEPT ![Owner] = <<buffer[Slot(bottom, capacity)]>>]
    <3>1. top <= bottom
      BY <1>1, <1>3
    <3> QED
      BY <1>3, <3>1 DEF PopLook
  <2> QED
    BY <1>1, <1>2, <2>3, <2>4 DEF Deque!Pop, memory
<1>4. CASE ~(top < bottom)
  <2>1. Settled' = Settled /\ out' = out
    BY <1>1, <1>4 DEF PopLook, Settled
  <2>2. Contents' = Contents
    BY <1>1, <2>1, ContentsKept DEF memory
  <2> QED
    BY <1>1, <1>2, <2>1, <2>2 DEF Deque!vars, memory
<1> QED
  BY <1>3, <1>4

\* Pop takes the last item when its compare-and-swap comes first.
LEMMA PopCasRefines ==
    ASSUME Assumptions, PositionsSound, PopCas
    PROVE  Deque!Pop \/ UNCHANGED Deque!vars
<1>1. /\ opc = "cas" /\ opc' = "settle" /\ UNCHANGED <<memory, bottom, oitem>>
      /\ bottom \in Int /\ otop \in Nat /\ Settled = otop + 1 /\ Settled' = Settled
      /\ oitem = buffer[Slot(otop, capacity)] /\ PositionsSound'
  BY Numbers, PopCasKeeps DEF PopCas, Settled, PositionsSound, OwnerSound
<1>2. Offered' = Offered
  BY <1>1 DEF Offered
<1>3. CASE top = otop
  <2>1. /\ top' = top + 1 /\ top < Settled /\ Settled = top + 1 /\ Settled - 1 = otop
        /\ out' = [out EXCEPT ![Owner] = <<oitem>>]
    BY <1>1, <1>3 DEF PopCas
  <2>2. /\ Contents # <<>>
        /\ Contents[Len(Contents)] = oitem
        /\ Contents' = SubSeq(Contents, 1, Len(Contents) - 1)
    BY <1>1, <2>1, YoungestTaken
  <2> QED
    BY <1>1, <1>2, <2>1, <2>2 DEF Deque!Pop, memory
<1>4. CASE top # otop
  <2>1. top' = top /\ out' = out
    BY <1>4 DEF PopCas
  <2>2. Contents' = Contents
    BY <1>1, <2>1, ContentsKept DEF memory
  <2> QED
    BY <1>1, <1>2, <2>1, <2>2 DEF Deque!vars, memory
<1> QED
  BY <1>3, <1>4

LEMMA StealQuietRefines ==
    ASSUME Assumptions, PositionsSound, NEW t \in Thief,
           Steal(t) \/ StealLook(t) \/ StealRead(t) \/ (StealCas(t) /\ top # ttop[t])
    PROVE  UNCHANGED Deque!vars
<1>1. UNCHANGED <<memory, top, bottom, owner, out>>
  BY DEF Steal, StealLook, StealRead, StealCas
<1>2. Settled' = Settled /\ Offered' = Offered
  BY <1>1 DEF Settled, Offered, owner
<1>3. Contents' = Contents
  BY <1>1, <1>2, ContentsKept DEF memory
<1> QED
  BY <1>1, <1>2, <1>3 DEF Deque!vars, memory

\* A thief takes the oldest item at its compare-and-swap.
LEMMA StealCasRefines ==
    ASSUME Assumptions, PositionsSound, NEW t \in Thief, StealCas(t), top = ttop[t]
    PROVE  Deque!Steal(t)
<1>1. /\ UNCHANGED <<memory, bottom, owner>> /\ top' = top + 1
      /\ out' = [out EXCEPT ![t] = <<titem[t]>>]
      /\ top < Settled /\ titem[t] = buffer[Slot(top, capacity)]
      /\ top \in Nat /\ top + 1 \in Nat /\ Settled \in Int /\ PositionsSound'
  <2>1. PositionsSound'
    BY StealCasKeeps
  <2>2. top \in Nat /\ top + 1 \in Nat /\ Settled \in Int
    BY Numbers DEF PositionsSound
  <2>3. top < Settled /\ titem[t] = buffer[Slot(top, capacity)]
    BY DEF StealCas, PositionsSound, ThiefSound
  <2>4. /\ UNCHANGED <<memory, bottom, owner>> /\ top' = top + 1
        /\ out' = [out EXCEPT ![t] = <<titem[t]>>]
    BY DEF StealCas
  <2> QED
    BY <2>1, <2>2, <2>3, <2>4
<1>2. Settled' = Settled /\ Offered' = Offered
  BY <1>1 DEF Settled, Offered, owner
<1>3. /\ Contents \in Seq(Item) /\ Len(Contents) = Settled - top
      /\ \A i \in 1..(Settled - top) : Contents[i] = buffer[Slot(top + i - 1, capacity)]
  BY ContentsSeq
<1>4. /\ Contents' \in Seq(Item) /\ Len(Contents') = Settled - (top + 1)
      /\ \A i \in 1..(Settled - (top + 1)) :
            Contents'[i] = buffer[Slot(top + 1 + i - 1, capacity)]
  BY <1>1, <1>2, ContentsSeqAfter
<1> HIDE DEF Contents
<1>5. Contents # <<>>
  <2>1. Len(Contents) # 0
    BY <1>1, <1>3
  <2> QED
    BY <2>1
<1>6. Head(Contents) = titem[t]
  <2>1. 1 \in 1..(Settled - top) /\ top + 1 - 1 = top
    BY <1>1
  <2>2. Contents[1] = titem[t]
    BY <1>1, <1>3, <2>1
  <2> QED
    BY <1>3, <1>5, <2>2, HeadTailProperties
<1>7. Contents' = Tail(Contents)
  <2>1. /\ Tail(Contents) \in Seq(Item) /\ Len(Tail(Contents)) = Settled - top - 1
        /\ \A i \in 1..(Settled - top - 1) : Tail(Contents)[i] = Contents[i + 1]
    BY <1>3, <1>5, HeadTailProperties
  <2>2. ASSUME NEW i \in 1..(Settled - (top + 1)) PROVE Contents'[i] = Tail(Contents)[i]
    <3>1. i + 1 \in 1..(Settled - top) /\ i \in 1..(Settled - top - 1)
          /\ top + (i + 1) - 1 = top + 1 + i - 1
      BY <1>1
    <3> QED
      BY <1>3, <1>4, <2>1, <3>1
  <2>3. Len(Contents') = Len(Tail(Contents))
        /\ \A i \in 1..Len(Contents') : Contents'[i] = Tail(Contents)[i]
    BY <1>1, <1>4, <2>1, <2>2
  <2> QED
    BY <1>4, <2>1, <2>3, SeqEqual
<1> QED
  BY <1>1, <1>2, <1>5, <1>6, <1>7 DEF Deque!Steal, memory

LEMMA NextRefines ==
    ASSUME Assumptions
    PROVE  PositionsSound /\ [Next]_vars => [Deque!Next]_Deque!vars
<1> SUFFICES ASSUME PositionsSound, [Next]_vars
             PROVE  [Deque!Next]_Deque!vars
  OBVIOUS
<1>1. ASSUME NEW request \in Requests, Create(request) PROVE Deque!Next
  BY <1>1, CreateRefines DEF Deque!Next
<1>2. CASE Destroy
  BY <1>2, DestroyRefines DEF Deque!Next
<1>3. ASSUME NEW item \in Item, Push(item) PROVE Deque!Next
  BY <1>3, PushRefines DEF Deque!Next
<1>4. CASE Pop
  BY <1>4, PopQuietRefines
<1>5. CASE OwnerStep
  BY <1>5, PushWriteRefines, PushPublishRefines, PopLookRefines, PopCasRefines, PopQuietRefines
     DEF OwnerStep, Deque!Next
<1>6. ASSUME NEW t \in Thief, Steal(t) \/ StealStep(t)
      PROVE  Deque!Next \/ UNCHANGED Deque!vars
  <2>1. CASE StealCas(t) /\ top = ttop[t]
    BY <2>1, StealCasRefines DEF Deque!Next
  <2>2. CASE ~(StealCas(t) /\ top = ttop[t])
    BY <1>6, <2>2, StealQuietRefines DEF StealStep
  <2> QED
    BY <2>1, <2>2
<1>7. CASE UNCHANGED vars
  <2>1. Settled' = Settled /\ Offered' = Offered
    BY <1>7 DEF vars, owner, Settled, Offered
  <2>2. Contents' = Contents
    BY <1>7, <2>1, ContentsKept DEF vars, memory
  <2> QED
    BY <1>7, <2>1, <2>2 DEF vars, memory, Deque!vars
<1> QED
  BY <1>1, <1>2, <1>3, <1>4, <1>5, <1>6, <1>7 DEF Next

\* Every push, pop and steal of eg_wsqueue takes effect as one step of the bounded
\* deque: each task goes to exactly one thread, the youngest to the owner, the oldest
\* to a thief, also when all of them race for the last one.
THEOREM Refinement ==
    ASSUME Assumptions
    PROVE  Spec => DequeSpec
<1>1. Init => Deque!Init
  BY InitRefines
<1>2. PositionsSound /\ [Next]_vars => [Deque!Next]_Deque!vars
  BY NextRefines
<1> QED
  BY <1>1, <1>2, PositionsAreSound, PTL DEF Spec, DequeSpec, Deque!Spec

=============================================================================
