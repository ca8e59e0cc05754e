-------------------------- MODULE ContainersProofs --------------------------
(***************************************************************************)
(* The safety of SpscQueue for every set of items, every capacity create   *)
(* can round to, every batch length and every bound on the positions; and  *)
(* that of the deduplicator for all hashes, all sizes of a filter and all  *)
(* windows, as Containers puts it beside the queue.                        *)
(*                                                                         *)
(* The queue: IInv is inductive.  Its parts need each other: that a slot   *)
(* the consumer reads holds an item (SlotsHoldItems, hence the type of got *)
(* and out) needs the producer to stay within one lap (CallsInBounds),     *)
(* which needs the caches to be behind the positions they copy             *)
(* (IndicesOrdered).                                                       *)
(*                                                                         *)
(* The deduplicator: DedupInv says which stretches of the history the two  *)
(* filters stand for.                                                      *)
(***************************************************************************)
EXTENDS Containers, QueueCapacityProofs, SequenceTheorems

\* The initial state.
LEMMA InitIInv == Init => IInv
<1> SUFFICES ASSUME Init
             PROVE  IInv
  OBVIOUS
<1> USE BoundsAssumption DEF Init
<1>1. TypeOK
  <2>1. 0..(0 - 1) = {} /\ buffer \in [{} -> Item \cup {NoItem}]
    OBVIOUS
  <2>2. buffer \in [Slots -> Item \cup {NoItem}]
    BY <2>1 DEF Slots
  <2>3. <<>> \in Seq(Item) /\ Len(<<>>) = 0 /\ 0 \in 0..0 /\ 0 \in 0..MaxPos
    BY EmptySeq
  <2>4. peeking \in BOOLEAN
    BY Zenon
  <2> QED
    BY <2>2, <2>3, <2>4 DEF TypeOK
<1>2. IndicesOrdered /\ CallsInBounds /\ SlotsHoldItems
  BY DEF IndicesOrdered, CallsInBounds, SlotsHoldItems
<1> QED
  BY <1>1, <1>2 DEF IInv

\* What the type invariant says, in the form the steps use.
LEMMA Types ==
    ASSUME TypeOK
    PROVE  /\ capacity \in Nat /\ head \in Nat /\ tail \in Nat
           /\ head_cache \in Nat /\ tail_cache \in Nat
           /\ written \in Nat /\ want \in Nat
           /\ Len(batch) \in Nat /\ Len(got) \in Nat
           /\ Len(got) <= want /\ written <= Len(batch)
BY BoundsAssumption, LenProperties DEF TypeOK

\* The i-th of n positions from base on lies between two bounds of all of them.
LEMMA NthPosition ==
    ASSUME NEW lo \in Nat, NEW hi \in Nat, NEW base \in Nat, NEW n \in Nat,
           lo <= base, base + n <= hi, NEW i \in 1..n
    PROVE  base + i - 1 \in lo..(hi - 1)
OBVIOUS

\* The number of a position among the n positions from base on.
LEMMA PositionNumber ==
    ASSUME NEW base \in Nat, NEW n \in Nat, NEW p \in base..(base + n - 1)
    PROVE  /\ p - base + 1 \in 1..n
           /\ p = base + (p - base + 1) - 1
OBVIOUS

LEMMA CreateStep ==
    ASSUME IInv, NEW request \in Requests, Create(request)
    PROVE  IInv'
<1> USE DEF IInv, Create, shared, producer, consumer
<1>1. capacity' \in Nat \ {0}
  BY RequestsAssumption
<1>2. TypeOK'
  BY <1>1 DEF TypeOK, Slots
<1>3. head = tail /\ tail_cache = tail /\ batch = <<>> /\ want = 0 /\ got = <<>>
  <2>1. head = tail /\ tail_cache = tail
    BY Types DEF IndicesOrdered
  <2>2. Len(batch) = 0 /\ want = 0 /\ Len(got) = 0
    BY Types, <2>1 DEF IndicesOrdered, CallsInBounds
  <2> QED
    BY <2>1, <2>2, EmptySeq DEF TypeOK
<1>4. IndicesOrdered' /\ CallsInBounds'
  BY <1>1, Types DEF IndicesOrdered, CallsInBounds
<1>5. SlotsHoldItems'
  BY <1>3, Types DEF SlotsHoldItems, TypeOK
<1> QED
  BY <1>2, <1>4, <1>5

LEMMA DestroyStep ==
    ASSUME IInv, Destroy
    PROVE  IInv'
<1> USE BoundsAssumption DEF IInv, Destroy, ProducerIdle, ConsumerIdle
<1>1. TypeOK'
  BY DEF TypeOK, Slots
<1>2. Len(batch) = 0 /\ Len(got) = 0 /\ written = 0 /\ ~peeking
  BY Types DEF TypeOK, CallsInBounds
<1>3. IndicesOrdered' /\ CallsInBounds'
  BY <1>2 DEF IndicesOrdered, CallsInBounds
<1>4. SlotsHoldItems'
  BY <1>2 DEF SlotsHoldItems
<1> QED
  BY <1>1, <1>3, <1>4

\* A producer's decision for any sequence of items.
LEMMA EnqueueBulkStep ==
    ASSUME IInv, NEW items \in Seq(Item), EnqueueBulk(items)
    PROVE  IInv'
<1> USE DEF IInv, EnqueueBulk, shared, consumer, ProducerIdle
<1> DEFINE room == Available(tail_cache')
           n    == Smaller(Len(items), room)
<1>1. tail_cache' \in {tail, tail_cache}
  OBVIOUS
<1>2. tail_cache' \in Nat /\ tail_cache <= tail_cache' /\ tail_cache' <= tail
  BY <1>1, Types DEF IndicesOrdered
<1>3. room \in Nat
  BY <1>2, Types DEF Available, IndicesOrdered
<1>4. Len(items) \in Nat /\ n \in Nat /\ n <= Len(items) /\ n <= room
  BY <1>3, LenProperties DEF Smaller
<1>5. batch' \in Seq(Item) /\ Len(batch') = n
  BY <1>4, SubSeqProperties, ElementOfSeq
<1>6. written = 0
  BY DEF TypeOK
<1>7. TypeOK'
  BY <1>1, <1>5, <1>6, <1>4 DEF TypeOK, Slots
<1>8. IndicesOrdered'
  BY <1>2, Types DEF IndicesOrdered
<1>9. CallsInBounds'
  <2>1. head + n <= MaxPos
    BY <1>4, Types, BoundsAssumption
  <2>2. head + n <= tail_cache' + capacity
    BY <1>2, <1>4, Types DEF Available
  <2> HIDE DEF n
  <2> QED
    BY <2>1, <2>2, <1>5 DEF CallsInBounds
<1>10. SlotsHoldItems'
  BY <1>6 DEF SlotsHoldItems
<1> QED
  BY <1>7, <1>8, <1>9, <1>10

\* A slot write touches none of the slots from tail up to the position it writes: the
\* consumer may read them, or the producer's call has already filled them.
LEMMA WriteMissesPublished ==
    ASSUME IInv, EnqueueWrite, NEW p \in tail..(head + written - 1)
    PROVE  buffer'[Slot(p, capacity)] = buffer[Slot(p, capacity)]
<1> USE DEF IInv
<1>1. /\ head \in Nat /\ written \in Nat /\ tail \in Nat /\ capacity \in Nat
      /\ Len(batch) \in Nat /\ written < Len(batch) /\ tail <= head
      /\ head + Len(batch) <= tail + capacity
  <2>1. /\ head \in Nat /\ written \in Nat /\ tail \in Nat /\ capacity \in Nat
        /\ Len(batch) \in Nat /\ tail_cache \in Nat /\ head_cache \in Nat
    BY Types
  <2>2. written < Len(batch)
    BY DEF EnqueueWrite
  <2> QED
    BY <2>1, <2>2 DEF IndicesOrdered, CallsInBounds
<1>2. /\ p \in Nat /\ p < head + written /\ head + written < p + capacity
      /\ head + written \in Nat /\ capacity \in Nat \ {0}
  BY <1>1
<1>3. Slot(p, capacity) # Slot(head + written, capacity)
  BY <1>2, SlotInjective
<1>4. Slot(p, capacity) \in Slots
  BY <1>2, SlotInRange DEF Slots
<1> QED
  BY <1>3, <1>4 DEF TypeOK, EnqueueWrite

LEMMA EnqueueWriteStep ==
    ASSUME IInv, EnqueueWrite
    PROVE  IInv'
<1>0. /\ tail \in Nat /\ head \in Nat /\ written \in Nat /\ Len(got) \in Nat
      /\ head + written \in Nat /\ tail <= head /\ tail + Len(got) <= head
  BY Types DEF IInv, IndicesOrdered, CallsInBounds
<1> USE DEF IInv, EnqueueWrite, consumer
<1> DEFINE s == Slot(head + written, capacity)
<1>1. /\ head + written < tail + capacity
      /\ capacity \in Nat \ {0} /\ tail <= head
  BY Types DEF IndicesOrdered, CallsInBounds
<1>2. s \in Slots
  <2>1. head + written \in Nat
    BY Types
  <2> QED
    BY <1>1, <2>1, SlotInRange DEF Slots
<1>3. batch[written + 1] \in Item
  BY Types, ElementOfSeq DEF TypeOK
<1>4. TypeOK'
  BY <1>2, <1>3, Types DEF TypeOK, Slots
<1>5. IndicesOrdered' /\ CallsInBounds'
  BY DEF IndicesOrdered, CallsInBounds
<1>6. \A p \in tail..(head + written - 1) :
          buffer'[Slot(p, capacity)] = buffer[Slot(p, capacity)]
  BY WriteMissesPublished
<1>7. buffer'[s] = batch[written + 1]
  BY <1>2 DEF TypeOK
<1>8. SlotsHoldItems'
  <2>1. \A p \in tail..(head - 1) : buffer'[Slot(p, capacity)] \in Item
    <3> TAKE p \in tail..(head - 1)
    <3>1. p \in tail..(head + written - 1)
      BY Types
    <3>2. buffer[Slot(p, capacity)] \in Item
      BY DEF SlotsHoldItems
    <3> QED
      BY <3>1, <3>2, <1>6
  <2>2. \A i \in 1..(written + 1) : buffer'[Slot(head + i - 1, capacity)] = batch[i]
    <3> TAKE i \in 1..(written + 1)
    <3>1. CASE i \in 1..written
      <4>1. head + i - 1 \in tail..(head + written - 1)
        <5> HIDE DEF IInv, EnqueueWrite, consumer, s
        <5> QED
          BY <3>1, <1>0, NthPosition
      <4> QED
        BY <3>1, <4>1, <1>6 DEF SlotsHoldItems
    <3>2. CASE i = written + 1
      <4>1. head + i - 1 = head + written
        BY <3>2, Types
      <4> QED
        BY <4>1, <3>2, <1>7
    <3> QED
      BY <3>1, <3>2, Types
  <2>3. \A i \in 1..Len(got) : got[i] = buffer'[Slot(tail + i - 1, capacity)]
    <3> TAKE i \in 1..Len(got)
    <3>1. tail + i - 1 \in tail..(head + written - 1)
      <4> HIDE DEF IInv, EnqueueWrite, consumer, s
      <4>1. tail + Len(got) <= head + written
        BY <1>0
      <4> QED
        BY <4>1, <1>0, NthPosition
    <3> QED
      BY <3>1, <1>6 DEF SlotsHoldItems
  <2> QED
    BY <2>1, <2>2, <2>3 DEF SlotsHoldItems
<1> QED
  BY <1>4, <1>5, <1>8

LEMMA EnqueuePublishStep ==
    ASSUME IInv, EnqueuePublish
    PROVE  IInv'
<1>0. head \in Nat /\ Len(batch) \in Nat
  BY Types DEF IInv
<1> USE DEF IInv, EnqueuePublish, shared, consumer, ProducerIdle
<1>1. head' \in 0..MaxPos /\ head' = head + Len(batch)
  BY Types, BoundsAssumption DEF CallsInBounds
<1>2. TypeOK'
  BY <1>1, EmptySeq DEF TypeOK, Slots
<1>3. IndicesOrdered' /\ CallsInBounds'
  BY <1>1, Types, BoundsAssumption DEF IndicesOrdered, CallsInBounds
<1>4. SlotsHoldItems'
  <2>1. \A p \in tail..(head' - 1) : buffer[Slot(p, capacity)] \in Item
    <3> TAKE p \in tail..(head' - 1)
    <3>1. CASE p \in tail..(head - 1)
      BY <3>1 DEF SlotsHoldItems
    <3>2. CASE p \in head..(head + Len(batch) - 1)
      <4> DEFINE i == p - head + 1
      <4>1. i \in 1..Len(batch) /\ p = head + i - 1
        <5> HIDE DEF IInv, EnqueuePublish, shared, consumer, ProducerIdle
        <5> QED
          BY <3>2, <1>0, PositionNumber
      <4>2. batch[i] \in Item
        BY <4>1, ElementOfSeq DEF TypeOK
      <4> HIDE DEF i
      <4> QED
        BY <4>1, <4>2 DEF SlotsHoldItems
    <3> QED
      BY <3>1, <3>2, Types, <1>1
  <2> QED
    BY <2>1 DEF SlotsHoldItems
<1> QED
  BY <1>2, <1>3, <1>4

\* Every consumer call begins with the same decision.
LEMMA DecideStep ==
    ASSUME IInv, NEW n \in Nat \ {0}, NEW peek \in BOOLEAN, Decide(n, peek),
           peek => n = 1
    PROVE  IInv'
<1> USE DEF IInv, Decide, shared, producer, ConsumerIdle
<1>1. head_cache' \in {head, head_cache}
  OBVIOUS
<1>2. head_cache' \in Nat /\ tail <= head_cache' /\ head_cache' <= head
  BY <1>1, Types DEF IndicesOrdered
<1>3. want' \in Nat /\ want' <= n /\ tail + want' <= head_cache'
  BY <1>2, Types DEF Smaller
<1>4. got = <<>> /\ Len(got) = 0
  BY Types, EmptySeq DEF TypeOK
<1>5. TypeOK'
  BY <1>1, <1>3, <1>4 DEF TypeOK, Slots
<1>6. IndicesOrdered'
  BY <1>2, Types DEF IndicesOrdered
<1>7. CallsInBounds'
  <2>1. peeking' => n = 1 /\ want' > 0
    OBVIOUS
  <2>2. peeking' => want' = 1
    BY <2>1, <1>3
  <2> QED
    BY <1>3, <1>4, <2>2 DEF CallsInBounds
<1>8. SlotsHoldItems'
  BY DEF SlotsHoldItems
<1> QED
  BY <1>5, <1>6, <1>7, <1>8

\* Every slot a consumer's call has yet to read holds an item.
LEMMA ReadableSlot ==
    ASSUME IInv, NEW i \in Nat, i < want
    PROVE  buffer[Slot(tail + i, capacity)] \in Item
<1>1. tail + i \in tail..(head - 1)
  BY Types DEF IInv, IndicesOrdered, CallsInBounds
<1> QED
  BY <1>1 DEF IInv, SlotsHoldItems

LEMMA DequeueReadStep ==
    ASSUME IInv, DequeueRead
    PROVE  IInv'
<1> USE DEF IInv, DequeueRead, shared, producer
<1> DEFINE item == buffer[Slot(tail + Len(got), capacity)]
<1>1. item \in Item
  BY Types, ReadableSlot
<1>2. got \in Seq(Item)
  BY DEF TypeOK
<1>3. /\ got' \in Seq(Item) /\ Len(got') = Len(got) + 1
      /\ \A i \in 1..Len(got) : got'[i] = got[i]
      /\ got'[Len(got) + 1] = item
  BY <1>1, <1>2, AppendProperties
<1>4. TypeOK'
  BY <1>3, Types DEF TypeOK, Slots
<1>5. IndicesOrdered' /\ CallsInBounds'
  BY DEF IndicesOrdered, CallsInBounds
<1>6. SlotsHoldItems'
  <2>1. \A i \in 1..Len(got') : got'[i] = buffer[Slot(tail + i - 1, capacity)]
    <3> TAKE i \in 1..Len(got')
    <3>1. CASE i \in 1..Len(got)
      BY <3>1, <1>3 DEF SlotsHoldItems
    <3>2. CASE i = Len(got) + 1
      <4>1. tail + i - 1 = tail + Len(got)
        BY <3>2, Types
      <4> QED
        BY <4>1, <3>2, <1>3
    <3> QED
      BY <3>1, <3>2, <1>3, Types
  <2> QED
    BY <2>1 DEF SlotsHoldItems
<1> QED
  BY <1>4, <1>5, <1>6

LEMMA DequeuePublishStep ==
    ASSUME IInv, DequeuePublish
    PROVE  IInv'
<1> USE DEF IInv, DequeuePublish, shared, producer, ConsumerIdle
<1>1. tail' = tail + want /\ tail' \in 0..MaxPos /\ tail <= tail' /\ tail' <= head_cache
  BY Types, BoundsAssumption DEF IndicesOrdered, CallsInBounds, TypeOK
<1>2. TypeOK'
  BY <1>1, EmptySeq DEF TypeOK, Slots
<1>3. ~peeking
  BY Types, EmptySeq DEF CallsInBounds
<1>4. IndicesOrdered' /\ CallsInBounds'
  BY <1>1, <1>3, Types DEF IndicesOrdered, CallsInBounds
<1>5. SlotsHoldItems'
  BY <1>1, Types DEF SlotsHoldItems
<1> QED
  BY <1>2, <1>4, <1>5

LEMMA PeekReadStep ==
    ASSUME IInv, PeekRead
    PROVE  IInv'
<1> USE DEF IInv, PeekRead, shared, producer
<1>1. want = 1 /\ got = <<>> /\ Len(got) = 0
  BY EmptySeq DEF CallsInBounds
<1>2. buffer[Slot(tail, capacity)] \in Item
  <2>1. buffer[Slot(tail + 0, capacity)] \in Item
    BY <1>1, ReadableSlot
  <2> QED
    BY <2>1, Types
<1>3. TypeOK'
  <2>1. out' \in Seq(Item)
    BY <1>2
  <2>2. want' = 0 /\ Len(got') <= want'
    BY <1>1
  <2>3. peeking' \in BOOLEAN
    BY Zenon
  <2> QED
    BY <2>1, <2>2, <2>3 DEF TypeOK, Slots
<1>4. IndicesOrdered' /\ CallsInBounds'
  BY <1>1, Types DEF IndicesOrdered, CallsInBounds
<1>5. SlotsHoldItems'
  BY DEF SlotsHoldItems
<1> QED
  BY <1>3, <1>4, <1>5

\* IInv is preserved by every step.
LEMMA NextIInv == IInv /\ [Next]_vars => IInv'
<1> SUFFICES ASSUME IInv, [Next]_vars
             PROVE  IInv'
  OBVIOUS
<1>0. 1 \in Nat \ {0} /\ TRUE \in BOOLEAN /\ FALSE \in BOOLEAN
  OBVIOUS
<1>1. ASSUME NEW request \in Requests, Create(request)
      PROVE  IInv'
  BY <1>1, CreateStep
<1>2. CASE Destroy
  BY <1>2, DestroyStep
<1>3. ASSUME NEW item \in Item, Enqueue(item)
      PROVE  IInv'
  <2>1. <<item>> \in Seq(Item)
    OBVIOUS
  <2> QED
    BY <1>3, <2>1, EnqueueBulkStep DEF Enqueue
<1>4. ASSUME NEW items \in Batches, EnqueueBulk(items)
      PROVE  IInv'
  <2>1. items \in Seq(Item)
    BY BoundsAssumption DEF Batches
  <2> QED
    BY <1>4, <2>1, EnqueueBulkStep
<1>5. CASE EnqueueWrite
  BY <1>5, EnqueueWriteStep
<1>6. CASE EnqueuePublish
  BY <1>6, EnqueuePublishStep
<1>7. CASE Dequeue
  <2>1. Decide(1, FALSE)
    BY <1>7 DEF Dequeue
  <2> QED
    BY <2>1, <1>0, DecideStep, Zenon
<1>8. ASSUME NEW n \in 1..MaxBatch, DequeueBulk(n)
      PROVE  IInv'
  <2>1. Decide(n, FALSE)
    BY <1>8 DEF DequeueBulk
  <2>2. n \in Nat \ {0}
    BY BoundsAssumption
  <2> QED
    BY <2>1, <2>2, <1>0, DecideStep, Zenon
<1>9. CASE Peek
  <2>1. Decide(1, TRUE)
    BY <1>9 DEF Peek
  <2> QED
    BY <2>1, <1>0, DecideStep, Zenon
<1>10. CASE DequeueRead
  BY <1>10, DequeueReadStep
<1>11. CASE DequeuePublish
  BY <1>11, DequeuePublishStep
<1>12. CASE PeekRead
  BY <1>12, PeekReadStep
<1>13. CASE UNCHANGED vars
  BY <1>13 DEF IInv, TypeOK, IndicesOrdered, CallsInBounds, SlotsHoldItems, Slots,
               vars, shared, producer, consumer
<1> QED
  BY <1>1, <1>2, <1>3, <1>4, <1>5, <1>6, <1>7, <1>8, <1>9, <1>10, <1>11, <1>12, <1>13
     DEF Next, OwnerNext, ProducerNext, ConsumerNext

\* IInv holds in every reachable state.
THEOREM Invariance == Spec => []IInv
BY InitIInv, NextIInv, PTL DEF Spec

\* Every value of the queue and of the two calls has its type; in particular a
\* dequeue or a peek that returns true never hands out an unwritten slot.
THEOREM TypeCorrect == Spec => []TypeOK
<1>1. IInv => TypeOK
  BY DEF IInv
<1> QED
  BY <1>1, Invariance, PTL

\* No unsigned difference of positions wraps, and at most capacity items are in.
THEOREM Ordered == Spec => []IndicesOrdered
<1>1. IInv => IndicesOrdered
  BY DEF IInv
<1> QED
  BY <1>1, Invariance, PTL

\* The slots being filled and the slots being read are disjoint.
THEOREM RaceFree == Spec => []NoDataRace
<1>1. IInv => NoDataRace
  <2> SUFFICES ASSUME IInv,
                      NEW i \in written..(Len(batch) - 1),
                      NEW j \in Len(got)..(want - 1)
               PROVE  Slot(head + i, capacity) # Slot(tail + j, capacity)
    BY DEF NoDataRace, Filling, Reading
  <2>1. /\ tail + j \in Nat /\ head + i \in Nat
        /\ tail + j < head + i /\ head + i < tail + j + capacity
        /\ capacity \in Nat \ {0}
    <3>1. TypeOK
      BY DEF IInv
    <3>2. /\ i \in Nat /\ i < Len(batch)
          /\ j \in Nat /\ j < want
      BY <3>1, Types
    <3>3. /\ tail + want <= head /\ head + Len(batch) <= tail + capacity
      BY <3>1, Types DEF IInv, IndicesOrdered, CallsInBounds
    <3>4. tail \in Nat /\ head \in Nat /\ want \in Nat /\ capacity \in Nat /\ Len(batch) \in Nat
      BY <3>1, Types
    <3> QED
      BY <3>2, <3>3, <3>4
  <2> QED
    BY <2>1, SlotInjective
<1> QED
  BY <1>1, Invariance, PTL

-----------------------------------------------------------------------------
(* SpscQueue implements FifoQueue: the contents are the items at the         *)
(* positions tail to head, and a call takes effect when it moves its position. *)

\* The contents as a sequence.
LEMMA ContentsSeq ==
    ASSUME IInv
    PROVE  /\ head - tail \in Nat /\ Len(Contents) = head - tail
           /\ Contents \in Seq(Item)
           /\ \A i \in 1..(head - tail) : Contents[i] = buffer[Slot(tail + i - 1, capacity)]
<1>1. /\ head \in Nat /\ tail \in Nat /\ head - tail \in Nat
  BY Types DEF IInv, IndicesOrdered
<1>2. ASSUME NEW i \in 1..(head - tail)
      PROVE  buffer[Slot(tail + i - 1, capacity)] \in Item
  <2>1. tail + i - 1 \in tail..(head - 1)
    BY <1>1
  <2> QED
    BY <2>1 DEF IInv, SlotsHoldItems
<1>3. Contents \in [1..(head - tail) -> Item]
  BY <1>2 DEF Contents
<1>4. Contents \in Seq(Item)
  BY <1>1, <1>3, SeqDef
<1>5. Len(Contents) = head - tail
  BY <1>1, <1>3, <1>4, LenProperties
<1> QED
  BY <1>1, <1>4, <1>5 DEF Contents


\* A step that moves neither position and keeps the published slots keeps the contents.
LEMMA ContentsKept ==
    ASSUME IInv, UNCHANGED <<capacity, head, tail>>,
           \A p \in tail..(head - 1) :
               buffer'[Slot(p, capacity)] = buffer[Slot(p, capacity)]
    PROVE  Contents' = Contents
<1>1. /\ head \in Nat /\ tail \in Nat
  BY Types DEF IInv
<1>2. ASSUME NEW i \in 1..(head - tail)
      PROVE  buffer'[Slot(tail + i - 1, capacity)] = buffer[Slot(tail + i - 1, capacity)]
  <2>1. tail + i - 1 \in tail..(head - 1)
    BY <1>1
  <2> QED
    BY <2>1
<1> QED
  BY <1>2 DEF Contents

\* An empty queue has no contents.
LEMMA ContentsEmpty == head = tail /\ head \in Nat => Contents = <<>>
<1> SUFFICES ASSUME head = tail, head \in Nat
             PROVE  Contents = <<>>
  OBVIOUS
<1>1. 1..(head - tail) = {}
  OBVIOUS
<1> QED
  BY <1>1 DEF Contents

LEMMA InitRefines == Init => Fifo!Init
BY ContentsEmpty DEF Init, Fifo!Init

LEMMA CreateRefines ==
    ASSUME IInv, NEW request \in Requests, Create(request)
    PROVE  Fifo!Open
<1>1. /\ capacity = 0 /\ capacity' \in Nat \ {0}
      /\ UNCHANGED <<head, tail, batch, out>>
  BY RequestsAssumption DEF Create, producer, consumer
<1>2. head = tail /\ head \in Nat /\ tail \in Nat
  BY <1>1, Types DEF IInv, IndicesOrdered
<1>3. Contents = <<>> /\ Contents' = <<>>
  <2>1. Contents = <<>>
    BY <1>2, ContentsEmpty
  <2>2. 1..(head' - tail') = {}
    BY <1>1, <1>2
  <2> QED
    BY <2>1, <2>2 DEF Contents
<1> QED
  BY <1>1, <1>3 DEF Fifo!Open

LEMMA DestroyRefines ==
    ASSUME IInv, Destroy
    PROVE  Fifo!Close
<1>1. 1..(head' - tail') = {}
  BY DEF Destroy
<1>2. Contents' = <<>>
  BY <1>1 DEF Contents
<1> QED
  BY <1>2 DEF Destroy, Fifo!Close

\* A decision offers the batch, or finds no room and changes nothing.
LEMMA EnqueueBulkRefines ==
    ASSUME IInv, NEW items \in Seq(Item), EnqueueBulk(items)
    PROVE  Fifo!Offer("producer") \/ UNCHANGED Fifo!vars
<1>1. batch' \in Seq(Item)
  BY EnqueueBulkStep DEF IInv, TypeOK
<1>2. Contents' = Contents
  BY ContentsKept DEF EnqueueBulk, shared
<1>3. batch = <<>> /\ UNCHANGED <<capacity, out>>
  BY DEF EnqueueBulk, shared, consumer, ProducerIdle
<1> QED
  BY <1>1, <1>2, <1>3 DEF Fifo!Offer

\* A slot write is not seen: the slot is none of the published ones.
LEMMA EnqueueWriteRefines ==
    ASSUME IInv, EnqueueWrite
    PROVE  UNCHANGED Fifo!vars
<1>1. /\ head \in Nat /\ tail \in Nat /\ written \in Nat
      /\ head + written < tail + capacity /\ capacity \in Nat \ {0} /\ tail <= head
  BY Types DEF IInv, IndicesOrdered, CallsInBounds, EnqueueWrite
<1>2. \A p \in tail..(head - 1) : buffer'[Slot(p, capacity)] = buffer[Slot(p, capacity)]
  BY <1>1, WriteMissesPublished
<1>3. Contents' = Contents
  BY <1>2, ContentsKept DEF EnqueueWrite
<1> QED
  BY <1>3 DEF EnqueueWrite, consumer, Fifo!vars

\* The store to head puts the whole batch in, at once and in its order.
LEMMA EnqueuePublishRefines ==
    ASSUME IInv, EnqueuePublish
    PROVE  Fifo!Enqueue("producer")
<1>1. /\ head \in Nat /\ tail \in Nat /\ capacity \in Nat /\ tail <= head
      /\ Len(batch) \in Nat /\ batch \in Seq(Item)
      /\ head + Len(batch) <= tail + capacity
  BY Types DEF IInv, TypeOK, IndicesOrdered, CallsInBounds
<1>2. /\ head' = head + Len(batch) /\ batch' = <<>> /\ written = Len(batch)
      /\ UNCHANGED <<capacity, buffer, tail, out>>
  BY DEF EnqueuePublish, shared, consumer
<1>3. IInv'
  BY EnqueuePublishStep
<1>4. /\ Contents \in Seq(Item) /\ Len(Contents) = head - tail
      /\ \A i \in 1..(head - tail) : Contents[i] = buffer[Slot(tail + i - 1, capacity)]
  BY ContentsSeq
<1>5. /\ Contents' \in Seq(Item) /\ Len(Contents') = head' - tail
      /\ \A i \in 1..(head' - tail) : Contents'[i] = buffer[Slot(tail + i - 1, capacity)]
  <2>1. /\ (Contents \in Seq(Item))' /\ (Len(Contents) = head - tail)'
        /\ (\A i \in 1..(head - tail) : Contents[i] = buffer[Slot(tail + i - 1, capacity)])'
    BY <1>3, ContentsSeq, PTL
  <2> QED
    BY <2>1, <1>2
<1>6. Contents' = Contents \o batch
  <2>1. /\ Contents \o batch \in Seq(Item)
        /\ Len(Contents \o batch) = head - tail + Len(batch)
        /\ \A i \in 1..(head - tail + Len(batch)) :
              (Contents \o batch)[i] =
                  IF i <= head - tail THEN Contents[i] ELSE batch[i - (head - tail)]
    <3>1. /\ Contents \o batch \in Seq(Item)
          /\ Len(Contents \o batch) = Len(Contents) + Len(batch)
          /\ \A i \in 1..(Len(Contents) + Len(batch)) :
                (Contents \o batch)[i] =
                    IF i <= Len(Contents) THEN Contents[i] ELSE batch[i - Len(Contents)]
      BY <1>1, <1>4, ConcatProperties
    <3>2. Len(Contents) = head - tail
      BY <1>4
    <3> HIDE DEF Contents
    <3> QED
      BY <3>1, <3>2
  <2>2. ASSUME NEW i \in 1..(head' - tail)
        PROVE  Contents'[i] = (Contents \o batch)[i]
    <3>0. i \in Nat \ {0} /\ i \in 1..(head - tail + Len(batch))
      BY <1>1, <1>2
    <3>1. CASE i <= head - tail
      <4>1. i \in 1..(head - tail)
        BY <3>0, <3>1, <1>1
      <4> QED
        BY <3>0, <3>1, <4>1, <1>4, <1>5, <2>1
    <3>2. CASE i > head - tail
      <4> DEFINE j == i - (head - tail)
      <4>1. j \in 1..written /\ tail + i - 1 = head + j - 1
        BY <1>1, <1>2, <3>2
      <4>2. buffer[Slot(head + j - 1, capacity)] = batch[j]
        BY <4>1 DEF IInv, SlotsHoldItems
      <4> QED
        BY <1>1, <1>2, <1>5, <2>1, <3>0, <3>2, <4>1, <4>2
    <3>3. i <= head - tail \/ i > head - tail
      BY <3>0, <1>1
    <3> QED
      BY <3>1, <3>2, <3>3
  <2>3. Len(Contents') = Len(Contents \o batch)
    BY <1>1, <1>2, <1>5, <2>1
  <2>4. \A i \in 1..Len(Contents') : Contents'[i] = (Contents \o batch)[i]
    BY <2>2, <1>5
  <2> HIDE DEF Contents
  <2> QED
    BY <1>5, <2>1, <2>3, <2>4, SeqEqual
<1>7. Len(Contents') <= capacity
  BY <1>1, <1>2, <1>5
<1> QED
  BY <1>2, <1>6, <1>7 DEF Fifo!Enqueue

\* A consumer's decision and its reads are not seen.
LEMMA DecideRefines ==
    ASSUME IInv, NEW n, NEW peek, Decide(n, peek)
    PROVE  UNCHANGED Fifo!vars
<1>1. Contents' = Contents
  BY ContentsKept DEF Decide, shared
<1> QED
  BY <1>1 DEF Decide, shared, producer, Fifo!vars

LEMMA DequeueReadRefines ==
    ASSUME IInv, DequeueRead
    PROVE  UNCHANGED Fifo!vars
<1>1. Contents' = Contents
  BY ContentsKept DEF DequeueRead, shared
<1> QED
  BY <1>1 DEF DequeueRead, shared, producer, Fifo!vars

\* The store to tail takes the items that were read, which are the oldest ones.
LEMMA DequeuePublishRefines ==
    ASSUME IInv, DequeuePublish
    PROVE  /\ want \in 1..Len(Contents)
           /\ Fifo!Dequeue("consumer", want)
<1>1. /\ head \in Nat /\ tail \in Nat /\ want \in Nat \ {0}
      /\ tail + want <= head /\ got \in Seq(Item) /\ Len(got) = want
  BY Types DEF IInv, TypeOK, IndicesOrdered, CallsInBounds, DequeuePublish, ConsumerIdle
<1>2. /\ tail' = tail + want /\ out' = got
      /\ UNCHANGED <<capacity, buffer, head, batch>>
  BY DEF DequeuePublish, shared, producer
<1>3. /\ Contents \in Seq(Item) /\ Len(Contents) = head - tail
      /\ \A i \in 1..(head - tail) : Contents[i] = buffer[Slot(tail + i - 1, capacity)]
  BY ContentsSeq
<1>4. /\ Contents' \in Seq(Item) /\ Len(Contents') = head - tail'
      /\ \A i \in 1..(head - tail') : Contents'[i] = buffer[Slot(tail' + i - 1, capacity)]
  <2>1. IInv'
    BY DequeuePublishStep
  <2>2. /\ (Contents \in Seq(Item))' /\ (Len(Contents) = head - tail)'
        /\ (\A i \in 1..(head - tail) : Contents[i] = buffer[Slot(tail + i - 1, capacity)])'
    BY <2>1, ContentsSeq, PTL
  <2> QED
    BY <2>2, <1>2
<1>5. got = SubSeq(Contents, 1, want)
  <2>1. /\ SubSeq(Contents, 1, want) \in Seq(Item)
        /\ Len(SubSeq(Contents, 1, want)) = want
        /\ \A i \in 1..want : SubSeq(Contents, 1, want)[i] = Contents[i]
    BY <1>1, <1>3, SubSeqProperties, ElementOfSeq
  <2>2. ASSUME NEW i \in 1..want
        PROVE  got[i] = Contents[i]
    <3>1. i \in 1..(head - tail)
      BY <1>1
    <3>2. got[i] = buffer[Slot(tail + i - 1, capacity)]
      BY <1>1 DEF IInv, SlotsHoldItems
    <3> QED
      BY <1>3, <3>1, <3>2
  <2> HIDE DEF Contents
  <2> QED
    BY <1>1, <2>1, <2>2, SeqEqual
<1>6. Contents' = SubSeq(Contents, want + 1, Len(Contents))
  <2> DEFINE rest == SubSeq(Contents, want + 1, Len(Contents))
  <2>1. /\ rest \in Seq(Item) /\ Len(rest) = head - tail'
        /\ \A i \in 1..(head - tail') : rest[i] = Contents[want + i]
    BY <1>1, <1>2, <1>3, SubSeqProperties, ElementOfSeq
  <2>2. ASSUME NEW i \in 1..(head - tail')
        PROVE  Contents'[i] = rest[i]
    <3>1. want + i \in 1..(head - tail) /\ tail' + i - 1 = tail + (want + i) - 1
      BY <1>1, <1>2
    <3> QED
      BY <1>3, <1>4, <2>1, <3>1
  <2>3. Len(Contents') = Len(rest) /\ \A i \in 1..Len(Contents') : Contents'[i] = rest[i]
    BY <1>4, <2>1, <2>2
  <2> HIDE DEF Contents, rest
  <2>4. Contents' = rest
    BY <1>4, <2>1, <2>3, SeqEqual
  <2> QED
    BY <2>4 DEF rest
<1>7. want \in 1..Len(Contents)
  BY <1>1, <1>3
<1> QED
  BY <1>2, <1>5, <1>6, <1>7 DEF Fifo!Dequeue

LEMMA PeekReadRefines ==
    ASSUME IInv, PeekRead
    PROVE  /\ 1 \in 1..Len(Contents)
           /\ Fifo!Peek("consumer", 1)
<1>1. /\ head \in Nat /\ tail \in Nat /\ tail + 1 <= head
  BY Types DEF IInv, IndicesOrdered, CallsInBounds, PeekRead
<1>2. /\ Contents \in Seq(Item) /\ Len(Contents) = head - tail
      /\ Contents[1] = buffer[Slot(tail, capacity)]
  BY <1>1, ContentsSeq
<1>3. Contents' = Contents
  BY ContentsKept DEF PeekRead, shared
<1>4. SubSeq(Contents, 1, 1) = <<Contents[1]>>
  <2>1. /\ SubSeq(Contents, 1, 1) \in Seq(Item) /\ Len(SubSeq(Contents, 1, 1)) = 1
        /\ SubSeq(Contents, 1, 1)[1] = Contents[1]
    BY <1>1, <1>2, SubSeqProperties, ElementOfSeq
  <2>2. Contents[1] \in Item
    BY <1>1, <1>2, ElementOfSeq
  <2>3. /\ <<Contents[1]>> \in Seq(Item) /\ Len(<<Contents[1]>>) = 1
        /\ <<Contents[1]>>[1] = Contents[1]
    BY <2>2
  <2>4. \A i \in 1..1 : SubSeq(Contents, 1, 1)[i] = <<Contents[1]>>[i]
    BY <2>1, <2>3
  <2> QED
    BY <2>1, <2>3, <2>4, SeqEqual
<1> QED
  BY <1>1, <1>2, <1>3, <1>4 DEF PeekRead, shared, producer, Fifo!Peek

\* Every step of the two threads is a step of the abstract queue, or none.
LEMMA NextRefines == IInv /\ [Next]_vars => [Fifo!Next]_Fifo!vars
<1> SUFFICES ASSUME IInv, [Next]_vars
             PROVE  [Fifo!Next]_Fifo!vars
  OBVIOUS
<1>1. ASSUME NEW request \in Requests, Create(request)
      PROVE  Fifo!Next
  BY <1>1, CreateRefines DEF Fifo!Next
<1>2. CASE Destroy
  BY <1>2, DestroyRefines DEF Fifo!Next
<1>3. ASSUME NEW items \in Seq(Item), EnqueueBulk(items)
      PROVE  Fifo!Next \/ UNCHANGED Fifo!vars
  BY <1>3, EnqueueBulkRefines DEF Fifo!Next
<1>4. ASSUME NEW item \in Item, Enqueue(item)
      PROVE  Fifo!Next \/ UNCHANGED Fifo!vars
  <2>1. <<item>> \in Seq(Item)
    OBVIOUS
  <2> QED
    BY <1>3, <1>4, <2>1 DEF Enqueue
<1>5. ASSUME NEW items \in Batches, EnqueueBulk(items)
      PROVE  Fifo!Next \/ UNCHANGED Fifo!vars
  <2>1. items \in Seq(Item)
    BY BoundsAssumption DEF Batches
  <2> QED
    BY <1>3, <1>5, <2>1
<1>6. CASE EnqueueWrite
  BY <1>6, EnqueueWriteRefines
<1>7. CASE EnqueuePublish
  BY <1>7, EnqueuePublishRefines DEF Fifo!Next
<1>8. ASSUME NEW n, NEW peek, Decide(n, peek)
      PROVE  UNCHANGED Fifo!vars
  BY <1>8, DecideRefines
<1>9. CASE DequeueRead
  BY <1>9, DequeueReadRefines
<1>10. CASE DequeuePublish
  BY <1>10, DequeuePublishRefines DEF Fifo!Next
<1>11. CASE PeekRead
  BY <1>11, PeekReadRefines DEF Fifo!Next
<1>12. CASE UNCHANGED vars
  <2>1. Contents' = Contents
    BY <1>12 DEF Contents, vars, shared
  <2> QED
    BY <2>1, <1>12 DEF vars, shared, producer, consumer, Fifo!vars
<1> QED
  BY <1>1, <1>2, <1>4, <1>5, <1>6, <1>7, <1>8, <1>9, <1>10, <1>11, <1>12
     DEF Next, OwnerNext, ProducerNext, ConsumerNext, Dequeue, DequeueBulk, Peek

\* Every call of the two threads takes effect at its store to head or tail as one step
\* of a bounded FIFO queue: eg_spsc_queue_enqueue(_bulk), dequeue(_bulk) and peek, one
\* slot access at a time, lose, double or reorder nothing.
THEOREM Refinement == Spec => FifoSpec
BY InitRefines, NextRefines, Invariance, PTL DEF Spec, FifoSpec, Fifo!Spec

-----------------------------------------------------------------------------
(* size, called while the queue runs *)

\* The inductive invariant of MonitorSpec.
MonitorInv == IInv /\ LoadedInBounds

\* A step of the queue beside a call of size, seen from that call: a side inside
\* size moves nothing, and head only grows under the other sides' steps.
LEMMA QueueStepMoves ==
    ASSUME IInv, QueueNext
    PROVE  /\ Next /\ UNCHANGED mvars
           /\ caller = "producer" => head' = head
           /\ caller = "consumer" => tail' = tail /\ head <= head' /\ head' \in Nat
<1> USE DEF QueueNext
<1>1. Next /\ UNCHANGED mvars
  BY DEF Next
<1>2. CASE OwnerNext /\ caller = "none"
  BY <1>1, <1>2
<1>3. CASE ProducerNext /\ caller # "producer"
  <2>1. tail' = tail /\ (head' = head \/ head' = head + Len(batch))
    BY <1>3 DEF ProducerNext, Enqueue, EnqueueBulk, EnqueueWrite, EnqueuePublish
  <2>2. head \in Nat /\ Len(batch) \in Nat
    BY Types DEF IInv
  <2>3. head <= head' /\ head' \in Nat
    BY <2>1, <2>2
  <2> QED
    BY <1>1, <1>3, <2>1, <2>3
<1>4. CASE ConsumerNext /\ caller # "consumer"
  <2>1. head' = head
    BY <1>4 DEF ConsumerNext, Dequeue, DequeueBulk, Peek, Decide, DequeueRead,
                DequeuePublish, PeekRead
  <2> QED
    BY <1>1, <1>4, <2>1
<1> QED
  BY <1>2, <1>3, <1>4

LEMMA MonitorIInv == MonitorInv /\ [MonitorNext]_allvars => MonitorInv'
<1> SUFFICES ASSUME MonitorInv, [MonitorNext]_allvars
             PROVE  MonitorInv'
  OBVIOUS
<1> USE DEF MonitorInv
<1>1. CASE QueueNext
  <2>1. IInv'
    BY <1>1, QueueStepMoves, NextIInv
  <2>2. LoadedInBounds'
    <3>1. /\ caller' = caller /\ loaded' = loaded
          /\ caller = "producer" => head' = head
          /\ caller = "consumer" => tail' = tail /\ head <= head' /\ head' \in Nat
      BY <1>1, QueueStepMoves DEF mvars
    <3>2. head \in Nat
      BY Types DEF IInv
    <3> QED
      BY <3>1, <3>2 DEF LoadedInBounds
  <2> QED
    BY <2>1, <2>2
<1>2. CASE SizeLoadTail
  <2>1. IInv'
    BY <1>2, NextIInv DEF SizeLoadTail
  <2>2. LoadedInBounds'
    BY <1>2 DEF SizeLoadTail, LoadedInBounds
  <2> QED
    BY <2>1, <2>2
<1>3. ASSUME NEW who \in Callers, SizeLoadHead(who)
      PROVE  MonitorInv'
  <2>1. IInv'
    BY <1>3, NextIInv DEF SizeLoadHead
  <2>2. head \in Nat /\ tail <= head
    BY Types DEF IInv, IndicesOrdered
  <2>3. head' = head /\ tail' = tail /\ loaded' = head /\ caller' = who
    BY <1>3 DEF SizeLoadHead, vars
  <2>4. LoadedInBounds'
    BY <2>2, <2>3, CallersAssumption DEF LoadedInBounds
  <2> QED
    BY <2>1, <2>4
<1>4. CASE UNCHANGED allvars
  <2>1. IInv'
    BY <1>4, NextIInv DEF allvars
  <2>2. LoadedInBounds'
    BY <1>4 DEF allvars, vars, mvars, LoadedInBounds
  <2> QED
    BY <2>1, <2>2
<1> QED
  BY <1>1, <1>2, <1>3, <1>4 DEF MonitorNext

\* What size returns, when its second load ends it.
LEMMA SizeReturned ==
    ASSUME MonitorInv, SizeLoadTail
    PROVE  /\ caller \in {"producer", "consumer"} => size' <= head - tail
           /\ caller = "producer" => size' = head - tail
<1>1. head \in Nat /\ tail \in Nat /\ head <= MaxPos /\ tail <= head
  BY Types DEF MonitorInv, IInv, TypeOK, IndicesOrdered
<1>2. SUFFICES ASSUME caller \in {"producer", "consumer"}
               PROVE  /\ size' <= head - tail
                      /\ caller = "producer" => size' = head - tail
  OBVIOUS
<1>3. loaded \in Nat /\ tail <= loaded /\ loaded <= head
  BY <1>1, <1>2 DEF MonitorInv, LoadedInBounds
<1>4. loaded - tail \in 0..(Word - 1)
  BY <1>1, <1>3, WordAssumption, BoundsAssumption
<1>5. (loaded - tail) % Word = loaded - tail
  BY <1>4, WordAssumption
<1>6. size' = loaded - tail
  BY <1>5 DEF SizeLoadTail
<1> QED
  BY <1>1, <1>3, <1>6 DEF MonitorInv, LoadedInBounds

\* eg_spsc_queue_size, called by the producer or by the consumer while the other
\* side runs, never reports more than the queue holds when it returns, and exactly
\* that to the producer.
THEOREM OwnSize == MonitorSpec => OwnSizeNeverOver
<1>1. MonitorInit => MonitorInv
  <2>1. MonitorInit => IInv
    BY InitIInv DEF MonitorInit
  <2> QED
    BY <2>1 DEF MonitorInit, MonitorInv, LoadedInBounds
<1>2. MonitorInv /\ [MonitorNext]_allvars
        => [Returns => /\ caller # "monitor" => size' <= head - tail
                       /\ caller = "producer" => size' = head - tail]_allvars
  <2> SUFFICES ASSUME MonitorInv, [MonitorNext]_allvars, Returns
               PROVE  /\ caller # "monitor" => size' <= head - tail
                      /\ caller = "producer" => size' = head - tail
    OBVIOUS
  <2>1. SizeLoadTail
    BY DEF MonitorNext, QueueNext, SizeLoadHead, Returns, allvars, mvars
  <2>2. caller \in {"producer", "consumer", "monitor"}
    BY DEF MonitorInv, LoadedInBounds, Returns
  <2> QED
    BY <2>1, <2>2, SizeReturned
<1> QED
  BY <1>1, <1>2, MonitorIInv, PTL DEF MonitorSpec, OwnSizeNeverOver

-----------------------------------------------------------------------------
(* The deduplicator.  Its filters hold the bits of stretches of recent: the    *)
(* active one those of the current_count items that were added last, the other *)
(* those of the window before.                                                 *)

\* The bits of the items lo + 1 to hi of a sequence, as far as it has them.
Marks(s, lo, hi) ==
    UNION {D!BitsOf(s[i]) : i \in {j \in 1..Len(s) : lo < j /\ j <= hi}}

\* The inductive invariant of the deduplicator.
DedupInv ==
    /\ D!TypeOK /\ D!ArraysConserved
    /\ current_count <= Len(recent)
    /\ filters[active_idx] = Marks(recent, Len(recent) - current_count, Len(recent))
    /\ filters[1 - active_idx] = Marks(recent, Len(recent) - current_count - window_size,
                                       Len(recent) - current_count)

\* The code's logarithm of 100 finds 128 as the next power of two.
LEMMA LogOfHundred == D!log(100) = 672
<1> DEFINE P(e) == 2^e >= 100 /\ \A d \in 0..(e - 1) : 2^d < 100
<1>1. 2^0 = 1 /\ 2^1 = 2 /\ 2^2 = 4 /\ 2^3 = 8 /\ 2^4 = 16 /\ 2^5 = 32 /\ 2^6 = 64 /\ 2^7 = 128
  OBVIOUS
<1>2. \A d \in 0..6 : d = 0 \/ d = 1 \/ d = 2 \/ d = 3 \/ d = 4 \/ d = 5 \/ d = 6
  OBVIOUS
<1>3. \A d \in 0..6 : 2^d \in 0..99
  <2> SUFFICES ASSUME NEW d \in 0..6
               PROVE  2^d \in 0..99
    OBVIOUS
  <2>1. 2^d = 1 \/ 2^d = 2 \/ 2^d = 4 \/ 2^d = 8 \/ 2^d = 16 \/ 2^d = 32 \/ 2^d = 64
    <3>1. /\ d = 0 => 2^d = 1
          /\ d = 1 => 2^d = 2
          /\ d = 2 => 2^d = 4
          /\ d = 3 => 2^d = 8
          /\ d = 4 => 2^d = 16
          /\ d = 5 => 2^d = 32
          /\ d = 6 => 2^d = 64
      BY <1>1, Zenon
    <3> QED
      BY <1>2, <3>1
  <2> QED
    BY <2>1
<1>4. P(7)
  BY <1>1, <1>3
<1>5. ASSUME NEW e \in 0..100, P(e)
      PROVE  e = 7
  <2>1. CASE e < 7
    <3>1. e \in 0..6
      BY <2>1
    <3>2. 2^e \in 0..99
      BY <3>1, <1>3
    <3> QED
      BY <1>5, <3>2
  <2>2. CASE e > 7
    <3>1. 7 \in 0..(e - 1)
      BY <2>2
    <3>2. 2^7 < 100
      BY <1>5, <3>1
    <3> QED
      BY <1>1, <3>2
  <2> QED
    BY <2>1, <2>2
<1> HIDE DEF P
<1>6. (CHOOSE e \in 0..100 : P(e)) = 7
  BY <1>4, <1>5
<1>7. (CHOOSE e \in 0..100 : 2^e >= 100 /\ \A d \in 0..(e - 1) : 2^d < 100) = 7
  BY <1>6 DEF P
<1>8. \A e : e = 7 => 2^e = 128
  BY <1>1, Zenon
<1>9. D!log(100) = (7 + 1) * 100 - 128
  BY <1>7, <1>8 DEF D!log
<1> QED
  BY <1>9

\* A filter has bits, and some hashes.
LEMMA FilterSizes == D!num_bits \in Nat \ {0} /\ D!num_hash \in Int
<1>1. expected_items \in Nat \ {0}
  BY DedupAssumption DEF D!SizesAssumption
<1> DEFINE optimal == (expected_items * 672 * 10000) \div (100 * 6931)
<1>2. optimal \in Nat /\ optimal >= 9
  BY <1>1
<1>3. D!num_bits = 8 * ((optimal + 7) \div 8)
  BY LogOfHundred DEF D!num_bits
<1> HIDE DEF optimal
<1>4. D!num_bits \in Nat \ {0}
  BY <1>2, <1>3
<1>5. D!num_hash \in Int
  <2> DEFINE a == (D!num_bits * 693147) \div (expected_items * 1000000)
             b == D!Max({1, a})
  <2>1. a \in Int
    <3>1. expected_items * 1000000 \in Nat \ {0} /\ D!num_bits * 693147 \in Nat
      BY <1>1, <1>4
    <3> QED
      BY <3>1
  <2> HIDE DEF a
  <2>2. b \in Int
    <3>1. IF a >= 1 THEN a \in {1, a} /\ \A y \in {1, a} : a >= y
                    ELSE 1 \in {1, a} /\ \A y \in {1, a} : 1 >= y
      BY <2>1
    <3>2. \E x \in {1, a} : \A y \in {1, a} : x >= y
      BY <3>1
    <3>3. b \in {1, a}
      BY <3>2 DEF D!Max
    <3> QED
      BY <2>1, <3>3
  <2> HIDE DEF b
  <2>3. \E x \in {16, b} : \A y \in {16, b} : x <= y
    <3>1. IF b <= 16 THEN b \in {16, b} /\ \A y \in {16, b} : b <= y
                     ELSE 16 \in {16, b} /\ \A y \in {16, b} : 16 <= y
      BY <2>2
    <3> QED
      BY <3>1
  <2>4. D!Min({16, b}) \in {16, b}
    BY <2>3 DEF D!Min
  <2> QED
    BY <2>2, <2>4 DEF D!num_hash, a, b
<1> QED
  BY <1>4, <1>5

\* The bits of an item are bits of a filter.
LEMMA BitsInside ==
    ASSUME NEW x \in Hashed
    PROVE  D!BitsOf(x) \subseteq D!Bit
<1>1. HashWord \in Nat \ {0} /\ Hash1[x] \in Int /\ Hash2[x] \in Int
  BY DedupAssumption DEF D!HashAssumption
<1>2. ASSUME NEW i \in 0..(D!num_hash - 1)
      PROVE  ((Hash1[x] + i * Hash2[x]) % HashWord) % D!num_bits \in D!Bit
  <2>1. i \in Int
    BY <1>2, FilterSizes
  <2>2. i * Hash2[x] \in Int
    BY <1>1, <2>1
  <2>3. Hash1[x] + i * Hash2[x] \in Int
    BY <1>1, <2>2
  <2>4. PICK k \in Int : k = (Hash1[x] + i * Hash2[x]) % HashWord
    BY <1>1, <2>3
  <2>5. k % D!num_bits \in 0..(D!num_bits - 1)
    BY FilterSizes
  <2> QED
    BY <2>4, <2>5 DEF D!Bit
<1> QED
  BY <1>2 DEF D!BitsOf

\* A sequence with an item more at its end and d items less at its beginning.
Shifted(s, x, d) == SubSeq(Append(s, x), 1 + d, Len(s) + 1)

\* What is appended, and the first item dropped when all the places are taken.
LEMMA Appended ==
    ASSUME NEW s \in Seq(Hashed), NEW x \in Hashed, NEW d \in {0, 1}, d <= Len(s)
    PROVE  LET r == Shifted(s, x, d)
           IN  /\ r \in Seq(Hashed) /\ Len(s) \in Nat /\ Len(r) = Len(s) + 1 - d
               /\ \A i \in 1..(Len(s) - d) : r[i] = s[i + d]
               /\ r[Len(s) + 1 - d] = x
<1> DEFINE a == Append(s, x)
           r == SubSeq(a, 1 + d, Len(s) + 1)
<1>1. Len(s) \in Nat
  BY LenProperties
<1>2. /\ a \in Seq(Hashed) /\ Len(a) = Len(s) + 1 /\ a[Len(s) + 1] = x
      /\ \A i \in 1..Len(s) : a[i] = s[i]
  BY AppendProperties
<1>3. 1 + d \in 1..(Len(a) + 1) /\ Len(s) + 1 \in d..Len(a)
  BY <1>1, <1>2
<1>4. /\ r \in Seq(Hashed) /\ Len(r) = Len(s) + 1 - d
      /\ \A i \in 1..(Len(s) + 1 - d) : r[i] = a[i + d]
  BY <1>1, <1>2, <1>3, SubSeqProperties
<1>5. r[Len(s) + 1 - d] = x
  BY <1>1, <1>2, <1>4
<1>6. \A i \in 1..(Len(s) - d) : r[i] = s[i + d]
  BY <1>1, <1>2, <1>4
<1> QED
  BY <1>1, <1>4, <1>5, <1>6 DEF Shifted

\* The items of a stretch of r are in a stretch of s.
Covered(r, from, to, s, lo, hi) ==
    \A i \in 1..Len(r) : from < i /\ i <= to =>
        \E j \in 1..Len(s) : lo < j /\ j <= hi /\ s[j] = r[i]

LEMMA MarksInside ==
    ASSUME NEW r, NEW from, NEW to, NEW s, NEW lo, NEW hi, Covered(r, from, to, s, lo, hi)
    PROVE  Marks(r, from, to) \subseteq Marks(s, lo, hi)
BY DEF Marks, Covered

\* Where a stretch of bits is then, and one that goes on to the end.
LEMMA MarksMove ==
    ASSUME NEW s \in Seq(Hashed), NEW x \in Hashed, NEW d \in {0, 1}, d <= Len(s),
           NEW r, r = Shifted(s, x, d),
           NEW lo \in Int, NEW hi \in Int, d <= lo \/ d = 0, hi <= Len(s),
           NEW from, from = lo - d, NEW to, to = hi - d
    PROVE  Marks(r, from, to) = Marks(s, lo, hi)
<1>1. /\ Len(s) \in Nat /\ Len(r) = Len(s) + 1 - d
      /\ \A i \in 1..(Len(s) - d) : r[i] = s[i + d]
      /\ r[Len(s) + 1 - d] = x
  BY Appended
<1>2. Covered(r, from, to, s, lo, hi)
  <2> SUFFICES ASSUME NEW i \in 1..Len(r), from < i, i <= to
               PROVE  \E j \in 1..Len(s) : lo < j /\ j <= hi /\ s[j] = r[i]
    BY DEF Covered
  <2>1. i \in 1..(Len(s) - d) /\ i + d \in 1..Len(s) /\ lo < i + d /\ i + d <= hi
    BY <1>1
  <2> QED
    BY <1>1, <2>1
<1>3. Covered(s, lo, hi, r, from, to)
  <2> SUFFICES ASSUME NEW j \in 1..Len(s), lo < j, j <= hi
               PROVE  \E i \in 1..Len(r) : from < i /\ i <= to /\ r[i] = s[j]
    BY DEF Covered
  <2>1. j - d \in 1..(Len(s) - d) /\ j - d \in 1..Len(r) /\ (j - d) + d = j
        /\ from < j - d /\ j - d <= to
    BY <1>1
  <2>2. r[j - d] = s[j]
    BY <1>1, <2>1
  <2> QED
    BY <2>1, <2>2
<1>4. Marks(r, from, to) \subseteq Marks(s, lo, hi)
  BY <1>2, MarksInside
<1>5. Marks(s, lo, hi) \subseteq Marks(r, from, to)
  BY <1>3, MarksInside
<1> QED
  BY <1>4, <1>5

LEMMA MarksGrow ==
    ASSUME NEW s \in Seq(Hashed), NEW x \in Hashed, NEW d \in {0, 1}, d <= Len(s),
           NEW r, r = Shifted(s, x, d),
           NEW lo \in Int, d <= lo \/ d = 0, lo <= Len(s), NEW from, from = lo - d
    PROVE  Marks(r, from, Len(r)) = Marks(s, lo, Len(s)) \cup D!BitsOf(x)
<1>1. /\ Len(s) \in Nat /\ Len(r) = Len(s) + 1 - d
      /\ \A i \in 1..(Len(s) - d) : r[i] = s[i + d]
      /\ r[Len(s) + 1 - d] = x
  BY Appended
<1>2. ASSUME NEW i \in 1..Len(r), from < i
      PROVE  \/ r[i] = x
             \/ \E j \in 1..Len(s) : lo < j /\ j <= Len(s) /\ s[j] = r[i]
  <2>1. CASE i = Len(s) + 1 - d
    BY <1>1, <2>1
  <2>2. CASE i # Len(s) + 1 - d
    <3>1. i \in 1..(Len(s) - d) /\ i + d \in 1..Len(s) /\ lo < i + d /\ i + d <= Len(s)
      BY <1>1, <1>2, <2>2
    <3> QED
      BY <1>1, <3>1
  <2> QED
    BY <2>1, <2>2
<1>3. Covered(s, lo, Len(s), r, from, Len(r))
  <2> SUFFICES ASSUME NEW j \in 1..Len(s), lo < j
               PROVE  \E i \in 1..Len(r) : from < i /\ i <= Len(r) /\ r[i] = s[j]
    BY DEF Covered
  <2>1. j - d \in 1..(Len(s) - d) /\ j - d \in 1..Len(r) /\ (j - d) + d = j
        /\ from < j - d /\ j - d <= Len(r)
    BY <1>1
  <2>2. r[j - d] = s[j]
    BY <1>1, <2>1
  <2> QED
    BY <2>1, <2>2
<1>4. /\ Len(r) \in 1..Len(r) /\ from < Len(r) /\ Len(r) <= Len(r) /\ r[Len(r)] = x
  <2>1. Len(r) \in Nat \ {0} /\ from < Len(r)
    BY <1>1
  <2>2. r[Len(r)] = x
    BY <1>1
  <2> QED
    BY <2>1, <2>2
<1>5. Marks(r, from, Len(r)) \subseteq Marks(s, lo, Len(s)) \cup D!BitsOf(x)
  BY <1>2 DEF Marks
<1>6. Marks(s, lo, Len(s)) \subseteq Marks(r, from, Len(r))
  BY <1>3, MarksInside
<1>7. D!BitsOf(x) \subseteq Marks(r, from, Len(r))
  BY <1>4 DEF Marks
<1> QED
  BY <1>5, <1>6, <1>7

\* The library's operators in the abstract window and in the deduplicator.
LEMMA WindowOperators ==
    /\ \A s, x : D!W!Contains(s, x) <=> \E i \in 1..Len(s) : s[i] = x
    /\ \A s : D!W!ToSet(s) = {s[i] : i \in DOMAIN s}
<1>1. \A s, x : D!W!Contains(s, x) <=> \E i \in 1..Len(s) : s[i] = x
  BY DEF D!W!Contains
<1> QED
  BY <1>1 DEF D!W!ToSet

\* The types DedupInv gives.
LEMMA DedupTypes ==
    ASSUME DedupInv
    PROVE  /\ created \in BOOLEAN /\ filters \in [{0, 1} -> SUBSET D!Bit]
           /\ active_idx \in {0, 1} /\ 1 - active_idx \in {0, 1} /\ 1 - active_idx # active_idx
           /\ window_size \in Nat \ {0} /\ current_count \in Nat /\ current_count < window_size
           /\ recent \in Seq(Hashed) /\ Len(recent) \in Nat
           /\ Len(recent) < 2 * window_size /\ current_count <= Len(recent)
<1>1. window_size \in Nat \ {0}
  BY DedupAssumption DEF D!SizesAssumption
<1>2. active_idx \in {0, 1} /\ current_count \in 0..(window_size - 1)
  BY DEF DedupInv, D!TypeOK
<1>3. recent \in Seq(Hashed) /\ Len(recent) \in Nat
  BY LenProperties DEF DedupInv, D!TypeOK
<1>4. 1 - active_idx \in {0, 1} /\ 1 - active_idx # active_idx
  BY <1>2
<1> QED
  BY <1>1, <1>2, <1>3, <1>4 DEF DedupInv, D!TypeOK

\* What a deduplicator that has just been created holds.
LEMMA FreshValues ==
    /\ <<>> \in Seq(Hashed) /\ Len(<<>>) = 0 /\ 0 <= Len(<<>>) /\ Len(<<>>) < 2 * window_size
    /\ [f \in {0, 1} |-> {}] \in [{0, 1} -> SUBSET D!Bit] /\ 0 \in 0..(window_size - 1)
    /\ [f \in {0, 1} |-> {}][0] = {} /\ [f \in {0, 1} |-> {}][1 - 0] = {}
    /\ Marks(<<>>, Len(<<>>) - 0, Len(<<>>)) = {}
    /\ Marks(<<>>, Len(<<>>) - 0 - window_size, Len(<<>>) - 0) = {}
<1>1. window_size \in Nat \ {0}
  BY DedupAssumption DEF D!SizesAssumption
<1>2. <<>> \in Seq(Hashed) /\ Len(<<>>) = 0
  BY EmptySeq
<1>3. Marks(<<>>, Len(<<>>) - 0, Len(<<>>)) = {}
  BY <1>2 DEF Marks
<1>4. Marks(<<>>, Len(<<>>) - 0 - window_size, Len(<<>>) - 0) = {}
  BY <1>2 DEF Marks
<1>5. [f \in {0, 1} |-> {}][0] = {} /\ [f \in {0, 1} |-> {}][1 - 0] = {}
  OBVIOUS
<1> QED
  BY <1>1, <1>2, <1>3, <1>4, <1>5

\* The initial state.
LEMMA DedupAtFirst == D!Init => DedupInv
<1> SUFFICES ASSUME D!Init
             PROVE  DedupInv
  OBVIOUS
<1>1. D!TypeOK
  <2>1. created \in BOOLEAN /\ arrays \in 0..2 /\ active_idx \in {0, 1}
    BY DEF D!Init
  <2>2. filters \in [{0, 1} -> SUBSET D!Bit] /\ current_count \in 0..(window_size - 1)
    BY FreshValues, Zenon DEF D!Init
  <2>3. recent \in Seq(Hashed) /\ Len(recent) < 2 * window_size
    BY FreshValues DEF D!Init
  <2> QED
    BY <2>1, <2>2, <2>3 DEF D!TypeOK
<1> QED
  BY <1>1, FreshValues DEF DedupInv, D!Init, D!ArraysConserved

\* eg_dedup_create and eg_dedup_destroy leave a deduplicator that remembers nothing, and
\* the arrays of one that exists.
LEMMA DedupRestart ==
    ASSUME DedupInv, (\E m \in 0..2 : D!Create(m)) \/ D!Destroy
    PROVE  DedupInv' /\ D!W!Restart
<1>1. /\ filters' = [f \in {0, 1} |-> {}] /\ active_idx' = 0 /\ current_count' = 0
      /\ recent' = <<>> /\ answer' = <<>>
  BY DEF D!Create, D!Destroy, D!FreshBits
<1>2. created' \in BOOLEAN /\ arrays' = (IF created' THEN 2 ELSE 0)
  <2>1. ASSUME NEW m \in 0..2, D!Create(m)
        PROVE  created' \in BOOLEAN /\ arrays' = (IF created' THEN 2 ELSE 0)
    <3>1. created' = (m = 2) /\ arrays' = arrays + (IF m = 2 THEN 2 ELSE m - m * 1) /\ ~created
      BY <2>1 DEF D!Create, D!Undone, D!Destroyed
    <3>2. arrays = 0
      BY <3>1 DEF DedupInv, D!ArraysConserved
    <3>3. created' \in BOOLEAN /\ (created' <=> m = 2)
      BY <3>1, Zenon
    <3>4. m \in Int /\ arrays' = 0 + (IF m = 2 THEN 2 ELSE m - m * 1)
      BY <3>1, <3>2
    <3>5. arrays' = IF m = 2 THEN 2 ELSE 0
      BY <3>4
    <3> QED
      BY <3>3, <3>5, Zenon
  <2>2. ASSUME D!Destroy
        PROVE  created' \in BOOLEAN /\ arrays' = (IF created' THEN 2 ELSE 0)
    <3>1. created' = FALSE /\ arrays' = arrays - 2 * 1 /\ created
      BY <2>2 DEF D!Destroy, D!Destroyed
    <3>2. arrays = 2
      BY <3>1 DEF DedupInv, D!ArraysConserved
    <3>3. arrays' = 0
      BY <3>1, <3>2
    <3> QED
      BY <3>1, <3>3, Zenon
  <2> QED
    BY <2>1, <2>2
<1>3. D!TypeOK'
  BY <1>1, <1>2, FreshValues DEF D!TypeOK
<1>4. DedupInv'
  BY <1>1, <1>2, <1>3, FreshValues DEF DedupInv, D!ArraysConserved
<1> QED
  BY <1>1, <1>4 DEF D!W!Restart

\* What is known resembles what is remembered, and what is not is not in the window.
LEMMA KnownIsRemembered ==
    ASSUME DedupInv, NEW x \in Hashed
    PROVE  /\ D!Known(x) => D!Resembling(x, D!W!ToSet(recent))
           /\ ~D!Known(x) => ~D!W!Contains(D!W!LastOf(recent, window_size), x)
<1> DEFINE n == Len(recent)
           w == window_size
           c == current_count
           a == active_idx
<1>1. /\ a \in {0, 1} /\ 1 - a \in {0, 1} /\ 1 - a # a
      /\ w \in Nat \ {0} /\ c \in Nat /\ c < w /\ n \in Nat /\ c <= n
      /\ recent \in Seq(Hashed)
  BY DedupTypes
<1>2. /\ filters[a] = Marks(recent, n - c, n)
      /\ filters[1 - a] = Marks(recent, n - c - w, n - c)
  BY DEF DedupInv
<1>3. D!Known(x) <=> D!BitsOf(x) \subseteq filters[a] \/ D!BitsOf(x) \subseteq filters[1 - a]
  <2>1. D!Known(x) <=> D!BitsOf(x) \subseteq filters[0] \/ D!BitsOf(x) \subseteq filters[1]
    BY DEF D!Known, D!InFilter
  <2>2. (a = 0 /\ 1 - a = 1) \/ (a = 1 /\ 1 - a = 0)
    BY <1>1
  <2> QED
    BY <2>1, <2>2
<1>4. ASSUME D!Known(x)
      PROVE  D!Resembling(x, D!W!ToSet(recent))
  <2>1. D!W!ToSet(recent) = {recent[i] : i \in 1..Len(recent)}
    BY <1>1, WindowOperators, LenProperties
  <2>2. \A lo, hi : Marks(recent, lo, hi) \subseteq UNION {D!BitsOf(y) : y \in D!W!ToSet(recent)}
    BY <2>1 DEF Marks
  <2>3. D!BitsOf(x) \subseteq UNION {D!BitsOf(y) : y \in D!W!ToSet(recent)}
    BY <1>2, <1>3, <1>4, <2>2
  <2> QED
    BY <2>3 DEF D!Resembling
<1>5. ASSUME D!W!Contains(D!W!LastOf(recent, w), x)
      PROVE  D!Known(x)
  <2> DEFINE m == IF n > w THEN n - w + 1 ELSE 1
             r == SubSeq(recent, m, n)
  <2>1. m \in 1..(n + 1) /\ m > n - w
    BY <1>1
  <2> HIDE DEF m
  <2>2. \A i \in m..n : recent[i] \in Hashed
    BY <1>1, <2>1, ElementOfSeq
  <2>3. Len(r) = (IF m <= n THEN n - m + 1 ELSE 0) /\ \A i \in 1..(n - m + 1) : r[i] = recent[m + i - 1]
    BY <1>1, <2>1, <2>2, SubSeqProperties
  <2>4. D!W!LastOf(recent, w) = r
    BY DEF D!W!LastOf, m
  <2>5. PICK i \in 1..Len(r) : r[i] = x
    BY <1>5, <2>4, WindowOperators
  <2>6. i \in 1..(n - m + 1) /\ m <= n
    BY <1>1, <2>1, <2>3, <2>5
  <2>7. m + i - 1 \in 1..n /\ n - w < m + i - 1 /\ recent[m + i - 1] = x
    BY <1>1, <2>1, <2>3, <2>5, <2>6
  <2>8. PICK j \in 1..n : n - w < j /\ recent[j] = x
    BY <2>7
  <2>9. CASE n - c < j
    BY <1>1, <1>2, <1>3, <2>8, <2>9 DEF Marks
  <2>10. CASE j <= n - c
    <3>1. n - c - w < j
      BY <1>1, <2>8
    <3> QED
      BY <1>1, <1>2, <1>3, <2>8, <2>10, <3>1 DEF Marks
  <2> QED
    BY <1>1, <2>8, <2>9, <2>10
<1> QED
  BY <1>4, <1>5

\* eg_dedup_check finds a duplicate.
LEMMA DedupFinds ==
    ASSUME DedupInv, NEW x \in Hashed, D!Check(x), D!Known(x)
    PROVE  DedupInv' /\ D!W!Duplicate(x)
<1>1. /\ answer' = <<x, "duplicate">>
      /\ UNCHANGED <<created, filters, active_idx, current_count, arrays, recent>>
  BY DEF D!Check
<1>2. DedupInv'
  BY <1>1 DEF DedupInv, D!TypeOK, D!ArraysConserved
<1> QED
  BY <1>1, <1>2, KnownIsRemembered DEF D!W!Duplicate

\* eg_dedup_check adds a new item, and slides the window when it is full.
LEMMA DedupAdds ==
    ASSUME DedupInv, NEW x \in Hashed, D!Check(x), ~D!Known(x)
    PROVE  DedupInv' /\ D!W!New(x)
<1> DEFINE n == Len(recent)
           w == window_size
           c == current_count
           a == active_idx
           d == IF n = 2 * w - 1 THEN 1 ELSE 0
           marked == [filters EXCEPT ![a] = D!Add(@, x)]
<1>1. /\ a \in {0, 1} /\ 1 - a \in {0, 1} /\ 1 - a # a
      /\ w \in Nat \ {0} /\ c \in Nat /\ c < w /\ n \in Nat /\ c <= n /\ n < 2 * w
      /\ recent \in Seq(Hashed) /\ filters \in [{0, 1} -> SUBSET D!Bit]
  BY DedupTypes
<1>2. /\ filters[a] = Marks(recent, n - c, n)
      /\ filters[1 - a] = Marks(recent, n - c - w, n - c)
  BY DEF DedupInv
<1>3. /\ answer' = <<x, "new">> /\ UNCHANGED <<created, arrays>>
      /\ recent' = SubSeq(Append(recent, x), IF n = 2 * w - 1 THEN 2 ELSE 1, n + 1)
      /\ IF c + 1 >= w
         THEN /\ active_idx' = 1 - a /\ current_count' = 0
              /\ filters' = [marked EXCEPT ![1 - a] = {}]
         ELSE active_idx' = a /\ current_count' = c + 1 /\ filters' = marked
  BY DEF D!Check, D!WindowFull, D!Slide, D!ClearedBits
<1>4. d \in {0, 1} /\ d <= n /\ recent' = Shifted(recent, x, d)
  BY <1>1, <1>3 DEF Shifted
<1>5. /\ recent' \in Seq(Hashed) /\ Len(recent') = n + 1 - d /\ Len(recent') < 2 * w
  <2>1. recent' \in Seq(Hashed) /\ Len(recent') = n + 1 - d
    BY <1>1, <1>4, Appended
  <2> QED
    BY <1>1, <2>1
<1>6. marked \in [{0, 1} -> SUBSET D!Bit] /\ marked[1 - a] = filters[1 - a]
      /\ marked[a] = Marks(recent, n - c, n) \cup D!BitsOf(x)
  BY <1>1, <1>2, BitsInside DEF D!Add
<1>7. d <= n - c \/ d = 0
  BY <1>1
<1> HIDE DEF d, marked
<1>8. marked[a] = Marks(recent', n - c - d, Len(recent'))
  <2>1. PICK lo \in Int : lo = n - c
    BY <1>1
  <2>2. lo <= n /\ (d <= lo \/ d = 0)
    BY <1>1, <1>7, <2>1
  <2>3. Marks(recent', lo - d, Len(recent')) = Marks(recent, lo, n) \cup D!BitsOf(x)
    BY <1>1, <1>4, <2>2, MarksGrow
  <2> QED
    BY <1>6, <2>1, <2>3
<1>9. DedupInv'
  <2>1. CASE c + 1 >= w
    <3>1. c + 1 = w
      BY <1>1, <2>1
    <3>2. n - c - d = Len(recent') - 0 - w
      <4>1. d \in Int /\ Len(recent') = n + 1 - d
        BY <1>4, <1>5
      <4> QED
        BY <1>1, <3>1, <4>1
    <3>3. /\ active_idx' = 1 - a /\ current_count' = 0
          /\ filters' = [marked EXCEPT ![1 - a] = {}]
      BY <1>3, <2>1
    <3>4. /\ filters' \in [{0, 1} -> SUBSET D!Bit] /\ filters'[1 - a] = {}
          /\ filters'[a] = marked[a] /\ 1 - (1 - a) = a
      BY <1>1, <1>6, <3>3
    <3>5. Marks(recent', Len(recent') - 0, Len(recent')) = {}
      BY <1>1, <1>4, <1>5 DEF Marks
    <3>6. Len(recent') - 0 = Len(recent')
      BY <1>1, <1>4, <1>5
    <3>7. D!TypeOK'
      BY <1>1, <1>3, <1>5, <3>3, <3>4 DEF D!TypeOK, DedupInv
    <3>8. D!ArraysConserved' /\ 0 <= Len(recent')
      BY <1>1, <1>3, <1>4, <1>5 DEF D!ArraysConserved, DedupInv
    <3>9. filters'[active_idx'] = Marks(recent', Len(recent') - current_count', Len(recent'))
      BY <3>3, <3>4, <3>5
    <3>10. filters'[1 - active_idx'] =
               Marks(recent', Len(recent') - current_count' - w, Len(recent') - current_count')
      BY <1>8, <3>2, <3>3, <3>4, <3>6
    <3> QED
      BY <3>3, <3>7, <3>8, <3>9, <3>10 DEF DedupInv
  <2>2. CASE c + 1 < w
    <3>1. active_idx' = a /\ current_count' = c + 1 /\ filters' = marked
      BY <1>1, <1>3, <2>2
    <3>2. /\ n - c - d = Len(recent') - (c + 1)
          /\ n - c - w - d = Len(recent') - (c + 1) - w
          /\ n - c - w \in Int /\ n - c \in Int /\ n - c <= n
      BY <1>1, <1>4, <1>5
    <3>3. d <= n - c - w \/ d = 0
      BY <1>1, <2>2 DEF d
    <3>4. Marks(recent', n - c - w - d, n - c - d) = Marks(recent, n - c - w, n - c)
      <4>1. PICK lo \in Int : lo = n - c - w
        BY <3>2
      <4>2. PICK hi \in Int : hi = n - c
        BY <3>2
      <4>3. hi <= n /\ (d <= lo \/ d = 0)
        BY <1>1, <3>3, <4>1, <4>2
      <4>4. PICK p \in Int : p = lo - d
        BY <4>1, <1>4
      <4>5. PICK q \in Int : q = hi - d
        BY <4>2, <1>4
      <4>6. recent \in Seq(Hashed) /\ d \in {0, 1} /\ d <= Len(recent)
            /\ recent' = Shifted(recent, x, d)
        BY <1>1, <1>4
      <4>7. Marks(recent', p, q) = Marks(recent, lo, hi)
        BY <4>3, <4>4, <4>5, <4>6, MarksMove
      <4> QED
        BY <4>1, <4>2, <4>4, <4>5, <4>7
    <3>5. D!TypeOK'
      <4>1. active_idx' \in {0, 1} /\ current_count' \in 0..(w - 1)
        BY <1>1, <2>2, <3>1
      <4>2. created' \in BOOLEAN /\ arrays' \in 0..2
        BY <1>3 DEF D!TypeOK, DedupInv
      <4> QED
        BY <1>5, <1>6, <3>1, <4>1, <4>2 DEF D!TypeOK
    <3>6. D!ArraysConserved' /\ c + 1 <= Len(recent')
      BY <1>1, <1>3, <1>4, <1>5, <1>7 DEF D!ArraysConserved, DedupInv
    <3>7. filters'[active_idx'] = Marks(recent', Len(recent') - current_count', Len(recent'))
      BY <1>8, <3>1, <3>2
    <3>8. filters'[1 - active_idx'] =
              Marks(recent', Len(recent') - current_count' - w, Len(recent') - current_count')
      BY <1>2, <1>6, <3>1, <3>2, <3>4
    <3> QED
      BY <3>1, <3>5, <3>6, <3>7, <3>8 DEF DedupInv
  <2> QED
    BY <1>1, <2>1, <2>2
<1>10. D!W!New(x)
  <2>1. recent' = D!W!LastOf(Append(recent, x), D!W!Kept)
    <3>1. Len(Append(recent, x)) = n + 1
      BY <1>1, AppendProperties
    <3>2. (IF n + 1 > 2 * w - 1 THEN n + 1 - (2 * w - 1) + 1 ELSE 1) = 1 + d
      BY <1>1 DEF d
    <3> QED
      <4>1. \A r, k : D!W!LastOf(r, k) =
                          SubSeq(r, IF Len(r) > k THEN Len(r) - k + 1 ELSE 1, Len(r))
        BY DEF D!W!LastOf
      <4>2. D!W!Kept = 2 * w - 1
        BY DEF D!W!Kept
      <4>3. PICK k \in Int : k = 2 * w - 1
        BY <1>1
      <4>4. PICK r : r = Append(recent, x)
        OBVIOUS
      <4>5. PICK first \in Int : first = IF Len(r) > k THEN Len(r) - k + 1 ELSE 1
        <5>1. PICK l \in Int : l = Len(r)
          BY <1>1, <3>1, <4>4
        <5>2. (IF l > k THEN l - k + 1 ELSE 1) \in Int
          BY <4>3
        <5> QED
          BY <5>1, <5>2
      <4>6. D!W!LastOf(r, k) = SubSeq(r, first, Len(r))
        BY <4>1, <4>5
      <4>7. first = 1 + d /\ Len(r) = n + 1
        BY <3>1, <3>2, <4>3, <4>4, <4>5
      <4>8. D!W!LastOf(r, k) = SubSeq(r, 1 + d, n + 1)
        BY <4>6, <4>7
      <4> QED
        BY <1>4, <4>2, <4>3, <4>4, <4>8 DEF Shifted
  <2> QED
    BY <1>3, <2>1, KnownIsRemembered DEF D!W!New
<1> QED
  BY <1>9, <1>10

\* eg_dedup_is_duplicate changes nothing.
LEMMA DedupAsks ==
    ASSUME DedupInv, NEW x \in Hashed, D!IsDuplicate(x)
    PROVE  DedupInv' /\ D!W!Ask(x)
<1>1. /\ answer' = <<x, IF D!Known(x) THEN "duplicate" ELSE "new">>
      /\ UNCHANGED <<created, filters, active_idx, current_count, arrays, recent>>
  BY DEF D!IsDuplicate
<1>2. DedupInv'
  BY <1>1 DEF DedupInv, D!TypeOK, D!ArraysConserved
<1> QED
  BY <1>1, <1>2, KnownIsRemembered DEF D!W!Ask

\* Each step keeps DedupInv, and is a step of the window or a stutter.
LEMMA DedupStep ==
    ASSUME DedupInv, [D!Next]_D!vars
    PROVE  DedupInv' /\ [D!W!Next]_<<recent, answer>>
<1>1. CASE UNCHANGED D!vars
  BY <1>1 DEF D!vars, DedupInv, D!TypeOK, D!ArraysConserved
<1>2. CASE D!Next
  <2>1. CASE (\E m \in 0..2 : D!Create(m)) \/ D!Destroy
    BY <2>1, DedupRestart DEF D!W!Next
  <2>2. ASSUME NEW x \in Hashed, D!Check(x) \/ D!IsDuplicate(x)
        PROVE  DedupInv' /\ D!W!Next
    BY <2>2, DedupFinds, DedupAdds, DedupAsks DEF D!W!Next
  <2> QED
    BY <1>2, <2>1, <2>2 DEF D!Next
<1> QED
  BY <1>1, <1>2

\* eg_dedup_create, check, is_duplicate and destroy: no bit array is lost whichever
\* allocation fails, for any hashes, any number of expected items and any window.
THEOREM ArraysAreConserved == D!Spec => []ArraysConserved
<1>1. D!Init => DedupInv
  BY DedupAtFirst
<1>2. DedupInv /\ [D!Next]_D!vars => DedupInv'
  BY DedupStep
<1>3. DedupInv => ArraysConserved
  BY DEF DedupInv, ArraysConserved
<1> QED
  BY <1>1, <1>2, <1>3, PTL DEF D!Spec

\* Two filters that take turns are a sliding window: nothing that was new within the last
\* window_size new items is reported new again, and a false alarm has its bits from the
\* last 2 * window_size - 1.
THEOREM WindowSlides == D!Spec => WindowSpec
<1>1. D!Init => DedupInv /\ D!W!Init
  BY DedupAtFirst DEF D!Init, D!W!Init
<1>2. DedupInv /\ [D!Next]_D!vars =>
          DedupInv' /\ [D!W!Next]_<<recent, answer>>
  BY DedupStep
<1>3. WindowSpec <=> D!W!Init /\ [][D!W!Next]_<<recent, answer>>
  BY DEF WindowSpec, D!WindowSpec, D!W!Spec
<1> QED
  BY <1>1, <1>2, <1>3, PTL DEF D!Spec
=============================================================================
