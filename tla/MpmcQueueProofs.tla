--------------------------- MODULE MpmcQueueProofs ---------------------------
(***************************************************************************)
(* The MPMC queue's nodes pass from owner to owner, for any set of         *)
(* producers, consumers and items and every capacity of two nodes or more. *)
(*                                                                         *)
(* With one node the sequence number position + 1 means both "position is  *)
(* filled" and "position + 1 may be filled", and none of this holds; the   *)
(* theorems therefore assume TwoNodes of the capacities asked for.         *)
(***************************************************************************)
EXTENDS MpmcQueue, QueueCapacityProofs, FiniteSetTheorems, SequenceTheorems

TwoNodes == \A request \in Requests : RoundedCapacity(request) >= 2

\* NodesSound without what follows from the rest, and the hypothesis of the
\* theorems as a fact about the state.
IInv ==
    /\ TypeOK /\ Bounded /\ WithinBound /\ NodesInTurn
    /\ \A p \in Producer : ProducerSound(p)
    /\ \A c \in Consumer : ConsumerSound(c)
    /\ capacity # 1
    /\ capacity = 0 => head = 0 /\ tail = 0

-----------------------------------------------------------------------------
(* Facts about a state *)

\* With two nodes or more the position after a position is in another node.
LEMMA NextSlotDiffers ==
    ASSUME NEW c \in Nat, c >= 2, NEW a \in Nat
    PROVE  Slot(a + 1, c) # Slot(a, c)
<1>1. c \in Nat \ {0} /\ a + 1 \in Nat /\ a < a + 1 /\ a + 1 < a + c
  OBVIOUS
<1> QED
  BY <1>1, SlotInjective

\* The node of a position is one of the nodes.
LEMMA NodeOf ==
    ASSUME TypeOK, capacity # 0, NEW a \in Nat
    PROVE  Slot(a, capacity) \in Slots /\ sequence[Slot(a, capacity)] \in Nat
<1>1. capacity \in Nat \ {0}
  BY DEF TypeOK
<1>2. Slot(a, capacity) \in Slots
  BY <1>1, SlotInRange DEF Slots
<1> QED
  BY <1>2 DEF TypeOK

\* A position has the type of a number.
LEMMA PositionsAreNumbers ==
    ASSUME TypeOK
    PROVE  /\ head \in Nat /\ tail \in Nat /\ capacity \in Nat
           /\ \A p \in Producer : ppos[p] \in Nat
           /\ \A c \in Consumer : cpos[c] \in Nat
BY BoundsAssumption DEF TypeOK

\* The node a producer fills and the node a consumer drains are never the same:
\* their sequence numbers are the position and the position plus one.
LEMMA Exclusive == IInv => NodeExclusive
<1> SUFFICES ASSUME IInv PROVE NodeExclusive
  OBVIOUS
<1>1. TypeOK
  BY DEF IInv
<1>2. ASSUME NEW p \in Producer, NEW q \in Producer, Filling(p), Filling(q),
             Slot(ppos[p], capacity) = Slot(ppos[q], capacity)
      PROVE  p = q
  <2>1. ProducerSound(p) /\ ProducerSound(q)
    BY DEF IInv
  <2>2. ppos[p] = ppos[q]
    BY <1>2, <2>1 DEF ProducerSound
  <2> QED
    BY <1>2, <2>1, <2>2 DEF ProducerSound
<1>3. ASSUME NEW c \in Consumer, NEW d \in Consumer, Draining(c), Draining(d),
             Slot(cpos[c], capacity) = Slot(cpos[d], capacity)
      PROVE  c = d
  <2>1. ConsumerSound(c) /\ ConsumerSound(d) /\ cpos[c] \in Nat /\ cpos[d] \in Nat
    BY <1>1, PositionsAreNumbers DEF IInv
  <2>2. cpos[c] + 1 = cpos[d] + 1
    BY <1>3, <2>1 DEF ConsumerSound
  <2>3. cpos[c] = cpos[d]
    BY <2>1, <2>2
  <2> QED
    BY <1>3, <2>1, <2>3 DEF ConsumerSound
<1>4. ASSUME NEW p \in Producer, NEW c \in Consumer, Filling(p), Draining(c)
      PROVE  Slot(ppos[p], capacity) # Slot(cpos[c], capacity)
  <2>1. ProducerSound(p) /\ ConsumerSound(c)
    BY DEF IInv
  <2>2. capacity \in Nat /\ cpos[c] \in Nat /\ capacity # 0 /\ capacity # 1
    BY <1>1, <1>4, <2>1, PositionsAreNumbers DEF IInv, ProducerSound, Filling
  <2>3. SUFFICES ASSUME Slot(ppos[p], capacity) = Slot(cpos[c], capacity) PROVE FALSE
    OBVIOUS
  <2>4. ppos[p] = cpos[c] + 1
    BY <1>4, <2>1, <2>3 DEF ProducerSound, ConsumerSound
  <2>5. capacity >= 2
    BY <2>2
  <2> QED
    BY <2>2, <2>3, <2>4, <2>5, NextSlotDiffers
<1> QED
  BY <1>2, <1>3, <1>4 DEF NodeExclusive

\* A node whose sequence number is a position of that node is to be filled.
LEMMA ToFillAt ==
    ASSUME IInv, capacity # 0, NEW a \in Nat, sequence[Slot(a, capacity)] = a
    PROVE  ToFill(Slot(a, capacity))
<1>1. Slot(a, capacity) \in Slots /\ capacity \in Nat /\ capacity >= 2
  BY NodeOf, PositionsAreNumbers DEF IInv
<1>2. ASSUME ToDrain(Slot(a, capacity)) PROVE FALSE
  <2>1. 1 <= a /\ Slot(a - 1, capacity) = Slot(a, capacity)
    BY <1>2 DEF ToDrain
  <2>2. a - 1 \in Nat /\ a = (a - 1) + 1
    BY <2>1
  <2> QED
    BY <1>1, <2>1, <2>2, NextSlotDiffers
<1> QED
  BY <1>1, <1>2 DEF IInv, NodesInTurn

\* A node whose sequence number is one more than a position of that node is
\* to be drained.
LEMMA ToDrainAt ==
    ASSUME IInv, capacity # 0, NEW a \in Nat, sequence[Slot(a, capacity)] = a + 1
    PROVE  ToDrain(Slot(a, capacity))
<1>1. Slot(a, capacity) \in Slots /\ capacity \in Nat /\ capacity >= 2
  BY NodeOf, PositionsAreNumbers DEF IInv
<1>2. ASSUME ToFill(Slot(a, capacity)) PROVE FALSE
  BY <1>1, <1>2, NextSlotDiffers DEF ToFill
<1> QED
  BY <1>1, <1>2 DEF IInv, NodesInTurn

-----------------------------------------------------------------------------
(* Steps that change one thread's own variables only *)

\* A step of one producer that claims, fills and publishes nothing.
LEMMA QuietProducerStep ==
    ASSUME IInv, NEW p \in Producer, UNCHANGED <<nodes, head, tail, consumers>>,
           ~Filling(p), ~Filling(p)',
           \A q \in Producer \ {p} :
              ppc'[q] = ppc[q] /\ ppos'[q] = ppos[q] /\ pitem'[q] = pitem[q],
           TypeOK', WithinBound', ProducerSound(p)'
    PROVE  IInv'
<1>1. Bounded' /\ capacity' # 1 /\ (capacity' = 0 => head' = 0 /\ tail' = 0)
  BY DEF IInv, Bounded, nodes
<1>2. NodesInTurn'
  <2> SUFFICES ASSUME NEW s \in Slots PROVE ToFill(s)' \/ ToDrain(s)'
    BY DEF NodesInTurn, Slots, nodes
  <2>1. CASE ToFill(s)
    <3>1. ASSUME sequence[s] < head
          PROVE  \E q \in Producer : Filling(q)' /\ ppos'[q] = sequence[s]
      <4>1. PICK q \in Producer : Filling(q) /\ ppos[q] = sequence[s]
        BY <2>1, <3>1 DEF ToFill
      <4> QED
        BY <4>1 DEF Filling
    <3> QED
      BY <2>1, <3>1 DEF ToFill, nodes
  <2>2. CASE ToDrain(s)
    BY <2>2 DEF ToDrain, Draining, nodes, consumers
  <2> QED
    BY <2>1, <2>2 DEF IInv, NodesInTurn
<1>3. ASSUME NEW q \in Producer PROVE ProducerSound(q)'
  <2>1. CASE q = p
    BY <2>1
  <2>2. CASE q # p
    <3>1. ProducerSound(q)
      BY DEF IInv
    <3>2. ppc'[q] = ppc[q] /\ ppos'[q] = ppos[q] /\ pitem'[q] = pitem[q]
      BY <2>2
    <3>3. ASSUME Filling(q)', NEW r \in Producer, Filling(r)', ppos'[r] = ppos'[q]
          PROVE  r = q
      <4>1. r # p
        BY <3>3
      <4> QED
        BY <3>1, <3>2, <3>3, <4>1 DEF ProducerSound, Filling
    <3> QED
      BY <3>1, <3>2, <3>3 DEF ProducerSound, Filling, nodes
  <2> QED
    BY <2>1, <2>2
<1>4. \A c \in Consumer : ConsumerSound(c)'
  BY DEF IInv, ConsumerSound, Draining, nodes, consumers
<1> QED
  BY <1>1, <1>2, <1>3, <1>4 DEF IInv

\* A step of one consumer that neither claims nor releases a node.
LEMMA QuietConsumerStep ==
    ASSUME IInv, NEW c \in Consumer, UNCHANGED <<nodes, head, tail, producers>>,
           Draining(c)' <=> Draining(c), Draining(c) => cpos'[c] = cpos[c],
           \A d \in Consumer \ {c} : cpc'[d] = cpc[d] /\ cpos'[d] = cpos[d],
           TypeOK',
           cpc'[c] # "idle" => capacity # 0 /\ cpos'[c] <= tail,
           cpc'[c] = "cas" /\ cpos'[c] = tail =>
              sequence[Slot(cpos'[c], capacity)] = cpos'[c] + 1
    PROVE  IInv'
<1>1. Bounded' /\ WithinBound' /\ capacity' # 1 /\ (capacity' = 0 => head' = 0 /\ tail' = 0)
  BY DEF IInv, Bounded, WithinBound, Waiting, nodes, producers
<1>2. \A d \in Consumer : (Draining(d)' <=> Draining(d)) /\ (Draining(d) => cpos'[d] = cpos[d])
  BY DEF Draining
<1>3. NodesInTurn'
  <2> SUFFICES ASSUME NEW s \in Slots PROVE ToFill(s)' \/ ToDrain(s)'
    BY DEF NodesInTurn, Slots, nodes
  <2>1. CASE ToFill(s)
    BY <2>1 DEF ToFill, Filling, nodes, producers
  <2>2. CASE ToDrain(s)
    <3>1. ASSUME sequence[s] <= tail
          PROVE  \E d \in Consumer : Draining(d)' /\ cpos'[d] = sequence[s] - 1
      <4>1. PICK d \in Consumer : Draining(d) /\ cpos[d] = sequence[s] - 1
        BY <2>2, <3>1 DEF ToDrain
      <4> QED
        BY <4>1, <1>2
    <3> QED
      BY <2>2, <3>1 DEF ToDrain, nodes
  <2> QED
    BY <2>1, <2>2 DEF IInv, NodesInTurn
<1>4. \A p \in Producer : ProducerSound(p)'
  BY DEF IInv, ProducerSound, Filling, nodes, producers
<1>5. ASSUME NEW d \in Consumer PROVE ConsumerSound(d)'
  <2>1. ConsumerSound(d)
    BY DEF IInv
  <2>2. ASSUME Draining(d)'
        PROVE  /\ cpos'[d] < tail' /\ sequence'[Slot(cpos'[d], capacity')] = cpos'[d] + 1
               /\ \A e \in Consumer : Draining(e)' /\ cpos'[e] = cpos'[d] => e = d
    <3>1. Draining(d) /\ cpos'[d] = cpos[d]
      BY <1>2, <2>2
    <3> QED
      BY <1>2, <2>1, <3>1 DEF ConsumerSound, nodes
  <2>3. /\ cpc'[d] # "idle" => capacity' # 0 /\ cpos'[d] <= tail'
        /\ cpc'[d] = "cas" /\ cpos'[d] = tail' =>
              sequence'[Slot(cpos'[d], capacity')] = cpos'[d] + 1
    <3>1. CASE d = c
      BY <3>1 DEF nodes
    <3>2. CASE d # c
      BY <2>1, <3>2 DEF ConsumerSound, nodes
    <3> QED
      BY <3>1, <3>2
  <2> QED
    BY <2>2, <2>3 DEF ConsumerSound
<1> QED
  BY <1>1, <1>3, <1>4, <1>5 DEF IInv

\* A step that leaves head alone and lets no further producer in keeps the bound.
LEMMA WaitingKept ==
    ASSUME TypeOK, WithinBound, head' = head, Waiting' \subseteq Waiting
    PROVE  WithinBound'
<1>1. IsFiniteSet(Waiting)
  BY ThreadsAssumption, FS_Subset DEF Waiting
<1>2. /\ IsFiniteSet(Waiting') /\ Cardinality(Waiting') \in Nat
      /\ Cardinality(Waiting) \in Nat /\ Cardinality(Waiting') <= Cardinality(Waiting)
  BY <1>1, FS_Subset, FS_CardinalityType
<1> QED
  BY <1>2, PositionsAreNumbers, BoundsAssumption DEF WithinBound

\* A producer that begins a call is within the bound.
LEMMA EnqueueCallWithinBound ==
    ASSUME TypeOK, NEW p \in Producer, NEW item \in Item, EnqueueCall(p, item)
    PROVE  WithinBound'
<1>1. IsFiniteSet(Enqueuing)
  BY ThreadsAssumption, FS_Subset DEF Enqueuing
<1>2. IsFiniteSet(Enqueuing \cup {p}) /\ Cardinality(Enqueuing \cup {p}) = Cardinality(Enqueuing) + 1
  <2>1. p \notin Enqueuing
    BY DEF EnqueueCall, Enqueuing
  <2> QED
    BY <1>1, <2>1, FS_AddElement
<1>3. Waiting' \subseteq Enqueuing \cup {p}
  BY DEF Waiting, Enqueuing, EnqueueCall, TypeOK
<1>4. /\ Cardinality(Waiting') <= Cardinality(Enqueuing) + 1
      /\ Cardinality(Waiting') \in Nat /\ Cardinality(Enqueuing) \in Nat
  BY <1>1, <1>2, <1>3, FS_Subset, FS_CardinalityType
<1> QED
  BY <1>4, PositionsAreNumbers, BoundsAssumption DEF WithinBound, EnqueueCall

LEMMA EnqueueCallKeeps ==
    ASSUME IInv, NEW p \in Producer, NEW item \in Item, EnqueueCall(p, item)
    PROVE  IInv'
<1>1. TypeOK
  BY DEF IInv
<1>2. TypeOK'
  BY <1>1 DEF TypeOK, EnqueueCall, nodes, consumers, Slots
<1>3. WithinBound'
  BY <1>1, EnqueueCallWithinBound
<1>4. ~Filling(p) /\ ~Filling(p)' /\ ProducerSound(p)'
  BY <1>1, PositionsAreNumbers DEF EnqueueCall, Filling, ProducerSound, TypeOK, nodes
<1>5. UNCHANGED <<nodes, head, tail, consumers>>
  BY DEF EnqueueCall
<1>6. \A q \in Producer \ {p} :
         ppc'[q] = ppc[q] /\ ppos'[q] = ppos[q] /\ pitem'[q] = pitem[q]
  BY <1>1 DEF EnqueueCall, TypeOK
<1> QED
  BY <1>2, <1>3, <1>4, <1>5, <1>6, QuietProducerStep

LEMMA EnqueueReloadKeeps ==
    ASSUME IInv, NEW p \in Producer, EnqueueReload(p)
    PROVE  IInv'
<1>1. TypeOK /\ WithinBound /\ ProducerSound(p)
  BY DEF IInv
<1>2. TypeOK'
  BY <1>1 DEF TypeOK, EnqueueReload, nodes, consumers, Slots
<1>3. WithinBound'
  <2>1. Waiting' \subseteq Waiting /\ head' = head
    BY <1>1 DEF Waiting, EnqueueReload, TypeOK
  <2> QED
    BY <1>1, <2>1, WaitingKept
<1>4. ~Filling(p) /\ ~Filling(p)' /\ ProducerSound(p)'
  BY <1>1, PositionsAreNumbers DEF EnqueueReload, Filling, ProducerSound, TypeOK, nodes
<1>5. UNCHANGED <<nodes, head, tail, consumers>>
  BY DEF EnqueueReload
<1>6. \A q \in Producer \ {p} :
         ppc'[q] = ppc[q] /\ ppos'[q] = ppos[q] /\ pitem'[q] = pitem[q]
  BY <1>1 DEF EnqueueReload, TypeOK
<1> QED
  BY <1>2, <1>3, <1>4, <1>5, <1>6, QuietProducerStep

LEMMA EnqueueCheckKeeps ==
    ASSUME IInv, NEW p \in Producer, EnqueueCheck(p)
    PROVE  IInv'
<1>1. TypeOK /\ WithinBound /\ ProducerSound(p)
  BY DEF IInv
<1>2. TypeOK'
  BY <1>1 DEF TypeOK, EnqueueCheck, nodes, consumers, Slots
<1>3. WithinBound'
  <2>1. Waiting' \subseteq Waiting /\ head' = head
    BY <1>1 DEF Waiting, EnqueueCheck, TypeOK
  <2> QED
    BY <1>1, <2>1, WaitingKept
<1>4. ~Filling(p) /\ ~Filling(p)' /\ ProducerSound(p)'
  BY <1>1, PositionsAreNumbers DEF EnqueueCheck, Filling, ProducerSound, TypeOK, nodes
<1>5. UNCHANGED <<nodes, head, tail, consumers>>
  BY DEF EnqueueCheck
<1>6. \A q \in Producer \ {p} :
         ppc'[q] = ppc[q] /\ ppos'[q] = ppos[q] /\ pitem'[q] = pitem[q]
  BY <1>1 DEF EnqueueCheck, TypeOK
<1> QED
  BY <1>2, <1>3, <1>4, <1>5, <1>6, QuietProducerStep

LEMMA DequeueQuietKeeps ==
    ASSUME IInv, NEW c \in Consumer,
           DequeueCall(c) \/ DequeueReload(c) \/ DequeueCheck(c) \/ DequeueRead(c)
    PROVE  IInv'
<1>1. TypeOK /\ ConsumerSound(c)
  BY DEF IInv
<1>2. head \in Nat /\ tail \in Nat /\ cpos[c] \in Nat
  BY <1>1, PositionsAreNumbers
<1>3. /\ UNCHANGED <<nodes, head, tail, producers>>
      /\ \A d \in Consumer \ {c} : cpc'[d] = cpc[d] /\ cpos'[d] = cpos[d]
  BY <1>1 DEF DequeueCall, DequeueReload, DequeueCheck, DequeueRead, TypeOK
<1>4. /\ Draining(c)' <=> Draining(c)
      /\ Draining(c) => cpos'[c] = cpos[c]
  BY <1>1 DEF DequeueCall, DequeueReload, DequeueCheck, DequeueRead, TypeOK, Draining
<1>5. cpc'[c] # "idle" => capacity # 0 /\ cpos'[c] <= tail
  BY <1>1, <1>2 DEF DequeueCall, DequeueReload, DequeueCheck, DequeueRead, TypeOK, ConsumerSound
<1>6. cpc'[c] = "cas" /\ cpos'[c] = tail =>
         sequence[Slot(cpos'[c], capacity)] = cpos'[c] + 1
  BY <1>1 DEF DequeueCall, DequeueReload, DequeueCheck, DequeueRead, TypeOK
<1>7. out' \in [Consumer -> Seq(Item)]
  <2>1. CASE DequeueRead(c)
    <3>1. Draining(c) /\ capacity # 0 /\ cpos[c] < tail
      BY <1>1, <2>1 DEF DequeueRead, Draining, ConsumerSound
    <3>2. ToDrain(Slot(cpos[c], capacity))
      BY <1>1, <1>2, <3>1, ToDrainAt DEF ConsumerSound
    <3>3. data[Slot(cpos[c], capacity)] \in Item
      BY <3>2 DEF ToDrain
    <3>4. <<data[Slot(cpos[c], capacity)]>> \in Seq(Item)
      BY <3>3
    <3> QED
      BY <1>1, <2>1, <3>4 DEF DequeueRead, TypeOK
  <2>2. CASE DequeueCall(c) \/ DequeueReload(c) \/ DequeueCheck(c)
    BY <1>1, <2>2 DEF DequeueCall, DequeueReload, DequeueCheck, TypeOK
  <2> QED
    BY <2>1, <2>2
<1>8. TypeOK'
  <2>1. /\ cpc' \in [Consumer -> {"idle", "reload", "check", "cas", "read", "release"}]
        /\ cpos' \in [Consumer -> 0..MaxPos]
    BY <1>1 DEF DequeueCall, DequeueReload, DequeueCheck, DequeueRead, TypeOK
  <2> QED
    BY <1>1, <1>3, <1>7, <2>1 DEF TypeOK, nodes, producers, Slots
<1> QED
  BY <1>3, <1>4, <1>5, <1>6, <1>8, QuietConsumerStep

-----------------------------------------------------------------------------
(* The compare-and-swaps *)

\* A claim that fails: head has moved.
LEMMA EnqueueCasFails ==
    ASSUME IInv, NEW p \in Producer, EnqueueCas(p), head # ppos[p]
    PROVE  IInv'
<1>1. TypeOK /\ WithinBound /\ ProducerSound(p)
  BY DEF IInv
<1>2. TypeOK'
  BY <1>1 DEF TypeOK, EnqueueCas, nodes, consumers, Slots
<1>3. WithinBound'
  <2>1. Waiting' \subseteq Waiting /\ head' = head
    BY <1>1 DEF Waiting, EnqueueCas, TypeOK
  <2> QED
    BY <1>1, <2>1, WaitingKept
<1>4. ~Filling(p) /\ ~Filling(p)' /\ ProducerSound(p)'
  BY <1>1, PositionsAreNumbers DEF EnqueueCas, Filling, ProducerSound, TypeOK, nodes
<1>5. UNCHANGED <<nodes, head, tail, consumers>>
  BY DEF EnqueueCas
<1>6. \A q \in Producer \ {p} :
         ppc'[q] = ppc[q] /\ ppos'[q] = ppos[q] /\ pitem'[q] = pitem[q]
  BY <1>1 DEF EnqueueCas, TypeOK
<1> QED
  BY <1>2, <1>3, <1>4, <1>5, <1>6, QuietProducerStep

\* A claim that succeeds finds the node it checked still to be filled, and so
\* never takes the queue past its capacity.
LEMMA ClaimFindsNode ==
    ASSUME IInv, NEW p \in Producer, EnqueueCas(p), head = ppos[p]
    PROVE  /\ capacity # 0 /\ sequence[Slot(head, capacity)] = head
           /\ ToFill(Slot(head, capacity)) /\ head < tail + capacity
<1>1. TypeOK /\ ProducerSound(p) /\ ppc[p] = "cas"
  BY DEF IInv, EnqueueCas
<1>2. capacity # 0 /\ sequence[Slot(head, capacity)] = head /\ head \in Nat
  BY <1>1, PositionsAreNumbers DEF ProducerSound
<1>3. ToFill(Slot(head, capacity))
  BY <1>2, ToFillAt
<1> QED
  BY <1>2, <1>3 DEF ToFill

LEMMA EnqueueCasSucceeds ==
    ASSUME IInv, NEW p \in Producer, EnqueueCas(p), head = ppos[p]
    PROVE  IInv'
<1>1. TypeOK /\ WithinBound /\ Bounded /\ NodesInTurn
  BY DEF IInv
<1>2. /\ capacity # 0 /\ sequence[Slot(head, capacity)] = head
      /\ ToFill(Slot(head, capacity)) /\ head < tail + capacity
  BY ClaimFindsNode
<1>3. /\ head \in Nat /\ tail \in Nat /\ capacity \in Nat /\ capacity >= 2
      /\ \A q \in Producer : ppos[q] \in Nat
      /\ \A s \in Slots : sequence[s] \in Nat
  BY <1>1, <1>2, PositionsAreNumbers DEF IInv, TypeOK
<1>4. /\ ppc[p] = "cas" /\ head' = head + 1 /\ ppc' = [ppc EXCEPT ![p] = "write"]
      /\ UNCHANGED <<nodes, tail, ppos, pitem, consumers>>
  BY DEF EnqueueCas
<1>5. WithinBound'
  <2>1. Waiting' = Waiting \ {p} /\ p \in Waiting
    BY <1>1, <1>4 DEF Waiting, TypeOK
  <2>2. IsFiniteSet(Waiting)
    BY ThreadsAssumption, FS_Subset DEF Waiting
  <2>3. Cardinality(Waiting') = Cardinality(Waiting) - 1 /\ Cardinality(Waiting) \in Nat
    BY <2>1, <2>2, FS_RemoveElement, FS_CardinalityType
  <2> QED
    BY <1>1, <1>3, <1>4, <2>3, BoundsAssumption DEF WithinBound
<1>6. head' \in 0..MaxPos
  <2>1. IsFiniteSet(Waiting')
    BY ThreadsAssumption, FS_Subset DEF Waiting
  <2>2. Cardinality(Waiting') \in Nat /\ Cardinality(Waiting') >= 0
    BY <2>1, FS_CardinalityType
  <2> QED
    BY <1>3, <1>4, <1>5, <2>2, BoundsAssumption DEF WithinBound
<1>7. TypeOK'
  BY <1>1, <1>4, <1>6 DEF TypeOK, nodes, consumers, Slots
<1>8. Bounded' /\ capacity' # 1 /\ capacity' # 0
  BY <1>1, <1>2, <1>3, <1>4 DEF Bounded, nodes, IInv
<1>9. NodesInTurn'
  <2> SUFFICES ASSUME NEW s \in Slots PROVE ToFill(s)' \/ ToDrain(s)'
    BY <1>4 DEF NodesInTurn, Slots, nodes
  <2>1. CASE ToFill(s)
    <3>1. ASSUME sequence[s] < head + 1
          PROVE  \E q \in Producer : Filling(q)' /\ ppos'[q] = sequence[s]
      <4>1. CASE sequence[s] = head
        BY <1>1, <1>4, <4>1 DEF Filling, TypeOK, EnqueueCas
      <4>2. CASE sequence[s] < head
        <5>1. PICK q \in Producer : Filling(q) /\ ppos[q] = sequence[s]
          BY <2>1, <4>2 DEF ToFill
        <5> QED
          BY <1>1, <1>4, <5>1 DEF Filling, TypeOK
      <4> QED
        BY <1>3, <3>1, <4>1, <4>2
    <3> QED
      BY <1>4, <2>1, <3>1 DEF ToFill, nodes
  <2>2. CASE ToDrain(s)
    <3>1. sequence[s] \in Nat /\ 1 <= sequence[s] /\ sequence[s] <= head
          /\ head < sequence[s] + capacity /\ Slot(sequence[s] - 1, capacity) = s
      BY <1>3, <2>2 DEF ToDrain
    <3>2. ASSUME head + 1 = sequence[s] + capacity PROVE FALSE
      <4>1. sequence[s] - 1 \in Nat /\ head = (sequence[s] - 1) + capacity
            /\ capacity \in Nat \ {0}
        BY <1>2, <1>3, <3>1, <3>2
      <4>2. Slot(head, capacity) = s
        BY <3>1, <4>1, SlotNextLap
      <4>3. sequence[s] = head
        BY <1>2, <4>2
      <4> QED
        BY <1>3, <4>1, <4>3
    <3>3. head + 1 < sequence[s] + capacity /\ sequence[s] <= head + 1
      BY <1>3, <3>1, <3>2
    <3> QED
      BY <1>4, <2>2, <3>3 DEF ToDrain, Draining, nodes, consumers
  <2> QED
    BY <1>1, <2>1, <2>2 DEF NodesInTurn
<1>10. ASSUME NEW q \in Producer PROVE ProducerSound(q)'
  <2>1. ProducerSound(q) /\ ppos'[q] = ppos[q] /\ pitem'[q] = pitem[q]
    BY <1>4 DEF IInv
  <2>2. \A r \in Producer : Filling(r)' => r = p \/ (Filling(r) /\ ppos[r] < head)
    BY <1>1, <1>4 DEF Filling, TypeOK, IInv, ProducerSound
  <2>3. CASE q = p
    <3>1. ppc'[q] = "write" /\ ppos[q] = head /\ head < head + 1
      BY <1>1, <1>3, <1>4, <2>3 DEF TypeOK, EnqueueCas
    <3>2. \A r \in Producer : Filling(r)' /\ ppos'[r] = ppos'[q] => r = q
      BY <1>3, <1>4, <2>2, <2>3, <3>1
    <3>3. capacity' # 0 /\ ppos'[q] <= head' /\ ppos'[q] < head' /\ pitem'[q] \in Item
      BY <1>3, <1>4, <1>8, <2>1, <2>3, <3>1 DEF ProducerSound
    <3>4. sequence'[Slot(ppos'[q], capacity')] = ppos'[q]
      BY <1>2, <1>4, <3>1 DEF nodes
    <3> QED
      BY <3>1, <3>2, <3>3, <3>4 DEF ProducerSound
  <2>4. CASE q # p
    <3>1. ppc'[q] = ppc[q] /\ (Filling(q)' <=> Filling(q))
      BY <1>1, <1>4, <2>4 DEF TypeOK, Filling
    <3>2. ppc[q] # "idle" => capacity' # 0 /\ ppos'[q] <= head' /\ ppos'[q] # head' /\ pitem'[q] \in Item
      BY <1>3, <1>4, <1>8, <2>1 DEF ProducerSound
    <3>3. ASSUME Filling(q)
          PROVE  /\ ppos'[q] < head' /\ sequence'[Slot(ppos'[q], capacity')] = ppos'[q]
                 /\ \A r \in Producer : Filling(r)' /\ ppos'[r] = ppos'[q] => r = q
      <4>1. ppos[q] < head /\ sequence[Slot(ppos[q], capacity)] = ppos[q]
        BY <2>1, <3>3 DEF ProducerSound
      <4>2. ASSUME NEW r \in Producer, Filling(r)', ppos[r] = ppos[q] PROVE r = q
        <5>1. r # p
          BY <1>3, <4>1, <4>2 DEF EnqueueCas
        <5> QED
          BY <2>1, <2>2, <3>3, <4>2, <5>1 DEF ProducerSound
      <4> QED
        BY <1>3, <1>4, <4>1, <4>2 DEF nodes
    <3>4. ppc[q] = "publish" => data'[Slot(ppos'[q], capacity')] = pitem'[q]
      BY <1>4, <2>1 DEF ProducerSound, nodes
    <3> QED
      BY <3>1, <3>2, <3>3, <3>4 DEF ProducerSound
  <2> QED
    BY <2>3, <2>4
<1>11. \A c \in Consumer : ConsumerSound(c)'
  BY <1>4 DEF IInv, ConsumerSound, Draining, nodes, consumers
<1> QED
  BY <1>5, <1>7, <1>8, <1>9, <1>10, <1>11 DEF IInv

LEMMA DequeueCasFails ==
    ASSUME IInv, NEW c \in Consumer, DequeueCas(c), tail # cpos[c]
    PROVE  IInv'
<1>1. TypeOK /\ ConsumerSound(c)
  BY DEF IInv
<1>2. /\ UNCHANGED <<nodes, head, tail, producers, cpos, out>> /\ cpc[c] = "cas"
      /\ cpc' = [cpc EXCEPT ![c] = "reload"]
  BY DEF DequeueCas
<1>3. TypeOK'
  BY <1>1, <1>2 DEF TypeOK, nodes, producers, Slots
<1>4. ~Draining(c) /\ ~Draining(c)' /\ cpc'[c] = "reload"
  BY <1>1, <1>2 DEF TypeOK, Draining
<1>5. \A d \in Consumer \ {c} : cpc'[d] = cpc[d] /\ cpos'[d] = cpos[d]
  BY <1>1, <1>2 DEF TypeOK
<1>6. cpc'[c] # "idle" => capacity # 0 /\ cpos'[c] <= tail
  BY <1>1, <1>2 DEF ConsumerSound
<1> QED
  BY <1>2, <1>3, <1>4, <1>5, <1>6, QuietConsumerStep

\* A claim that succeeds finds the node it checked still to be drained, and so
\* never takes an item that no producer has put in.
LEMMA ClaimFindsItem ==
    ASSUME IInv, NEW c \in Consumer, DequeueCas(c), tail = cpos[c]
    PROVE  /\ capacity # 0 /\ sequence[Slot(tail, capacity)] = tail + 1
           /\ ToDrain(Slot(tail, capacity)) /\ tail < head
<1>1. TypeOK /\ ConsumerSound(c) /\ cpc[c] = "cas"
  BY DEF IInv, DequeueCas
<1>2. capacity # 0 /\ sequence[Slot(tail, capacity)] = tail + 1 /\ tail \in Nat /\ head \in Nat
  BY <1>1, PositionsAreNumbers DEF ConsumerSound
<1>3. ToDrain(Slot(tail, capacity))
  BY <1>2, ToDrainAt
<1> QED
  BY <1>2, <1>3 DEF ToDrain

LEMMA DequeueCasSucceeds ==
    ASSUME IInv, NEW c \in Consumer, DequeueCas(c), tail = cpos[c]
    PROVE  IInv'
<1>1. TypeOK /\ WithinBound /\ Bounded /\ NodesInTurn
  BY DEF IInv
<1>2. /\ capacity # 0 /\ sequence[Slot(tail, capacity)] = tail + 1
      /\ ToDrain(Slot(tail, capacity)) /\ tail < head
  BY ClaimFindsItem
<1>3. /\ head \in Nat /\ tail \in Nat /\ capacity \in Nat /\ capacity >= 2
      /\ head \in 0..MaxPos
      /\ \A d \in Consumer : cpos[d] \in Nat
      /\ \A s \in Slots : sequence[s] \in Nat
  BY <1>1, <1>2, PositionsAreNumbers DEF IInv, TypeOK
<1>4. /\ cpc[c] = "cas" /\ tail' = tail + 1 /\ cpc' = [cpc EXCEPT ![c] = "read"]
      /\ UNCHANGED <<nodes, head, producers, cpos, out>>
  BY DEF DequeueCas
<1>5. WithinBound'
  BY <1>1, <1>4 DEF WithinBound, Waiting, producers
<1>6. tail' \in 0..MaxPos
  BY <1>2, <1>3, <1>4, BoundsAssumption
<1>7. TypeOK'
  BY <1>1, <1>4, <1>6 DEF TypeOK, nodes, producers, Slots
<1>8. Bounded' /\ capacity' # 1 /\ capacity' # 0
  BY <1>1, <1>2, <1>3, <1>4 DEF Bounded, nodes, IInv
<1>9. NodesInTurn'
  <2> SUFFICES ASSUME NEW s \in Slots PROVE ToFill(s)' \/ ToDrain(s)'
    BY <1>4 DEF NodesInTurn, Slots, nodes
  <2>1. CASE ToFill(s)
    <3>1. sequence[s] # tail
      <4>1. sequence[s] = tail => Slot(tail, capacity) = s
        BY <2>1 DEF ToFill
      <4> QED
        BY <1>2, <1>3, <4>1
    <3>2. tail + 1 <= sequence[s] /\ sequence[s] < tail + 1 + capacity
      BY <1>3, <2>1, <3>1 DEF ToFill
    <3> QED
      BY <1>4, <2>1, <3>2 DEF ToFill, Filling, nodes, producers
  <2>2. CASE ToDrain(s)
    <3>1. ASSUME sequence[s] <= tail + 1
          PROVE  \E d \in Consumer : Draining(d)' /\ cpos'[d] = sequence[s] - 1
      <4>1. CASE sequence[s] = tail + 1
        <5>1. Draining(c)' /\ cpos'[c] = sequence[s] - 1
          BY <1>1, <1>3, <1>4, <4>1 DEF Draining, TypeOK, DequeueCas
        <5> QED
          BY <5>1
      <4>2. CASE sequence[s] <= tail
        <5>1. PICK d \in Consumer : Draining(d) /\ cpos[d] = sequence[s] - 1
          BY <2>2, <4>2 DEF ToDrain
        <5> QED
          BY <1>1, <1>4, <5>1 DEF Draining, TypeOK
      <4> QED
        BY <1>3, <3>1, <4>1, <4>2
    <3> QED
      BY <1>4, <2>2, <3>1 DEF ToDrain, nodes
  <2> QED
    BY <1>1, <2>1, <2>2 DEF NodesInTurn
<1>10. \A p \in Producer : ProducerSound(p)'
  BY <1>4 DEF IInv, ProducerSound, Filling, nodes, producers
<1>11. ASSUME NEW d \in Consumer PROVE ConsumerSound(d)'
  <2>1. ConsumerSound(d) /\ cpos'[d] = cpos[d]
    BY <1>4 DEF IInv
  <2>2. \A e \in Consumer : Draining(e)' => e = c \/ (Draining(e) /\ cpos[e] < tail)
    BY <1>1, <1>4 DEF Draining, TypeOK, IInv, ConsumerSound
  <2>3. CASE d = c
    <3>1. cpc'[d] = "read" /\ cpos[d] = tail /\ tail < tail + 1
      BY <1>1, <1>3, <1>4, <2>3 DEF TypeOK, DequeueCas
    <3>2. \A e \in Consumer : Draining(e)' /\ cpos'[e] = cpos'[d] => e = d
      BY <1>3, <1>4, <2>2, <2>3, <3>1
    <3>3. capacity' # 0 /\ cpos'[d] <= tail' /\ cpos'[d] < tail'
      BY <1>3, <1>4, <1>8, <2>1, <3>1
    <3>4. sequence'[Slot(cpos'[d], capacity')] = cpos'[d] + 1
      BY <1>2, <1>4, <3>1 DEF nodes
    <3> QED
      BY <3>1, <3>2, <3>3, <3>4 DEF ConsumerSound
  <2>4. CASE d # c
    <3>1. cpc'[d] = cpc[d] /\ (Draining(d)' <=> Draining(d))
      BY <1>1, <1>4, <2>4 DEF TypeOK, Draining
    <3>2. cpc[d] # "idle" => capacity' # 0 /\ cpos'[d] <= tail' /\ cpos'[d] # tail'
      BY <1>3, <1>4, <1>8, <2>1 DEF ConsumerSound
    <3>3. ASSUME Draining(d)
          PROVE  /\ cpos'[d] < tail' /\ sequence'[Slot(cpos'[d], capacity')] = cpos'[d] + 1
                 /\ \A e \in Consumer : Draining(e)' /\ cpos'[e] = cpos'[d] => e = d
      <4>1. cpos[d] < tail /\ sequence[Slot(cpos[d], capacity)] = cpos[d] + 1
        BY <2>1, <3>3 DEF ConsumerSound
      <4>2. ASSUME NEW e \in Consumer, Draining(e)', cpos[e] = cpos[d] PROVE e = d
        <5>1. e # c
          BY <1>3, <4>1, <4>2 DEF DequeueCas
        <5> QED
          BY <2>1, <2>2, <3>3, <4>2, <5>1 DEF ConsumerSound
      <4> QED
        BY <1>3, <1>4, <4>1, <4>2 DEF nodes
    <3> QED
      BY <3>1, <3>2, <3>3 DEF ConsumerSound
  <2> QED
    BY <2>3, <2>4
<1> QED
  BY <1>5, <1>7, <1>8, <1>9, <1>10, <1>11 DEF IInv

-----------------------------------------------------------------------------
(* The owner of a node writes it and passes it on *)

LEMMA EnqueueWriteKeeps ==
    ASSUME IInv, NEW p \in Producer, EnqueueWrite(p)
    PROVE  IInv'
<1>1. TypeOK /\ WithinBound /\ NodesInTurn /\ ProducerSound(p) /\ NodeExclusive
  BY Exclusive DEF IInv
<1>2. /\ ppc[p] = "write" /\ ppc' = [ppc EXCEPT ![p] = "publish"]
      /\ data' = [data EXCEPT ![Slot(ppos[p], capacity)] = pitem[p]]
      /\ UNCHANGED <<capacity, sequence, head, tail, ppos, pitem, consumers>>
  BY DEF EnqueueWrite
<1>3. Filling(p) /\ capacity # 0 /\ pitem[p] \in Item /\ ppos[p] \in Nat
  BY <1>1, <1>2, PositionsAreNumbers DEF Filling, ProducerSound
<1>4. Slot(ppos[p], capacity) \in Slots
  BY <1>1, <1>3, NodeOf
<1>5. TypeOK'
  BY <1>1, <1>2, <1>3, <1>4 DEF TypeOK, consumers, Slots
<1>6. WithinBound'
  <2>1. Waiting' \subseteq Waiting /\ head' = head
    BY <1>1, <1>2 DEF Waiting, TypeOK
  <2> QED
    BY <1>1, <2>1, WaitingKept
<1>7. Bounded' /\ capacity' # 1 /\ capacity' # 0
  BY <1>2, <1>3 DEF Bounded, IInv
<1>8. \A q \in Producer : Filling(q)' <=> Filling(q)
  BY <1>1, <1>2 DEF TypeOK, Filling
<1>9. NodesInTurn'
  <2> SUFFICES ASSUME NEW s \in Slots PROVE ToFill(s)' \/ ToDrain(s)'
    BY <1>2 DEF NodesInTurn, Slots
  <2>1. CASE ToFill(s)
    <3>1. ASSUME sequence[s] < head
          PROVE  \E q \in Producer : Filling(q)' /\ ppos'[q] = sequence[s]
      BY <1>2, <1>8, <2>1, <3>1 DEF ToFill
    <3> QED
      BY <1>2, <2>1, <3>1 DEF ToFill
  <2>2. CASE ToDrain(s)
    <3>1. data'[s] \in Item
      BY <1>1, <1>2, <1>3, <2>2 DEF ToDrain, TypeOK
    <3> QED
      BY <1>2, <2>2, <3>1 DEF ToDrain, Draining, consumers
  <2> QED
    BY <1>1, <2>1, <2>2 DEF NodesInTurn
<1>10. ASSUME NEW q \in Producer PROVE ProducerSound(q)'
  <2>1. ProducerSound(q) /\ ppos'[q] = ppos[q] /\ pitem'[q] = pitem[q]
    BY <1>2 DEF IInv
  <2>2. ASSUME ppc'[q] = "publish" PROVE data'[Slot(ppos[q], capacity)] = pitem[q]
    <3>1. CASE q = p
      BY <1>1, <1>2, <1>4, <3>1 DEF TypeOK
    <3>2. CASE q # p
      <4>1. ppc[q] = "publish" /\ Filling(q)
        BY <1>1, <1>2, <2>2, <3>2 DEF TypeOK, Filling
      <4>2. Slot(ppos[q], capacity) # Slot(ppos[p], capacity)
        BY <1>1, <1>3, <3>2, <4>1 DEF NodeExclusive
      <4>3. data[Slot(ppos[q], capacity)] = pitem[q] /\ Slot(ppos[q], capacity) \in Slots
        BY <1>1, <1>3, <2>1, <4>1, NodeOf, PositionsAreNumbers DEF ProducerSound
      <4> QED
        BY <1>1, <1>2, <4>2, <4>3 DEF TypeOK
    <3> QED
      BY <3>1, <3>2
  <2>3. (ppc'[q] # "idle" <=> ppc[q] # "idle") /\ (ppc'[q] = "cas" <=> ppc[q] = "cas")
    BY <1>1, <1>2 DEF TypeOK
  <2> QED
    BY <1>2, <1>8, <2>1, <2>2, <2>3 DEF ProducerSound
<1>11. \A c \in Consumer : ConsumerSound(c)'
  BY <1>2 DEF IInv, ConsumerSound, Draining, consumers
<1> QED
  BY <1>5, <1>6, <1>7, <1>9, <1>10, <1>11 DEF IInv

LEMMA EnqueuePublishKeeps ==
    ASSUME IInv, NEW p \in Producer, EnqueuePublish(p)
    PROVE  IInv'
<1> DEFINE at == Slot(ppos[p], capacity)
<1>1. TypeOK /\ WithinBound /\ Bounded /\ NodesInTurn /\ ProducerSound(p) /\ NodeExclusive
  BY Exclusive DEF IInv
<1>2. /\ ppc[p] = "publish" /\ ppc' = [ppc EXCEPT ![p] = "idle"]
      /\ sequence' = [sequence EXCEPT ![at] = ppos[p] + 1]
      /\ UNCHANGED <<capacity, data, head, tail, ppos, pitem, consumers>>
  BY DEF EnqueuePublish
<1>3. /\ Filling(p) /\ capacity # 0 /\ pitem[p] \in Item /\ ppos[p] < head
      /\ sequence[at] = ppos[p] /\ data[at] = pitem[p]
  BY <1>1, <1>2 DEF Filling, ProducerSound
<1>4. /\ head \in Nat /\ tail \in Nat /\ capacity \in Nat /\ capacity >= 2
      /\ \A q \in Producer : ppos[q] \in Nat
      /\ \A c \in Consumer : cpos[c] \in Nat
      /\ at \in Slots /\ at \in Nat
  <2>1. at \in Slots
    BY <1>1, <1>3, NodeOf, PositionsAreNumbers
  <2> QED
    BY <1>1, <1>3, <2>1, PositionsAreNumbers DEF IInv, Slots
<1>5. tail <= ppos[p]
  <2>1. ToFill(at)
    BY <1>3, <1>4, ToFillAt
  <2> QED
    BY <1>3, <2>1 DEF ToFill
<1>6. TypeOK'
  BY <1>1, <1>2, <1>4 DEF TypeOK, consumers, Slots
<1>7. WithinBound'
  <2>1. Waiting' \subseteq Waiting /\ head' = head
    BY <1>1, <1>2 DEF Waiting, TypeOK
  <2> QED
    BY <1>1, <2>1, WaitingKept
<1>8. Bounded' /\ capacity' # 1 /\ capacity' # 0
  BY <1>1, <1>2, <1>3 DEF Bounded, IInv
<1>9. \A q \in Producer : Filling(q)' <=> Filling(q) /\ q # p
  BY <1>1, <1>2 DEF TypeOK, Filling
<1>10. \A s \in Slots \ {at} : sequence'[s] = sequence[s]
  BY <1>1, <1>2 DEF TypeOK
<1>11. sequence'[at] = ppos[p] + 1
  BY <1>1, <1>2, <1>4 DEF TypeOK
<1> HIDE DEF at
<1>12. NodesInTurn'
  <2> SUFFICES ASSUME NEW s \in Slots PROVE ToFill(s)' \/ ToDrain(s)'
    BY <1>2 DEF NodesInTurn, Slots
  <2>1. CASE s = at
    <3>1. /\ 1 <= ppos[p] + 1 /\ (ppos[p] + 1) - 1 = ppos[p]
          /\ ppos[p] + 1 <= head /\ head < ppos[p] + 1 + capacity /\ ~(ppos[p] + 1 <= tail)
      BY <1>1, <1>3, <1>4, <1>5 DEF Bounded
    <3> QED
      BY <1>2, <1>3, <1>11, <2>1, <3>1 DEF ToDrain, at
  <2>2. CASE s # at /\ ToFill(s)
    <3>1. ASSUME sequence[s] < head
          PROVE  \E q \in Producer : Filling(q)' /\ ppos'[q] = sequence[s]
      <4>1. PICK q \in Producer : Filling(q) /\ ppos[q] = sequence[s]
        BY <2>2, <3>1 DEF ToFill
      <4>2. q # p
        BY <2>2, <4>1 DEF ToFill, at
      <4> QED
        BY <1>2, <1>9, <4>1, <4>2
    <3> QED
      BY <1>2, <1>10, <2>2, <3>1 DEF ToFill
  <2>3. CASE s # at /\ ToDrain(s)
    BY <1>2, <1>10, <2>3 DEF ToDrain, Draining, consumers
  <2> QED
    BY <1>1, <2>1, <2>2, <2>3 DEF NodesInTurn
<1>13. ASSUME NEW q \in Producer PROVE ProducerSound(q)'
  <2>1. ProducerSound(q) /\ ppos'[q] = ppos[q] /\ pitem'[q] = pitem[q]
    BY <1>2 DEF IInv
  <2>2. CASE q = p
    BY <1>1, <1>2, <1>9, <2>2 DEF ProducerSound, TypeOK
  <2>3. CASE q # p
    <3>1. ppc'[q] = ppc[q]
      BY <1>1, <1>2, <2>3 DEF TypeOK
    <3>2. ASSUME ppc[q] = "cas", ppos[q] = head
          PROVE  sequence'[Slot(ppos[q], capacity)] = ppos[q]
      <4>1. sequence[Slot(ppos[q], capacity)] = ppos[q] /\ Slot(ppos[q], capacity) \in Slots
        BY <1>1, <1>3, <1>4, <2>1, <3>2, NodeOf DEF ProducerSound
      <4>2. Slot(ppos[q], capacity) # at
        BY <1>3, <1>4, <3>2, <4>1
      <4> QED
        BY <1>10, <4>1, <4>2
    <3>3. ASSUME Filling(q)
          PROVE  sequence'[Slot(ppos[q], capacity)] = ppos[q]
      <4>1. sequence[Slot(ppos[q], capacity)] = ppos[q] /\ Slot(ppos[q], capacity) \in Slots
        BY <1>1, <1>3, <1>4, <2>1, <3>3, NodeOf DEF ProducerSound
      <4>2. Slot(ppos[q], capacity) # at
        BY <1>1, <1>3, <2>3, <3>3 DEF NodeExclusive, at
      <4> QED
        BY <1>10, <4>1, <4>2
    <3> QED
      BY <1>2, <1>9, <2>1, <2>3, <3>1, <3>2, <3>3 DEF ProducerSound
  <2> QED
    BY <2>2, <2>3
<1>14. ASSUME NEW c \in Consumer PROVE ConsumerSound(c)'
  <2>1. ConsumerSound(c) /\ cpos'[c] = cpos[c] /\ cpc'[c] = cpc[c]
    BY <1>2 DEF IInv, consumers
  <2>2. ASSUME cpc[c] # "idle", sequence[Slot(cpos[c], capacity)] = cpos[c] + 1
        PROVE  sequence'[Slot(cpos[c], capacity)] = cpos[c] + 1
    <3>1. Slot(cpos[c], capacity) \in Slots
      BY <1>1, <1>3, <1>4, NodeOf
    <3>2. Slot(cpos[c], capacity) # at
      <4>1. SUFFICES ASSUME Slot(cpos[c], capacity) = at PROVE FALSE
        OBVIOUS
      <4>2. ppos[p] = cpos[c] + 1
        BY <1>3, <2>2, <4>1
      <4> QED
        BY <1>4, <4>1, <4>2, NextSlotDiffers DEF at
    <3> QED
      BY <1>10, <2>2, <3>1, <3>2
  <2>3. Draining(c) => cpc[c] # "idle"
    BY DEF Draining
  <2> QED
    BY <1>2, <2>1, <2>2, <2>3 DEF ConsumerSound, Draining, consumers
<1> QED
  BY <1>6, <1>7, <1>8, <1>12, <1>13, <1>14 DEF IInv

LEMMA DequeueReleaseKeeps ==
    ASSUME IInv, NEW c \in Consumer, DequeueRelease(c)
    PROVE  IInv'
<1> DEFINE at == Slot(cpos[c], capacity)
<1>1. TypeOK /\ WithinBound /\ Bounded /\ NodesInTurn /\ ConsumerSound(c) /\ NodeExclusive
  BY Exclusive DEF IInv
<1>2. /\ cpc[c] = "release" /\ cpc' = [cpc EXCEPT ![c] = "idle"]
      /\ sequence' = [sequence EXCEPT ![at] = cpos[c] + capacity]
      /\ UNCHANGED <<capacity, data, head, tail, producers, cpos, out>>
  BY DEF DequeueRelease
<1>3. Draining(c) /\ capacity # 0 /\ cpos[c] < tail /\ sequence[at] = cpos[c] + 1
  BY <1>1, <1>2 DEF Draining, ConsumerSound
<1>4. /\ head \in Nat /\ tail \in Nat /\ capacity \in Nat /\ capacity >= 2
      /\ \A q \in Producer : ppos[q] \in Nat
      /\ \A d \in Consumer : cpos[d] \in Nat
      /\ at \in Slots /\ at \in Nat
  <2>1. at \in Slots
    BY <1>1, <1>3, NodeOf, PositionsAreNumbers
  <2> QED
    BY <1>1, <1>3, <2>1, PositionsAreNumbers DEF IInv, Slots
<1>5. head <= cpos[c] + capacity
  <2>1. ToDrain(at)
    BY <1>3, <1>4, ToDrainAt
  <2> QED
    BY <1>3, <1>4, <2>1 DEF ToDrain
<1>6. TypeOK'
  BY <1>1, <1>2, <1>4 DEF TypeOK, producers, Slots
<1>7. WithinBound'
  BY <1>1, <1>2 DEF WithinBound, Waiting, producers
<1>8. Bounded' /\ capacity' # 1 /\ capacity' # 0
  BY <1>1, <1>2, <1>3 DEF Bounded, IInv
<1>9. \A d \in Consumer : Draining(d)' <=> Draining(d) /\ d # c
  BY <1>1, <1>2 DEF TypeOK, Draining
<1>10. \A s \in Slots \ {at} : sequence'[s] = sequence[s]
  BY <1>1, <1>2 DEF TypeOK
<1>11. sequence'[at] = cpos[c] + capacity
  BY <1>1, <1>2, <1>4 DEF TypeOK
<1> HIDE DEF at
<1>12. NodesInTurn'
  <2> SUFFICES ASSUME NEW s \in Slots PROVE ToFill(s)' \/ ToDrain(s)'
    BY <1>2 DEF NodesInTurn, Slots
  <2>1. CASE s = at
    <3>1. /\ tail <= cpos[c] + capacity /\ cpos[c] + capacity < tail + capacity
          /\ ~(cpos[c] + capacity < head)
      BY <1>1, <1>3, <1>4, <1>5 DEF Bounded
    <3>2. Slot(cpos[c] + capacity, capacity) = at
      <4>1. capacity \in Nat \ {0} /\ cpos[c] \in Nat
        BY <1>4
      <4> QED
        BY <4>1, SlotNextLap DEF at
    <3> QED
      BY <1>2, <1>11, <2>1, <3>1, <3>2 DEF ToFill
  <2>2. CASE s # at /\ ToFill(s)
    BY <1>2, <1>10, <2>2 DEF ToFill, Filling, producers
  <2>3. CASE s # at /\ ToDrain(s)
    <3>1. ASSUME sequence[s] <= tail
          PROVE  \E d \in Consumer : Draining(d)' /\ cpos'[d] = sequence[s] - 1
      <4>1. PICK d \in Consumer : Draining(d) /\ cpos[d] = sequence[s] - 1
        BY <2>3, <3>1 DEF ToDrain
      <4>2. d # c
        BY <2>3, <4>1 DEF ToDrain, at
      <4> QED
        BY <1>2, <1>9, <4>1, <4>2
    <3> QED
      BY <1>2, <1>10, <2>3, <3>1 DEF ToDrain
  <2> QED
    BY <1>1, <2>1, <2>2, <2>3 DEF NodesInTurn
<1>13. ASSUME NEW q \in Producer PROVE ProducerSound(q)'
  <2>1. ProducerSound(q) /\ ppos'[q] = ppos[q] /\ ppc'[q] = ppc[q] /\ pitem'[q] = pitem[q]
    BY <1>2 DEF IInv, producers
  <2>2. ASSUME ppc[q] # "idle", sequence[Slot(ppos[q], capacity)] = ppos[q]
        PROVE  sequence'[Slot(ppos[q], capacity)] = ppos[q]
    <3>1. Slot(ppos[q], capacity) \in Slots
      BY <1>1, <1>3, <1>4, NodeOf
    <3>2. Slot(ppos[q], capacity) # at
      <4>1. SUFFICES ASSUME Slot(ppos[q], capacity) = at PROVE FALSE
        OBVIOUS
      <4>2. ppos[q] = cpos[c] + 1
        BY <1>3, <2>2, <4>1
      <4> QED
        BY <1>4, <4>1, <4>2, NextSlotDiffers DEF at
    <3> QED
      BY <1>10, <2>2, <3>1, <3>2
  <2>3. Filling(q) => ppc[q] # "idle"
    BY DEF Filling
  <2> QED
    BY <1>2, <2>1, <2>2, <2>3 DEF ProducerSound, Filling, producers
<1>14. ASSUME NEW d \in Consumer PROVE ConsumerSound(d)'
  <2>1. ConsumerSound(d) /\ cpos'[d] = cpos[d]
    BY <1>2 DEF IInv
  <2>2. CASE d = c
    BY <1>1, <1>2, <1>9, <2>2 DEF ConsumerSound, TypeOK
  <2>3. CASE d # c
    <3>1. cpc'[d] = cpc[d]
      BY <1>1, <1>2, <2>3 DEF TypeOK
    <3>2. ASSUME cpc[d] = "cas", cpos[d] = tail
          PROVE  sequence'[Slot(cpos[d], capacity)] = cpos[d] + 1
      <4>1. sequence[Slot(cpos[d], capacity)] = cpos[d] + 1 /\ Slot(cpos[d], capacity) \in Slots
        BY <1>1, <1>3, <1>4, <2>1, <3>2, NodeOf DEF ConsumerSound
      <4>2. Slot(cpos[d], capacity) # at
        BY <1>3, <1>4, <3>2, <4>1
      <4> QED
        BY <1>10, <4>1, <4>2
    <3>3. ASSUME Draining(d)
          PROVE  sequence'[Slot(cpos[d], capacity)] = cpos[d] + 1
      <4>1. sequence[Slot(cpos[d], capacity)] = cpos[d] + 1 /\ Slot(cpos[d], capacity) \in Slots
        BY <1>1, <1>3, <1>4, <2>1, <3>3, NodeOf DEF ConsumerSound
      <4>2. Slot(cpos[d], capacity) # at
        BY <1>1, <1>3, <2>3, <3>3 DEF NodeExclusive, at
      <4> QED
        BY <1>10, <4>1, <4>2
    <3> QED
      BY <1>2, <1>9, <2>1, <2>3, <3>1, <3>2, <3>3 DEF ConsumerSound
  <2> QED
    BY <2>2, <2>3
<1> QED
  BY <1>6, <1>7, <1>8, <1>12, <1>13, <1>14 DEF IInv

-----------------------------------------------------------------------------
(* The owner of the queue, and the theorem *)

LEMMA CreateKeeps ==
    ASSUME TwoNodes, IInv, NEW request \in Requests, Create(request)
    PROVE  IInv'
<1>1. PICK n \in Nat \ {0, 1} : capacity' = n
  BY RequestsAssumption DEF TwoNodes, Create
<1>2. /\ head = 0 /\ tail = 0
      /\ UNCHANGED <<head, tail, producers, consumers>>
      /\ data' = [s \in 0..(n - 1) |-> NoItem]
      /\ sequence' = [s \in 0..(n - 1) |-> s]
  BY <1>1 DEF Create, IInv
<1>3. \A p \in Producer : ppc[p] = "idle"
  BY DEF IInv, ProducerSound, Create
<1>4. \A c \in Consumer : cpc[c] = "idle"
  BY DEF IInv, ConsumerSound, Create
<1>5. TypeOK'
  <2>1. Slots' = 0..(n - 1) /\ 0..(n - 1) \subseteq Nat
    BY <1>1 DEF Slots
  <2>2. data' \in [0..(n - 1) -> Item \cup {NoItem}] /\ sequence' \in [0..(n - 1) -> Nat]
    BY <1>2, <2>1
  <2> QED
    BY <1>1, <1>2, <2>1, <2>2 DEF IInv, TypeOK, producers, consumers
<1>6. Bounded' /\ WithinBound' /\ capacity' # 1
  <2>1. WithinBound'
    BY <1>2 DEF IInv, WithinBound, Waiting, producers
  <2> QED
    BY <1>1, <1>2, <2>1 DEF Bounded
<1>7. NodesInTurn'
  <2> SUFFICES ASSUME NEW s \in 0..(n - 1) PROVE ToFill(s)'
    BY <1>1 DEF NodesInTurn, Slots
  <2>1. s \in Nat /\ s < n /\ n \in Nat \ {0}
    BY <1>1
  <2>2. Slot(s, n) = s /\ sequence'[s] = s
    BY <1>2, <2>1, SlotOfFirstLap
  <2> QED
    BY <1>1, <1>2, <2>1, <2>2 DEF ToFill
<1>8. (\A p \in Producer : ProducerSound(p)') /\ (\A c \in Consumer : ConsumerSound(c)')
  BY <1>2, <1>3, <1>4 DEF ProducerSound, ConsumerSound, Filling, Draining, producers, consumers
<1> QED
  BY <1>1, <1>2, <1>5, <1>6, <1>7, <1>8 DEF IInv

LEMMA DestroyKeeps ==
    ASSUME IInv, Destroy
    PROVE  IInv'
<1>1. /\ capacity' = 0 /\ head' = 0 /\ tail' = 0
      /\ data' = [s \in {} |-> NoItem] /\ sequence' = [s \in {} |-> 0]
      /\ UNCHANGED <<producers, consumers>>
  BY DEF Destroy
<1>2. \A p \in Producer : ppc[p] = "idle"
  BY DEF Destroy, Enqueuing
<1>3. \A c \in Consumer : cpc[c] = "idle"
  BY DEF Destroy, Dequeuing
<1>4. TypeOK'
  <2>1. Slots' = {}
    BY <1>1 DEF Slots
  <2>2. 0 \in 0..MaxPos /\ 0 \in Nat
    BY BoundsAssumption
  <2> QED
    BY <1>1, <2>1, <2>2 DEF IInv, TypeOK, producers, consumers
<1>5. Bounded' /\ WithinBound' /\ NodesInTurn'
  <2>1. Waiting' = {} /\ Slots' = {}
    BY <1>1, <1>2 DEF Waiting, producers, Slots
  <2>2. Cardinality(Waiting') = 0
    BY <2>1, FS_EmptySet
  <2> QED
    BY <1>1, <2>1, <2>2, BoundsAssumption DEF Bounded, WithinBound, NodesInTurn
<1>6. (\A p \in Producer : ProducerSound(p)') /\ (\A c \in Consumer : ConsumerSound(c)')
  BY <1>1, <1>2, <1>3 DEF ProducerSound, ConsumerSound, Filling, Draining, producers, consumers
<1> QED
  BY <1>1, <1>4, <1>5, <1>6 DEF IInv

LEMMA InitKeeps == Init => IInv
<1> SUFFICES ASSUME Init PROVE IInv
  OBVIOUS
<1>1. TypeOK
  <2>1. Slots = {}
    BY DEF Init, Slots
  <2>2. 0 \in 0..MaxPos /\ 0 \in Nat /\ <<>> \in Seq(Item)
    BY BoundsAssumption
  <2> QED
    BY <2>1, <2>2 DEF Init, TypeOK
<1>2. Bounded /\ WithinBound /\ NodesInTurn
  <2>1. Waiting = {} /\ Slots = {}
    BY DEF Waiting, Slots, Init
  <2>2. Cardinality(Waiting) = 0
    BY <2>1, FS_EmptySet
  <2> QED
    BY <2>1, <2>2, BoundsAssumption DEF Bounded, WithinBound, NodesInTurn, Init
<1>3. (\A p \in Producer : ProducerSound(p)) /\ (\A c \in Consumer : ConsumerSound(c))
  BY DEF ProducerSound, ConsumerSound, Filling, Draining, Init
<1> QED
  BY <1>1, <1>2, <1>3 DEF IInv, Init

\* Every step of the queue preserves the invariant.
LEMMA NextKeeps ==
    ASSUME TwoNodes, IInv, [Next]_vars
    PROVE  IInv'
<1>1. ASSUME NEW p \in Producer, NEW item \in Item, EnqueueCall(p, item) PROVE IInv'
  BY <1>1, EnqueueCallKeeps
<1>2. ASSUME NEW p \in Producer, EnqueueStep(p) PROVE IInv'
  <2>1. CASE EnqueueReload(p)
    BY <2>1, EnqueueReloadKeeps
  <2>2. CASE EnqueueCheck(p)
    BY <2>2, EnqueueCheckKeeps
  <2>3. CASE EnqueueCas(p)
    BY <2>3, EnqueueCasSucceeds, EnqueueCasFails
  <2>4. CASE EnqueueWrite(p)
    BY <2>4, EnqueueWriteKeeps
  <2>5. CASE EnqueuePublish(p)
    BY <2>5, EnqueuePublishKeeps
  <2> QED
    BY <1>2, <2>1, <2>2, <2>3, <2>4, <2>5 DEF EnqueueStep
<1>3. ASSUME NEW c \in Consumer, DequeueStep(c) \/ DequeueCall(c) PROVE IInv'
  <2>1. CASE DequeueCall(c) \/ DequeueReload(c) \/ DequeueCheck(c) \/ DequeueRead(c)
    BY <2>1, DequeueQuietKeeps
  <2>2. CASE DequeueCas(c)
    BY <2>2, DequeueCasSucceeds, DequeueCasFails
  <2>3. CASE DequeueRelease(c)
    BY <2>3, DequeueReleaseKeeps
  <2> QED
    BY <1>3, <2>1, <2>2, <2>3 DEF DequeueStep
<1>4. ASSUME NEW request \in Requests, Create(request) PROVE IInv'
  BY <1>4, CreateKeeps
<1>5. CASE Destroy
  BY <1>5, DestroyKeeps
<1>6. CASE UNCHANGED vars
  BY <1>6 DEF vars, nodes, producers, consumers, IInv, TypeOK, Bounded, WithinBound, Waiting,
              NodesInTurn, Slots, ToFill, ToDrain, ProducerSound, ConsumerSound,
              Filling, Draining
<1> QED
  BY <1>1, <1>2, <1>3, <1>4, <1>5, <1>6 DEF Next

\* The inductive invariant of eg_mpmc_queue_t.
THEOREM Invariance ==
    ASSUME TwoNodes
    PROVE  Spec => []IInv
<1>1. Init => IInv
  BY InitKeeps
<1>2. IInv /\ [Next]_vars => IInv'
  BY NextKeeps
<1> QED
  BY <1>1, <1>2, PTL DEF Spec

\* Sequence numbers pass every node of eg_mpmc_queue_t from one owner to the next:
\* no two threads are ever at the same node's data, and head and tail stay in
\* order and within a capacity of each other.
THEOREM NodesAreSound ==
    ASSUME TwoNodes
    PROVE  Spec => []NodesSound
<1>1. IInv => NodesSound
  BY Exclusive DEF IInv, NodesSound
<1> QED
  BY <1>1, Invariance, PTL

-----------------------------------------------------------------------------
(* Why a call returns false *)

\* The steps of a call are its own thread's.
LEMMA OwnSteps ==
    ASSUME TypeOK, [Next]_vars
    PROVE  /\ \A p \in Producer : ppc[p] = "check" /\ ppc'[p] = "idle" => EnqueueCheck(p)
           /\ \A c \in Consumer : cpc[c] = "check" /\ cpc'[c] = "idle" => DequeueCheck(c)
<1>1. ASSUME NEW p \in Producer,
             EnqueueStep(p) \/ (\E item \in Item : EnqueueCall(p, item)),
             NEW q \in Producer, ppc[q] = "check", ppc'[q] = "idle"
      PROVE  EnqueueCheck(q)
  BY <1>1 DEF TypeOK, EnqueueStep, EnqueueCall, EnqueueReload, EnqueueCheck, EnqueueCas,
              EnqueueWrite, EnqueuePublish
<1>2. ASSUME NEW c \in Consumer, DequeueStep(c) \/ DequeueCall(c),
             NEW d \in Consumer, cpc[d] = "check", cpc'[d] = "idle"
      PROVE  DequeueCheck(d)
  BY <1>2 DEF TypeOK, DequeueStep, DequeueCall, DequeueReload, DequeueCheck, DequeueCas,
              DequeueRead, DequeueRelease
<1>3. ASSUME NEW p \in Producer,
             EnqueueStep(p) \/ (\E item \in Item : EnqueueCall(p, item))
      PROVE  cpc' = cpc
  BY <1>3 DEF EnqueueStep, EnqueueCall, EnqueueReload, EnqueueCheck, EnqueueCas,
              EnqueueWrite, EnqueuePublish, consumers
<1>4. ASSUME NEW c \in Consumer, DequeueStep(c) \/ DequeueCall(c) PROVE ppc' = ppc
  BY <1>4 DEF DequeueStep, DequeueCall, DequeueReload, DequeueCheck, DequeueCas,
              DequeueRead, DequeueRelease, producers
<1>5. ASSUME Destroy \/ (\E request \in Requests : Create(request)) \/ UNCHANGED vars
      PROVE  ppc' = ppc /\ cpc' = cpc
  BY <1>5 DEF Destroy, Create, vars, producers, consumers
<1> QED
  BY <1>1, <1>2, <1>3, <1>4, <1>5 DEF Next

\* A consumer that gives up found nothing claimed, or the claimed item unpublished.
LEMMA GivesUpEmpty ==
    ASSUME IInv, NEW c \in Consumer, DequeueCheck(c), cpc'[c] = "idle"
    PROVE  \/ head = tail
           \/ \E p \in Producer : Filling(p) /\ ppos[p] = tail
<1> DEFINE at == Slot(cpos[c], capacity)
           seq == sequence[at]
<1>1. TypeOK /\ Bounded /\ NodesInTurn /\ ConsumerSound(c) /\ cpc[c] = "check"
  BY DEF IInv, DequeueCheck
<1>2. capacity # 0 /\ cpos[c] <= tail
  BY <1>1 DEF ConsumerSound
<1>3. /\ head \in Nat /\ tail \in Nat /\ capacity \in Nat \ {0} /\ cpos[c] \in Nat
      /\ at \in Slots /\ seq \in Nat
  BY <1>1, <1>2, PositionsAreNumbers, NodeOf
<1>4. seq < cpos[c] + 1
  BY <1>1 DEF DequeueCheck, TypeOK
<1>5. CASE ToFill(at)
  <2>1. tail <= seq
    BY <1>5 DEF ToFill
  <2>2. seq = tail
    BY <1>2, <1>3, <1>4, <2>1
  <2>3. CASE tail < head
    BY <1>5, <2>2, <2>3 DEF ToFill
  <2>4. CASE ~(tail < head)
    BY <1>1, <1>3, <2>4 DEF Bounded
  <2> QED
    BY <2>3, <2>4
<1>6. CASE ToDrain(at)
  <2>1. 1 <= seq /\ Slot(seq - 1, capacity) = at /\ head < seq + capacity
    BY <1>6 DEF ToDrain
  <2>2. seq - 1 \in Nat /\ seq - 1 < cpos[c]
    BY <1>3, <1>4, <2>1
  <2>3. (seq - 1) + capacity <= cpos[c]
    BY <1>3, <2>1, <2>2, SameSlotApart
  <2> QED
    BY <1>1, <1>2, <1>3, <2>1, <2>3 DEF Bounded
<1> QED
  BY <1>1, <1>3, <1>5, <1>6 DEF NodesInTurn

\* A producer that gives up found every node claimed, or the node it needs
\* still held by the consumer that drains it.
LEMMA GivesUpFull ==
    ASSUME IInv, NEW p \in Producer, EnqueueCheck(p), ppc'[p] = "idle"
    PROVE  \/ head - tail = capacity
           \/ \E c \in Consumer : Draining(c) /\ cpos[c] + capacity = head
<1> DEFINE at == Slot(ppos[p], capacity)
           seq == sequence[at]
<1>1. TypeOK /\ Bounded /\ NodesInTurn /\ ProducerSound(p) /\ ppc[p] = "check"
  BY DEF IInv, EnqueueCheck
<1>2. capacity # 0 /\ ppos[p] <= head
  BY <1>1 DEF ProducerSound
<1>3. /\ head \in Nat /\ tail \in Nat /\ capacity \in Nat \ {0} /\ ppos[p] \in Nat
      /\ at \in Slots /\ seq \in Nat
  BY <1>1, <1>2, PositionsAreNumbers, NodeOf
<1>4. seq < ppos[p]
  BY <1>1, <1>3 DEF EnqueueCheck, TypeOK
<1>5. CASE ToFill(at)
  <2>1. tail <= seq /\ Slot(seq, capacity) = at
    BY <1>5 DEF ToFill
  <2>2. seq + capacity <= ppos[p]
    BY <1>3, <1>4, <2>1, SameSlotApart
  <2> QED
    BY <1>1, <1>2, <1>3, <2>1, <2>2 DEF Bounded
<1>6. CASE ToDrain(at)
  <2>1. 1 <= seq /\ Slot(seq - 1, capacity) = at /\ head < seq + capacity
    BY <1>6 DEF ToDrain
  <2>2. seq - 1 \in Nat /\ seq - 1 < ppos[p]
    BY <1>3, <1>4, <2>1
  <2>3. (seq - 1) + capacity <= ppos[p]
    BY <1>3, <2>1, <2>2, SameSlotApart
  <2>4. head = (seq - 1) + capacity
    BY <1>2, <1>3, <2>1, <2>3
  <2>5. CASE seq <= tail
    <3>1. PICK c \in Consumer : Draining(c) /\ cpos[c] = seq - 1
      BY <1>6, <2>5 DEF ToDrain
    <3> QED
      BY <2>4, <3>1
  <2>6. CASE ~(seq <= tail)
    BY <1>1, <1>3, <2>4, <2>6 DEF Bounded
  <2> QED
    BY <2>5, <2>6
<1> QED
  BY <1>1, <1>3, <1>5, <1>6 DEF NodesInTurn

\* eg_mpmc_queue_enqueue and eg_mpmc_queue_dequeue never return false without a
\* cause their callers can be told.
THEOREM FailuresHaveCause ==
    ASSUME TwoNodes
    PROVE  Spec => FailureHasCause
<1>1. IInv /\ [Next]_vars =>
         [\A c \in Consumer : cpc[c] = "check" /\ cpc'[c] = "idle" =>
             \/ head = tail
             \/ \E p \in Producer : Filling(p) /\ ppos[p] = tail]_vars
  BY OwnSteps, GivesUpEmpty DEF IInv
<1>2. IInv /\ [Next]_vars =>
         [\A p \in Producer : ppc[p] = "check" /\ ppc'[p] = "idle" =>
             \/ head - tail = capacity
             \/ \E c \in Consumer : Draining(c) /\ cpos[c] + capacity = head]_vars
  BY OwnSteps, GivesUpFull DEF IInv
<1> QED
  BY <1>1, <1>2, Invariance, PTL DEF Spec, FailureHasCause, EmptyHasCause, FullHasCause

-----------------------------------------------------------------------------
(* The queue as its callers see it *)

\* A claimed position holds the item its producer brings, another one what its
\* node holds.
LEMMA ItemAtValue ==
    ASSUME IInv, NEW q \in Nat
    PROVE  /\ \A p \in Producer : Filling(p) /\ ppos[p] = q => ItemAt(q) = pitem[p]
           /\ (\A p \in Producer : ~(Filling(p) /\ ppos[p] = q)) =>
                 ItemAt(q) = data[Slot(q, capacity)]
<1>1. ASSUME NEW p \in Producer, Filling(p), ppos[p] = q
      PROVE  ItemAt(q) = pitem[p]
  <2> DEFINE chosen == CHOOSE r \in Producer : Filling(r) /\ ppos[r] = q
  <2>1. chosen \in Producer /\ Filling(chosen) /\ ppos[chosen] = q
    BY <1>1
  <2>2. ProducerSound(p)
    BY DEF IInv
  <2>3. chosen = p
    BY <1>1, <2>1, <2>2 DEF ProducerSound
  <2> QED
    BY <1>1, <2>3 DEF ItemAt
<1>2. ASSUME \A p \in Producer : ~(Filling(p) /\ ppos[p] = q)
      PROVE  ItemAt(q) = data[Slot(q, capacity)]
  BY <1>2 DEF ItemAt
<1> QED
  BY <1>1, <1>2

\* Whatever is inside is an item.
LEMMA ItemAtType ==
    ASSUME IInv, NEW q \in Nat, tail <= q, q < head
    PROVE  ItemAt(q) \in Item
<1>1. TypeOK /\ Bounded /\ NodesInTurn
  BY DEF IInv
<1>2. head \in Nat /\ tail \in Nat /\ capacity \in Nat \ {0}
  BY <1>1, PositionsAreNumbers DEF Bounded
<1> DEFINE at == Slot(q, capacity)
<1>3. at \in Slots /\ sequence[at] \in Nat
  BY <1>1, <1>2, NodeOf
<1>4. CASE \E p \in Producer : Filling(p) /\ ppos[p] = q
  <2>1. PICK p \in Producer : Filling(p) /\ ppos[p] = q
    BY <1>4
  <2>2. pitem[p] \in Item
    BY <2>1 DEF IInv, ProducerSound, Filling
  <2> QED
    BY <2>1, <2>2, ItemAtValue
<1>5. CASE \A p \in Producer : ~(Filling(p) /\ ppos[p] = q)
  <2>1. ASSUME ToFill(at) PROVE FALSE
    <3>1. Slot(sequence[at], capacity) = at /\ tail <= sequence[at]
          /\ sequence[at] < tail + capacity
      BY <2>1 DEF ToFill
    <3>2. ~(sequence[at] < q) /\ ~(q < sequence[at])
      <4>1. ASSUME sequence[at] < q PROVE FALSE
        BY <1>1, <1>2, <1>3, <3>1, <4>1, SameSlotApart DEF Bounded
      <4>2. ASSUME q < sequence[at] PROVE FALSE
        BY <1>1, <1>2, <1>3, <3>1, <4>2, SameSlotApart DEF Bounded
      <4> QED
        BY <4>1, <4>2
    <3>3. sequence[at] = q
      BY <1>3, <3>2
    <3> QED
      BY <1>5, <2>1, <3>3 DEF ToFill
  <2>2. data[at] \in Item
    BY <1>1, <1>3, <2>1 DEF NodesInTurn, ToDrain
  <2> QED
    BY <1>5, <2>2, ItemAtValue
<1> QED
  BY <1>4, <1>5

\* The contents are a sequence of items, one per claimed position.
LEMMA ContentsSeq ==
    ASSUME IInv
    PROVE  /\ head - tail \in Nat /\ Len(Contents) = head - tail
           /\ Contents \in Seq(Item)
           /\ \A i \in 1..(head - tail) : Contents[i] = ItemAt(tail + i - 1)
<1>1. /\ head \in Nat /\ tail \in Nat /\ head - tail \in Nat
  <2>1. head \in Nat /\ tail \in Nat /\ tail <= head
    BY PositionsAreNumbers DEF IInv, Bounded
  <2> QED
    BY <2>1
<1>2. ASSUME NEW i \in 1..(head - tail)
      PROVE  ItemAt(tail + i - 1) \in Item
  <2>1. tail + i - 1 \in Nat /\ tail <= tail + i - 1 /\ tail + i - 1 < head
    BY <1>1
  <2> QED
    BY <2>1, ItemAtType
<1>3. Contents \in [1..(head - tail) -> Item]
  BY <1>2 DEF Contents
<1>4. Contents \in Seq(Item)
  BY <1>1, <1>3, SeqDef
<1>5. Len(Contents) = head - tail
  BY <1>1, <1>3, <1>4, LenProperties
<1> QED
  BY <1>1, <1>4, <1>5 DEF Contents

\* The same, of the state after a step.
LEMMA ContentsSeqAfter ==
    ASSUME IInv'
    PROVE  /\ Contents' \in Seq(Item) /\ Len(Contents') = head' - tail'
           /\ \A i \in 1..(head' - tail') : Contents'[i] = ItemAt(tail + i - 1)'
<1>1. /\ (Contents \in Seq(Item))' /\ (Len(Contents) = head - tail)'
      /\ (\A i \in 1..(head - tail) : Contents[i] = ItemAt(tail + i - 1))'
  BY ContentsSeq, PTL
<1> QED
  BY <1>1

LEMMA ItemAtValueAfter ==
    ASSUME IInv', NEW q \in Nat
    PROVE  /\ \A p \in Producer : Filling(p)' /\ ppos'[p] = q => ItemAt(q)' = pitem'[p]
           /\ (\A p \in Producer : ~(Filling(p)' /\ ppos'[p] = q)) =>
                 ItemAt(q)' = data'[Slot(q, capacity')]
<1>1. /\ (\A p \in Producer : Filling(p) /\ ppos[p] = q => ItemAt(q) = pitem[p])'
      /\ ((\A p \in Producer : ~(Filling(p) /\ ppos[p] = q)) =>
                 ItemAt(q) = data[Slot(q, capacity)])'
  BY ItemAtValue, PTL
<1> QED
  BY <1>1

\* A step that changes neither who fills a position nor what it holds keeps its item.
LEMMA ItemAtKept ==
    ASSUME IInv, IInv', NEW q \in Nat, capacity' = capacity,
           \A p \in Producer : Filling(p) /\ ppos[p] = q <=> Filling(p)' /\ ppos'[p] = q,
           \A p \in Producer : Filling(p) => pitem'[p] = pitem[p],
           \/ data'[Slot(q, capacity)] = data[Slot(q, capacity)]
           \/ \E p \in Producer : Filling(p) /\ ppos[p] = q
    PROVE  ItemAt(q)' = ItemAt(q)
<1>1. CASE \E p \in Producer : Filling(p) /\ ppos[p] = q
  <2>1. PICK p \in Producer : Filling(p) /\ ppos[p] = q
    BY <1>1
  <2>2. ItemAt(q) = pitem[p] /\ ItemAt(q)' = pitem'[p]
    BY <2>1, ItemAtValue, ItemAtValueAfter
  <2> QED
    BY <2>1, <2>2
<1>2. CASE \A p \in Producer : ~(Filling(p) /\ ppos[p] = q)
  BY <1>2, ItemAtValue, ItemAtValueAfter
<1> QED
  BY <1>1, <1>2

\* A step that moves neither position and keeps every item keeps the contents.
LEMMA ContentsKept ==
    ASSUME IInv, UNCHANGED <<head, tail>>,
           \A q \in Nat : tail <= q /\ q < head => ItemAt(q)' = ItemAt(q)
    PROVE  Contents' = Contents
<1>1. head \in Nat /\ tail \in Nat
  BY PositionsAreNumbers DEF IInv
<1>2. ASSUME NEW i \in 1..(head - tail)
      PROVE  ItemAt(tail + i - 1)' = ItemAt(tail + i - 1)
  <2>1. tail + i - 1 \in Nat /\ tail <= tail + i - 1 /\ tail + i - 1 < head
    BY <1>1
  <2>2. PICK q \in Nat : q = tail + i - 1
    BY <2>1
  <2>3. ItemAt(q)' = ItemAt(q)
    BY <2>1, <2>2
  <2> QED
    BY <2>2, <2>3
<1> QED
  BY <1>2 DEF Contents

\* So does a step that claims, fills and publishes nothing.
LEMMA ContentsUntouched ==
    ASSUME IInv, IInv', UNCHANGED <<nodes, head, tail>>,
           \A p \in Producer : /\ Filling(p)' <=> Filling(p)
                               /\ Filling(p) => ppos'[p] = ppos[p] /\ pitem'[p] = pitem[p]
    PROVE  Contents' = Contents
<1>1. ASSUME NEW q \in Nat PROVE ItemAt(q)' = ItemAt(q)
  BY ItemAtKept DEF nodes
<1> QED
  BY <1>1, ContentsKept

-----------------------------------------------------------------------------
(* Every step is a step of FifoQueue or is not seen *)

LEMMA InitRefines == Init => Fifo!Init
<1> SUFFICES ASSUME Init PROVE Fifo!Init
  OBVIOUS
<1>1. Contents = <<>>
  <2>1. 1..(head - tail) = {}
    BY DEF Init
  <2> QED
    BY <2>1 DEF Contents
<1>2. Offered = [p \in Producer |-> <<>>] /\ HandedOver = [c \in Consumer |-> <<>>]
  BY DEF Init, Offered, HandedOver
<1> QED
  BY <1>1, <1>2 DEF Init, Fifo!Init

LEMMA CreateRefines ==
    ASSUME IInv, NEW request \in Requests, Create(request)
    PROVE  Fifo!Open
<1>1. /\ capacity = 0 /\ capacity' \in Nat \ {0} /\ head = 0 /\ tail = 0
      /\ UNCHANGED <<head, tail, producers, consumers>>
  BY RequestsAssumption DEF Create, IInv
<1>2. Contents' = Contents
  <2>1. 1..(head - tail) = {}
    BY <1>1
  <2> QED
    BY <1>1, <2>1 DEF Contents
<1>3. Offered' = Offered
  BY <1>1 DEF Offered, producers
<1>4. HandedOver' = HandedOver
  <2>1. \A c \in Consumer : cpc[c] = "idle"
    BY <1>1 DEF IInv, ConsumerSound
  <2> QED
    BY <1>1, <2>1 DEF HandedOver, consumers
<1> QED
  BY <1>1, <1>2, <1>3, <1>4 DEF Fifo!Open

LEMMA DestroyRefines ==
    ASSUME IInv, Destroy
    PROVE  Fifo!Close
<1>1. /\ capacity # 0 /\ capacity' = 0 /\ head' = 0 /\ tail' = 0
      /\ UNCHANGED <<producers, consumers>>
  BY DEF Destroy
<1>2. Contents' = <<>>
  <2>1. 1..(head' - tail') = {}
    BY <1>1
  <2> QED
    BY <2>1 DEF Contents
<1>3. Offered' = Offered
  BY <1>1 DEF Offered, producers
<1>4. HandedOver' = HandedOver
  <2>1. \A c \in Consumer : cpc[c] = "idle"
    BY DEF Destroy, Dequeuing
  <2> QED
    BY <1>1, <2>1 DEF HandedOver, consumers
<1> QED
  BY <1>1, <1>2, <1>3, <1>4 DEF Fifo!Close

LEMMA EnqueueCallRefines ==
    ASSUME IInv, NEW p \in Producer, NEW item \in Item, EnqueueCall(p, item)
    PROVE  Fifo!Offer(p)
<1>1. TypeOK /\ IInv'
  BY EnqueueCallKeeps DEF IInv
<1>2. /\ UNCHANGED <<nodes, head, tail, consumers>> /\ ppc[p] = "idle"
      /\ ppc' = [ppc EXCEPT ![p] = "check"] /\ pitem' = [pitem EXCEPT ![p] = item]
      /\ ppos' = [ppos EXCEPT ![p] = head]
  BY DEF EnqueueCall
<1>3. Contents' = Contents
  BY <1>1, <1>2, ContentsUntouched DEF TypeOK, Filling
<1>4. Offered[p] = <<>>
  BY <1>2 DEF Offered
<1>5. /\ Offered'[p] = <<item>>
      /\ Offered' = [Offered EXCEPT ![p] = Offered'[p]]
  BY <1>1, <1>2 DEF Offered, TypeOK
<1>6. <<item>> \in Seq(Item)
  OBVIOUS
<1>7. HandedOver' = HandedOver
  BY <1>2 DEF HandedOver, nodes, consumers
<1> QED
  BY <1>2, <1>3, <1>4, <1>5, <1>6, <1>7 DEF Fifo!Offer, nodes

\* A call that finds its node occupied withdraws its item or goes on offering it.
LEMMA EnqueueCheckRefines ==
    ASSUME IInv, NEW p \in Producer, EnqueueCheck(p)
    PROVE  Fifo!Withdraw(p) \/ UNCHANGED Fifo!vars
<1>1. TypeOK /\ IInv'
  BY EnqueueCheckKeeps DEF IInv
<1>2. /\ UNCHANGED <<nodes, head, tail, ppos, pitem, consumers>> /\ ppc[p] = "check"
      /\ \E to \in {"cas", "idle", "reload"} : ppc' = [ppc EXCEPT ![p] = to]
  BY DEF EnqueueCheck
<1>3. Contents' = Contents
  BY <1>1, <1>2, ContentsUntouched DEF TypeOK, Filling
<1>4. HandedOver' = HandedOver
  BY <1>2 DEF HandedOver, nodes, consumers
<1>5. CASE ppc'[p] = "idle"
  <2>1. Offered' = [Offered EXCEPT ![p] = <<>>]
    BY <1>1, <1>2, <1>5 DEF Offered, TypeOK
  <2> QED
    BY <1>2, <1>3, <1>4, <2>1 DEF Fifo!Withdraw, nodes
<1>6. CASE ppc'[p] # "idle"
  <2>1. Offered' = Offered
    BY <1>1, <1>2, <1>6 DEF Offered, TypeOK
  <2> QED
    BY <1>2, <1>3, <1>4, <2>1 DEF Fifo!vars, nodes
<1> QED
  BY <1>5, <1>6

LEMMA EnqueueRetryRefines ==
    ASSUME IInv, NEW p \in Producer,
           EnqueueReload(p) \/ (EnqueueCas(p) /\ head # ppos[p])
    PROVE  UNCHANGED Fifo!vars
<1>1. TypeOK /\ IInv'
  BY EnqueueReloadKeeps, EnqueueCasFails DEF IInv
<1>2. /\ UNCHANGED <<nodes, head, tail, pitem, consumers>>
      /\ ppc[p] \in {"reload", "cas"}
      /\ \E to \in {"check", "reload"} : ppc' = [ppc EXCEPT ![p] = to]
      /\ \A q \in Producer \ {p} : ppos'[q] = ppos[q]
  BY <1>1 DEF EnqueueReload, EnqueueCas, TypeOK
<1>3. Contents' = Contents
  <2>1. \A q \in Producer : /\ Filling(q)' <=> Filling(q)
                            /\ Filling(q) => ppos'[q] = ppos[q] /\ pitem'[q] = pitem[q]
    BY <1>1, <1>2 DEF TypeOK, Filling
  <2> QED
    BY <1>1, <1>2, <2>1, ContentsUntouched
<1>4. HandedOver' = HandedOver
  BY <1>2 DEF HandedOver, nodes, consumers
<1>5. Offered' = Offered
  BY <1>1, <1>2 DEF Offered, TypeOK
<1> QED
  BY <1>2, <1>3, <1>4, <1>5 DEF Fifo!vars, nodes

\* The item goes in at the compare-and-swap, before it is written.
LEMMA EnqueueCasRefines ==
    ASSUME IInv, NEW p \in Producer, EnqueueCas(p), head = ppos[p]
    PROVE  Fifo!Enqueue(p)
<1>1. TypeOK /\ IInv' /\ ProducerSound(p)
  BY EnqueueCasSucceeds DEF IInv
<1>2. /\ UNCHANGED <<nodes, tail, ppos, pitem, consumers>> /\ ppc[p] = "cas"
      /\ ppc' = [ppc EXCEPT ![p] = "write"] /\ head' = head + 1
  BY DEF EnqueueCas
<1>3. head \in Nat /\ tail \in Nat /\ tail <= head /\ head < tail + capacity /\ capacity \in Nat
  BY <1>1, PositionsAreNumbers, ClaimFindsNode DEF IInv, Bounded
<1>4. \A q \in Producer : Filling(q)' <=> Filling(q) \/ q = p
  BY <1>1, <1>2 DEF TypeOK, Filling
<1>5. pitem[p] \in Item
  BY <1>1, <1>2 DEF ProducerSound
<1>6. /\ Contents \in Seq(Item) /\ Len(Contents) = head - tail
      /\ \A i \in 1..(head - tail) : Contents[i] = ItemAt(tail + i - 1)
  BY ContentsSeq
<1>7. /\ Contents' \in Seq(Item) /\ Len(Contents') = head - tail + 1
      /\ \A i \in 1..(head - tail + 1) : Contents'[i] = ItemAt(tail + i - 1)'
  <2>1. head' - tail' = head - tail + 1
    BY <1>2, <1>3
  <2> QED
    BY <1>1, <2>1, ContentsSeqAfter
<1>8. ASSUME NEW i \in 1..(head - tail) PROVE Contents'[i] = Contents[i]
  <2>1. PICK q \in Nat : q = tail + i - 1 /\ q # head
    BY <1>3
  <2>2. ItemAt(q)' = ItemAt(q)
    <3>1. \A r \in Producer : Filling(r) /\ ppos[r] = q <=> Filling(r)' /\ ppos'[r] = q
      BY <1>2, <1>4, <2>1
    <3> QED
      BY <1>1, <1>2, <3>1, ItemAtKept DEF nodes
  <2>3. i \in 1..(head - tail + 1)
    BY <1>3
  <2>4. Contents'[i] = ItemAt(q)'
    BY <1>2, <1>7, <2>1, <2>3
  <2> QED
    BY <1>6, <2>1, <2>2, <2>4
<1>9. Contents'[head - tail + 1] = pitem[p]
  <2>1. PICK q \in Nat : q = tail + (head - tail + 1) - 1 /\ q = head
    BY <1>3
  <2>2. ItemAt(q)' = pitem'[p]
    BY <1>1, <1>2, <1>4, <2>1, ItemAtValueAfter
  <2>3. head - tail + 1 \in 1..(head - tail + 1)
    BY <1>3
  <2> QED
    BY <1>2, <1>7, <2>1, <2>2, <2>3
<1>10. Offered[p] = <<pitem[p]>> /\ Offered' = [Offered EXCEPT ![p] = <<>>]
  BY <1>1, <1>2 DEF Offered, TypeOK
<1>11. Contents' = Contents \o <<pitem[p]>>
  <2> HIDE DEF Contents
  <2>1. /\ Append(Contents, pitem[p]) \in Seq(Item)
        /\ Len(Append(Contents, pitem[p])) = head - tail + 1
        /\ \A i \in 1..(head - tail) : Append(Contents, pitem[p])[i] = Contents[i]
        /\ Append(Contents, pitem[p])[head - tail + 1] = pitem[p]
    BY <1>5, <1>6, AppendProperties
  <2>2. \A i \in 1..(head - tail + 1) : Contents'[i] = Append(Contents, pitem[p])[i]
    <3> TAKE i \in 1..(head - tail + 1)
    <3>1. i \in 1..(head - tail) \/ i = head - tail + 1
      BY <1>3
    <3> QED
      BY <1>8, <1>9, <2>1, <3>1
  <2>3. Contents' = Append(Contents, pitem[p])
    BY <1>7, <2>1, <2>2, SeqEqual
  <2>4. Append(Contents, pitem[p]) = Contents \o <<pitem[p]>>
    BY <1>5, <1>6, AppendIsConcat
  <2> QED
    BY <2>3, <2>4
<1>12. Len(Contents') <= capacity
  BY <1>3, <1>7
<1>13. HandedOver' = HandedOver
  BY <1>2 DEF HandedOver, nodes, consumers
<1> QED
  BY <1>2, <1>10, <1>11, <1>12, <1>13 DEF Fifo!Enqueue, nodes

\* The item's node is written after the item went in: nobody notices.
LEMMA EnqueueWriteRefines ==
    ASSUME IInv, NEW p \in Producer, EnqueueWrite(p)
    PROVE  UNCHANGED Fifo!vars
<1>1. TypeOK /\ IInv' /\ ProducerSound(p) /\ Bounded /\ NodeExclusive
  BY EnqueueWriteKeeps, Exclusive DEF IInv
<1>2. /\ UNCHANGED <<capacity, sequence, head, tail, ppos, pitem, consumers>>
      /\ data' = [data EXCEPT ![Slot(ppos[p], capacity)] = pitem[p]]
      /\ ppc[p] = "write" /\ ppc' = [ppc EXCEPT ![p] = "publish"]
  BY DEF EnqueueWrite
<1>3. /\ head \in Nat /\ tail \in Nat /\ capacity \in Nat \ {0} /\ ppos[p] \in Nat
      /\ Filling(p) /\ ppos[p] < head /\ head <= tail + capacity
      /\ sequence[Slot(ppos[p], capacity)] = ppos[p]
  BY <1>1, <1>2, PositionsAreNumbers DEF Filling, ProducerSound, Bounded
<1>4. tail <= ppos[p]
  BY <1>3, ToFillAt DEF ToFill
<1>5. \A q \in Producer : Filling(q)' <=> Filling(q)
  BY <1>1, <1>2 DEF TypeOK, Filling
<1>6. \A s : s # Slot(ppos[p], capacity) => data'[s] = data[s]
  BY <1>1, <1>2 DEF TypeOK
<1>7. ASSUME NEW q \in Nat, tail <= q, q < head PROVE ItemAt(q)' = ItemAt(q)
  <2>1. q = ppos[p] \/ Slot(q, capacity) # Slot(ppos[p], capacity)
    <3>1. CASE q < ppos[p]
      BY <1>3, <1>7, <3>1, SlotInjective
    <3>2. CASE ppos[p] < q
      BY <1>3, <1>4, <1>7, <3>2, SlotInjective
    <3> QED
      BY <1>3, <3>1, <3>2
  <2> QED
    BY <1>1, <1>2, <1>3, <1>5, <1>6, <2>1, ItemAtKept
<1>8. Contents' = Contents
  BY <1>2, <1>7, ContentsKept
<1>9. HandedOver' = HandedOver
  <2>1. ASSUME NEW c \in Consumer, cpc[c] = "read"
        PROVE  data'[Slot(cpos[c], capacity)] = data[Slot(cpos[c], capacity)]
    BY <1>1, <1>3, <1>6, <2>1 DEF NodeExclusive, Draining
  <2> QED
    BY <1>2, <2>1 DEF HandedOver, consumers
<1>10. Offered' = Offered
  BY <1>1, <1>2 DEF Offered, TypeOK
<1> QED
  BY <1>2, <1>8, <1>9, <1>10 DEF Fifo!vars

LEMMA EnqueuePublishRefines ==
    ASSUME IInv, NEW p \in Producer, EnqueuePublish(p)
    PROVE  UNCHANGED Fifo!vars
<1>1. TypeOK /\ IInv' /\ ProducerSound(p)
  BY EnqueuePublishKeeps DEF IInv
<1>2. /\ UNCHANGED <<capacity, data, head, tail, ppos, pitem, consumers>>
      /\ ppc[p] = "publish" /\ ppc' = [ppc EXCEPT ![p] = "idle"]
  BY DEF EnqueuePublish
<1>3. Filling(p) /\ data[Slot(ppos[p], capacity)] = pitem[p]
  BY <1>1, <1>2 DEF Filling, ProducerSound
<1>4. \A q \in Producer : Filling(q)' <=> Filling(q) /\ q # p
  BY <1>1, <1>2 DEF TypeOK, Filling
<1>5. ASSUME NEW q \in Nat PROVE ItemAt(q)' = ItemAt(q)
  <2>1. CASE q = ppos[p]
    <3>1. ItemAt(q) = pitem[p]
      BY <1>3, <2>1, ItemAtValue
    <3>2. \A r \in Producer : ~(Filling(r)' /\ ppos'[r] = q)
      BY <1>1, <1>2, <1>3, <1>4, <2>1 DEF ProducerSound
    <3>3. ItemAt(q)' = data'[Slot(q, capacity')]
      BY <1>1, <3>2, ItemAtValueAfter
    <3> QED
      BY <1>2, <1>3, <2>1, <3>1, <3>3
  <2>2. CASE q # ppos[p]
    BY <1>1, <1>2, <1>4, <2>2, ItemAtKept
  <2> QED
    BY <2>1, <2>2
<1>6. Contents' = Contents
  BY <1>2, <1>5, ContentsKept
<1>7. HandedOver' = HandedOver
  BY <1>2 DEF HandedOver, consumers
<1>8. Offered' = Offered
  BY <1>1, <1>2 DEF Offered, TypeOK
<1> QED
  BY <1>2, <1>6, <1>7, <1>8 DEF Fifo!vars

\* What a consumer does besides claiming a node.
LEMMA DequeueQuietRefines ==
    ASSUME IInv, NEW c \in Consumer,
           \/ DequeueCall(c) \/ DequeueReload(c) \/ DequeueCheck(c) \/ DequeueRead(c)
           \/ DequeueRelease(c) \/ (DequeueCas(c) /\ tail # cpos[c])
    PROVE  UNCHANGED Fifo!vars
<1>1. TypeOK /\ IInv'
  BY DequeueQuietKeeps, DequeueReleaseKeeps, DequeueCasFails DEF IInv
<1>2. UNCHANGED <<capacity, data, head, tail, producers>>
  BY DEF DequeueCall, DequeueReload, DequeueCheck, DequeueRead, DequeueRelease, DequeueCas, nodes
<1>3. Contents' = Contents
  <2>1. ASSUME NEW q \in Nat PROVE ItemAt(q)' = ItemAt(q)
    BY <1>1, <1>2, ItemAtKept DEF Filling, producers
  <2> QED
    BY <1>2, <2>1, ContentsKept
<1>4. Offered' = Offered
  BY <1>2 DEF Offered, producers
<1>5. HandedOver' = HandedOver
  <2> SUFFICES ASSUME NEW d \in Consumer PROVE HandedOver'[d] = HandedOver[d]
    BY DEF HandedOver
  <2>1. CASE d = c
    <3>1. CASE DequeueRead(c)
      BY <1>1, <1>2, <2>1, <3>1 DEF HandedOver, DequeueRead, TypeOK
    <3>2. CASE ~DequeueRead(c)
      <4>1. cpc[c] # "read" /\ cpc'[c] # "read" /\ out'[c] = out[c]
        BY <1>1, <3>2 DEF DequeueCall, DequeueReload, DequeueCheck, DequeueRelease, DequeueCas, TypeOK
      <4> QED
        BY <2>1, <4>1 DEF HandedOver
    <3> QED
      BY <3>1, <3>2
  <2>2. CASE d # c
    <3>1. cpc'[d] = cpc[d] /\ cpos'[d] = cpos[d] /\ out'[d] = out[d]
      BY <1>1, <2>2 DEF DequeueCall, DequeueReload, DequeueCheck, DequeueRead,
                        DequeueRelease, DequeueCas, TypeOK
    <3> QED
      BY <1>2, <3>1 DEF HandedOver
  <2> QED
    BY <2>1, <2>2
<1> QED
  BY <1>2, <1>3, <1>4, <1>5 DEF Fifo!vars

\* The oldest item leaves at the compare-and-swap, before it is read.
LEMMA DequeueCasRefines ==
    ASSUME IInv, NEW c \in Consumer, DequeueCas(c), tail = cpos[c]
    PROVE  /\ 1 \in 1..Len(Contents)
           /\ Fifo!Dequeue(c, 1)
<1>1. TypeOK /\ IInv'
  BY DequeueCasSucceeds DEF IInv
<1>2. /\ UNCHANGED <<nodes, head, producers, cpos, out>> /\ cpc[c] = "cas"
      /\ cpc' = [cpc EXCEPT ![c] = "read"] /\ tail' = tail + 1
  BY DEF DequeueCas
<1>3. /\ head \in Nat /\ tail \in Nat /\ tail < head /\ capacity # 0
      /\ sequence[Slot(tail, capacity)] = tail + 1
  BY <1>1, PositionsAreNumbers, ClaimFindsItem
<1>4. /\ Contents \in Seq(Item) /\ Len(Contents) = head - tail
      /\ \A i \in 1..(head - tail) : Contents[i] = ItemAt(tail + i - 1)
  BY ContentsSeq
<1>5. /\ Contents' \in Seq(Item) /\ Len(Contents') = head - tail - 1
      /\ \A i \in 1..(head - tail - 1) : Contents'[i] = ItemAt(tail + i - 1)'
  <2>1. head' - tail' = head - tail - 1
    BY <1>2, <1>3
  <2> QED
    BY <1>1, <2>1, ContentsSeqAfter
<1>6. ASSUME NEW q \in Nat PROVE ItemAt(q)' = ItemAt(q)
  BY <1>1, <1>2, ItemAtKept DEF Filling, nodes, producers
<1>7. Contents[1] = data[Slot(tail, capacity)]
  <2>1. \A p \in Producer : ~(Filling(p) /\ ppos[p] = tail)
    BY <1>3 DEF IInv, ProducerSound
  <2>2. ItemAt(tail) = data[Slot(tail, capacity)]
    BY <1>3, <2>1, ItemAtValue
  <2>3. 1 \in 1..(head - tail) /\ tail + 1 - 1 = tail
    BY <1>3
  <2> QED
    BY <1>4, <2>2, <2>3
<1>8. 1 \in 1..Len(Contents)
  BY <1>3, <1>4
<1>9. SubSeq(Contents, 1, 1) = <<data[Slot(tail, capacity)]>>
  <2> HIDE DEF Contents
  <2>1. /\ SubSeq(Contents, 1, 1) \in Seq(Item) /\ Len(SubSeq(Contents, 1, 1)) = 1
        /\ SubSeq(Contents, 1, 1)[1] = Contents[1]
    BY <1>4, <1>8, SubSeqProperties, ElementOfSeq
  <2>2. Contents[1] \in Item
    BY <1>4, <1>8, ElementOfSeq
  <2>3. <<Contents[1]>> \in Seq(Item) /\ Len(<<Contents[1]>>) = 1
    BY <2>2
  <2>4. \A i \in 1..1 : SubSeq(Contents, 1, 1)[i] = <<Contents[1]>>[i]
    BY <2>1
  <2>5. SubSeq(Contents, 1, 1) = <<Contents[1]>>
    BY <2>1, <2>3, <2>4, SeqEqual
  <2> QED
    BY <1>7, <2>5
<1>10. Contents' = SubSeq(Contents, 1 + 1, Len(Contents))
  <2> DEFINE rest == SubSeq(Contents, 1 + 1, Len(Contents))
  <2>1. /\ rest \in Seq(Item) /\ Len(rest) = head - tail - 1
        /\ \A i \in 1..(head - tail - 1) : rest[i] = Contents[i + 1]
    BY <1>3, <1>4, <1>8, SubSeqProperties, ElementOfSeq
  <2>2. ASSUME NEW i \in 1..(head - tail - 1)
        PROVE  Contents'[i] = rest[i]
    <3>1. PICK q \in Nat : q = tail + (i + 1) - 1
      BY <1>3
    <3>2. tail' + i - 1 = q /\ i + 1 \in 1..(head - tail)
      BY <1>2, <1>3, <3>1
    <3>3. Contents'[i] = ItemAt(q)'
      BY <1>5, <3>2
    <3>4. rest[i] = ItemAt(q)
      BY <1>4, <2>1, <3>1, <3>2
    <3> QED
      BY <1>6, <3>3, <3>4
  <2>3. Len(Contents') = Len(rest) /\ \A i \in 1..Len(Contents') : Contents'[i] = rest[i]
    BY <1>5, <2>1, <2>2
  <2> HIDE DEF Contents, rest
  <2>4. Contents' = rest
    BY <1>5, <2>1, <2>3, SeqEqual
  <2> QED
    BY <2>4 DEF rest
<1>11. HandedOver' = [HandedOver EXCEPT ![c] = <<data[Slot(tail, capacity)]>>]
  BY <1>1, <1>2 DEF HandedOver, DequeueCas, TypeOK, nodes
<1>12. Offered' = Offered
  BY <1>2 DEF Offered, producers
<1> QED
  BY <1>2, <1>8, <1>9, <1>10, <1>11, <1>12 DEF Fifo!Dequeue, nodes

LEMMA NextRefines == IInv /\ [Next]_vars => [Fifo!Next]_Fifo!vars
<1> SUFFICES ASSUME IInv, [Next]_vars
             PROVE  [Fifo!Next]_Fifo!vars
  OBVIOUS
<1>1. ASSUME NEW request \in Requests, Create(request)
      PROVE  Fifo!Next
  BY <1>1, CreateRefines DEF Fifo!Next
<1>2. CASE Destroy
  BY <1>2, DestroyRefines DEF Fifo!Next
<1>3. ASSUME NEW p \in Producer, NEW item \in Item, EnqueueCall(p, item)
      PROVE  Fifo!Next
  BY <1>3, EnqueueCallRefines DEF Fifo!Next
<1>4. ASSUME NEW p \in Producer, EnqueueStep(p)
      PROVE  Fifo!Next \/ UNCHANGED Fifo!vars
  <2>1. CASE EnqueueCheck(p)
    BY <2>1, EnqueueCheckRefines DEF Fifo!Next
  <2>2. CASE EnqueueReload(p) \/ (EnqueueCas(p) /\ head # ppos[p])
    BY <2>2, EnqueueRetryRefines
  <2>3. CASE EnqueueCas(p) /\ head = ppos[p]
    BY <2>3, EnqueueCasRefines DEF Fifo!Next
  <2>4. CASE EnqueueWrite(p)
    BY <2>4, EnqueueWriteRefines
  <2>5. CASE EnqueuePublish(p)
    BY <2>5, EnqueuePublishRefines
  <2> QED
    BY <1>4, <2>1, <2>2, <2>3, <2>4, <2>5 DEF EnqueueStep
<1>5. ASSUME NEW c \in Consumer, DequeueStep(c) \/ DequeueCall(c)
      PROVE  Fifo!Next \/ UNCHANGED Fifo!vars
  <2>1. CASE DequeueCas(c) /\ tail = cpos[c]
    BY <2>1, DequeueCasRefines DEF Fifo!Next
  <2>2. CASE ~(DequeueCas(c) /\ tail = cpos[c])
    BY <1>5, <2>2, DequeueQuietRefines DEF DequeueStep
  <2> QED
    BY <2>1, <2>2
<1>6. CASE UNCHANGED vars
  <2>1. \A q : ItemAt(q)' = ItemAt(q)
    BY <1>6 DEF vars, nodes, producers, ItemAt, Filling
  <2>2. Contents' = Contents
    BY <1>6, <2>1, ContentsKept DEF vars
  <2> QED
    BY <1>6, <2>2 DEF vars, nodes, producers, consumers, Offered, HandedOver, Fifo!vars
<1> QED
  BY <1>1, <1>2, <1>3, <1>4, <1>5, <1>6 DEF Next

\* Every call takes effect at its compare-and-swap as one step of a bounded FIFO
\* queue, whatever the order in which the claimed nodes are written, published, read
\* and released: eg_mpmc_queue_enqueue and eg_mpmc_queue_dequeue lose, double and
\* reorder nothing.
THEOREM Refinement ==
    ASSUME TwoNodes
    PROVE  Spec => FifoSpec
<1>1. Init => Fifo!Init
  BY InitRefines
<1>2. IInv /\ [Next]_vars => [Fifo!Next]_Fifo!vars
  BY NextRefines
<1> QED
  BY <1>1, <1>2, Invariance, PTL DEF Spec, FifoSpec, Fifo!Spec

=============================================================================
