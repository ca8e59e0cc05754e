------------------------------ MODULE MpmcQueue ------------------------------
(***************************************************************************)
(* eg_mpmc_queue_t: producers and consumers claim positions with a         *)
(* compare-and-swap on head and on tail; the sequence number of a node     *)
(* says whose turn it is.  A step makes one access to shared memory.       *)
(*                                                                         *)
(* Positions and sequence numbers are u64 in the code; MaxPos bounds them. *)
(* The statistics counters are never read by the code and are left out.    *)
(***************************************************************************)
EXTENDS Integers, FiniteSets, Sequences, QueueCapacity

CONSTANTS Producer, Consumer,   \* the threads
          Item,                 \* what producers enqueue
          NoItem,               \* the NULL create puts in a node
          Requests,             \* the capacities create is asked for
          MaxPos                \* bound: no call claims this position

ASSUME NoItemAssumption == NoItem \notin Item
ASSUME RequestsAssumption ==
    \A request \in Requests : RoundedCapacity(request) \in Nat \ {0}
ASSUME BoundsAssumption == MaxPos \in Nat
ASSUME ThreadsAssumption == IsFiniteSet(Producer) /\ IsFiniteSet(Consumer)

VARIABLES capacity,     \* 0 while the queue is not created
          data,         \* of each node
          sequence,     \* of each node
          head,         \* next position to claim for an item
          tail,         \* next position to claim an item from
          ppc, ppos, pitem,   \* of each producer: where it is, pos and item
          cpc, cpos,          \* of each consumer: where it is, pos
          out           \* what a consumer's last successful call handed over

nodes     == <<capacity, data, sequence>>
producers == <<ppc, ppos, pitem>>
consumers == <<cpc, cpos, out>>
vars      == <<nodes, head, tail, producers, consumers>>

Slots == 0..(capacity - 1)

TypeOK ==
    /\ capacity \in Nat
    /\ data \in [Slots -> Item \cup {NoItem}]
    /\ sequence \in [Slots -> Nat]
    /\ head \in 0..MaxPos /\ tail \in 0..MaxPos
    /\ ppc \in [Producer -> {"idle", "reload", "check", "cas", "write", "publish"}]
    /\ ppos \in [Producer -> 0..MaxPos]
    /\ pitem \in [Producer -> Item \cup {NoItem}]
    /\ cpc \in [Consumer -> {"idle", "reload", "check", "cas", "read", "release"}]
    /\ cpos \in [Consumer -> 0..MaxPos]
    /\ out \in [Consumer -> Seq(Item)]

Init ==
    /\ capacity = 0
    /\ data = [s \in {} |-> NoItem] /\ sequence = [s \in {} |-> 0]
    /\ head = 0 /\ tail = 0
    /\ ppc = [p \in Producer |-> "idle"]
    /\ ppos = [p \in Producer |-> 0]
    /\ pitem = [p \in Producer |-> NoItem]
    /\ cpc = [c \in Consumer |-> "idle"]
    /\ cpos = [c \in Consumer |-> 0]
    /\ out = [c \in Consumer |-> <<>>]

Enqueuing == {p \in Producer : ppc[p] # "idle"}
Dequeuing == {c \in Consumer : cpc[c] # "idle"}

-----------------------------------------------------------------------------
(* The owner *)

\* eg_malloc failing leaves the queue as it was: a stuttering step.
Create(request) ==
    /\ capacity = 0
    /\ capacity' = RoundedCapacity(request)
    /\ data' = [s \in 0..(capacity' - 1) |-> NoItem]
    /\ sequence' = [s \in 0..(capacity' - 1) |-> s]
    /\ UNCHANGED <<head, tail, producers, consumers>>

Destroy ==
    /\ capacity # 0 /\ Enqueuing = {} /\ Dequeuing = {}
    /\ capacity' = 0
    /\ data' = [s \in {} |-> NoItem] /\ sequence' = [s \in {} |-> 0]
    /\ head' = 0 /\ tail' = 0
    /\ UNCHANGED <<producers, consumers>>

-----------------------------------------------------------------------------
(* A producer *)

\* The call's first step is its first load of head.
EnqueueCall(p, item) ==
    /\ capacity # 0 /\ ppc[p] = "idle"
    /\ head + Cardinality(Enqueuing) < MaxPos
    /\ pitem' = [pitem EXCEPT ![p] = item]
    /\ ppos' = [ppos EXCEPT ![p] = head]
    /\ ppc' = [ppc EXCEPT ![p] = "check"]
    /\ UNCHANGED <<nodes, head, tail, consumers>>

\* Mutant: the producer that lost its node does not look at head again.
EnqueueReloadStale(p) ==
    /\ ppc[p] = "reload"
    /\ ppc' = [ppc EXCEPT ![p] = "check"]
    /\ UNCHANGED <<nodes, head, tail, ppos, pitem, consumers>>

EnqueueReload(p) ==
    /\ ppc[p] = "reload"
    /\ ppos' = [ppos EXCEPT ![p] = head]
    /\ ppc' = [ppc EXCEPT ![p] = "check"]
    /\ UNCHANGED <<nodes, head, tail, pitem, consumers>>

\* The sign of diff: claim the node, report a full queue, or look again.
EnqueueCheck(p) ==
    LET seq == sequence[Slot(ppos[p], capacity)]
    IN  /\ ppc[p] = "check"
        /\ ppc' = [ppc EXCEPT ![p] = IF seq = ppos[p] THEN "cas"
                                     ELSE IF seq < ppos[p] THEN "idle" ELSE "reload"]
        /\ UNCHANGED <<nodes, head, tail, ppos, pitem, consumers>>

\* Mutant: the claimed node is published with whatever it holds.
EnqueueCasNoWrite(p) ==
    /\ ppc[p] = "cas"
    /\ IF head = ppos[p]
       THEN head' = head + 1 /\ ppc' = [ppc EXCEPT ![p] = "publish"]
       ELSE head' = head     /\ ppc' = [ppc EXCEPT ![p] = "reload"]
    /\ UNCHANGED <<nodes, tail, ppos, pitem, consumers>>

EnqueueCas(p) ==
    /\ ppc[p] = "cas"
    /\ IF head = ppos[p]
       THEN head' = head + 1 /\ ppc' = [ppc EXCEPT ![p] = "write"]
       ELSE head' = head     /\ ppc' = [ppc EXCEPT ![p] = "reload"]
    /\ UNCHANGED <<nodes, tail, ppos, pitem, consumers>>

EnqueueWrite(p) ==
    /\ ppc[p] = "write"
    /\ data' = [data EXCEPT ![Slot(ppos[p], capacity)] = pitem[p]]
    /\ ppc' = [ppc EXCEPT ![p] = "publish"]
    /\ UNCHANGED <<capacity, sequence, head, tail, ppos, pitem, consumers>>

EnqueuePublish(p) ==
    /\ ppc[p] = "publish"
    /\ sequence' = [sequence EXCEPT ![Slot(ppos[p], capacity)] = ppos[p] + 1]
    /\ ppc' = [ppc EXCEPT ![p] = "idle"]
    /\ UNCHANGED <<capacity, data, head, tail, ppos, pitem, consumers>>

-----------------------------------------------------------------------------
(* A consumer *)

DequeueCall(c) ==
    /\ capacity # 0 /\ cpc[c] = "idle"
    /\ cpos' = [cpos EXCEPT ![c] = tail]
    /\ cpc' = [cpc EXCEPT ![c] = "check"]
    /\ UNCHANGED <<nodes, head, tail, producers, out>>

DequeueReload(c) ==
    /\ cpc[c] = "reload"
    /\ cpos' = [cpos EXCEPT ![c] = tail]
    /\ cpc' = [cpc EXCEPT ![c] = "check"]
    /\ UNCHANGED <<nodes, head, tail, producers, out>>

\* Mutant: a consumer whose node was taken by another reports an empty queue.
DequeueCheckNoRetry(c) ==
    /\ cpc[c] = "check"
    /\ cpc' = [cpc EXCEPT ![c] =
                  IF sequence[Slot(cpos[c], capacity)] = cpos[c] + 1 THEN "cas" ELSE "idle"]
    /\ UNCHANGED <<nodes, head, tail, producers, cpos, out>>

\* The sign of diff: claim the node, report an empty queue, or look again.
DequeueCheck(c) ==
    LET seq == sequence[Slot(cpos[c], capacity)]
    IN  /\ cpc[c] = "check"
        /\ cpc' = [cpc EXCEPT ![c] = IF seq = cpos[c] + 1 THEN "cas"
                                     ELSE IF seq < cpos[c] + 1 THEN "idle" ELSE "reload"]
        /\ UNCHANGED <<nodes, head, tail, producers, cpos, out>>

\* Mutant: tail is read and then stored, without compare-and-swap.
DequeueCasBlind(c) ==
    /\ cpc[c] = "cas"
    /\ tail' = cpos[c] + 1
    /\ cpc' = [cpc EXCEPT ![c] = "read"]
    /\ UNCHANGED <<nodes, head, producers, cpos, out>>

DequeueCas(c) ==
    /\ cpc[c] = "cas"
    /\ IF tail = cpos[c]
       THEN tail' = tail + 1 /\ cpc' = [cpc EXCEPT ![c] = "read"]
       ELSE tail' = tail     /\ cpc' = [cpc EXCEPT ![c] = "reload"]
    /\ UNCHANGED <<nodes, head, producers, cpos, out>>

DequeueRead(c) ==
    /\ cpc[c] = "read"
    /\ out' = [out EXCEPT ![c] = <<data[Slot(cpos[c], capacity)]>>]
    /\ cpc' = [cpc EXCEPT ![c] = "release"]
    /\ UNCHANGED <<nodes, head, tail, producers, cpos>>

DequeueRelease(c) ==
    /\ cpc[c] = "release"
    /\ sequence' = [sequence EXCEPT ![Slot(cpos[c], capacity)] = cpos[c] + capacity]
    /\ cpc' = [cpc EXCEPT ![c] = "idle"]
    /\ UNCHANGED <<capacity, data, head, tail, producers, cpos, out>>

-----------------------------------------------------------------------------
EnqueueStep(p) ==
    \/ EnqueueReload(p) \/ EnqueueCheck(p) \/ EnqueueCas(p)
    \/ EnqueueWrite(p) \/ EnqueuePublish(p)

DequeueStep(c) ==
    \/ DequeueReload(c) \/ DequeueCheck(c) \/ DequeueCas(c)
    \/ DequeueRead(c) \/ DequeueRelease(c)

Next ==
    \/ Destroy
    \/ \E request \in Requests : Create(request)
    \/ \E p \in Producer : EnqueueStep(p) \/ \E item \in Item : EnqueueCall(p, item)
    \/ \E c \in Consumer : DequeueStep(c) \/ DequeueCall(c)

Spec == Init /\ [][Next]_vars

\* A thread inside a call keeps running.
Fairness ==
    /\ \A p \in Producer : WF_vars(EnqueueStep(p))
    /\ \A c \in Consumer : WF_vars(DequeueStep(c))

-----------------------------------------------------------------------------
(* Properties *)

Filling(p) == ppc[p] \in {"write", "publish"}
Draining(c) == cpc[c] \in {"read", "release"}

\* No more positions are claimed by producers than there are nodes, none by a
\* consumer before it is claimed by a producer.
Bounded == tail <= head /\ head <= tail + capacity

\* The bound of the model: every call inside may still claim a position.
Waiting == {p \in Producer : ppc[p] \in {"reload", "check", "cas"}}
WithinBound == head + Cardinality(Waiting) <= MaxPos

\* The sequence number of a node is a position still to be filled, or one more
\* than a position that is filled; whoever claimed that position owns the node.
ToFill(s) ==
    /\ Slot(sequence[s], capacity) = s
    /\ tail <= sequence[s] /\ sequence[s] < tail + capacity
    /\ sequence[s] < head => \E p \in Producer : Filling(p) /\ ppos[p] = sequence[s]

ToDrain(s) ==
    /\ 1 <= sequence[s] /\ Slot(sequence[s] - 1, capacity) = s
    /\ sequence[s] <= head /\ head < sequence[s] + capacity
    /\ data[s] \in Item
    /\ sequence[s] <= tail => \E c \in Consumer : Draining(c) /\ cpos[c] = sequence[s] - 1

NodesInTurn == \A s \in Slots : ToFill(s) \/ ToDrain(s)

\* What a producer inside a call may rely on: nobody else fills its node, and a
\* compare-and-swap that will succeed still has the node it checked.
ProducerSound(p) ==
    /\ ppc[p] # "idle" => capacity # 0 /\ ppos[p] <= head /\ pitem[p] \in Item
    /\ ppc[p] = "cas" /\ ppos[p] = head => sequence[Slot(ppos[p], capacity)] = ppos[p]
    /\ Filling(p) =>
          /\ ppos[p] < head /\ sequence[Slot(ppos[p], capacity)] = ppos[p]
          /\ \A q \in Producer : Filling(q) /\ ppos[q] = ppos[p] => q = p
    /\ ppc[p] = "publish" => data[Slot(ppos[p], capacity)] = pitem[p]

ConsumerSound(c) ==
    /\ cpc[c] # "idle" => capacity # 0 /\ cpos[c] <= tail
    /\ cpc[c] = "cas" /\ cpos[c] = tail => sequence[Slot(cpos[c], capacity)] = cpos[c] + 1
    /\ Draining(c) =>
          /\ cpos[c] < tail /\ sequence[Slot(cpos[c], capacity)] = cpos[c] + 1
          /\ \A d \in Consumer : Draining(d) /\ cpos[d] = cpos[c] => d = c

\* A claimed node belongs to one thread until its sequence number is stored:
\* the plain accesses to node->data never race.
NodeExclusive ==
    /\ \A p, q \in Producer : Filling(p) /\ Filling(q) /\ p # q =>
          Slot(ppos[p], capacity) # Slot(ppos[q], capacity)
    /\ \A c, d \in Consumer : Draining(c) /\ Draining(d) /\ c # d =>
          Slot(cpos[c], capacity) # Slot(cpos[d], capacity)
    /\ \A p \in Producer, c \in Consumer : Filling(p) /\ Draining(c) =>
          Slot(ppos[p], capacity) # Slot(cpos[c], capacity)

\* The nodes of eg_mpmc_queue_t while producers and consumers race for them: the
\* sequence numbers pass every node from one owner to the next, and nobody
\* touches the data of a node that is not its own.
NodesSound ==
    /\ TypeOK /\ Bounded /\ WithinBound /\ NodesInTurn
    /\ \A p \in Producer : ProducerSound(p)
    /\ \A c \in Consumer : ConsumerSound(c)
    /\ NodeExclusive

\* A dequeue that returns false found nothing claimed, or found the producer of
\* the oldest item still between its compare-and-swap and its sequence store.
EmptyHasCause ==
    [][\A c \in Consumer : cpc[c] = "check" /\ cpc'[c] = "idle" =>
          \/ head = tail
          \/ \E p \in Producer : Filling(p) /\ ppos[p] = tail]_vars

\* An enqueue that returns false found every node claimed, or found the consumer
\* of the node it needs still between its compare-and-swap and its release.
FullHasCause ==
    [][\A p \in Producer : ppc[p] = "check" /\ ppc'[p] = "idle" =>
          \/ head - tail = capacity
          \/ \E c \in Consumer : Draining(c) /\ cpos[c] + capacity = head]_vars

\* What a false returned by eg_mpmc_queue_enqueue or eg_mpmc_queue_dequeue means to
\* its caller.
FailureHasCause == EmptyHasCause /\ FullHasCause

\* An item is in the queue from the moment its producer's compare-and-swap
\* succeeds, although its node may not be written yet.
ItemAt(position) ==
    IF \E p \in Producer : Filling(p) /\ ppos[p] = position
    THEN pitem[CHOOSE p \in Producer : Filling(p) /\ ppos[p] = position]
    ELSE data[Slot(position, capacity)]

Contents == [i \in 1..(head - tail) |-> ItemAt(tail + i - 1)]

\* What the calls that have not claimed a position are about to put in.
Offered == [p \in Producer |->
               IF ppc[p] \in {"reload", "check", "cas"} THEN <<pitem[p]>> ELSE <<>>]

\* A consumer has its item once its compare-and-swap succeeds.
HandedOver == [c \in Consumer |->
                  IF cpc[c] = "read" THEN <<data[Slot(cpos[c], capacity)]>> ELSE out[c]]

Fifo == INSTANCE FifoQueue WITH
            Sender <- Producer, Receiver <- Consumer,
            queue <- Contents, offer <- Offered, out <- HandedOver

\* Every successful call takes effect at its compare-and-swap as one step of a
\* bounded FIFO queue: no item is lost, duplicated or overtaken, whatever the
\* order in which the claimed nodes are written and read.
FifoSpec == Fifo!Spec

\* The compare-and-swap loops are lock-free, not wait-free: a call may lose to others
\* for ever, but then others return; as long as somebody is inside, some call of the
\* same side returns, and a call that is alone does.
SomeCallReturns ==
    /\ \/ []<>(Enqueuing = {})
       \/ []<><<\E p \in Producer : ppc[p] # "idle" /\ ppc'[p] = "idle">>_vars
    /\ \/ []<>(Dequeuing = {})
       \/ []<><<\E c \in Consumer : cpc[c] # "idle" /\ cpc'[c] = "idle">>_vars
=============================================================================
