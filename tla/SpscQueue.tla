------------------------------ MODULE SpscQueue ------------------------------
(***************************************************************************)
(* eg_spsc_queue_t: one producer thread and one consumer thread share a    *)
(* ring of capacity slots through two positions, head and tail.  A step    *)
(* makes at most one access to memory the other thread writes, so every    *)
(* interleaving of the two threads is a behaviour of Spec.                 *)
(*                                                                         *)
(* Positions count from 0 and the code keeps them in a u64; MaxPos bounds  *)
(* them here.  The statistics counters are written and never read by the   *)
(* code, and are left out.                                                 *)
(***************************************************************************)
EXTENDS Integers, Sequences, QueueCapacity

CONSTANTS Item,       \* what the producer enqueues
          NoItem,     \* the NULL that memset leaves in a slot
          Requests,   \* the capacities create is asked for
          MaxBatch,   \* the longest batch a bulk call is given
          MaxPos      \* bound: the producer stops at this position

ASSUME NoItemAssumption == NoItem \notin Item
ASSUME RequestsAssumption ==
    \A request \in Requests : RoundedCapacity(request) \in Nat \ {0}
ASSUME BoundsAssumption == MaxBatch \in Nat /\ MaxPos \in Nat

VARIABLES capacity,     \* 0 while the queue is not created
          buffer,       \* the ring, indexed by position & mask
          head,         \* next position to publish; written by the producer
          tail,         \* next position to take; written by the consumer
          head_cache,   \* the consumer's last look at head
          tail_cache,   \* the producer's last look at tail
          batch,        \* what the producer's call puts in; <<>> outside a call
          written,      \* how much of batch is in the buffer
          want,         \* how many slots the consumer's call takes; 0 outside
          got,          \* the slots it has read
          peeking,      \* the call is eg_spsc_queue_peek
          out           \* what the last successful call handed to its caller

shared   == <<capacity, buffer>>
producer == <<tail_cache, batch, written>>
consumer == <<head_cache, want, got, peeking, out>>
vars     == <<shared, head, tail, producer, consumer>>

Slots == 0..(capacity - 1)

TypeOK ==
    /\ capacity \in Nat
    /\ buffer \in [Slots -> Item \cup {NoItem}]
    /\ head \in 0..MaxPos /\ tail \in 0..MaxPos
    /\ head_cache \in 0..MaxPos /\ tail_cache \in 0..MaxPos
    /\ batch \in Seq(Item) /\ written \in 0..Len(batch)
    /\ want \in Nat /\ got \in Seq(Item) /\ Len(got) <= want
    /\ peeking \in BOOLEAN
    /\ out \in Seq(Item)

ProducerIdle == batch = <<>>
ConsumerIdle == want = 0

Smaller(a, b) == IF a <= b THEN a ELSE b

Init ==
    /\ capacity = 0 /\ buffer = [s \in {} |-> NoItem]
    /\ head = 0 /\ tail = 0 /\ head_cache = 0 /\ tail_cache = 0
    /\ batch = <<>> /\ written = 0
    /\ want = 0 /\ got = <<>> /\ peeking = FALSE /\ out = <<>>

-----------------------------------------------------------------------------
(* The owner, before it starts the two threads and after it has joined them. *)

\* eg_malloc failing leaves the queue as it was: a stuttering step.
Create(request) ==
    /\ capacity = 0
    /\ capacity' = RoundedCapacity(request)
    /\ buffer' = [s \in 0..(capacity' - 1) |-> NoItem]
    /\ UNCHANGED <<head, tail, producer, consumer>>

Destroy ==
    /\ capacity # 0 /\ ProducerIdle /\ ConsumerIdle
    /\ capacity' = 0 /\ buffer' = [s \in {} |-> NoItem]
    /\ head' = 0 /\ tail' = 0 /\ head_cache' = 0 /\ tail_cache' = 0
    /\ UNCHANGED <<batch, written, want, got, peeking, out>>

-----------------------------------------------------------------------------
(* The producer *)

\* Mutant: the full check lets one item too many in.
AvailableOffByOne(t) == capacity + 1 - (head - t)

\* Free slots, for a producer that believes the consumer is at t.
Available(t) == capacity - (head - t)

\* A bulk call up to its decision: it looks at tail again only when the cached
\* position leaves too little room, and returns 0 if no slot is free even then.
EnqueueBulk(items) ==
    /\ capacity # 0 /\ ProducerIdle
    /\ head + Len(items) <= MaxPos
    /\ tail_cache' = IF Available(tail_cache) < Len(items) THEN tail ELSE tail_cache
    /\ batch' = SubSeq(items, 1, Smaller(Len(items), Available(tail_cache')))
    /\ UNCHANGED <<shared, head, tail, written, consumer>>

\* The single call makes the same decision with a batch of one.
Enqueue(item) == EnqueueBulk(<<item>>)

EnqueueWrite ==
    /\ written < Len(batch)
    /\ buffer' = [buffer EXCEPT ![Slot(head + written, capacity)] = batch[written + 1]]
    /\ written' = written + 1
    /\ UNCHANGED <<capacity, head, tail, tail_cache, batch, consumer>>

\* Mutant: the copy loop stops one slot short.
EnqueuePublishOneShort ==
    /\ ~ProducerIdle /\ written + 1 >= Len(batch)
    /\ head' = head + Len(batch)
    /\ batch' = <<>> /\ written' = 0
    /\ UNCHANGED <<shared, tail, tail_cache, consumer>>

EnqueuePublish ==
    /\ ~ProducerIdle /\ written = Len(batch)
    /\ head' = head + Len(batch)
    /\ batch' = <<>> /\ written' = 0
    /\ UNCHANGED <<shared, tail, tail_cache, consumer>>

-----------------------------------------------------------------------------
(* The consumer *)

\* Mutant: the consumer never looks at head again once it has seen an item.
DecideNoRefresh(n, peek) ==
    /\ capacity # 0 /\ ConsumerIdle
    /\ head_cache' = IF head_cache = 0 THEN head ELSE head_cache
    /\ want' = Smaller(n, head_cache' - tail)
    /\ peeking' = (peek /\ want' > 0)
    /\ UNCHANGED <<shared, head, tail, producer, got, out>>

\* Mutant: max_count is not cut down to what is available.
DecideNoClamp(n, peek) ==
    /\ capacity # 0 /\ ConsumerIdle
    /\ head_cache' = IF tail >= head_cache THEN head ELSE head_cache
    /\ want' = IF head_cache' = tail THEN 0 ELSE n
    /\ peeking' = (peek /\ want' > 0)
    /\ UNCHANGED <<shared, head, tail, producer, got, out>>

\* The decision every consumer call makes: look at head again only when the
\* cached position says empty, then take at most what the cached one allows.
Decide(n, peek) ==
    /\ capacity # 0 /\ ConsumerIdle
    /\ head_cache' = IF tail >= head_cache THEN head ELSE head_cache
    /\ want' = Smaller(n, head_cache' - tail)
    /\ peeking' = (peek /\ want' > 0)
    /\ UNCHANGED <<shared, head, tail, producer, got, out>>

DequeueBulk(n) == Decide(n, FALSE)
Dequeue == Decide(1, FALSE)
Peek == Decide(1, TRUE)

DequeueRead ==
    /\ Len(got) < want /\ ~peeking
    /\ got' = Append(got, buffer[Slot(tail + Len(got), capacity)])
    /\ UNCHANGED <<shared, head, tail, producer, head_cache, want, peeking, out>>

DequeuePublish ==
    /\ ~ConsumerIdle /\ Len(got) = want
    /\ tail' = tail + want
    /\ out' = got
    /\ want' = 0 /\ got' = <<>>
    /\ UNCHANGED <<shared, head, producer, head_cache, peeking>>

PeekRead ==
    /\ peeking
    /\ out' = <<buffer[Slot(tail, capacity)]>>
    /\ want' = 0 /\ peeking' = FALSE
    /\ UNCHANGED <<shared, head, tail, producer, head_cache, got>>

-----------------------------------------------------------------------------
Batches == UNION {[1..n -> Item] : n \in 1..MaxBatch}

OwnerNext == Destroy \/ \E request \in Requests : Create(request)

ProducerNext ==
    \/ \E item \in Item : Enqueue(item)
    \/ \E items \in Batches : EnqueueBulk(items)
    \/ EnqueueWrite
    \/ EnqueuePublish

ConsumerNext ==
    \/ Dequeue
    \/ \E n \in 1..MaxBatch : DequeueBulk(n)
    \/ Peek
    \/ DequeueRead
    \/ DequeuePublish
    \/ PeekRead

Next == OwnerNext \/ ProducerNext \/ ConsumerNext

Spec == Init /\ [][Next]_vars

\* A call that was started runs to its end (every call is a bounded number of
\* instructions), and each thread calls again and again.
Fairness ==
    /\ WF_vars(EnqueueWrite \/ EnqueuePublish)
    /\ WF_vars(DequeueRead \/ DequeuePublish \/ PeekRead)
    /\ SF_vars(\E item \in Item : Enqueue(item))
    /\ SF_vars(Dequeue)


-----------------------------------------------------------------------------
(* Properties *)

\* The positions and the two caches keep their order, so none of the unsigned
\* differences of the calls wraps: a stale cache only ever makes the queue look
\* fuller to the producer and emptier to the consumer than it is.
IndicesOrdered ==
    /\ tail_cache <= tail
    /\ tail <= head_cache
    /\ head_cache <= head
    /\ head <= tail_cache + capacity

\* The slots the producer's call is filling are never the ones the consumer's
\* call is reading: the plain accesses to buffer do not race.
Filling == {Slot(head + i, capacity) : i \in written..(Len(batch) - 1)}
Reading == {Slot(tail + i, capacity) : i \in Len(got)..(want - 1)}
NoDataRace == Filling \cap Reading = {}

\* A call stays within what its decision allowed: the producer's batch fits
\* behind the last known tail, the consumer's slots end at the last known head.
CallsInBounds ==
    /\ head + Len(batch) <= MaxPos
    /\ head + Len(batch) <= tail_cache + capacity
    /\ tail + want <= head_cache
    /\ peeking => want = 1 /\ got = <<>>

\* Every published slot holds an item, the slots behind head hold what the
\* producer's call has written so far, and what the consumer's call has read is
\* still what the slots hold.
SlotsHoldItems ==
    /\ \A p \in tail..(head - 1) : buffer[Slot(p, capacity)] \in Item
    /\ \A i \in 1..written : buffer[Slot(head + i - 1, capacity)] = batch[i]
    /\ \A i \in 1..Len(got) : got[i] = buffer[Slot(tail + i - 1, capacity)]

\* eg_spsc_queue_t between any two steps of its two threads: positions, calls and
\* slots agree, although each side only knows an old position of the other.  It is
\* the inductive invariant of ContainersProofs.
IInv == TypeOK /\ IndicesOrdered /\ CallsInBounds /\ SlotsHoldItems

\* The queue as its callers see it: the items at the positions tail to head.
Contents == [i \in 1..(head - tail) |-> buffer[Slot(tail + i - 1, capacity)]]
Fifo == INSTANCE FifoQueue WITH
            Sender <- {"producer"},
            Receiver <- {"consumer"},
            queue <- Contents,
            offer <- [s \in {"producer"} |-> batch],
            out <- [r \in {"consumer"} |-> out]

\* Every call of the two threads, one slot access at a time, takes effect at
\* its store to head or tail as one step of a bounded FIFO queue.
FifoSpec == Fifo!Spec

\* An item that was published is taken, unless the queue is destroyed first.
PublishedIsTaken ==
    \A p \in 0..(MaxPos - 1) : head > p ~> (tail > p \/ capacity = 0)

\* A producer that keeps trying gets its item in: a full queue is noticed to
\* have room again although the caller only sees a cached tail.
ProducerGetsIn ==
    \A p \in 0..(MaxPos - 1) :
        (capacity # 0 /\ head = p) ~> (head > p \/ capacity = 0)
=============================================================================
