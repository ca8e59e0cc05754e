# EdgeGateway: models, checks and proofs

This directory holds TLA+ specifications of EdgeGateway (`src/edge-gateway`),
the TLC configurations that check them on small instances, and proofs checked
by TLAPS. Paths below are relative to `src/edge-gateway`. Every file
`X(1).ext` of the repository is a byte-identical copy of `X.ext`; only `X.ext`
is referred to, so half of the lines under `src/` have no entry in the map.

## 1. Inventory

| Component | Code | State | Operations | What is hard | What makes it correct |
|---|---|---|---|---|---|
| SPSC queue | `src/common/lock_free_queue.c:15-164`, `include/lock_free_queue.h:45-155` | ring, `head`, `tail`, a cached copy of each | create, destroy, enqueue(_bulk), dequeue(_bulk), peek, size | two threads without a lock, decisions from stale copies | bounded FIFO, no slot filled and read at once, no wrap of a difference, nothing stays inside for ever |
| MPMC queue | `lock_free_queue.c:170-262` | nodes with sequence numbers, `head`, `tail` | create, destroy, enqueue, dequeue, size | compare-and-swap races, a claimed node that is not yet written | bounded FIFO, one user per node, `false` only with a cause, lock-free: somebody always gets through |
| Work-stealing queue | `lock_free_queue.c:268-355` | slots, `top`, `bottom` | create, destroy, push, pop, steal | owner and thieves race for the last item, `bottom` is moved first and repaired later | a deque in which each item goes to one thread |
| Byte ring | `lock_free_queue.c:362-480`, `lock_free_queue.h:257-319` | bytes, `read_pos`, `write_pos` | create, destroy, write, read, peek, skip, clear | two-piece copies, positions that wrap at the width of `usize` | bounded FIFO of bytes |
| Memory pool | `src/common/memory_pool.c:1-498` | size classes with free lists, the cursor of the large region, a spinlock | create, destroy, alloc, calloc, aligned_alloc, realloc, free, check, get_stats, the default pool | check reads without the lock, `current_usage` has two meanings, failing creates | no block lost, listed twice or shared; mapping returned |
| Object pool | `memory_pool.c:504-597` | a stack of free objects | create, destroy, acquire, release, set_callbacks | roll-back of a failing create, failing constructors | an object has one owner, no block of the memory pool is lost |
| Protocol | `src/common/protocol.c`, `include/protocol.h` | parser state and three partial buffers | init, reset, parse, get_frame; build_*, verify, find | frames cut anywhere, corrupted and oversized frames, 16-bit lengths, a reused buffer | the meaning of a stream does not depend on how it is cut; what is built is found and verified |
| Epoll server | `src/linux/server/epoll_server.c` | per connection: buffers, parser, state; per worker: epoll, table, free list; global: listening socket, counters, pool | accept, read, write, close, start, stop | edge-triggered events, partial sends, failing allocations, several workers on one socket, stop at any moment | no event lost, whole acknowledgements, closed only for a cause, slots and buffers conserved, stop ends unless clients keep a worker busy for ever |
| Metrics exporter | `monitoring/exporter.c` | counters, gauges, a histogram; a thread with a socket | increments, observe, collect, format, serve | updates and scrapes interleave, one client at a time | what a page says is coherent; clients are answered |
| De-duplication | `src/common/algorithm.c:1-270` | two Bloom filters, a window | hash, add, contains, check | window switch, false positives, wrapping hashes, failing allocations | nothing inside the window is reported new |
| B-tree | `algorithm.c:271-512` | nodes of up to order - 1 keys | create, insert, search, destroy | splits on the way down, duplicate keys | balanced, sorted, complete |
| CRC and checksums | `src/common/crc32.c` | lazily filled tables | init, update, final, verify, SSE4.2 and STM32 versions | unsynchronised first use, data in pieces, alignment | remainders of the whole data, whichever version computes them |
| STM32 board | `src/embedded/hal/stm32h7xx_hal_msp.c` | clocks, pins, DMA streams, interrupts | clock configuration, MspInit and MspDeInit, handlers, hooks | ports and controllers shared by peripherals, interrupts between two statements | whatever is configured is clocked, an interrupt finds its handle |
| Types, configuration | `include/types.h`, `include/config.h` | none | word macros | shifts and masks of 64 bits | |
| Unit tests | `tests/test_memory_pool.c` | fixture and two pools | twelve tests | | they pass |
| Build, CI, documents | `Makefile`, ... | none | | | |

How they interact: the server's workers own connections; a connection holds
three blocks of the default pool (receive, send and payload buffer), one
parser, and answers heartbeats through its send buffer. The parser and the
builders of frames call CRC. Bloom filters and the object pool live in the
pool. The queues are a library: each worker has an SPSC `task_queue` that
nothing fills. The exporter is a library of functions any thread may call, with
a thread of its own; nothing in the repository calls it. Nothing is persisted:
there is no restart to recover from, and a message that is lost is lost by TCP
and ends its connection.

## 2. Modules

| Module | Models | Notes |
|---|---|---|
| `FifoQueue` | what the SPSC queue, the MPMC queue and the byte ring promise | abstract: each operation one step; `offer` holds what a call is about to put in, so that an implementation that publishes anything else is refuted |
| `WorkDeque` | what the work-stealing queue promises | abstract |
| `SlidingWindow` | what the deduplicator promises | abstract |
| `QueueCapacity` | rounding up to a power of two, position to slot | shared by the four queues |
| `SpscQueue` | the SPSC queue | one access to the other thread's memory per step |
| `SpscMonitor` | `eg_spsc_queue_size/empty/full` called by either side or a third thread | extends `SpscQueue` |
| `MpmcQueue` | the MPMC queue | one step per shared access; a program counter per thread |
| `WsQueue` | the work-stealing queue | one step per shared access |
| `RingBuffer` | the byte ring | positions really wrap, modulo `Word` |
| `MemoryPool` | layout, alloc, calloc, aligned_alloc, realloc, free, check, get_stats, create, destroy | addresses are offsets from `pool_start` |
| `CheckedPool` | `MemoryPool` with a history variable: which checks were undisturbed | |
| `ObjectPool` | the object pool over a memory pool that others use too | calls are atomic: it takes no lock |
| `PoolTests` | the unit tests, call by call, on `MemoryPool`'s own actions | extends `MemoryPool` |
| `ProtoParser` | `eg_proto_parse` turn by turn, reset, build and verify; `DecodedFrom` and `Decode`, the meaning of a whole stream from each place and from its beginning | used by `Connection` |
| `Frames` | the builders of frames, `verify_frame` and the walk through a buffer, with real sizes | |
| `Connection` | a connection of the server, its worker, epoll's edges, the peer | extends `ProtoParser` |
| `EpollServer` | main, the workers with the loops of `handle_read` and `handle_accept`, tables, free lists, counters, the pool's account; clients that come back | that there are bytes is one bit here; what a worker does with them is `Connection` |
| `Exporter` | every `metrics_` function statement by statement, the page value by value, `/proc`, the exporter's thread and its clients | |
| `Words`, `Checksums` | machine words as sets of bit positions; the functions of `crc32.c` on them; CRCs as remainders by the generators of the standards | pure |
| `Crc32` | threads that fill the tables and compute CRCs in pieces | |
| `Hashes` | `murmur3_32`, the SSE4.2 and STM32 versions of the CRC, the macros of `types.h` | |
| `Dedup` | Bloom filters and the deduplicator | implements `SlidingWindow` |
| `BTree` | the B-tree; a node is a record of entries and children | |
| `Board` | `stm32h7xx_hal_msp.c` statement by statement, interrupts and hooks in between | |
| `Containers` | the SPSC queue and the deduplicator, side by side | what `MCContainers` and `ContainersProofs` share |
| `MCMpmcQueue`, `MCMemoryPool`, `MCEpollServer`, `MCExporter`, `MCPoolTests` | instances for TLC: small tables, symmetry | |
| `MCContainers`, `MCAlgorithms`, `MCConnection`, `MCLiveness`, `MCParts` | several modules that share nothing, side by side: `subject` says which of them a behaviour is of, the others stay in their initial state | |
| `QueueCapacityProofs` | lemmas on capacities and slots, used by the four queues' proofs | |
| `MpmcQueueProofs`, `WsQueueProofs`, `EpollServerProofs`, `ConnectionProofs`, `MemoryPoolProofs` | theorems and proofs about the module each is named after, the last one about `CheckedPool`, too | section 4 |
| `ContainersProofs` | the same about `SpscQueue`, `SpscMonitor` and `Dedup` | extends `Containers` |
| `PartsProofs` | the same about `RingBuffer`, `ObjectPool` and `Exporter` | extends `MCParts`, with its two buckets for the exporter |

How the models correspond to the code: each action stands for the code between
two points at which another thread can observe or change something.
A call whose decision makes it return without effect is a stuttering step or
leaves the caller idle. Names are the code's where TLA+ allows it; the values
the models choose are:

* **Queues.** `capacity = 0` is a queue that is not created (or destroyed). A
  bulk call keeps its batch in `batch` and counts `written`; `out` is what the
  last successful call gave its caller. The single-item calls are the bulk
  calls with a batch of one: the two functions of the code decide alike.
* **Memory model.** Steps are sequentially consistent. The code's
  `eg_atomic_*` are sequentially consistent builtins (`include/types.h`), and
  the plain accesses to slots are shown not to race (`NoDataRace`,
  `NodeExclusive`), so interleaving semantics covers them. The one deliberate
  exception is `eg_wsqueue_steal`, whose plain slot read can meet a push;
  its value is discarded when the compare-and-swap fails. The CRC tables have
  no atomics at all: `Crc32` takes stores to be seen in program order, which
  x86 gives and the C language does not.
* **Pool.** A critical section is split where `eg_mempool_check`, which takes
  no lock, can look in between. `held` is what the callers own.
* **Connection.** `ready` is epoll's list of edges, `Level` what epoll finds
  when it reports one. `frames`, `acks` and `sent` are history. The header is
  shortened to one byte per field the parser looks at, the checksum to two.
  The kernel and the peer are external actions.
* **Server.** Each worker has an epoll instance with a set of reported events
  and a batch it works through; the listening socket's backlog is shared. A
  worker in `handle_read` (`pc` is `"read"`) receives as often as there is
  something unread and leaves at EAGAIN, end of file or an error; one in
  `handle_accept` accepts as often as somebody waits. Clients send as often as
  they like and connect again after the server has closed their connection, so
  that neither loop need end.
  Allocation of a large block is modelled by what `MemoryPool` does with one:
  it takes from `left`, and free gives nothing back.
* **Frames.** `mem` maps an address to what was last written there, as far as
  nothing overwrote it; a checksum is known by what it was computed from.
* **Hashes of the deduplicator** are constants of the instance, so that
  collisions are chosen rather than searched for; `Hashes` has the function
  that computes them. The size of a filter is computed as the code does, with
  its own approximation of the logarithm, on rational numbers.
* **Checksums.** The polynomials of `crc32.h` are written as the header has them,
  bit by bit, and used by nothing but the functions of `crc32.c`. What the
  results are compared with, the remainder and the two kinds of hardware, uses
  the generators as the standards write them (`IEEE`, `CASTAGNOLI`, `MODBUS`,
  `CCITT`), so that a wrong bit in either is a disagreement.

## 3. What TLC checks

Each run that must pass:

| Run | Module | Instance | Properties | Shows |
|---|---|---|---|---|
| `containers` | `MCContainers` | SPSC: 2 items, capacities 1, 2, 4, batches of 2, positions to 5. Filters of 24 bits and 8 hashes, 4 items, windows of 2. B-trees of order 4 with up to 9 entries. 654 733 states | `IInv`, `NoDataRace`, `FifoSpec`, `OwnSizeNeverOver`, `ArraysConserved`, `WindowSpec`, `TreeSound` | the inductive invariant that is proved; no slot filled and read at once; the SPSC queue implements `FifoQueue`; `size` is right when its own sides call it; the deduplicator implements `SlidingWindow`; shape, contents and answers of the B-tree |
| `mpmc_safety` | `MCMpmcQueue` | 2 producers, 2 consumers, 2 items, capacities 2, 4, positions to 4; 1.4 M states | `NodesSound`, `FailureHasCause`, `FifoSpec` | bound, one user per node, causes of `false`, refinement of `FifoQueue` |
| `connection` | `MCConnection` | streams of up to three good and bad messages, receive buffer 4, send buffer 5, kernel buffer 3. Two frames, of 0, 1, 170, 171 or 2731 points or 4097 bytes, into 38 or 4110 bytes. 263 678 states | `BuffersSuffice`, `FramesAsDecoded`, `AcksWhole`, `ClosedForCause`, `NoEdgeLost`, `FramesWhole` | decoding independent of cutting, no lost edge, whole acknowledgements, closing only for a cause; what is built is found and verified |
| `pool` | `MCMemoryPool` | 2 threads, classes of 2 and 1 blocks, arrays, an alignment, requests of 1, 3 and 5 units; 222 991 states | `PoolSound`, `NoOverlap`, `CheckAlonePasses` | blocks conserved, aligned blocks inside their raw ones, statistics, mapping balance; no overlap for whole-block requests; undisturbed checks pass |
| `server` | `MCEpollServer` | 2 workers with 1 slot each, 2 clients that come back, batches of 2 events, room for one connection and two buffers of another, never refilled; 645 800 states | `TablesSound`, `BuffersAccounted`, `FreedAfterJoin` | slots, sockets, counters and buffers agree between any two steps; nothing is freed under a running worker |
| `liveness` | `MCLiveness` | SPSC: 1 item, capacities 1, 2. MPMC: 2 producers, 1 consumer, capacity 2. Work-stealing: owner and 1 thief, capacity 2, positions to 4. Exporter: 2 clients. Server: 1 worker with 1 slot, 2 clients that come back, batches of 2 events, room for one connection. 20 878 states | `SpscMoves`, `SomeCallReturns`, `LeftToThieves`, `ScrapesAnswered`, `ClientsServed`, `StopEnds` | stale caches starve nobody; on either side of the MPMC queue calls go on returning; the thief takes what is left; scrapes are answered; clients of the server that come to rest are answered and gone ones closed; a signal ends the process, unless clients keep a worker in a loop of its own for ever |
| `algorithms` | `MCAlgorithms` | Work-stealing: owner, 2 thieves, 2 items, capacity 2, positions to 4. 2 threads and up to 4 bytes of CRC; up to 16 bytes of hash. 1.27 M states | `PositionsSound`, `DequeSpec`, `FailedStealHasCause`, `RemaindersExact`, `ChecksumsDetect`, `HashesExact` | the work-stealing queue implements `WorkDeque`, and a steal fails only for a cause; CRCs by any way are remainders, damage is noticed; the hash gives published values; masks are remainders by the rounded capacity |
| `parts` | `MCParts` | byte ring: 2 byte values, capacities 2, 4, transfers to 3, `Word` 8. Object pool: 5 blocks, capacities 0 to 3. Exporter: 2 callers with two kinds of calls, 2 clients, 4 events. Board: all calls in any order. Unit tests: the code's tables, a buffer of 128 KB. 441 912 states | `RingSound`, `FifoSpec`, `ObjectsConserved`, `PagesCoherent`, `BoardConsistent`, `SuitePasses` | the ring implements `FifoQueue`; objects and blocks conserved; pages read in the middle of updates are coherent; clocks, pins and interrupts consistent in the middle of any call; the tests pass |

Runs that find the code in disagreement with what it, its documents or its
tests say:

| Run | Property | What happens |
|---|---|---|
| `pool_overlap` | `NoOverlap` | a small block that was not asked for in full is freed, the cursor of the large region moves back over blocks in use |
| `pool_tests` | `SuitePasses` | the fixture's buffer of 64 KB cannot hold the size classes, 128 KB: create fails and with it eleven of the twelve tests |
| `server_leak` | `BuffersComeBack` | after all connections are closed the pool has less room than before: later connections get no buffers |
| `exporter_gauge` | `ActiveShown` | the gauge of active connections is a `double` incremented as a `u64`, and is printed as 0 |

Why the bounds are enough. Each queue is created, wraps around its ring at
least once (positions reach at least twice the smallest capacity), becomes full
and empty, and is destroyed and created again. Two threads per role give every
pairwise race; a third thief or producer adds no new pair. Two items tell order
and duplication apart. The ring of bytes has no bound on its traffic at all.
For the connection, arrivals of any length cut every message at every byte, the
receive buffer is shorter than a message, and three heartbeats exceed the send
buffer. The pool's classes are as few as let a list be empty, partly used and
full, and a walk be overtaken. Its run has a `VIEW`, `LiveState`: the locals of
a thread that is not in a call are never read again, nor is the verdict of a
check that `CheckAlonePasses` does not look at, so that states which differ in
nothing else count as one. Its requests are those for which the large
region's cursor can be relied on (section 4, memory pool). The exporter's two kinds of calls are the ones the
properties of a page are about: an observation that counts both buckets, and a
request with its two counters. In the server, two workers meet over one client,
and one worker without a slot over a second one; the pool runs out in the middle
of a connection's three buffers; and a signal may come at any step. Batches hold
two events, so that a connection's event is handled while the listening socket's
waits. For `liveness` one worker with one slot is enough to keep a client waiting
behind another that never stops sending, to turn one away and to take it later.
With two slots (33 663 states of the server alone), and with two workers, batches
of one event and `Room = 1` (135 116), its two properties hold as well, in half a
minute and in four; beside the other subjects both would be too slow. There the
SPSC queue wraps, and the work-stealing queue wraps twice with the one thief racing
the owner; that two thieves do not harm each other is checked in `algorithms`. The
MPMC queue is lock-free and not wait-free: a thread may lose its
compare-and-swap to others for ever. A bound on positions would end that, and so
prove of each call what does not hold; in `liveness` the positions are therefore
lowered by the capacity, all at once, whenever all are large enough (`Rebase`).
The queue uses them only in differences and modulo the capacity, so this is no
step of it. Without a last call, TLC finds that a single call need not return,
and that among the calls of one side some call always does. Nine entries
split the root twice and inner nodes at every level, with keys inserted twice
meeting a split. Windows of two slide several times, and the instance's hashes
make items collide with one item, with two together and with none. Four bytes
reach the unrolled loop of the CRC and its rest; the pieces of `Hashes` reach
all tails and alignments. 2731 points are the fewest whose length does not fit
16 bits, 170 the most a frame may hold.

Deadlock is checked in `containers`, `mpmc_safety`, `connection`, `pool` and
`pool_overlap`. The others contain systems that stop: data that has reached its
bound, a server that has exited, a suite that has run, a board whose scheduler
has halted.

Bounds that are constants: `MaxPos`, `WsMaxPos`, `MaxBatch`, `MaxLen`, `Word`,
`MaxMapped`, `Room`, `MaxSize`, `MaxKey`, `MaxFrames`; `MaxEvents` is the code's
`MAX_EVENTS` in `EpollServer` and a bound on what callers and the machine do in
`Exporter`.

**Fairness.** A thread inside a call keeps running (weak fairness of its
steps): calls are code without waiting, scheduled by the OS. That a thread calls
again and again is an assumption about the callers, needed only for the SPSC
producer and consumer and for thieves. For the producer and the consumer it is
strong fairness, because a call is disabled while the same side is inside another
one; a thief always has either a step or a new steal before it, and weak fairness
of both together is enough. For the
connection: the worker's loop runs, and the peer goes on reading; nothing is
assumed about what the peer sends or when it leaves. For the server: main and
the workers run; `accept4`, which the model lets fail at any time, does not
fail for ever (strong fairness of a successful accept). `epoll_wait` returns
because it has a timeout, which is the code's. Nothing is assumed of clients and
signals, neither that they come nor that they cease, and so the properties say
what clients can do: the loops of `handle_read` (`epoll_server.c:298`) and
`handle_accept` (`epoll_server.c:256`) end only when the kernel has nothing more
to give and do not look at `running`. A client that sends without end keeps its
worker from its other connections and `pthread_join` from returning; clients
that connect and are turned away without end do the same. `ClientsServed` is
about behaviours in which clients come to rest (`~Traffic`), `StopEnds` says
that the process ends or a worker stays in one of the two loops for ever, and
that only `Traffic` without end keeps one there. For the exporter: its thread runs, and a client
that connects sends its request or leaves; without that one silent client keeps
all others waiting, as the code has no timeout there.

## 4. What is proved

TLAPS proves the following for every value of the constants that satisfies the
`ASSUME`s of the module in question (and TLC evaluates those on the instances).
What an invariant says was checked by TLC on an instance before.

| Module | Theorems | About |
|---|---|---|
| `QueueCapacityProofs` | `SlotInjective` and other lemmas | positions less than a capacity apart have different slots |
| `ContainersProofs` | `Invariance`, `TypeCorrect`, `Ordered`, `RaceFree`, `Refinement`, `OwnSize` | SPSC queue: `IInv`, `NoDataRace`; implements `FifoQueue`; `OwnSizeNeverOver` of `SpscMonitor` |
| | `ArraysAreConserved`, `WindowSlides` | deduplicator: `ArraysConserved`; implements `SlidingWindow` |
| `MpmcQueueProofs` | `Invariance`, `NodesAreSound`, `FailuresHaveCause`, `Refinement` | `NodesSound`, `FailureHasCause`; implements `FifoQueue` |
| `WsQueueProofs` | `PositionsAreSound`, `FailedStealsHaveCause`, `Refinement` | `PositionsSound`, `FailedStealHasCause`; implements `WorkDeque` |
| `PartsProofs` | `RingIsSound`, `Refinement` | byte ring: `RingSound`; implements `FifoQueue` |
| | `ObjectsAreConserved`, `PagesAreCoherent` | object pool: `ObjectsConserved`; exporter: `PagesCoherent` |
| `MemoryPoolProofs` | `PoolInvariant`, `NoBlockIsLost`, `NoTwoOverlap`, `PoolIsSound`, `CheckPasses` | `NoOverlap`, `PoolSound`, `CheckAlonePasses`, for requests with which the large region's cursor can be relied on |
| `EpollServerProofs` | `TablesAreSound`, `BuffersAreAccounted`, `NothingFreedEarly` | `TablesSound`, `BuffersAccounted`, `FreedAfterJoin` |
| `ConnectionProofs` | `BuffersAlwaysSuffice`, `AcksAreWhole`, `ClosesForCause`, `DecodesTheStream` | `BuffersSuffice`, `AcksWhole`, `ClosedForCause`, `FramesAsDecoded` |

Each proof has the same shape: an invariant strong enough to be inductive, one
lemma for each action that can disturb it (steps that change only a thread's
own variables share one), and the properties as consequences. A refinement has
one lemma for each action in addition, which names the abstract step it is, or
shows that it is a stutter.

**SPSC queue.** `IndicesOrdered` is not inductive by itself: that a publication
keeps `head <= tail_cache + capacity` needs that the batch fitted behind the
cached tail when it was decided, and that no one but the producer moves that
cache (`CallsInBounds`). That `DequeueRead` keeps the types needs that
published slots hold items, never the `NoItem` of a fresh ring
(`SlotsHoldItems`), which in turn needs that the writes of the next batch miss
the published slots. This is where arithmetic comes in: positions less than a
capacity apart have different slots (`SlotInjective`), because multiples of the
capacity are at least a capacity apart (`MultiplesApart`). Hence
`IInv == TypeOK /\ IndicesOrdered /\ CallsInBounds /\ SlotsHoldItems`. For the
refinement the queue's contents are the slots from `tail` to `head`: a
publication appends the batch because the batch is already in the slots behind
`head`, a take removes what the reader has copied.

`OwnSize` is about the same queue with calls of `eg_spsc_queue_size` between its
steps. What makes it true is that the side that calls has stopped moving its own
position: the producer's `head` is still the one it loaded, the consumer's
`tail` is still behind the `head` it loaded (`LoadedInBounds`), so that the
difference neither wraps nor counts an item that is not there. `CallersAssumption`
names who may call; the third thread, for which it is false, is excepted in the
property itself.

**MPMC queue.** The sequence number of a node says which of its phases it is
in: equal to a position of that node, it is to be filled for that position; one
more, to be drained (`NodesInTurn`). A thread that has won its compare-and-swap
is the only one with that position and finds its node in the phase it checked
(`ProducerSound`, `ConsumerSound`); a thread that has not won yet knows the
phase only as long as `head` (or `tail`) is what it saw. That two threads never
use one node (`NodeExclusive`) follows. The theorems have the hypothesis
`TwoNodes`: no queue of capacity 1 is asked for. It is needed, because with one
node "position p is filled" and "position p + 1 may be filled" are the same
number; `eg_mpmc_queue_create` accepts that capacity and the queue then loses
items (section 5), so the theorems are about all the others. Calls take effect
at their compare-and-swap: the abstract queue holds what producers have
claimed, written or not.

**Work-stealing queue.** The part of `PositionsSound` about `WsQueue` is
inductive as it stands, because it was stated with `Settled`, where the items
end while a pop is undecided, and says of every thief what it may still rely on
if `top` has not moved. `FailedStealHasCause` is about the step in which a steal
gives up, and follows from the same facts: the thief compares a `top` that may be
old with a `bottom` that may be one too low. `Refinement` follows from it: the abstract deque ends at
`Settled`, the pop of the last item and a steal take effect at the
compare-and-swap on `top`, any other pop when it has looked at `top`. The
module's assumptions are plain definitions, since other modules instantiate it;
the theorems name them (`Assumptions`).

**Byte ring.** As the SPSC queue, but positions wrap at `Word`. The rounded
capacities divide `Word`, as powers of two do a power of two, so that the slot
of a wrapped position is the slot of the position (`WordAssumption`); contents
are given relative to `read_pos`.

**Memory pool.** `BlocksConserved` speaks of what one finds by following the
links of a free list, and that is not inductive: a list that runs into a block
somebody has, or into itself behind the blocks that are counted, looks sound
until the next call. `IInv` therefore says for each class that there is a
sequence of blocks without repetitions of which the list is the chain, that
these are exactly the blocks of the class that nobody has (`Used`: callers, and
threads between two statements of a critical section), and that the counter is
its length, up to what the thread that holds the lock has still to add
(`Pending`). An alloc takes the head of that sequence, a free puts a block in
front of it; what `Link` gives follows, by least counterexample, from the
sequence. Large blocks in use have no byte in common (`LargeApart`).
`CheckInv` is about a check that meets no other call: it has followed the first
links of a list and found no fault, so that it ends when the sequence does.
`MappedInv` is about the pool's one mapping.

That large blocks are apart needs that the next one is cut behind those in use,
at `current_usage`. But free takes from `current_usage` what a small block offers
and alloc adds what was asked for (`memory_pool.c:300,414`), so that the cursor of
the large region falls back whenever a small block that was not asked for in full
is freed, and a large block may then be cut over another: that is `pool_overlap`,
and no theorem can hold for all requests. The theorems therefore have a hypothesis
about the constants, on what callers ask for. `RequestsKeepCursor` says that

* no request exceeds the largest size class (`NoneLarge`), or
* each small request asks for the whole block of its class and each large one
  for at least what all blocks of the classes in use offer (`WholeBlocks`, which
  also has `HeaderFits`, as in a release build, and `RequestsBelowWord`: adding a
  request to the pool's bookkeeping does not wrap).

The server is such a caller: the three buffers of a connection are all above the
largest class, so that no class is in use. The run `pool` is one, with requests
of 1, 3 and 5 in blocks that offer 1 and 3; `pool_overlap` asks for 2 as well
and is not. Nothing is assumed about the behaviour: that `current_usage` stays
ahead is proved, by the part `CursorInv` of the invariant. It takes
`current_usage` apart into what callers hold of the classes (`Out`) and the rest
(`Cursor`), and says that the large blocks in use end at or before that rest.
Small blocks asked for in full come and go in `Out` alone. A large one that is
freed leaves the rest as it is. One that is cut, at `Cursor + Out`, raises the rest by
its length and once more by its size, as the code adds both
(`memory_pool.c:293,300`); its size is at least any `Out` there can be, so that it
ends before the new rest. `PoolIsSound` and `CheckPasses` use the same invariant;
`MapsItsOwn`, for the first, says that the buffers are mapped by the pool and hold
its classes (section 5 says what happens to others).

**Object pool.** `ObjectsInv` says who has each block of the memory pool: the
objects on the stack, which are distinct, and the array itself (`Cut`), those
that callers hold, what others took, what was lost. These sets are disjoint and
together what is taken (`OwnersApart`), and stack and count of objects given out
make up the capacity (`StackSound`). Both are needed together: that a release
finds room on the stack is the sum, that what it puts there was not there before
are the owners. With callbacks, what is held is constructed (`HeldLive`).

**Exporter.** A page is read value by value while callers are between two
statements, so that what it says is bounded by what callers have still to do.
`ExporterInv` says of every caller that what is left is the rest of a call,
its metrics in the order in which calls touch them (`CallsSound`). A counter is
then related to another by the number of callers that have touched the one and
not the other (`CountersOrdered`), the cardinality of a set that each statement
makes one larger or smaller. The sum is added to by a load and a store, so that
what two observations add at once may be lost but nothing counts twice: the sum,
what a store will set it to, and the seconds that are due stay within what was
observed (`SumWithin`), and are exactly that as long as no two observations
overlapped (`SumExact`). A page that is read in part is related to what its other
values would be now (`PageCoherent`): the counters it is about only rise, so that
this survives every statement.

**Deduplicator.** `DedupInv` says which stretches of the history the filters
stand for: the active one has the bits of the `current_count` items added last,
the other one those of the `window_size` before them. A window that slides turns
the first into the second. An item of the last `window_size` has its bits in one
of the two, and what is found has them from the last `2 * window_size - 1`: those
are the two halves of the promise. That a filter has any bits at all needs the
value the code's logarithm gives (`LogOfHundred`). Hashes are any functions;
that they collide is allowed for.

**Epoll server.** For any number of workers and slots. The invariant joins the
tables of one worker (`AtHand`, `SlotsConserved`), sockets with the slot that
owns them (`SocketsOwned`), and two counts over all workers: `active_connections`
and the difference of the pool's counters are cardinalities of sets of slots and
buffers, so each step adds or removes one element, or a slot's buffers.
`FreedAfterJoin` is needed for the others, not just beside them: that a worker's
loop has ended before its table is torn down is what keeps `AtHand` true.

**Connection.** `BuffersSuffice` and `AcksWhole` are inductive together. The
first says in which state of the parser which part may be how long; a payload
never grows past the buffer because its length was compared with the limit when
the header was complete. `DecodesTheStream` is about the value of a recursive
function: `Decode` of what has been taken of the stream is what has been handed
out, however the stream was cut. That `DecodedFrom` satisfies its recursive
equation, and has values of the right type, is proved by least counterexample on
the natural numbers (`Least`, `DecodingExists`, `Decoding`), as the library's
induction theorems cannot be instantiated. The inductive invariant
(`DecodingInv`) says that the parts the parser holds are the stretch of the
stream that ends at `consumed`, and begins at `start`; and that every longer
prefix of the stream decodes to the frames and errors so far, followed by what
the same prefix holds from `start` on (`SoFar`). Saying it of all longer
prefixes is what makes it inductive: bytes that arrive do not change it, and
each turn of the parser is one unfolding of the equation at `start`
(`WholeFrame`, `InvalidHeader`, `ShortRest`).

**Assumed.** Nothing about the items, numbers of threads (finite), capacities,
batch lengths, bounds, buffer sizes, streams, hashes or the checksum function.
Bytes are natural numbers; sizes are positive. `AllocationsAssumption` says that
a connection has its payload buffer, without which the code writes through NULL
(section 5); `TwoNodes` and the hypotheses about the memory pool are explained
above. `CallAssumption` says which calls the exporter has; with the two buckets
of `MCParts` an observation falls into both, into the larger one, or into none.

Induction over data is beyond the library's induction theorems here, as they
take an operator; where sums, chains and recursive functions need it, the proofs
take a least counterexample instead, from the well-foundedness of the naturals
and of the subsets of a finite set.

**Only model-checked.** Liveness (`SpscMoves`, `SomeCallReturns`,
`LeftToThieves`, `ScrapesAnswered`, `NoEdgeLost`, `ClientsServed`, `StopEnds`):
fairness and ENABLED are beyond the provers. The B-tree (`TreeSound`): its
operations are RECURSIVE operators. `MaskIsModulo`, a part of `HashesExact`: the
operators on bits are recursive. The checksums, the hashes and `Frames`: what a
fold computes for every input; TLC computes it for all inputs of the instance.
The board and the unit tests: they have no parameters, so that TLC visits all
there is.

## 5. Disagreements and weak spots

Besides the four violation runs, modelling showed the following. Where the
passing runs steer around one of them, the way to see it is named.

* destroy unmaps memory the caller provided (`memory_pool.c:232`), as the unit
  tests' static array is. Add a buffer with `from = "caller"`: `mapped` becomes -1.
* In a debug build the header (40 bytes) is larger than the smallest block (32)
  and `user_size` wraps (`memory_pool.c:93-94`), so that every request is
  answered from the smallest class. `Header = 5`: `NoOverlap` fails. Such a
  build also writes `guard_head` for small blocks only (`memory_pool.c:278`),
  while free takes every block without it for a corrupted one
  (`memory_pool.c:391`), and so refuses all large blocks.
* A check that runs beside an alloc or free reports corruption
  (`memory_pool.c:460-477`): replace `alone` by `Thread` in `CheckAlonePasses`.
* calloc multiplies without looking for a wrap (`memory_pool.c:318`); nobody in
  the repository asks for such an array.
* What aligned_alloc returns cannot be given to free, and no function reads the
  raw address it saved (`memory_pool.c:368`).
* Callers of `eg_mempool_create` and `eg_mempool_init_default` ignore what it
  returns (`test_memory_pool.c:20`, `epoll_server.c:464`).
* `eg_objpool_destroy` destructs objects that are not constructed
  (`memory_pool.c:547`), which `ReleaseDestructsLive` leaves out; after a create
  that failed it frees the array a second time (`memory_pool.c:552`): with
  `AfterFailure = TRUE` `ObjectsConserved` fails.
* A create whose buffer does not suffice keeps its mapping and its lock, because
  destroy returns at once while `initialized` is false
  (`memory_pool.c:202,223`). Give `Buffers` one of size 7: `MappingsBalanced`, a
  part of `PoolSound`, fails after one step.
* An MPMC queue of capacity 1 takes a second item over the first
  (`lock_free_queue.c:171`): the sequence number that says a node is full is
  the one that says it is free for the next round. With `Requests = {1}` TLC
  finds `Bounded`, a part of `NodesSound`, violated, and the theorems about this
  queue have to assume that no such queue is created.
* A client that never stops sending keeps its worker in `handle_read`, and stop
  waiting (`epoll_server.c:298`); see the fairness of section 3.
* `eg_spsc_queue_size` called by a third thread can wrap below zero
  (`lock_free_queue.h:133`). Give `Callers` a `"monitor"` and drop the
  first exception in `OwnSizeNeverOver`: it fails.
* A dequeue of the MPMC queue reports empty while an older enqueue is
  unfinished, although a later one has returned (`lock_free_queue.c:250`):
  `FailureHasCause` says exactly which case that is.
* `eg_ring_buf_clear` stores two positions one after the other and must not
  run beside a call; nothing in its interface says so.
* The parser does not look for the next magic after a bad header
  (`protocol.c:98-102`): a stray byte shifts what follows. `Decode` states this
  rule, it is what the code does.
* `eg_proto_build_data` cuts the length of its points to 16 bits before it
  compares it with the limit (`protocol.c:242`): 2731 points give a frame with
  few of them. `FramesWhole` asks for all points only below that.
* An acknowledgement that does not fit the send buffer is dropped
  (`epoll_server.c:330-333`).
* A connection without payload buffer writes through NULL
  (`epoll_server.c:213`): excluded by `AllocationsAssumption`.
* The CRC tables are filled without any synchronisation (`crc32.c:51`): see the
  memory model above.
* `eg_hw_crc32` calls its unit's initialisation and computes also when that
  failed (`crc32.c:286`). `Hashes` has the failing initialisation.
* `btree_split_child` writes to a node it did not get when calloc fails
  (`algorithm.c:366`): `BTree` has it succeed.
* `USART1` and `I2C1` enable their own interrupts, for which the board file has
  no handlers (`stm32h7xx_hal_msp.c:131`).
* A client of the exporter that sends nothing blocks it for all others
  (`exporter.c:349`).

## 6. Not modelled, and why

* Statistics counters that no code reads; logging, printing
  (`eg_mempool_dump`, `eg_server_stats`) and formatting: no state depends on
  them.
* The debug build's wrappers and guards of the pool: only names of files and
  lines, and bytes no release build has. That header sizes matter is said above.
* Timestamps and `last_active`: there is no idle timeout in the code. Socket
  options, signals' masks and addresses: the kernel's.
* `find_magic`, the pool's `buddy_order` and the server's `set_nonblocking`:
  never called.
* The rounding of floating-point numbers: `log` of `algorithm.c` and the sizes
  that depend on it are computed on rational numbers.
* `eg_mpmc_queue_size`: two loads and no effect; its answer is stale as
  `SpscMonitor` shows for the SPSC queue.

* Macros on bits and compiler attributes of `types.h`, the limits of
  `config.h` (they appear as constants), and structures of `protocol.h` that
  no code uses.
* Failing `eg_malloc` in the create of a queue leaves it as it was and is a
  stuttering step.
* Crashes and restarts: nothing is persisted.
* Build files, scripts, documents: quoted, no state. The copies `X(1).ext`:
  identical.

With these exceptions every function of the implementation that changes state
is an action or a part of one.

## 7. Plan

Order of work, the most important behaviour first.

1. *Done.* `SpscQueue`, `MpmcQueue`, `WsQueue`, `RingBuffer` against
   `FifoQueue` and `WorkDeque`; `MemoryPool`; `ProtoParser` in `Connection`;
   proof of the SPSC queue's safety.
2. *Done.* `EpollServer`; `Dedup` refining `SlidingWindow`; `BTree`;
   `Crc32`, `Checksums`, `Hashes`; `Frames`; `Exporter`; `ObjectPool`; `Board`;
   the unit tests.
3. *Done.* Proofs: the refinements of `FifoQueue` by `SpscQueue`, `MpmcQueue` and
   `RingBuffer`, and of `WorkDeque` by `WsQueue`, with the invariants they need;
   the safety of `EpollServer`; `Connection`, with the meaning of its stream.
4. *Done.* Proofs: the safety of `MemoryPool` and of its check, `ObjectPool` and
   `Exporter`; the refinement of `SlidingWindow` by `Dedup`.
5. What would come next: the B-tree with its nodes as a function from addresses,
   so that its shape can be stated without recursive operators and proved; the
   remainders of `Checksums` by induction over the length of the data.
