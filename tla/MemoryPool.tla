----------------------------- MODULE MemoryPool -----------------------------
(***************************************************************************)
(* eg_mempool_t: size classes, each with a free list of equal blocks, and  *)
(* a region behind them from which larger blocks are cut.  Addresses are   *)
(* offsets from pool_start; a block is named by the offset of its header   *)
(* and the caller's memory follows the header.                             *)
(*                                                                         *)
(* alloc, free and realloc run under a spinlock.  Their critical sections  *)
(* are split where eg_mempool_check, which takes no lock, can look in      *)
(* between: the free list changes first, its counter later.  The counters  *)
(* only get_stats and dump read are left out, current_usage is not one.    *)
(***************************************************************************)
EXTENDS Integers, FiniteSets, FiniteSetsExt, Sequences, TLC

CONSTANTS Thread,      \* the threads that call the pool
          Nil,         \* NULL, and the lock when nobody holds it
          Header,      \* sizeof(eg_mem_block_t)
          BlockSize,   \* s_size_classes
          BlockCount,  \* s_block_counts
          Align,       \* the granularity of large blocks
          Pointer,     \* sizeof(void*)
          Alignment,   \* what callers of eg_mempool_aligned_alloc ask for
          Word,        \* bound: the modulus of unsigned arithmetic
          Buffers,     \* what create is given: [size, from] records
          Sizes,       \* the sizes callers ask for
          MaxMapped    \* bound: failed creates stop at this many mappings

Classes == 1..Len(BlockSize)
Large   == 255         \* size_class of a block of the large region

ASSUME TablesAssumption ==
    /\ BlockSize \in Seq(Nat \ {0}) /\ BlockCount \in Seq(Nat \ {0})
    /\ Len(BlockCount) = Len(BlockSize) /\ Len(BlockSize) \in 1..(Large - 1)
ASSUME SizesAssumption ==
    /\ Header \in Nat /\ Align \in Nat \ {0} /\ Pointer \in Nat
    /\ Alignment \subseteq Nat \ {0} /\ Sizes \subseteq Nat \ {0}
ASSUME WordAssumption ==
    /\ Word \in Nat \ {0} /\ MaxMapped \in Nat
    /\ \A buffer \in Buffers : /\ buffer.size \in Nat /\ buffer.from \in {"mmap", "caller"}
                               /\ 2 * buffer.size < Word
ASSUME NilAssumption == Nil \notin Nat \cup Thread \cup [block : Nat, size : Nat]

VARIABLES initialized,    \* the pool is ready
          pool_size, from,   \* of the buffer, and who provided it
          mapped,         \* mmaps minus munmaps
          header,         \* what the header of each block says: class and next
          free_list, free_count,   \* of each class
          current_usage,
          lock,           \* the thread in its critical section, or Nil
          pc,             \* where each thread is
          size, block, old,   \* of each thread: request, block at hand, realloc's block
          cls, verdict,   \* of each thread: the class check is at, check's answer
          held            \* the blocks callers hold, with the size they asked for

create  == <<initialized, pool_size, from, mapped>>
lists   == <<header, free_list, free_count, current_usage>>
locals  == <<size, block, old>>
checker == <<cls, verdict>>
vars    == <<create, lists, lock, pc, locals, checker, held>>

-----------------------------------------------------------------------------
(* The layout init_size_classes gives a buffer *)

\* User sizes are unsigned: a header larger than the block wraps.
UserSize(c) == (BlockSize[c] - Header) % Word

\* Offset of the first block of each class; the last entry ends the classes.
Base[c \in 1..(Len(BlockSize) + 1)] ==
    IF c = 1 THEN 0 ELSE Base[c - 1] + BlockSize[c - 1] * BlockCount[c - 1]

BlockAt(c, j) == Base[c] + (j - 1) * BlockSize[c]
Blocks(c) == {BlockAt(c, j) : j \in 1..BlockCount[c]}

buddy_start == Base[Len(BlockSize) + 1]
buddy_size  == pool_size - buddy_start

\* Each block was pushed in front of the one before it.
FreshHeader ==
    LET small == UNION {Blocks(c) : c \in Classes}
        class(b) == CHOOSE c \in Classes : b \in Base[c]..(Base[c + 1] - 1)
    IN  [b \in small |->
            [class |-> class(b),
             next  |-> IF b = Base[class(b)] THEN Nil ELSE b - BlockSize[class(b)]]]

\* Mutant: the header is added to the block size where it is to be subtracted.
SizeClassTooSmall(n) ==
    LET fits(c) == n <= BlockSize[c] + Header
    IN  IF \E c \in Classes : fits(c)
        THEN CHOOSE c \in Classes : fits(c) /\ \A d \in 1..(c - 1) : ~fits(d)
        ELSE Large

\* The first class whose blocks are large enough.
SizeClass(n) ==
    IF \E c \in Classes : n <= UserSize(c)
    THEN CHOOSE c \in Classes : n <= UserSize(c) /\ \A d \in 1..(c - 1) : n > UserSize(d)
    ELSE Large

AlignUp(n) == ((n + Align - 1) \div Align) * Align

-----------------------------------------------------------------------------
TypeOK ==
    /\ initialized \in BOOLEAN /\ pool_size \in Nat /\ from \in {"mmap", "caller"}
    /\ mapped \in -1..MaxMapped
    /\ \A b \in DOMAIN header : b \in 0..(Word - 1)
    /\ free_list \in [Classes -> 0..(Word - 1) \cup {Nil}]
    /\ \A c \in Classes : free_count[c] \in 0..BlockCount[c]
    /\ current_usage \in 0..(Word - 1)
    /\ lock \in Thread \cup {Nil}
    /\ pc \in [Thread -> {"idle", "take", "count", "refree", "push", "uncount",
                          "head", "walk"}]
    /\ verdict \in [Thread -> {"none", "ok", "mismatch", "overflow"}]

Init ==
    /\ initialized = FALSE /\ pool_size = 0 /\ from = "mmap" /\ mapped = 0
    /\ header = [b \in {} |-> Nil]
    /\ free_list = [c \in Classes |-> Nil] /\ free_count = [c \in Classes |-> 0]
    /\ current_usage = 0 /\ lock = Nil /\ held = {}
    /\ pc = [t \in Thread |-> "idle"]
    /\ size = [t \in Thread |-> 0] /\ block = [t \in Thread |-> Nil]
    /\ old = [t \in Thread |-> Nil]
    /\ cls = [t \in Thread |-> 1] /\ verdict = [t \in Thread |-> "none"]

\* A thread gets the spinlock when nobody has it; only spinning waits.
LOCK_ACQUIRE(t) == lock = Nil /\ lock' = t
LOCK_RELEASE    == lock' = Nil

\* Thread t leaves the pool; its locals die.
Return(t) ==
    /\ pc' = [pc EXCEPT ![t] = "idle"]
    /\ size' = [size EXCEPT ![t] = 0]
    /\ block' = [block EXCEPT ![t] = Nil]
    /\ old' = [old EXCEPT ![t] = Nil]

\* Mutant: the last block may not end where the buffer ends.
HoldsClassesNotExactly(buffer) == buddy_start < buffer.size

\* The blocks of all size classes are cut from the buffer.
HoldsClasses(buffer) == buddy_start <= buffer.size

\* A buffer too small for the size classes makes create fail; destroy, which it
\* calls then, returns at once because the pool is not initialized.
Create(buffer) ==
    /\ ~initialized /\ mapped < MaxMapped
    /\ mapped' = IF buffer.from = "mmap" THEN mapped + 1 ELSE mapped
    /\ from' = buffer.from
    /\ pool_size' = buffer.size
    /\ initialized' = HoldsClasses(buffer)
    /\ current_usage' = 0
    /\ IF initialized'
       THEN /\ header' = FreshHeader
            /\ free_list' = [c \in Classes |-> BlockAt(c, BlockCount[c])]
            /\ free_count' = BlockCount
       ELSE UNCHANGED <<header, free_list, free_count>>
    /\ UNCHANGED <<lock, pc, locals, checker, held>>

\* memset of the whole pool.
Clear ==
    /\ pool_size' = 0 /\ current_usage' = 0
    /\ header' = [b \in {} |-> Nil]
    /\ free_list' = [c \in Classes |-> Nil] /\ free_count' = [c \in Classes |-> 0]

\* Whatever callers still hold is gone, whoever the buffer came from.
Destroy ==
    /\ initialized /\ \A t \in Thread : pc[t] = "idle"
    /\ initialized' = FALSE
    /\ mapped' = mapped - 1
    /\ held' = {}
    /\ Clear
    /\ UNCHANGED <<from, lock, pc, locals, checker>>

-----------------------------------------------------------------------------
(* Allocation *)

\* A call and its lock acquisition; nothing happens between the two.
Alloc(t, n) ==
    /\ initialized /\ pc[t] = "idle"
    /\ LOCK_ACQUIRE(t)
    /\ size' = [size EXCEPT ![t] = n]
    /\ old' = [old EXCEPT ![t] = Nil]
    /\ pc' = [pc EXCEPT ![t] = "take"]
    /\ UNCHANGED <<create, lists, block, checker, held>>

\* The size of an array is computed modulo the word. (Bound: only arrays whose size
\* is one of Sizes.)
Calloc(t, count, n) ==
    LET total == (count * n) % Word
    IN  total \in Sizes /\ Alloc(t, total)

\* What an aligned block needs, and its address in a block whose memory begins at
\* raw; raw is saved in front of it, and it is raw that may be freed.
AlignedTotal(n, alignment) == n + alignment - 1 + Pointer
Aligned(raw, alignment) == ((raw + Pointer + alignment - 1) \div alignment) * alignment

\* (Bound: only requests whose total is one of Sizes.)
AlignedAlloc(t, n, alignment) ==
    LET total == AlignedTotal(n, alignment) IN total \in Sizes /\ Alloc(t, total)

\* What fits the block already is left where it is.
Realloc(t, h, n) ==
    LET head == header[h.block]
        room == IF head.class \in Classes THEN UserSize(head.class) ELSE head.next - Header
    IN  /\ initialized /\ pc[t] = "idle" /\ h \in held
        /\ IF n <= room
           THEN /\ held' = (held \ {h}) \cup {[h EXCEPT !.size = n]}
                /\ UNCHANGED <<lock, size, old, pc>>
           ELSE /\ LOCK_ACQUIRE(t)
                /\ size' = [size EXCEPT ![t] = n]
                /\ old' = [old EXCEPT ![t] = h]
                /\ pc' = [pc EXCEPT ![t] = "take"]
                /\ held' = held \ {h}
        /\ UNCHANGED <<create, lists, block, checker>>

\* Mutant: the block is handed out and left on its list.
TakeSmallKeepsList(t, c) ==
    /\ block' = [block EXCEPT ![t] = free_list[c]]
    /\ UNCHANGED <<header, free_list, current_usage>>

TakeSmall(t, c) ==
    /\ block' = [block EXCEPT ![t] = free_list[c]]
    /\ IF free_list[c] = Nil
       THEN UNCHANGED free_list
       ELSE free_list' = [free_list EXCEPT ![c] = header[free_list[c]].next]
    /\ UNCHANGED <<header, current_usage>>

\* current_usage serves as the offset of the next large block.
TakeLarge(t) ==
    LET need  == AlignUp(size[t] + Header)
        start == (buddy_start + current_usage) % Word
    IN  /\ IF (current_usage + need) % Word <= buddy_size
           THEN /\ block' = [block EXCEPT ![t] = start]
                /\ header' = [b \in DOMAIN header \cup {start} |->
                                 IF b = start THEN [class |-> Large, next |-> need]
                                 ELSE header[b]]
                /\ current_usage' = (current_usage + need) % Word
           ELSE /\ block' = [block EXCEPT ![t] = Nil]
                /\ UNCHANGED <<header, current_usage>>
        /\ UNCHANGED free_list

AllocTake(t) ==
    /\ pc[t] = "take"
    /\ \/ \E c \in Classes : c = SizeClass(size[t]) /\ TakeSmall(t, c)
       \/ SizeClass(size[t]) = Large /\ TakeLarge(t)
    /\ pc' = [pc EXCEPT ![t] = "count"]
    /\ UNCHANGED <<create, free_count, lock, size, old, checker, held>>

\* The counters, the unlock and the return; a realloc goes on to free its block
\* if it got another one.
AllocReturn(t) ==
    LET c == SizeClass(size[t])
        ok == block[t] # Nil
    IN  /\ pc[t] = "count"
        /\ free_count' = IF ok /\ c # Large
                         THEN [free_count EXCEPT ![c] = @ - 1] ELSE free_count
        /\ current_usage' = IF ok THEN (current_usage + size[t]) % Word ELSE current_usage
        /\ LOCK_RELEASE
        /\ held' = held \cup IF ok THEN {[block |-> block[t], size |-> size[t]]}
                                   ELSE {old[t]} \ {Nil}
        /\ IF ok /\ old[t] # Nil
           THEN pc' = [pc EXCEPT ![t] = "refree"] /\ UNCHANGED locals
           ELSE Return(t)
        /\ UNCHANGED <<create, header, free_list, checker>>

-----------------------------------------------------------------------------
(* Freeing *)

Free(t, h) ==
    /\ initialized /\ pc[t] = "idle" /\ h \in held
    /\ LOCK_ACQUIRE(t)
    /\ block' = [block EXCEPT ![t] = h.block]
    /\ held' = held \ {h}
    /\ pc' = [pc EXCEPT ![t] = "push"]
    /\ UNCHANGED <<create, lists, size, old, checker>>

ReallocFree(t) ==
    /\ pc[t] = "refree"
    /\ LOCK_ACQUIRE(t)
    /\ block' = [block EXCEPT ![t] = old[t].block]
    /\ pc' = [pc EXCEPT ![t] = "push"]
    /\ UNCHANGED <<create, lists, size, old, checker, held>>

\* A large block is not put anywhere.
FreePush(t) ==
    LET b == block[t]
        c == header[b].class
    IN  /\ pc[t] = "push"
        /\ IF c \in Classes
           THEN /\ header' = [header EXCEPT ![b].next = free_list[c]]
                /\ free_list' = [free_list EXCEPT ![c] = b]
           ELSE UNCHANGED <<header, free_list>>
        /\ pc' = [pc EXCEPT ![t] = "uncount"]
        /\ UNCHANGED <<create, free_count, current_usage, lock, locals, checker, held>>

\* Mutant: the counter of free blocks is not brought up to date.
FreeReturnNoCount(t) ==
    /\ pc[t] = "uncount"
    /\ LOCK_RELEASE
    /\ Return(t)
    /\ UNCHANGED <<create, lists, checker, held>>

\* The usage falls by what the block offers, not by what was asked for.
FreeReturn(t) ==
    LET c == header[block[t]].class
    IN  /\ pc[t] = "uncount"
        /\ IF c \in Classes
           THEN /\ free_count' = [free_count EXCEPT ![c] = @ + 1]
                /\ current_usage' = (current_usage - UserSize(c)) % Word
           ELSE UNCHANGED <<free_count, current_usage>>
        /\ LOCK_RELEASE
        /\ Return(t)
        /\ UNCHANGED <<create, header, free_list, checker, held>>

-----------------------------------------------------------------------------
(* eg_mempool_check: one read of shared memory per step, without the lock *)

Check(t) ==
    /\ initialized /\ pc[t] = "idle"
    /\ cls' = [cls EXCEPT ![t] = 1]
    /\ verdict' = [verdict EXCEPT ![t] = "none"]
    /\ pc' = [pc EXCEPT ![t] = "head"]
    /\ UNCHANGED <<create, lists, lock, locals, held>>

CheckHead(t) ==
    /\ pc[t] = "head"
    /\ block' = [block EXCEPT ![t] = free_list[cls[t]]]
    /\ size' = [size EXCEPT ![t] = 0]
    /\ pc' = [pc EXCEPT ![t] = "walk"]
    /\ UNCHANGED <<create, lists, lock, old, checker, held>>

\* size[t] is check's count.
CheckWalk(t) ==
    /\ pc[t] = "walk" /\ block[t] # Nil
    /\ size' = [size EXCEPT ![t] = @ + 1]
    /\ IF size'[t] > BlockCount[cls[t]]
       THEN /\ verdict' = [verdict EXCEPT ![t] = "overflow"]
            /\ pc' = [pc EXCEPT ![t] = "idle"]
            /\ UNCHANGED block
       ELSE /\ block' = [block EXCEPT ![t] = header[block[t]].next]
            /\ UNCHANGED <<pc, verdict>>
    /\ UNCHANGED <<create, lists, lock, old, cls, held>>

CheckCompare(t) ==
    LET last == cls[t] = Len(BlockSize)
    IN  /\ pc[t] = "walk" /\ block[t] = Nil
        /\ IF size[t] # free_count[cls[t]]
           THEN /\ verdict' = [verdict EXCEPT ![t] = "mismatch"]
                /\ pc' = [pc EXCEPT ![t] = "idle"]
                /\ UNCHANGED cls
           ELSE /\ verdict' = [verdict EXCEPT ![t] = IF last THEN "ok" ELSE @]
                /\ cls' = [cls EXCEPT ![t] = IF last THEN 1 ELSE @ + 1]
                /\ pc' = [pc EXCEPT ![t] = IF last THEN "idle" ELSE "head"]
        /\ UNCHANGED <<create, lists, lock, locals, held>>

-----------------------------------------------------------------------------
(* eg_mempool_get_stats, when no other call is running *)

\* The sum of the values of f.
SumOver(f) == MapThenSumSet(LAMBDA x : f[x], DOMAIN f)

free_size == SumOver([c \in Classes |-> free_count[c] * UserSize(c)])
used_size == pool_size - free_size

eg_mempool_stats == [pool_size |-> pool_size, used_size |-> used_size, free_size |-> free_size]

-----------------------------------------------------------------------------
Next ==
    \/ \E buffer \in Buffers : Create(buffer)
    \/ Destroy
    \/ \E t \in Thread :
          \/ \E n \in Sizes : Alloc(t, n) \/ \E h \in held : Realloc(t, h, n)
          \/ \E count, n \in Sizes : Calloc(t, count, n)
          \/ \E n \in Sizes, alignment \in Alignment : AlignedAlloc(t, n, alignment)
          \/ \E h \in held : Free(t, h)
          \/ AllocTake(t) \/ AllocReturn(t)
          \/ ReallocFree(t) \/ FreePush(t) \/ FreeReturn(t)
          \/ Check(t) \/ CheckHead(t) \/ CheckWalk(t) \/ CheckCompare(t)

Spec == Init /\ [][Next]_vars

-----------------------------------------------------------------------------
(* Properties *)

\* The blocks on the list of class c, followed for at most BlockCount[c] links.
Link(c) ==
    LET link[k \in 0..BlockCount[c]] ==
            IF k = 0 THEN free_list[c]
            ELSE IF link[k - 1] = Nil THEN Nil ELSE header[link[k - 1]].next
    IN  link
FreeBlocks(c) == {Link(c)[k] : k \in 0..BlockCount[c]} \ {Nil}

\* What callers hold or have handed to a call that has not returned.
Owned ==
    held \cup ({old[t] : t \in {u \in Thread : pc[u] \in {"take", "count", "refree"}}} \ {Nil})

\* Blocks a thread in its critical section has taken and not yet handed out, or
\* has been handed and not yet put back.
Passing == {block[t] : t \in {u \in Thread : pc[u] \in {"count", "push"}}} \ {Nil}

\* Popped and not yet subtracted, pushed and not yet added.
Uncounted(c) ==
    LET at(where) == {t \in Thread : /\ pc[t] = where /\ block[t] # Nil
                                     /\ header[block[t]].class = c}
    IN  Cardinality(at("count")) - Cardinality(at("uncount"))

\* No block is lost or on a list twice: the list of each class ends, and it holds
\* exactly the blocks nobody has; its counter agrees once the lock is released.
BlocksConserved ==
    initialized => \A c \in Classes :
        LET used == {b \in Blocks(c) : b \in Passing \/ \E h \in Owned : h.block = b}
        IN  /\ Link(c)[BlockCount[c]] = Nil
            /\ FreeBlocks(c) = Blocks(c) \ used
            /\ free_count[c] = Cardinality(FreeBlocks(c)) + Uncounted(c)

Extent(h) == h.block..(h.block + Header + h.size - 1)

\* No two callers' blocks share a byte, headers included; none reaches out of
\* the pool or into a block that is still free.
NoOverlap ==
    /\ \A h, g \in Owned : h # g => Extent(h) \cap Extent(g) = {}
    /\ \A h \in Owned : Extent(h) \subseteq 0..(pool_size - 1)
    /\ \A c \in Classes : \A b \in FreeBlocks(c) : \A h \in Owned :
           Extent(h) \cap b..(b + BlockSize[c] - 1) = {}

\* The pool owns one mapping while it is initialized with one of its own, and
\* none otherwise.
MappingsBalanced == mapped = IF initialized /\ from = "mmap" THEN 1 ELSE 0

\* The statistics count as used what callers hold, and as free what they could get.
StatsHonest ==
    (\A t \in Thread : pc[t] = "idle") =>
        LET stats == eg_mempool_stats
        IN  /\ stats.free_size =
                  SumOver([c \in Classes |-> Cardinality(FreeBlocks(c)) * UserSize(c)])
            /\ stats.used_size >= SumOver([h \in held |-> h.size])

\* An aligned block and the saved pointer in front of it lie inside the caller's memory.
AlignedInside ==
    \A h \in held, n \in Sizes, alignment \in Alignment :
        AlignedTotal(n, alignment) = h.size =>
            LET raw == h.block + Header
                aligned == Aligned(raw, alignment)
            IN  /\ aligned % alignment = 0
                /\ (aligned - Pointer)..(aligned + n - 1) \subseteq raw..(raw + h.size - 1)

\* Where larger blocks can be asked for, current_usage has not fallen behind a large
\* block in use, nor below zero or so far up that adding a request to it wraps.  Nothing
\* in the code sees to that; it is up to the requests, see pool_overlap in README.md.
CursorAhead ==
    (\E n \in Sizes : SizeClass(n) = Large) =>
        /\ current_usage <= 2 * pool_size
        /\ \A h \in Owned : header[h.block].class = Large =>
               h.block + header[h.block].next <= buddy_start + current_usage

\* eg_mempool_t between any two steps of any thread: nothing is lost or there twice.
PoolSound ==
    /\ TypeOK /\ BlocksConserved /\ MappingsBalanced
    /\ CursorAhead /\ StatsHonest /\ AlignedInside
=============================================================================
