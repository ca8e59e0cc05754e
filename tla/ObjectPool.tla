----------------------------- MODULE ObjectPool -----------------------------
(***************************************************************************)
(* eg_object_pool_t: all objects are cut from a memory pool, which others  *)
(* use too, when the object pool is created, and wait on a stack.  acquire *)
(* constructs the object it pops, release destructs the one it pushes.     *)
(* Calls are atomic: the object pool takes no lock and has one user.       *)
(***************************************************************************)
EXTENDS Integers, Sequences, FiniteSets, SequencesExt

CONSTANTS Block,         \* the blocks of the memory pool, as positive numbers
          Capacities,    \* the capacities create is asked for
          AfterFailure   \* TRUE: destroy may follow a create that failed

BlockAssumption == Block \subseteq Nat \ {0} /\ IsFiniteSet(Block)
CapacitiesAssumption == Capacities \subseteq Nat

VARIABLES capacity,
          free_stack,      \* the block of the array, 0 for NULL
          stack,           \* its first free_top entries
          alloc_count,
          callbacks,       \* construct and destruct are set
          held,            \* objects the caller has
          live,            \* objects constructed and not destructed since
          taken,           \* blocks of the memory pool in use
          others,          \* those in use by others
          lost,            \* history: those destroyed pools left with their callers
          faults           \* history: calls that destructed what was not live ("release",
                           \* "destroy"), or freed a block that was not in use ("free")

pool == <<capacity, free_stack, stack, alloc_count, callbacks>>
vars == <<pool, held, live, taken, others, lost, faults>>

free_top == Len(stack)
created == stack # <<>> \/ held # {}

TypeOK ==
    /\ capacity \in Nat /\ free_stack \in Block \cup {0} /\ callbacks \in BOOLEAN
    /\ stack \in Seq(Block) /\ free_top <= capacity /\ alloc_count \in 0..capacity
    /\ held \subseteq Block /\ live \subseteq held
    /\ taken \subseteq Block /\ others \subseteq Block /\ lost \subseteq Block
    /\ faults \subseteq {"release", "destroy", "free"}

Init ==
    /\ capacity = 0 /\ free_stack = 0 /\ stack = <<>> /\ alloc_count = 0
    /\ callbacks = FALSE
    /\ held = {} /\ live = {} /\ taken = {} /\ others = {} /\ lost = {} /\ faults = {}

\* The blocks the memory pool hands out next.
Given(n) == SubSeq(SetToSeq(Block \ taken), 1, n)

\* Mutant: the first object is not freed.
RollbackShort(blocks) == IF Len(blocks) > 1 THEN {blocks[2]} ELSE {}

\* What stays in use of the array and the objects when the next one cannot be
\* allocated.
Rollback(blocks) == {}

\* The pointer to the array survives the rollback.
Create(request) ==
    LET free   == Cardinality(Block \ taken)
        done   == free >= request + 1
        blocks == Given(IF done THEN request + 1 ELSE free)
    IN  /\ ~created /\ request > 0
        /\ capacity' = request /\ alloc_count' = 0 /\ callbacks' = FALSE
        /\ free_stack' = (IF free > 0 THEN blocks[1] ELSE 0)
        /\ stack' = (IF done THEN Tail(blocks) ELSE <<>>)
        /\ taken' = taken \cup (IF done THEN ToSet(blocks) ELSE Rollback(blocks))
        /\ UNCHANGED <<held, live, others, lost, faults>>

Freed == ToSet(stack) \cup {free_stack}

\* Objects the caller still has are neither destructed nor freed; those on the
\* stack are destructed although none has been constructed since it was pushed.
Destroy ==
    /\ free_stack # 0 /\ (created \/ AfterFailure)
    /\ taken' = taken \ Freed
    /\ lost' = lost \cup held /\ held' = {} /\ live' = {}
    /\ faults' = faults \cup (IF Freed \subseteq taken \ others THEN {} ELSE {"free"})
                        \cup (IF callbacks /\ stack # <<>> THEN {"destroy"} ELSE {})
    /\ capacity' = 0 /\ free_stack' = 0 /\ stack' = <<>> /\ alloc_count' = 0
    /\ callbacks' = FALSE
    /\ UNCHANGED others

\* The object goes back onto the stack.
FailedAcquire == UNCHANGED <<pool, held, live>>

Fails(constructed) == callbacks /\ ~constructed

\* With an empty stack acquire returns NULL and does nothing.
Acquire(constructed) ==
    /\ free_top > 0
    /\ IF Fails(constructed)
       THEN FailedAcquire
       ELSE /\ stack' = Front(stack) /\ held' = held \cup {Last(stack)}
            /\ alloc_count' = alloc_count + 1
            /\ live' = IF callbacks /\ constructed THEN live \cup {Last(stack)} ELSE live
            /\ UNCHANGED <<capacity, free_stack, callbacks>>
    /\ UNCHANGED <<taken, others, lost, faults>>

Release(obj) ==
    /\ obj \in held /\ free_top < capacity
    /\ faults' = faults \cup (IF callbacks /\ obj \notin live THEN {"release"} ELSE {})
    /\ live' = live \ {obj} /\ held' = held \ {obj}
    /\ stack' = Append(stack, obj) /\ alloc_count' = alloc_count - 1
    /\ UNCHANGED <<capacity, free_stack, callbacks, taken, others, lost>>

\* Callers change the callbacks while no object is out.
SetCallbacks(set) ==
    /\ created /\ held = {} /\ callbacks' = set
    /\ UNCHANGED <<capacity, free_stack, stack, alloc_count, held, live, taken, others, lost, faults>>

\* Somebody else allocates a block or frees it.
OtherTakes ==
    /\ taken # Block
    /\ others' = others \cup ToSet(Given(1)) /\ taken' = taken \cup ToSet(Given(1))
    /\ UNCHANGED <<pool, held, live, lost, faults>>

OtherFrees(block) ==
    /\ block \in others
    /\ others' = others \ {block} /\ taken' = taken \ {block}
    /\ UNCHANGED <<pool, held, live, lost, faults>>

Next ==
    \/ \E request \in Capacities : Create(request)
    \/ Destroy
    \/ \E constructed \in BOOLEAN : Acquire(constructed)
    \/ \E obj \in held : Release(obj)
    \/ \E set \in BOOLEAN : SetCallbacks(set)
    \/ OtherTakes
    \/ \E block \in others : OtherFrees(block)

-----------------------------------------------------------------------------
(* Properties *)

\* eg_objpool_acquire and eg_objpool_release: every object is on the stack once or
\* with the caller, and alloc_count says how many are out, also after a construct
\* that failed.
ObjectsConserved ==
    /\ IsInjective(stack) /\ ToSet(stack) \cap held = {}
    /\ alloc_count = Cardinality(held)
    /\ created => free_top + alloc_count = capacity

\* eg_objpool_create and eg_objpool_destroy: the memory pool has exactly the blocks
\* in use that somebody knows of, or that a destroyed pool left with its caller,
\* wherever an allocation fails.
BlocksConserved ==
    /\ taken = (IF created THEN Freed \cup held ELSE {}) \cup lost \cup others
    /\ created => Freed \cap (held \cup lost \cup others) = {}

\* Callbacks: release destructs only what acquire constructed.  eg_objpool_destroy
\* destructs objects that are not live; it is left out here.
ReleaseDestructsLive == faults \subseteq {"destroy"}
=============================================================================
