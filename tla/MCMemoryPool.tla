---------------------------- MODULE MCMemoryPool ----------------------------
(* MemoryPool on small instances.  The unit of size is arbitrary; headers are *)
(* smaller than blocks, blocks double from class to class and larger classes  *)
(* have fewer blocks, as in the tables of the code.                           *)
EXTENDS CheckedPool

SmallSizes  == <<2, 4>>
SmallCounts == <<2, 1>>

WithRegion == {[size |-> 28, from |-> "mmap"]}
ShortRegion == {[size |-> 16, from |-> "mmap"]}

Symmetry == Permutations(Thread)

\* What the locals of a thread outside of the pool hold is never read again, nor is a
\* verdict that CheckAlonePasses does not look at: states that differ in nothing else
\* count as one.
Live(f) == [t \in Thread |-> IF pc[t] = "idle" THEN Nil ELSE f[t]]
LiveState ==
    <<create, lists, lock, pc, Live(size), Live(block), Live(old), Live(cls),
      [t \in Thread |-> IF t \in alone THEN verdict[t] ELSE Nil], held, alone>>
=============================================================================
