---------------------------- MODULE QueueCapacity ----------------------------
(***************************************************************************)
(* The capacity arithmetic shared by the create functions of               *)
(* src/common/lock_free_queue.c and the slot arithmetic of its operations. *)
(***************************************************************************)
EXTENDS Naturals

\* EG_IS_POWER_OF_2
IsPowerOf2(n) == \E k \in 0..n : n = 2^k

\* 64 - __builtin_clzll(n): the number of significant bits of n # 0.
BitLength(n) == CHOOSE k \in 1..n : 2^(k - 1) <= n /\ n < 2^k

\* The capacity create gives a queue that was asked for n # 0 slots.
RoundedCapacity(n) == IF IsPowerOf2(n) THEN n ELSE 2^BitLength(n)

\* position & mask with mask = capacity - 1.  The two agree because create only
\* hands out powers of two; MaskIsModulo of MCAlgorithms checks that.
Slot(position, capacity) == position % capacity
=============================================================================
