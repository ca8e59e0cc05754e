-------------------------------- MODULE Dedup --------------------------------
(***************************************************************************)
(* eg_dedup_t: two Bloom filters of which one is active.  An item is a     *)
(* duplicate when either filter has all its bits; a new item sets its bits *)
(* in the active filter, and after window_size new items the other filter  *)
(* is cleared and becomes active.  Items are known by the two values       *)
(* murmur3_32 gives them.                                                  *)
(***************************************************************************)
EXTENDS Integers, Sequences, SequencesExt, FiniteSets, FiniteSetsExt

CONSTANTS Item,
          Hash1, Hash2,    \* murmur3_32(item, 0) and murmur3_32(item, hash1)
          expected_items,
          window_size,
          Word             \* bound: the modulus of u32

HashAssumption ==
    /\ Word \in Nat \ {0}
    /\ Hash1 \in [Item -> 0..(Word - 1)] /\ Hash2 \in [Item -> 0..(Word - 1)]
SizesAssumption ==
    expected_items \in Nat \ {0} /\ window_size \in Nat \ {0}

VARIABLES created,         \* eg_dedup_create has succeeded
          filters,         \* of each filter, its bits that are set
          active_idx, current_count,
          arrays,          \* bit arrays that are allocated
          recent, answer   \* the history SlidingWindow is about

\* algorithm.c's own log, of 1 / n, as a multiple of -ln(2) / n: 1 / n is mantissa * 2^-exp
\* with a mantissa from 1 up to 2, whose binary logarithm is taken for mantissa - 1.
log(n) ==
    LET exp == CHOOSE e \in 0..n : 2^e >= n /\ \A d \in 0..(e - 1) : 2^d < n
    IN  (exp + 1) * n - 2^exp

\* A filter has whole bytes of bits, items * log(100) / ln(2)^2 of them for 1 % false
\* positives, and as many hashes for each expected item as suit them best:
\* bits / items * ln(2), at least 1 and at most 16.
num_bits ==
    LET optimal == (expected_items * log(100) * 10000) \div (100 * 6931)
    IN  8 * ((optimal + 7) \div 8)
num_hash == Min({16, Max({1, (num_bits * 693147) \div (expected_items * 1000000)})})

Bit == 0..(num_bits - 1)

\* The bits of a filter that has just been created or cleared, and the arrays that
\* destroying it frees.
FreshBits   == {}
ClearedBits == {}
Destroyed   == 1

\* Double hashing in 32-bit arithmetic.
BitsOf(x) ==
    {((Hash1[x] + i * Hash2[x]) % Word) % num_bits : i \in 0..(num_hash - 1)}

Add(set, x) == set \cup BitsOf(x)
InFilter(set, x) == BitsOf(x) \subseteq set
Known(x) == InFilter(filters[0], x) \/ InFilter(filters[1], x)

TypeOK ==
    /\ created \in BOOLEAN /\ filters \in [{0, 1} -> SUBSET Bit]
    /\ active_idx \in {0, 1} /\ current_count \in 0..(window_size - 1)
    /\ arrays \in 0..2
    /\ recent \in Seq(Item) /\ Len(recent) < 2 * window_size

Init ==
    /\ created = FALSE /\ filters = [f \in {0, 1} |-> {}]
    /\ active_idx = 0 /\ current_count = 0 /\ arrays = 0
    /\ recent = <<>> /\ answer = <<>>

\* Mutant: the first filter is kept when the second cannot be allocated.
UndoneNothing(got) == got

\* What is left of the filters that were allocated when create fails.
Undone(got) == got - got * Destroyed

\* calloc provides the first got bit arrays.
Create(got) ==
    /\ ~created
    /\ created' = (got = 2)
    /\ arrays' = arrays + (IF got = 2 THEN 2 ELSE Undone(got))
    /\ filters' = [f \in {0, 1} |-> FreshBits] /\ active_idx' = 0 /\ current_count' = 0
    /\ recent' = <<>> /\ answer' = <<>>

Destroy ==
    /\ created
    /\ created' = FALSE /\ arrays' = arrays - 2 * Destroyed
    /\ filters' = [f \in {0, 1} |-> FreshBits] /\ active_idx' = 0 /\ current_count' = 0
    /\ recent' = <<>> /\ answer' = <<>>

\* Mutant: the window that has just been filled is cleared.
SlideClearsFull(marked) ==
    /\ active_idx' = 1 - active_idx
    /\ filters' = [marked EXCEPT ![active_idx] = {}]
    /\ current_count' = 0

\* The filter that becomes active is cleared, the one just filled is kept.
Slide(marked) ==
    /\ active_idx' = 1 - active_idx
    /\ filters' = [marked EXCEPT ![1 - active_idx] = ClearedBits]
    /\ current_count' = 0

WindowFull(n) == n >= window_size

Check(x) ==
    /\ created
    /\ IF Known(x)
       THEN /\ answer' = <<x, "duplicate">>
            /\ UNCHANGED <<filters, active_idx, current_count, recent>>
       ELSE LET marked == [filters EXCEPT ![active_idx] = Add(@, x)]
                kept == 2 * window_size - 1
            IN  /\ answer' = <<x, "new">>
                /\ recent' = SubSeq(Append(recent, x),
                                    IF Len(recent) = kept THEN 2 ELSE 1, Len(recent) + 1)
                /\ IF WindowFull(current_count + 1)
                   THEN Slide(marked)
                   ELSE /\ filters' = marked /\ current_count' = current_count + 1
                        /\ UNCHANGED active_idx
    /\ UNCHANGED <<created, arrays>>

IsDuplicate(x) ==
    /\ created
    /\ answer' = <<x, IF Known(x) THEN "duplicate" ELSE "new">>
    /\ UNCHANGED <<created, filters, active_idx, current_count, arrays, recent>>

Next ==
    \/ \E got \in 0..2 : Create(got)
    \/ Destroy
    \/ \E x \in Item : Check(x) \/ IsDuplicate(x)

vars == <<created, filters, active_idx, current_count, arrays, recent, answer>>

Spec == Init /\ [][Next]_vars

-----------------------------------------------------------------------------
(* Properties *)

\* eg_dedup_check and eg_dedup_is_duplicate implement the sliding window: nothing
\* among the last window_size new items is missed, and what is taken for a
\* duplicate has its bits set by the last 2 * window_size - 1.
Resembling(x, items) == BitsOf(x) \subseteq UNION {BitsOf(y) : y \in items}
W == INSTANCE SlidingWindow WITH Window <- window_size, Resembles <- Resembling
WindowSpec == W!Spec

\* eg_dedup_create and eg_dedup_destroy: no bit array is kept without a
\* deduplicator, whichever allocation fails.
ArraysConserved == arrays = IF created THEN 2 ELSE 0
=============================================================================
