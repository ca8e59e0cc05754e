----------------------------- MODULE Containers -----------------------------
(***************************************************************************)
(* The SPSC queue with the callers of its size, and the deduplicator       *)
(* beside it.  They share nothing.                                         *)
(***************************************************************************)
EXTENDS SpscMonitor

CONSTANTS Hashed,            \* the deduplicator's items, see Dedup
          Hash1, Hash2, HashWord, expected_items, window_size

VARIABLES created, filters, active_idx, current_count, arrays, recent, answer

D == INSTANCE Dedup WITH Item <- Hashed, Word <- HashWord

ASSUME DedupAssumption == D!HashAssumption /\ D!SizesAssumption

\* eg_dedup_create and eg_dedup_destroy keep no bit array that nobody owns, see Dedup.
ArraysConserved == D!TypeOK /\ D!ArraysConserved

\* eg_dedup_check and eg_dedup_is_duplicate implement a sliding window, see Dedup.
WindowSpec == D!WindowSpec
=============================================================================
