----------------------------- MODULE CheckedPool -----------------------------
(***************************************************************************)
(* MemoryPool with a history variable that says which calls of             *)
(* eg_mempool_check had the pool to themselves.  check takes no lock and   *)
(* the other calls change a free list before its counter, so only such a   *)
(* call can be relied on.                                                  *)
(***************************************************************************)
EXTENDS MemoryPool

VARIABLE alone   \* the threads whose last check met nobody in a critical section

CheckedInit == Init /\ alone = {}

CheckedNext ==
    /\ Next
    /\ alone' = IF lock' # Nil THEN {}
                ELSE alone \cup {t \in Thread : pc[t] = "idle" /\ pc'[t] = "head"}

CheckedSpec == CheckedInit /\ [][CheckedNext]_<<vars, alone>>

\* A check that nobody disturbed finds a pool that is used through its own
\* functions sound, whatever calls came before: each list ends within its count
\* and has as many blocks as its counter says.
CheckAlonePasses ==
    \A t \in alone : verdict[t] \notin {"mismatch", "overflow"}
=============================================================================
