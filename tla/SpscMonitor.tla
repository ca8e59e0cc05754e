----------------------------- MODULE SpscMonitor -----------------------------
(***************************************************************************)
(* eg_spsc_queue_size, and eg_spsc_queue_empty and eg_spsc_queue_full,     *)
(* which call it: two loads, of head and then of tail, with SpscQueue      *)
(* running in between.  Either side of the queue may call it between its   *)
(* own operations; so may a third thread that watches the queue.           *)
(***************************************************************************)
EXTENDS SpscQueue

CONSTANTS Callers,   \* who calls size
          Word       \* bound: the modulus of the u64 arithmetic

ASSUME CallersAssumption == Callers \subseteq {"producer", "consumer", "monitor"}
ASSUME WordAssumption == Word \in Nat /\ Word > MaxPos

VARIABLES caller,    \* who is inside size, or "none"
          loaded,    \* the head it has loaded
          size       \* what the last call returned

mvars == <<caller, loaded, size>>

MonitorInit == Init /\ caller = "none" /\ loaded = 0 /\ size = 0

SizeLoadHead(who) ==
    /\ capacity # 0 /\ caller = "none"
    /\ who = "producer" => ProducerIdle
    /\ who = "consumer" => ConsumerIdle
    /\ caller' = who
    /\ loaded' = head
    /\ UNCHANGED <<vars, size>>

\* Mutant: size uses the producer's copy of tail.
SizeLoadTailCache ==
    /\ caller # "none"
    /\ caller' = "none"
    /\ size' = (loaded - tail_cache) % Word
    /\ UNCHANGED <<vars, loaded>>

SizeLoadTail ==
    /\ caller # "none"
    /\ caller' = "none"
    /\ size' = (loaded - tail) % Word
    /\ UNCHANGED <<vars, loaded>>

\* A thread inside size does nothing else, and the queue is destroyed only when
\* nobody uses it.
QueueNext ==
    /\ \/ OwnerNext /\ caller = "none"
       \/ ProducerNext /\ caller # "producer"
       \/ ConsumerNext /\ caller # "consumer"
    /\ UNCHANGED mvars

MonitorNext == QueueNext \/ SizeLoadTail \/ \E who \in Callers : SizeLoadHead(who)

allvars == <<vars, mvars>>

MonitorSpec == MonitorInit /\ [][MonitorNext]_allvars

-----------------------------------------------------------------------------
Returns == caller # "none" /\ caller' = "none"

\* Called by the producer or by the consumer, size never reports more than is in
\* the queue when it returns; the producer's answer is exact.  A third thread's is
\* neither: a queue filled and drained between the two loads gives a size below zero,
\* that is one near the modulus.
OwnSizeNeverOver ==
    [][Returns => /\ caller # "monitor" => size' <= head - tail
                  /\ caller = "producer" => size' = head - tail]_allvars

\* Inside size, what its own side moves has not moved since the load of head: the
\* producer's head is the one loaded, the consumer's tail is still behind it.
LoadedInBounds ==
    /\ loaded \in Nat /\ caller \in {"none", "producer", "consumer", "monitor"}
    /\ caller = "producer" => loaded = head
    /\ caller = "consumer" => tail <= loaded /\ loaded <= head
=============================================================================
