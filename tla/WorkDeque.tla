------------------------------ MODULE WorkDeque ------------------------------
(***************************************************************************)
(* What a work-stealing queue promises: the owner pushes and pops at the   *)
(* bottom, the other threads take the oldest item from the top, and every  *)
(* item pushed is handed, unchanged, to exactly one thread.  A call that   *)
(* returns false changes nothing here.                                     *)
(***************************************************************************)
EXTENDS Naturals, Sequences

CONSTANTS Item,      \* the tasks
          Owner,     \* the thread that owns the queue
          Thief      \* the others

VARIABLES capacity,  \* 0 while the queue is not created
          deque,     \* the items inside, from the top to the bottom
          offer,     \* what the owner's push is about to put in; <<>> outside
          out        \* the item each thread was handed last, as a sequence

vars == <<capacity, deque, offer, out>>

Init ==
    /\ capacity = 0
    /\ deque = <<>>
    /\ offer = <<>>
    /\ out = [t \in Thief \cup {Owner} |-> <<>>]

Open ==
    /\ capacity = 0
    /\ capacity' \in Nat \ {0}
    /\ UNCHANGED <<deque, offer, out>>

Close ==
    /\ capacity # 0
    /\ capacity' = 0
    /\ deque' = <<>>
    /\ UNCHANGED <<offer, out>>

\* The owner begins a push that has room.
Offer(item) ==
    /\ offer = <<>> /\ Len(deque) < capacity
    /\ offer' = <<item>>
    /\ UNCHANGED <<capacity, deque, out>>

Push ==
    /\ offer # <<>>
    /\ deque' = deque \o offer
    /\ Len(deque') <= capacity
    /\ offer' = <<>>
    /\ UNCHANGED <<capacity, out>>

Pop ==
    /\ deque # <<>>
    /\ out' = [out EXCEPT ![Owner] = <<deque[Len(deque)]>>]
    /\ deque' = SubSeq(deque, 1, Len(deque) - 1)
    /\ UNCHANGED <<capacity, offer>>

Steal(t) ==
    /\ deque # <<>>
    /\ out' = [out EXCEPT ![t] = <<Head(deque)>>]
    /\ deque' = Tail(deque)
    /\ UNCHANGED <<capacity, offer>>

Next ==
    \/ Open
    \/ Close
    \/ \E item \in Item : Offer(item)
    \/ Push
    \/ Pop
    \/ \E t \in Thief : Steal(t)

Spec == Init /\ [][Next]_vars
=============================================================================
