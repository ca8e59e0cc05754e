------------------------------ MODULE FifoQueue ------------------------------
(***************************************************************************)
(* What a concurrent FIFO queue of include/lock_free_queue.h promises to   *)
(* its callers, with every operation a single step: what a sender offers   *)
(* goes in whole and unchanged, items leave in the order in which they     *)
(* went in, each exactly once, and never more than capacity of them are    *)
(* inside.  The SPSC and MPMC queues and the byte ring are shown to        *)
(* implement this module; a call that takes nothing changes nothing here.  *)
(***************************************************************************)
EXTENDS Naturals, Sequences

CONSTANTS Item,      \* what callers enqueue: opaque void* values
          Sender,    \* the threads that enqueue
          Receiver   \* the threads that dequeue

VARIABLES capacity,  \* 0 while the queue is not created
          queue,     \* the items inside, oldest first
          offer,     \* what each sender's call is about to put in; <<>> outside
          out        \* the items the last successful call handed to a receiver

vars == <<capacity, queue, offer, out>>

TypeOK ==
    /\ capacity \in Nat
    /\ queue \in Seq(Item)
    /\ Len(queue) <= capacity
    /\ offer \in [Sender -> Seq(Item)]
    /\ out \in [Receiver -> Seq(Item)]

Init ==
    /\ capacity = 0
    /\ queue = <<>>
    /\ offer = [s \in Sender |-> <<>>]
    /\ out = [r \in Receiver |-> <<>>]

Open ==
    /\ capacity = 0
    /\ capacity' \in Nat \ {0}
    /\ UNCHANGED <<queue, offer, out>>

\* Whatever is still inside is lost with the queue.
Close ==
    /\ capacity # 0
    /\ capacity' = 0
    /\ queue' = <<>>
    /\ UNCHANGED <<offer, out>>

\* Sender s begins a call with one item or with a batch.
Offer(s) ==
    /\ offer[s] = <<>>
    /\ offer' = [offer EXCEPT ![s] = offer'[s]] /\ offer'[s] \in Seq(Item)
    /\ UNCHANGED <<capacity, queue, out>>

\* The call finds no room and returns false.
Withdraw(s) ==
    /\ offer' = [offer EXCEPT ![s] = <<>>]
    /\ UNCHANGED <<capacity, queue, out>>

\* All that is offered goes in at the back, at once.
Enqueue(s) ==
    /\ queue' = queue \o offer[s]
    /\ Len(queue') <= capacity
    /\ offer' = [offer EXCEPT ![s] = <<>>]
    /\ UNCHANGED <<capacity, out>>

\* Receiver r is handed the n oldest items, which leave the queue.
Dequeue(r, n) ==
    /\ out' = [out EXCEPT ![r] = SubSeq(queue, 1, n)]
    /\ queue' = SubSeq(queue, n + 1, Len(queue))
    /\ UNCHANGED <<capacity, offer>>

\* Receiver r is shown the n oldest items, which stay.
Peek(r, n) ==
    /\ out' = [out EXCEPT ![r] = SubSeq(queue, 1, n)]
    /\ UNCHANGED <<capacity, queue, offer>>

\* The n oldest items leave the queue unseen.
Skip(n) ==
    /\ queue' = SubSeq(queue, n + 1, Len(queue))
    /\ UNCHANGED <<capacity, offer, out>>

Next ==
    \/ Open
    \/ Close
    \/ \E s \in Sender : Offer(s) \/ Withdraw(s) \/ Enqueue(s)
    \/ \E n \in 1..Len(queue) :
          Skip(n) \/ \E r \in Receiver : Dequeue(r, n) \/ Peek(r, n)

Spec == Init /\ [][Next]_vars
=============================================================================
