------------------------------- MODULE WsQueue -------------------------------
(***************************************************************************)
(* eg_wsqueue_t: the owner moves bottom, the thieves move top, and the two *)
(* sides meet over the last item with a compare-and-swap on top.  A step   *)
(* makes one access to memory another thread writes; the barriers of the   *)
(* code and its sequentially consistent atomics forbid every reordering a  *)
(* step-by-step reading would not show.                                    *)
(*                                                                         *)
(* top and bottom are s64 in the code; MaxPos bounds them here.            *)
(***************************************************************************)
EXTENDS Integers, Sequences, QueueCapacity

CONSTANTS Item,       \* the tasks
          NoItem,     \* the NULL that memset leaves in a slot
          Owner,      \* the thread that pushes and pops
          Thief,      \* the threads that steal
          Requests,   \* the capacities create is asked for
          MaxPos      \* bound: no push at this position or above

NoItemAssumption == NoItem \notin Item
RequestsAssumption ==
    \A request \in Requests : RoundedCapacity(request) \in Nat \ {0}
BoundsAssumption == MaxPos \in Nat
ThreadsAssumption == Owner \notin Thief

VARIABLES capacity,     \* 0 while the queue is not created
          buffer,       \* the slots, indexed by position & mask
          top,          \* the oldest position still inside
          bottom,       \* the position of the next push
          opc, oitem, otop,   \* the owner: where it is, its item, its copy of top
          tpc, titem, ttop,   \* the same of each thief
          out           \* the item each thread was handed last, as a sequence

memory  == <<capacity, buffer>>
owner   == <<opc, oitem, otop>>
thieves == <<tpc, titem, ttop>>
vars    == <<memory, top, bottom, owner, thieves, out>>

Slots == 0..(capacity - 1)

TypeOK ==
    /\ capacity \in Nat
    /\ buffer \in [Slots -> Item \cup {NoItem}]
    /\ top \in 0..MaxPos /\ bottom \in -1..MaxPos
    /\ opc \in {"idle", "write", "publish", "look", "cas", "restore", "settle"}
    /\ oitem \in Item \cup {NoItem} /\ otop \in 0..MaxPos
    /\ tpc \in [Thief -> {"idle", "bottom", "read", "cas"}]
    /\ titem \in [Thief -> Item \cup {NoItem}] /\ ttop \in [Thief -> 0..MaxPos]
    /\ out \in [Thief \cup {Owner} -> Seq(Item)]

Init ==
    /\ capacity = 0 /\ buffer = [s \in {} |-> NoItem]
    /\ top = 0 /\ bottom = 0
    /\ opc = "idle" /\ oitem = NoItem /\ otop = 0
    /\ tpc = [t \in Thief |-> "idle"]
    /\ titem = [t \in Thief |-> NoItem]
    /\ ttop = [t \in Thief |-> 0]
    /\ out = [t \in Thief \cup {Owner} |-> <<>>]

-----------------------------------------------------------------------------
(* Creation and destruction, while no thread is in a call *)

\* eg_malloc failing leaves the queue as it was: a stuttering step.
Create(request) ==
    /\ capacity = 0
    /\ capacity' = RoundedCapacity(request)
    /\ buffer' = [s \in 0..(capacity' - 1) |-> NoItem]
    /\ UNCHANGED <<top, bottom, owner, thieves, out>>

Destroy ==
    /\ capacity # 0 /\ opc = "idle" /\ \A t \in Thief : tpc[t] = "idle"
    /\ capacity' = 0 /\ buffer' = [s \in {} |-> NoItem]
    /\ top' = 0 /\ bottom' = 0
    /\ UNCHANGED <<owner, thieves, out>>

-----------------------------------------------------------------------------
(* The owner.  Only it writes bottom and buffer, so reading them is local. *)

\* A full queue makes push return false.
Push(item) ==
    /\ capacity # 0 /\ opc = "idle"
    /\ bottom < MaxPos
    /\ bottom - top < capacity
    /\ oitem' = item
    /\ opc' = "write"
    /\ UNCHANGED <<memory, top, bottom, otop, thieves, out>>

PushWrite ==
    /\ opc = "write"
    /\ buffer' = [buffer EXCEPT ![Slot(bottom, capacity)] = oitem]
    /\ opc' = "publish"
    /\ UNCHANGED <<capacity, top, bottom, oitem, otop, thieves, out>>

PushPublish ==
    /\ opc = "publish"
    /\ bottom' = bottom + 1
    /\ opc' = "idle"
    /\ UNCHANGED <<memory, top, oitem, otop, thieves, out>>

\* The owner claims the youngest item before it looks where the thieves are.
Pop ==
    /\ capacity # 0 /\ opc = "idle"
    /\ bottom' = bottom - 1
    /\ opc' = "look"
    /\ UNCHANGED <<memory, top, oitem, otop, thieves, out>>

\* Mutant: the last item is taken without the compare-and-swap.
PopLookNoRace ==
    /\ opc = "look"
    /\ otop' = top
    /\ oitem' = IF top <= bottom THEN buffer[Slot(bottom, capacity)] ELSE oitem
    /\ opc' = IF top <= bottom THEN "idle" ELSE "restore"
    /\ out' = IF top <= bottom THEN [out EXCEPT ![Owner] = <<oitem'>>] ELSE out
    /\ UNCHANGED <<memory, top, bottom, thieves>>

\* With another item above it the claimed one is safe and pop returns it.
PopLook ==
    /\ opc = "look"
    /\ otop' = top
    /\ oitem' = IF top <= bottom THEN buffer[Slot(bottom, capacity)] ELSE oitem
    /\ opc' = IF top < bottom THEN "idle" ELSE IF top = bottom THEN "cas" ELSE "restore"
    /\ out' = IF top < bottom THEN [out EXCEPT ![Owner] = <<oitem'>>] ELSE out
    /\ UNCHANGED <<memory, top, bottom, thieves>>

\* The last item goes to whoever moves top first.
PopCas ==
    /\ opc = "cas"
    /\ IF top = otop
       THEN top' = otop + 1 /\ out' = [out EXCEPT ![Owner] = <<oitem>>]
       ELSE UNCHANGED <<top, out>>
    /\ opc' = "settle"
    /\ UNCHANGED <<memory, bottom, oitem, otop, thieves>>

\* Mutant: pop leaves the decremented bottom when the item was stolen.
PopSettleForgotten ==
    /\ opc = "settle"
    /\ opc' = "idle"
    /\ UNCHANGED <<memory, top, bottom, oitem, otop, thieves, out>>

\* After the race, won or lost.
PopSettle ==
    /\ opc = "settle"
    /\ bottom' = otop + 1
    /\ opc' = "idle"
    /\ UNCHANGED <<memory, top, oitem, otop, thieves, out>>

\* The queue was empty.
PopRestore ==
    /\ opc = "restore"
    /\ bottom' = otop
    /\ opc' = "idle"
    /\ UNCHANGED <<memory, top, oitem, otop, thieves, out>>

-----------------------------------------------------------------------------
(* A thief *)

Steal(t) ==
    /\ capacity # 0 /\ tpc[t] = "idle"
    /\ ttop' = [ttop EXCEPT ![t] = top]
    /\ tpc' = [tpc EXCEPT ![t] = "bottom"]
    /\ UNCHANGED <<memory, top, bottom, owner, titem, out>>

\* Mutant: the last item is left to the owner.
StealLookNotLast(t) ==
    /\ tpc[t] = "bottom"
    /\ tpc' = [tpc EXCEPT ![t] = IF ttop[t] + 1 < bottom THEN "read" ELSE "idle"]
    /\ UNCHANGED <<memory, top, bottom, owner, titem, ttop, out>>

StealLook(t) ==
    /\ tpc[t] = "bottom"
    /\ tpc' = [tpc EXCEPT ![t] = IF ttop[t] < bottom THEN "read" ELSE "idle"]
    /\ UNCHANGED <<memory, top, bottom, owner, titem, ttop, out>>

\* The slot may already be the owner's again: then the compare-and-swap fails.
StealRead(t) ==
    /\ tpc[t] = "read"
    /\ titem' = [titem EXCEPT ![t] = buffer[Slot(ttop[t], capacity)]]
    /\ tpc' = [tpc EXCEPT ![t] = "cas"]
    /\ UNCHANGED <<memory, top, bottom, owner, ttop, out>>

StealCas(t) ==
    /\ tpc[t] = "cas"
    /\ IF top = ttop[t]
       THEN top' = top + 1 /\ out' = [out EXCEPT ![t] = <<titem[t]>>]
       ELSE UNCHANGED <<top, out>>
    /\ tpc' = [tpc EXCEPT ![t] = "idle"]
    /\ UNCHANGED <<memory, bottom, owner, titem, ttop>>

-----------------------------------------------------------------------------
OwnerStep == PushWrite \/ PushPublish \/ PopLook \/ PopCas \/ PopSettle \/ PopRestore
StealStep(t) == StealLook(t) \/ StealRead(t) \/ StealCas(t)

Next ==
    \/ Destroy
    \/ \E request \in Requests : Create(request)
    \/ \E item \in Item : Push(item)
    \/ Pop
    \/ OwnerStep
    \/ \E t \in Thief : Steal(t) \/ StealStep(t)

Spec == Init /\ [][Next]_vars

\* A thread inside a call keeps running, and the thieves try again and again.
Fairness ==
    /\ WF_vars(OwnerStep)
    /\ \A t \in Thief : WF_vars(Steal(t) \/ StealStep(t))

-----------------------------------------------------------------------------
(* Properties *)

\* Where the items end: while a pop is undecided, or has not yet corrected
\* bottom, the decrement it began with does not count.
Settled ==
    IF opc \in {"look", "cas", "restore", "settle"} THEN bottom + 1 ELSE bottom

Contents == [i \in 1..(Settled - top) |-> buffer[Slot(top + i - 1, capacity)]]

Offered == IF opc \in {"write", "publish"} THEN <<oitem>> ELSE <<>>

Deque == INSTANCE WorkDeque WITH offer <- Offered, deque <- Contents

\* Every push, pop and steal takes effect as one step of a bounded deque: each
\* item is handed to exactly one thread, the owner's youngest first, the
\* thieves' oldest first, also when all of them race for the last one.
DequeSpec == Deque!Spec

\* The owner finds the positions in order: no pop leaves bottom where the next
\* push would overwrite or lose an item, and the s64 difference that push
\* converts to u64 is not negative.
PositionsInOrder ==
    /\ top <= Settled /\ Settled <= top + capacity /\ Settled <= MaxPos
    /\ opc \in {"restore", "settle"} => top = Settled
    /\ capacity = 0 => top = 0 /\ bottom = 0

\* Every position from top on holds an item.
SlotsHoldItems ==
    \A q \in top..(Settled - 1) : buffer[Slot(q, capacity)] \in Item

\* What the owner may rely on inside a call, whatever the thieves did since.
OwnerSound ==
    /\ opc # "idle" => capacity # 0
    /\ opc \in {"write", "publish"} =>
          bottom < MaxPos /\ bottom < top + capacity /\ oitem \in Item
    /\ opc = "publish" => buffer[Slot(bottom, capacity)] = oitem
    /\ opc \in {"cas", "settle"} => otop = bottom
    /\ opc = "cas" => top \in {otop, otop + 1} /\ oitem = buffer[Slot(otop, capacity)]
    /\ opc = "restore" => otop = Settled

\* What a thief may rely on: as long as top is where it saw it, the item there is
\* the one it read and the owner has not taken it.
ThiefSound(t) ==
    /\ tpc[t] # "idle" => capacity # 0 /\ ttop[t] <= top
    /\ tpc[t] \in {"read", "cas"} /\ ttop[t] = top => top < Settled
    /\ tpc[t] = "cas" /\ ttop[t] = top => titem[t] = buffer[Slot(top, capacity)]

\* eg_wsqueue_t between any two steps.
PositionsSound ==
    /\ TypeOK /\ PositionsInOrder /\ SlotsHoldItems /\ OwnerSound
    /\ \A t \in Thief : ThiefSound(t)

\* A steal that returns false without losing a race found the queue empty, or somebody
\* took the item it had seen since it loaded top, or it met the owner on its way to the
\* last item: bottom is down although the pop is undecided.
FailedStealHasCause ==
    [][\A t \in Thief : tpc[t] = "bottom" /\ tpc'[t] = "idle" =>
          \/ top = Settled
          \/ ttop[t] < top
          \/ opc \in {"look", "cas"} /\ Settled = top + 1]_vars

\* What the owner leaves alone the thieves take, the last item included.
LeftToThieves ==
    \A p \in 0..(MaxPos - 1) :
        (top <= p /\ p < bottom) ~> (top > p \/ bottom <= p)
=============================================================================
