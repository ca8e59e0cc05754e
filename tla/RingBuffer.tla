----------------------------- MODULE RingBuffer -----------------------------
(***************************************************************************)
(* eg_ring_buf_t: a ring of bytes between one writing and one reading      *)
(* thread.  A call copies what fits in at most two pieces, the second one  *)
(* when the first reaches the end of the buffer, and then moves its        *)
(* position.  A step makes one access to a position of the other thread,   *)
(* or copies one piece.                                                    *)
(*                                                                         *)
(* Positions are usize and wrap: Word stands for 2^32 or 2^64.  Nothing    *)
(* else bounds the run, so any number of bytes passes through the ring.    *)
(***************************************************************************)
EXTENDS Integers, Sequences, QueueCapacity

CONSTANTS Byte,       \* what the writer puts in
          Unset,      \* a byte of the fresh buffer
          Requests,   \* the capacities create is asked for
          MaxLen,     \* the longest transfer a call asks for
          Word        \* the modulus of usize arithmetic

ASSUME UnsetAssumption == Unset \notin Byte
ASSUME MaxLenAssumption == MaxLen \in Nat
ASSUME WordAssumption ==
    /\ Word \in Nat \ {0}
    /\ \A request \in Requests :
          LET c == RoundedCapacity(request)
          IN  c \in 1..(Word - 1) /\ Word % c = 0

VARIABLES capacity,    \* 0 while the ring is not created
          buffer,
          read_pos, write_pos,
          data, copied,      \* of write: what it puts in, how much is copied
          call,        \* what the reader is inside: "read", "peek", "skip", "none"
          want, got,   \* of the reader's call: how many bytes, those copied so far
          out          \* what the last read or peek handed to its caller

ring   == <<capacity, buffer>>
writer == <<data, copied>>
reader == <<call, want, got, out>>
vars   == <<ring, read_pos, write_pos, writer, reader>>

Slots == 0..(capacity - 1)

TypeOK ==
    /\ capacity \in Nat
    /\ buffer \in [Slots -> Byte \cup {Unset}]
    /\ read_pos \in 0..(Word - 1) /\ write_pos \in 0..(Word - 1)
    /\ data \in Seq(Byte) /\ copied \in 0..Len(data)
    /\ call \in {"none", "read", "peek", "skip"}
    /\ want \in Nat /\ got \in Seq(Byte) /\ Len(got) <= want
    /\ out \in Seq(Byte)

Init ==
    /\ capacity = 0 /\ buffer = [s \in {} |-> Unset]
    /\ read_pos = 0 /\ write_pos = 0
    /\ data = <<>> /\ copied = 0
    /\ call = "none" /\ want = 0 /\ got = <<>> /\ out = <<>>

Smaller(a, b) == IF a <= b THEN a ELSE b

Readable == (write_pos - read_pos) % Word

Writable == (capacity - Readable) % Word

\* The bytes of a piece that starts at position p and has n bytes to go.
Piece(p, n) == Smaller(capacity - Slot(p, capacity), n)

Idle == data = <<>> /\ call = "none"

-----------------------------------------------------------------------------
(* The owner, while no thread is in a call *)

\* A failing eg_malloc leaves the ring as it was: a stuttering step.
Create(request) ==
    /\ capacity = 0
    /\ capacity' = RoundedCapacity(request)
    /\ buffer' = [s \in 0..(capacity' - 1) |-> Unset]
    /\ UNCHANGED <<read_pos, write_pos, writer, reader>>

Destroy ==
    /\ capacity # 0 /\ Idle
    /\ capacity' = 0 /\ buffer' = [s \in {} |-> Unset]
    /\ read_pos' = 0 /\ write_pos' = 0
    /\ UNCHANGED <<writer, reader>>

Clear ==
    /\ capacity # 0 /\ Idle
    /\ read_pos' = 0 /\ write_pos' = 0
    /\ UNCHANGED <<ring, writer, reader>>

-----------------------------------------------------------------------------
(* The writer *)

\* A call up to its decision; nothing writable makes it return 0.
Write(bytes) ==
    /\ capacity # 0 /\ data = <<>>
    /\ data' = SubSeq(bytes, 1, Smaller(Len(bytes), Writable))
    /\ UNCHANGED <<ring, read_pos, write_pos, copied, reader>>

\* Mutant: the second piece goes on behind the first one's slot.
WriteCopyNoWrap ==
    /\ copied < Len(data)
    /\ LET n  == Len(data) - copied
           at == Slot(write_pos + copied, capacity)
       IN  /\ buffer' = [s \in Slots |->
                            IF s \in at..(at + n - 1) THEN data[copied + 1 + s - at]
                                                      ELSE buffer[s]]
           /\ copied' = copied + n
    /\ UNCHANGED <<capacity, read_pos, write_pos, data, reader>>

WriteCopy ==
    /\ copied < Len(data)
    /\ LET n  == Piece(write_pos + copied, Len(data) - copied)
           at == Slot(write_pos + copied, capacity)
       IN  /\ buffer' = [s \in Slots |->
                            IF s \in at..(at + n - 1) THEN data[copied + 1 + s - at]
                                                      ELSE buffer[s]]
           /\ copied' = copied + n
    /\ UNCHANGED <<capacity, read_pos, write_pos, data, reader>>

WritePublish ==
    /\ data # <<>> /\ copied = Len(data)
    /\ write_pos' = (write_pos + Len(data)) % Word
    /\ data' = <<>> /\ copied' = 0
    /\ UNCHANGED <<ring, read_pos, reader>>

-----------------------------------------------------------------------------
(* The reader *)

\* Mutant: skip moves on by what it was asked for.
DecideSkipAll(which, n) ==
    /\ capacity # 0 /\ call = "none"
    /\ want' = IF which = "skip" THEN n ELSE Smaller(n, Readable)
    /\ call' = IF want' = 0 THEN "none" ELSE which
    /\ UNCHANGED <<ring, read_pos, write_pos, writer, got, out>>

\* The start of read, peek and skip: none takes more than is readable.
Decide(which, n) ==
    /\ capacity # 0 /\ call = "none"
    /\ want' = Smaller(n, Readable)
    /\ call' = IF want' = 0 THEN "none" ELSE which
    /\ UNCHANGED <<ring, read_pos, write_pos, writer, got, out>>

ReadCopy ==
    /\ call \in {"read", "peek"} /\ Len(got) < want
    /\ LET n  == Piece(read_pos + Len(got), want - Len(got))
           at == Slot(read_pos + Len(got), capacity)
       IN  got' = got \o [i \in 1..n |-> buffer[at + i - 1]]
    /\ UNCHANGED <<ring, read_pos, write_pos, writer, call, want, out>>

\* The end of a call: peek leaves the position alone, skip hands out nothing.
ReturnBytes ==
    /\ call # "none"
    /\ call # "skip" => Len(got) = want
    /\ read_pos' = IF call = "peek" THEN read_pos ELSE (read_pos + want) % Word
    /\ out' = IF call = "skip" THEN out ELSE got
    /\ call' = "none" /\ want' = 0 /\ got' = <<>>
    /\ UNCHANGED <<ring, write_pos, writer>>

-----------------------------------------------------------------------------
Transfers == UNION {[1..n -> Byte] : n \in 1..MaxLen}

Next ==
    \/ \E request \in Requests : Create(request)
    \/ Destroy
    \/ Clear
    \/ \E bytes \in Transfers : Write(bytes)
    \/ WriteCopy
    \/ WritePublish
    \/ \E which \in {"read", "peek", "skip"}, n \in 1..MaxLen : Decide(which, n)
    \/ ReadCopy
    \/ ReturnBytes

Spec == Init /\ [][Next]_vars

-----------------------------------------------------------------------------
(* Properties *)

\* The slots write is filling are never those a read or peek is copying, also
\* after the positions have wrapped at the width of usize.
Filling == {Slot(write_pos + i, capacity) : i \in copied..(Len(data) - 1)}
Reading == {Slot(read_pos + i, capacity) : i \in Len(got)..(want - 1)}
NoDataRace == Filling \cap Reading = {}

\* What is readable and what write is adding to it never exceed the ring, and a
\* reader's call never passes what is readable: neither unsigned difference of
\* the code wraps.
WithinCapacity ==
    /\ Readable + Len(data) <= capacity
    /\ want <= Readable

\* However a transfer is cut in two, each of its bytes is where its position says:
\* written bytes behind write_pos, bytes copied out still as the ring has them.
PiecesInPlace ==
    /\ \A i \in 1..copied : buffer[Slot(write_pos + i - 1, capacity)] = data[i]
    /\ \A i \in 1..Len(got) : got[i] = buffer[Slot(read_pos + i - 1, capacity)]

\* Everything readable was written.
ReadableWritten ==
    \A i \in 1..Readable : buffer[Slot(read_pos + i - 1, capacity)] \in Byte

\* What the calls know of themselves.
CallsInBounds ==
    /\ capacity = 0 => read_pos = 0 /\ write_pos = 0 /\ Idle
    /\ capacity # 0 => capacity < Word /\ Word % capacity = 0
    /\ call = "none" <=> want = 0
    /\ call = "skip" => got = <<>>

\* eg_ring_buf_t between any two steps of its two threads.
RingSound ==
    /\ TypeOK /\ CallsInBounds /\ WithinCapacity /\ ReadableWritten /\ PiecesInPlace
    /\ NoDataRace

\* The ring as its callers see it.
Contents == [i \in 1..Readable |-> buffer[Slot(read_pos + i - 1, capacity)]]

Fifo == INSTANCE FifoQueue WITH
            Item <- Byte,
            Sender <- {"writer"},
            Receiver <- {"reader"},
            offer <- [s \in {"writer"} |-> data],
            queue <- Contents,
            out <- [r \in {"reader"} |-> out]

\* Every call, in whatever pieces it copies, takes effect at its store to
\* write_pos or read_pos as one step of a bounded FIFO of bytes.
FifoSpec == Fifo!Spec
=============================================================================
