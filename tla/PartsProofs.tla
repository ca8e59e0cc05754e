--------------------------- MODULE PartsProofs ---------------------------
(***************************************************************************)
(* The safety of the parts that MCParts puts side by side, for every value *)
(* of its constants.                                                       *)
(*                                                                         *)
(* The byte ring: every set of bytes, every capacity create can round to,  *)
(* every transfer length and every width of usize that is a multiple of    *)
(* the capacities.  IInv, the ring sound but for the race, is inductive.   *)
(* Everything in the ring is numbered from read_pos: At(j) is the slot j   *)
(* bytes behind it, so that write_pos, which may have wrapped when         *)
(* read_pos has not, is number Readable.  Numbers less than a lap apart    *)
(* are different slots, and that is why the threads never touch the same   *)
(* slot.                                                                   *)
(*                                                                         *)
(* The object pool: any blocks and any capacities.  ObjectsInv says who    *)
(* has each block, as sets, next to the stack as a sequence.               *)
(*                                                                         *)
(* The exporter: any callers, calls, clients and number of events.         *)
(* ExporterInv relates each metric to what the callers have still to add.  *)
(***************************************************************************)
EXTENDS MCParts, SequencesExt, QueueCapacityProofs, SequenceTheorems, FiniteSetTheorems

\* The byte ring: its soundness without the race, which follows.
IInv == TypeOK /\ CallsInBounds /\ WithinCapacity /\ ReadableWritten /\ PiecesInPlace

\* The slot j bytes behind the reader.
At(j) == Slot(read_pos + j, capacity)

\* What IInv says, in the form the steps use.
LEMMA Types ==
    ASSUME IInv
    PROVE  /\ capacity \in Nat /\ copied \in Nat /\ want \in Nat
           /\ read_pos \in 0..(Word - 1) /\ write_pos \in 0..(Word - 1)
           /\ Len(data) \in Nat /\ Len(got) \in Nat
           /\ copied <= Len(data) /\ Len(got) <= want
           /\ Readable \in 0..(Word - 1)
           /\ want <= Readable /\ Readable + Len(data) <= capacity
<1>1. read_pos \in 0..(Word - 1) /\ write_pos \in 0..(Word - 1)
  BY DEF IInv, TypeOK
<1>2. Readable \in 0..(Word - 1)
  BY <1>1, WordAssumption, WrappedDifference DEF Readable
<1>3. /\ capacity \in Nat /\ want \in Nat /\ Len(data) \in Nat /\ Len(got) \in Nat
      /\ copied \in 0..Len(data) /\ Len(got) <= want
  BY LenProperties DEF IInv, TypeOK
<1>4. want <= Readable /\ Readable + Len(data) <= capacity
  BY DEF IInv, WithinCapacity
<1> QED
  BY <1>1, <1>2, <1>3, <1>4

\* Of a ring that exists.
LEMMA CapacityDivides ==
    ASSUME IInv, capacity # 0
    PROVE  /\ capacity \in Nat \ {0} /\ Word \in Nat \ {0}
           /\ capacity < Word /\ Slot(Word, capacity) = 0
BY Types, WordAssumption DEF IInv, CallsInBounds, Slot

\* The writer's slots, numbered from the reader's position.
LEMMA WriterSlots ==
    ASSUME IInv, capacity # 0, NEW j \in Nat
    PROVE  Slot(write_pos + j, capacity) = At(Readable + j)
<1> DEFINE n == Readable
<1>1. /\ read_pos \in 0..(Word - 1) /\ write_pos \in 0..(Word - 1) /\ Word \in Nat \ {0}
      /\ capacity \in Nat \ {0} /\ Slot(Word, capacity) = 0
  BY Types, CapacityDivides
<1>2. n \in 0..(Word - 1) /\ (read_pos + n = write_pos \/ read_pos + n = write_pos + Word)
  BY <1>1, WrappedDifference DEF Readable
<1> HIDE DEF n
<1>3. CASE read_pos + n = write_pos
  <2>1. read_pos + (n + j) = write_pos + j
    BY <1>1, <1>2, <1>3
  <2>2. Slot(write_pos + j, capacity) = At(n + j)
    BY <2>1 DEF At
  <2> QED
    BY <2>2 DEF n
<1>4. CASE read_pos + n = write_pos + Word
  <2>1. write_pos + j \in Nat /\ read_pos + (n + j) = (write_pos + j) + Word
    BY <1>1, <1>2, <1>4
  <2>2. Slot((write_pos + j) + Word, capacity) = Slot(write_pos + j, capacity)
    BY <1>1, <2>1, SlotOfWrapped
  <2>3. Slot(write_pos + j, capacity) = At(n + j)
    BY <2>1, <2>2 DEF At
  <2> QED
    BY <2>3 DEF n
<1> QED
  BY <1>2, <1>3, <1>4

\* Numbers less than a lap apart are different slots.
LEMMA NumbersApart ==
    ASSUME IInv, capacity # 0, NEW i \in Nat, NEW j \in Nat, i < j, j < i + capacity
    PROVE  At(i) # At(j)
<1>1. /\ capacity \in Nat \ {0} /\ read_pos + i \in Nat /\ read_pos + j \in Nat
      /\ read_pos + i < read_pos + j /\ read_pos + j < (read_pos + i) + capacity
  BY Types
<1> QED
  BY <1>1, SlotInjective DEF At

\* The slots write has yet to fill and those the reader has yet to copy are apart.
LEMMA RaceFree == IInv => NoDataRace
<1> SUFFICES ASSUME IInv,
                    NEW i \in copied..(Len(data) - 1), NEW j \in Len(got)..(want - 1),
                    Slot(write_pos + i, capacity) = Slot(read_pos + j, capacity)
             PROVE  FALSE
  BY DEF NoDataRace, Filling, Reading
<1>1. /\ i \in Nat /\ j \in Nat /\ Readable \in Nat /\ capacity # 0
      /\ Readable + i \in Nat /\ j < Readable + i /\ Readable + i < j + capacity
  BY Types
<1>2. Slot(write_pos + i, capacity) = At(Readable + i)
  BY <1>1, WriterSlots
<1>3. At(j) # At(Readable + i)
  BY <1>1, NumbersApart
<1> QED
  BY <1>2, <1>3 DEF At

\* No ring exists at first.
LEMMA InitIInv == Init => IInv
<1> SUFFICES ASSUME Init
             PROVE  IInv
  OBVIOUS
<1> USE WordAssumption DEF Init
<1>1. Readable = 0
  <2>1. Slot(0, Word) = 0
    BY SlotOfFirstLap
  <2> QED
    BY <2>1 DEF Readable, Slot
<1>2. TypeOK
  <2>1. 0..(0 - 1) = {} /\ buffer \in [{} -> Byte \cup {Unset}]
    OBVIOUS
  <2>2. <<>> \in Seq(Byte) /\ Len(<<>>) = 0 /\ 0 \in 0..0 /\ 0 \in 0..(Word - 1)
    BY EmptySeq
  <2>3. buffer \in [Slots -> Byte \cup {Unset}]
    BY <2>1 DEF Slots
  <2> QED
    BY <2>2, <2>3 DEF TypeOK
<1>3. CallsInBounds /\ WithinCapacity /\ ReadableWritten /\ PiecesInPlace
  BY <1>1 DEF CallsInBounds, WithinCapacity, ReadableWritten, PiecesInPlace, Idle
<1> QED
  BY <1>2, <1>3 DEF IInv

\* eg_ring_buf_create.
LEMMA CreateStep ==
    ASSUME IInv, NEW size \in Requests, Create(size)
    PROVE  IInv'
<1> USE DEF Create, writer, reader
<1>1. capacity' \in Nat \ {0} /\ capacity' < Word /\ Word % capacity' = 0
  BY WordAssumption
<1>2. TypeOK'
  BY <1>1 DEF IInv, TypeOK, Slots
<1>3. read_pos = 0 /\ write_pos = 0 /\ data = <<>> /\ call = "none" /\ want = 0
  BY DEF IInv, CallsInBounds, Idle
<1>4. Readable = 0 /\ Readable' = 0
  <2>1. Slot(0, Word) = 0
    BY WordAssumption, SlotOfFirstLap
  <2> QED
    BY <1>3, <2>1 DEF Readable, Slot
<1>5. copied = 0 /\ Len(data) = 0 /\ got = <<>> /\ Len(got) = 0
  BY <1>3, Types, EmptySeq DEF IInv, TypeOK
<1>6. CallsInBounds' /\ WithinCapacity' /\ ReadableWritten' /\ PiecesInPlace'
  BY <1>1, <1>3, <1>4, <1>5
     DEF CallsInBounds, WithinCapacity, ReadableWritten, PiecesInPlace, IInv
<1> QED
  BY <1>2, <1>6 DEF IInv

\* Destroy and clear leave both positions at the start of the buffer.
LEMMA PositionsReset ==
    ASSUME IInv, Idle, read_pos' = 0, write_pos' = 0, UNCHANGED <<writer, reader>>,
           \/ capacity' = 0 /\ buffer' = [s \in {} |-> Unset]
           \/ UNCHANGED ring /\ capacity # 0
    PROVE  IInv'
<1> USE DEF writer, reader, ring, Idle
<1>1. Readable' = 0
  <2>1. Slot(0, Word) = 0
    BY WordAssumption, SlotOfFirstLap
  <2> QED
    BY <2>1 DEF Readable, Slot
<1>2. want = 0 /\ copied = 0 /\ Len(data) = 0 /\ Len(got) = 0
  BY Types DEF IInv, CallsInBounds
<1>3. TypeOK'
  <2>1. CASE capacity' = 0 /\ buffer' = [s \in {} |-> Unset]
    <3>1. 0..(0 - 1) = {}
      OBVIOUS
    <3> QED
      BY <2>1, <3>1, WordAssumption DEF IInv, TypeOK, Slots
  <2>2. CASE UNCHANGED ring
    BY <2>2, WordAssumption DEF IInv, TypeOK, Slots
  <2> QED
    BY <2>1, <2>2
<1>4. CallsInBounds' /\ WithinCapacity' /\ ReadableWritten' /\ PiecesInPlace'
  BY <1>1, <1>2, Types
     DEF CallsInBounds, WithinCapacity, ReadableWritten, PiecesInPlace, IInv
<1> QED
  BY <1>3, <1>4 DEF IInv

\* A write decides how much it takes.
LEMMA WriteStep ==
    ASSUME IInv, NEW bytes \in Seq(Byte), Write(bytes)
    PROVE  IInv'
<1> USE DEF Write, ring, reader
<1>1. Writable = capacity - Readable
  <2>1. capacity - Readable \in Nat /\ capacity - Readable < Word /\ Word \in Nat \ {0}
    BY Types, CapacityDivides
  <2>2. Slot(capacity - Readable, Word) = capacity - Readable
    BY <2>1, SlotOfFirstLap
  <2> QED
    BY <2>2 DEF Writable, Slot
<1> DEFINE n == Smaller(Len(bytes), Writable)
<1>2. Len(bytes) \in Nat /\ n \in Nat /\ n <= Len(bytes) /\ Readable + n <= capacity
  BY <1>1, Types, LenProperties DEF Smaller
<1>3. data' \in Seq(Byte) /\ Len(data') = n
  BY <1>2, SubSeqProperties, ElementOfSeq
<1>4. copied = 0
  BY EmptySeq DEF IInv, TypeOK
<1>5. Readable' = Readable
  BY DEF Readable
<1>6. TypeOK'
  BY <1>2, <1>3, <1>4 DEF IInv, TypeOK, Slots
<1>7. CallsInBounds' /\ WithinCapacity'
  BY <1>2, <1>3, <1>5 DEF CallsInBounds, WithinCapacity, IInv, Idle
<1>8. ReadableWritten' /\ PiecesInPlace'
  BY <1>4, <1>5 DEF ReadableWritten, PiecesInPlace, IInv
<1> QED
  BY <1>6, <1>7, <1>8 DEF IInv

\* A piece is at least one byte, no more than the call has left, and ends at the end of
\* the buffer at the latest.
LEMMA PieceFits ==
    ASSUME IInv, capacity # 0, NEW p \in Nat, NEW n \in Nat \ {0}
    PROVE  /\ Piece(p, n) \in 1..n
           /\ Slot(p, capacity) \in 0..(capacity - 1)
           /\ \A k \in 0..(Piece(p, n) - 1) :
                 Slot(p + k, capacity) = Slot(p, capacity) + k
<1> DEFINE at == Slot(p, capacity)
<1>1. capacity \in Nat \ {0} /\ at \in 0..(capacity - 1)
  BY Types, SlotInRange
<1>2. Piece(p, n) \in 1..n /\ Piece(p, n) <= capacity - at
  BY <1>1 DEF Piece, Smaller
<1>3. ASSUME NEW k \in 0..(Piece(p, n) - 1)
      PROVE  Slot(p + k, capacity) = Slot(p, capacity) + k
  <2>1. k \in Nat /\ Slot(p, capacity) + k < capacity
    BY <1>1, <1>2
  <2> QED
    BY <1>1, <2>1, SlotsInARow
<1> QED
  BY <1>1, <1>2, <1>3

\* What a step of write puts where: the bytes of its piece in the slots numbered from
\* Readable + copied on, and nothing into the slots of lower numbers.
LEMMA WriteCopyEffect ==
    ASSUME IInv, WriteCopy
    PROVE  /\ copied' \in (copied + 1)..Len(data) /\ capacity # 0
           /\ buffer' \in [Slots -> Byte \cup {Unset}]
           /\ \A j \in Nat : j < Readable + copied => buffer'[At(j)] = buffer[At(j)]
           /\ \A i \in (copied + 1)..copied' : buffer'[At(Readable + i - 1)] = data[i]
<1> DEFINE p  == write_pos + copied
           n  == Piece(p, Len(data) - copied)
           at == Slot(p, capacity)
<1>1. /\ capacity \in Nat \ {0} /\ copied \in Nat /\ Len(data) \in Nat /\ Readable \in Nat
      /\ copied < Len(data) /\ Readable + Len(data) <= capacity /\ write_pos \in Nat
  BY Types DEF WriteCopy
<1>2. p \in Nat /\ Len(data) - copied \in Nat \ {0}
  BY <1>1
<1>3. /\ n \in 1..(Len(data) - copied) /\ at \in 0..(capacity - 1)
      /\ \A k \in 0..(n - 1) : Slot(p + k, capacity) = at + k
  BY <1>1, <1>2, PieceFits
<1>4. /\ copied' = copied + n
      /\ buffer' = [s \in Slots |->
                       IF s \in at..(at + n - 1) THEN data[copied + 1 + s - at]
                                                 ELSE buffer[s]]
  BY DEF WriteCopy
<1> HIDE DEF n, at
<1>5. copied' \in (copied + 1)..Len(data)
  BY <1>1, <1>3, <1>4
<1>6. buffer' \in [Slots -> Byte \cup {Unset}]
  <2>1. ASSUME NEW s \in Slots, s \in at..(at + n - 1)
        PROVE  data[copied + 1 + s - at] \in Byte
    <3>1. copied + 1 + s - at \in 1..Len(data)
      BY <1>1, <1>3, <2>1
    <3> QED
      BY <3>1, ElementOfSeq DEF IInv, TypeOK
  <2>2. ASSUME NEW s \in Slots
        PROVE  buffer[s] \in Byte \cup {Unset}
    BY DEF IInv, TypeOK
  <2> QED
    BY <1>4, <2>1, <2>2
<1>7. ASSUME NEW k \in 0..(n - 1)
      PROVE  /\ At(Readable + copied + k) = at + k
             /\ at + k \in at..(at + n - 1)
  <2>1. copied + k \in Nat /\ write_pos + (copied + k) = p + k
    BY <1>1
  <2>2. Readable + (copied + k) = Readable + copied + k
    BY <1>1
  <2>3. Slot(p + k, capacity) = At(Readable + copied + k)
    BY <1>1, <2>1, <2>2, WriterSlots
  <2> QED
    BY <1>3, <2>3
<1>8. ASSUME NEW j \in Nat
      PROVE  At(j) \in Slots
  <2>1. read_pos + j \in Nat
    BY Types
  <2> QED
    BY <1>1, <2>1, SlotInRange DEF At, Slots
<1>9. ASSUME NEW j \in Nat, j < Readable + copied
      PROVE  buffer'[At(j)] = buffer[At(j)]
  <2>1. ASSUME At(j) \in at..(at + n - 1)
        PROVE  FALSE
    <3> DEFINE k == At(j) - at
    <3>1. k \in 0..(n - 1) /\ At(j) = at + k
      BY <1>3, <2>1
    <3> HIDE DEF k
    <3>2. At(Readable + copied + k) = At(j)
      BY <1>7, <3>1
    <3>3. /\ Readable + copied + k \in Nat /\ j < Readable + copied + k
          /\ Readable + copied + k < j + capacity
      BY <1>1, <1>3, <1>9, <3>1
    <3> QED
      BY <1>1, <3>2, <3>3, NumbersApart
  <2> QED
    BY <1>4, <1>8, <2>1
<1>10. ASSUME NEW i \in (copied + 1)..copied'
       PROVE  buffer'[At(Readable + i - 1)] = data[i]
  <2>1. PICK k \in 0..(n - 1) : i = copied + 1 + k
    <3>1. i - copied - 1 \in 0..(n - 1) /\ i = copied + 1 + (i - copied - 1)
      BY <1>1, <1>3, <1>4
    <3> QED
      BY <3>1
  <2>2. Readable + i - 1 = Readable + copied + k /\ Readable + copied + k \in Nat
    BY <1>1, <2>1
  <2>3. At(Readable + i - 1) = at + k /\ at + k \in Slots /\ at + k \in at..(at + n - 1)
    BY <1>7, <1>8, <2>2
  <2>4. copied + 1 + (at + k) - at = i
    BY <1>1, <1>3, <2>1
  <2> QED
    BY <1>4, <2>3, <2>4
<1> QED
  BY <1>1, <1>5, <1>6, <1>9, <1>10

\* What the copied pieces leave of the invariant.
LEMMA WriteCopyStep ==
    ASSUME IInv, WriteCopy
    PROVE  IInv'
<1>1. /\ copied' \in (copied + 1)..Len(data) /\ capacity # 0
      /\ buffer' \in [Slots -> Byte \cup {Unset}]
      /\ \A j \in Nat : j < Readable + copied => buffer'[At(j)] = buffer[At(j)]
      /\ \A i \in (copied + 1)..copied' : buffer'[At(Readable + i - 1)] = data[i]
  BY WriteCopyEffect
<1>2. UNCHANGED <<capacity, read_pos, write_pos, data, call, want, got, out>>
  BY DEF WriteCopy, reader
<1>3. Readable' = Readable
  BY <1>2 DEF Readable
<1>4. /\ copied \in Nat /\ Readable \in Nat /\ Len(data) \in Nat /\ Len(got) \in Nat
      /\ Len(got) <= Readable /\ read_pos \in Nat
  BY Types
<1>5. TypeOK'
  BY <1>1, <1>2, <1>4 DEF IInv, TypeOK, Slots
<1>6. CallsInBounds'
  <2>1. data # <<>>
    BY <1>1, <1>4, EmptySeq
  <2> QED
    BY <1>1, <1>2 DEF IInv, CallsInBounds, Idle
<1>7. WithinCapacity'
  BY <1>2, <1>3 DEF IInv, WithinCapacity
<1>8. ReadableWritten'
  <2>1. ASSUME NEW i \in 1..Readable
        PROVE  buffer'[Slot(read_pos + i - 1, capacity)] \in Byte
    <3>1. i - 1 \in Nat /\ i - 1 < Readable + copied /\ read_pos + (i - 1) = read_pos + i - 1
      BY <1>4
    <3>2. buffer[Slot(read_pos + i - 1, capacity)] \in Byte
      BY DEF IInv, ReadableWritten
    <3> QED
      BY <1>1, <3>1, <3>2 DEF At
  <2> QED
    BY <2>1, <1>2, <1>3 DEF ReadableWritten
<1>9. PiecesInPlace'
  <2>1. ASSUME NEW i \in 1..copied'
        PROVE  buffer'[Slot(write_pos + i - 1, capacity)] = data[i]
    <3>1. i \in Nat /\ i - 1 \in Nat /\ write_pos + (i - 1) = write_pos + i - 1
      BY <1>1, <1>4, Types
    <3>2. Slot(write_pos + i - 1, capacity) = At(Readable + (i - 1))
      BY <1>1, <3>1, WriterSlots
    <3>3. Readable + (i - 1) = Readable + i - 1
      BY <1>4, <3>1
    <3>4. CASE i \in (copied + 1)..copied'
      BY <1>1, <3>2, <3>3, <3>4
    <3>5. CASE i \in 1..copied
      <4>1. buffer[Slot(write_pos + i - 1, capacity)] = data[i]
        BY <3>5 DEF IInv, PiecesInPlace
      <4>2. Readable + (i - 1) \in Nat /\ Readable + (i - 1) < Readable + copied
        BY <1>4, <3>5
      <4> QED
        BY <1>1, <3>2, <4>1, <4>2
    <3>6. i \in 1..copied \/ i \in (copied + 1)..copied'
      BY <1>1, <1>4
    <3> QED
      BY <3>4, <3>5, <3>6
  <2>2. ASSUME NEW i \in 1..Len(got)
        PROVE  got[i] = buffer'[Slot(read_pos + i - 1, capacity)]
    <3>1. i - 1 \in Nat /\ i - 1 < Readable + copied /\ read_pos + (i - 1) = read_pos + i - 1
      BY <1>4
    <3>2. got[i] = buffer[Slot(read_pos + i - 1, capacity)]
      BY DEF IInv, PiecesInPlace
    <3> QED
      BY <1>1, <3>1, <3>2 DEF At
  <2> QED
    BY <2>1, <2>2, <1>2 DEF PiecesInPlace
<1> QED
  BY <1>5, <1>6, <1>7, <1>8, <1>9 DEF IInv

\* The store to write_pos makes readable what the call has copied, and nothing else.
LEMMA WritePublishEffect ==
    ASSUME IInv, WritePublish
    PROVE  /\ capacity # 0 /\ write_pos' \in 0..(Word - 1)
           /\ Readable' = Readable + Len(data)
           /\ \A i \in 1..Len(data) : buffer[At(Readable + i - 1)] = data[i]
<1>1. /\ write_pos' = (write_pos + Len(data)) % Word /\ read_pos' = read_pos
      /\ copied = Len(data) /\ data # <<>>
  BY DEF WritePublish
<1>2. Len(data) # 0
  BY <1>1, EmptySeq DEF IInv, TypeOK
<1>3. /\ Readable \in Nat /\ Len(data) \in Nat /\ write_pos \in 0..(Word - 1)
      /\ read_pos \in 0..(Word - 1) /\ Word \in Nat \ {0} /\ capacity # 0
      /\ Len(data) \in 0..(Word - 1) /\ Readable + Len(data) < Word
  <2>1. capacity # 0
    BY <1>2, Types
  <2> QED
    BY <2>1, Types, CapacityDivides
<1>4. write_pos' \in 0..(Word - 1)
  BY <1>1, <1>3, WrappedSum
<1>5. Readable' = Readable + Len(data)
  <2>1. ((write_pos - read_pos) % Word) + Len(data) < Word
    BY <1>3 DEF Readable
  <2>2. (((write_pos + Len(data)) % Word) - read_pos) % Word
            = ((write_pos - read_pos) % Word) + Len(data)
    BY <1>3, <2>1, WrappedAdvance
  <2> QED
    BY <1>1, <2>2 DEF Readable
<1>6. ASSUME NEW i \in 1..Len(data)
      PROVE  buffer[At(Readable + i - 1)] = data[i]
  <2>1. i - 1 \in Nat /\ write_pos + (i - 1) = write_pos + i - 1
        /\ Readable + (i - 1) = Readable + i - 1
    BY <1>3
  <2>2. Slot(write_pos + i - 1, capacity) = At(Readable + i - 1)
    BY <1>3, <2>1, WriterSlots
  <2> QED
    BY <1>1, <2>2 DEF IInv, PiecesInPlace
<1> QED
  BY <1>3, <1>4, <1>5, <1>6

\* write_pos moves past what was copied.
LEMMA WritePublishStep ==
    ASSUME IInv, WritePublish
    PROVE  IInv'
<1>1. /\ capacity # 0 /\ write_pos' \in 0..(Word - 1)
      /\ Readable' = Readable + Len(data)
      /\ \A i \in 1..Len(data) : buffer[At(Readable + i - 1)] = data[i]
  BY WritePublishEffect
<1>2. /\ UNCHANGED <<capacity, buffer, read_pos, call, want, got, out>>
      /\ data' = <<>> /\ copied' = 0
  BY DEF WritePublish, ring, reader
<1>3. /\ Readable \in Nat /\ Len(data) \in Nat /\ capacity \in Nat /\ want \in Nat
      /\ Readable + Len(data) <= capacity /\ want <= Readable /\ read_pos \in Nat
  BY Types
<1>4. <<>> \in Seq(Byte) /\ Len(<<>>) = 0
  BY EmptySeq
<1>5. TypeOK'
  BY <1>1, <1>2, <1>4 DEF IInv, TypeOK, Slots
<1>6. CallsInBounds'
  BY <1>1, <1>2 DEF IInv, CallsInBounds
<1>7. WithinCapacity'
  BY <1>1, <1>2, <1>3, <1>4 DEF WithinCapacity
<1>8. ReadableWritten'
  <2>1. ASSUME NEW i \in 1..(Readable + Len(data))
        PROVE  buffer[Slot(read_pos + i - 1, capacity)] \in Byte
    <3>1. CASE i \in 1..Readable
      BY <3>1 DEF IInv, ReadableWritten
    <3>2. CASE i \notin 1..Readable
      <4>1. PICK j \in 1..Len(data) : i = Readable + j
        <5>1. i - Readable \in 1..Len(data) /\ i = Readable + (i - Readable)
          BY <1>3, <3>2
        <5> QED
          BY <5>1
      <4>2. buffer[At(Readable + j - 1)] = data[j] /\ data[j] \in Byte
        BY <1>1, ElementOfSeq DEF IInv, TypeOK
      <4>3. read_pos + (Readable + j - 1) = read_pos + i - 1
        BY <1>3, <4>1
      <4> QED
        BY <4>2, <4>3 DEF At
    <3> QED
      BY <3>1, <3>2
  <2> QED
    BY <1>1, <1>2, <2>1 DEF ReadableWritten
<1>9. PiecesInPlace'
  BY <1>2 DEF IInv, PiecesInPlace
<1> QED
  BY <1>5, <1>6, <1>7, <1>8, <1>9 DEF IInv

\* A read, peek or skip decides how much it takes.
LEMMA DecideStep ==
    ASSUME IInv, NEW which \in {"read", "peek", "skip"}, NEW n \in Nat, Decide(which, n)
    PROVE  IInv'
<1>1. /\ capacity # 0 /\ call = "none" /\ want' = Smaller(n, Readable)
      /\ call' = (IF want' = 0 THEN "none" ELSE which)
      /\ UNCHANGED <<capacity, buffer, read_pos, write_pos, data, copied, got, out>>
  BY DEF Decide, ring, writer
<1>2. Readable \in Nat /\ Readable' = Readable
  BY <1>1, Types DEF Readable
<1>3. PICK m \in Nat : want' = m /\ m <= Readable
  BY <1>1, <1>2 DEF Smaller
<1>4. got = <<>> /\ Len(got) = 0
  <2>1. want = 0 /\ Len(got) = 0
    BY <1>1, Types DEF IInv, CallsInBounds
  <2> QED
    BY <2>1, EmptySeq DEF IInv, TypeOK
<1>5. TypeOK'
  BY <1>1, <1>3, <1>4 DEF IInv, TypeOK, Slots
<1>6. CallsInBounds'
  BY <1>1, <1>4 DEF IInv, CallsInBounds, Idle
<1>7. WithinCapacity'
  BY <1>1, <1>2, <1>3 DEF IInv, WithinCapacity
<1>8. ReadableWritten' /\ PiecesInPlace'
  BY <1>1, <1>2 DEF IInv, ReadableWritten, PiecesInPlace
<1> QED
  BY <1>5, <1>6, <1>7, <1>8 DEF IInv

\* What a step of read or peek adds: the next bytes of the ring, all of them written.
LEMMA ReadCopyStep ==
    ASSUME IInv, ReadCopy
    PROVE  IInv'
<1> DEFINE p  == read_pos + Len(got)
           n  == Piece(p, want - Len(got))
           at == Slot(p, capacity)
           piece == [i \in 1..n |-> buffer[at + i - 1]]
<1>1. /\ capacity \in Nat \ {0} /\ Len(got) \in Nat /\ want \in Nat /\ Readable \in Nat
      /\ Len(got) < want /\ want <= Readable /\ read_pos \in Nat
  BY Types DEF ReadCopy
<1>2. p \in Nat /\ want - Len(got) \in Nat \ {0}
  BY <1>1
<1>3. /\ n \in 1..(want - Len(got)) /\ at \in 0..(capacity - 1)
      /\ \A k \in 0..(n - 1) : Slot(p + k, capacity) = at + k
  BY <1>1, <1>2, PieceFits
<1>4. /\ got' = got \o piece
      /\ UNCHANGED <<capacity, buffer, read_pos, write_pos, data, copied, call, want, out>>
  BY DEF ReadCopy, ring, writer
<1> HIDE DEF n, at
<1>5. Readable' = Readable
  BY <1>4 DEF Readable
<1>6. ASSUME NEW i \in 1..n
      PROVE  /\ buffer[at + i - 1] = buffer[Slot(read_pos + (Len(got) + i) - 1, capacity)]
             /\ buffer[at + i - 1] \in Byte
  <2>1. i - 1 \in 0..(n - 1) /\ p + (i - 1) = read_pos + (Len(got) + i) - 1
        /\ at + (i - 1) = at + i - 1 /\ Len(got) + i \in 1..Readable
    BY <1>1, <1>3
  <2>2. Slot(read_pos + (Len(got) + i) - 1, capacity) = at + i - 1
    BY <1>3, <2>1
  <2>3. buffer[Slot(read_pos + (Len(got) + i) - 1, capacity)] \in Byte
    BY <2>1 DEF IInv, ReadableWritten
  <2> QED
    BY <2>2, <2>3
<1>7. piece \in Seq(Byte) /\ Len(piece) = n /\ \A i \in 1..n : piece[i] = buffer[at + i - 1]
  <2>1. n \in Nat
    BY <1>3
  <2>2. piece \in [1..n -> Byte]
    BY <1>6
  <2>3. piece \in Seq(Byte)
    BY <2>1, <2>2, SeqDef
  <2>4. DOMAIN piece = 1..n
    OBVIOUS
  <2>5. Len(piece) = n
    BY <2>1, <2>3, <2>4, LenProperties
  <2> QED
    BY <2>3, <2>5
<1> HIDE DEF piece
<1>8. got \in Seq(Byte)
  BY DEF IInv, TypeOK
<1>9. /\ got' \in Seq(Byte) /\ Len(got') = Len(got) + n
      /\ \A i \in 1..Len(got) : got'[i] = got[i]
      /\ \A i \in (Len(got) + 1)..(Len(got) + n) : got'[i] = piece[i - Len(got)]
  <2>1. /\ got \o piece \in Seq(Byte) /\ Len(got \o piece) = Len(got) + n
        /\ \A i \in 1..(Len(got) + n) :
              (got \o piece)[i] = IF i <= Len(got) THEN got[i] ELSE piece[i - Len(got)]
    BY <1>7, <1>8, ConcatProperties
  <2>2. n \in Nat
    BY <1>3
  <2>3. \A i \in 1..Len(got) : (got \o piece)[i] = got[i]
    BY <1>1, <2>1, <2>2
  <2>4. \A i \in (Len(got) + 1)..(Len(got) + n) : (got \o piece)[i] = piece[i - Len(got)]
    BY <1>1, <2>1, <2>2
  <2> QED
    BY <1>4, <2>1, <2>3, <2>4
<1>10. TypeOK'
  <2>1. Len(got') <= want
    BY <1>1, <1>3, <1>9
  <2> QED
    BY <1>4, <1>9, <2>1 DEF IInv, TypeOK, Slots
<1>11. CallsInBounds'
  <2>1. call # "skip" /\ call # "none"
    BY DEF ReadCopy
  <2> QED
    BY <1>4, <2>1 DEF IInv, CallsInBounds, Idle
<1>12. WithinCapacity' /\ ReadableWritten'
  BY <1>4, <1>5 DEF IInv, WithinCapacity, ReadableWritten
<1>13. PiecesInPlace'
  <2>1. ASSUME NEW i \in 1..(Len(got) + n)
        PROVE  got'[i] = buffer[Slot(read_pos + i - 1, capacity)]
    <3>1. CASE i \in 1..Len(got)
      BY <1>9, <3>1 DEF IInv, PiecesInPlace
    <3>2. CASE i \notin 1..Len(got)
      <4>1. PICK k \in 1..n : i = Len(got) + k
        <5>1. i - Len(got) \in 1..n /\ i = Len(got) + (i - Len(got))
          BY <1>1, <1>3, <3>2
        <5> QED
          BY <5>1
      <4>2. i \in (Len(got) + 1)..(Len(got) + n) /\ i - Len(got) = k
        BY <1>1, <1>3, <4>1
      <4>3. got'[i] = piece[k]
        BY <1>9, <4>2
      <4> QED
        BY <1>6, <1>7, <4>1, <4>3
    <3> QED
      BY <3>1, <3>2
  <2>2. \A i \in 1..copied : buffer[Slot(write_pos + i - 1, capacity)] = data[i]
    BY DEF IInv, PiecesInPlace
  <2> QED
    BY <1>4, <1>9, <2>1, <2>2 DEF PiecesInPlace
<1> QED
  BY <1>10, <1>11, <1>12, <1>13 DEF IInv

\* The store to read_pos gives up the oldest bytes of those readable, and leaves the rest
\* where they are.
LEMMA ReturnBytesEffect ==
    ASSUME IInv, ReturnBytes, NEW n \in Nat, n = IF call = "peek" THEN 0 ELSE want
    PROVE  /\ capacity # 0 /\ read_pos' \in 0..(Word - 1)
           /\ n <= Readable /\ Readable' = Readable - n
           /\ \A j \in Nat : Slot(read_pos' + j, capacity) = At(n + j)
<1>0. write_pos' = write_pos
  BY DEF ReturnBytes
<1>1. /\ call # "none"
      /\ read_pos' = IF call = "peek" THEN read_pos ELSE (read_pos + want) % Word
  BY DEF ReturnBytes
<1>2. /\ Readable \in 0..(Word - 1) /\ want \in Nat /\ want <= Readable /\ want # 0
      /\ write_pos \in 0..(Word - 1) /\ read_pos \in 0..(Word - 1) /\ capacity # 0
  BY <1>1, Types DEF IInv, CallsInBounds
<1>3. /\ capacity \in Nat \ {0} /\ Word \in Nat \ {0} /\ Slot(Word, capacity) = 0
  BY <1>2, CapacityDivides
<1>4. CASE call = "peek"
  <2>1. n = 0 /\ read_pos' = read_pos /\ Readable' = Readable
    BY <1>0, <1>1, <1>4 DEF Readable
  <2>2. \A j \in Nat : 0 + j = j
    OBVIOUS
  <2> QED
    BY <1>2, <2>1, <2>2 DEF At
<1>5. CASE call # "peek"
  <2>1. n = want /\ read_pos' = (read_pos + want) % Word
    BY <1>1, <1>5
  <2>2. want \in 0..(Word - 1) /\ want \in 0..Readable
    BY <1>2, <1>3
  <2>3. read_pos' \in 0..(Word - 1)
    BY <1>2, <1>3, <2>1, <2>2, WrappedSum
  <2>4. Readable' = Readable - want
    <3>1. want \in 0..((write_pos - read_pos) % Word)
      BY <2>2 DEF Readable
    <3>2. (write_pos - ((read_pos + want) % Word)) % Word = ((write_pos - read_pos) % Word) - want
      BY <1>2, <1>3, <3>1, WrappedCatchUp
    <3>3. Readable' = (write_pos - ((read_pos + want) % Word)) % Word
      BY <1>0, <2>1 DEF Readable
    <3> QED
      BY <3>2, <3>3 DEF Readable
  <2>5. ASSUME NEW j \in Nat
        PROVE  Slot(read_pos' + j, capacity) = At(want + j)
    <3>1. PICK b \in 0..(Word - 1) : b = read_pos'
      BY <2>3
    <3>2. b = read_pos + want \/ b + Word = read_pos + want
      BY <1>2, <1>3, <2>1, <2>2, <3>1, WrappedSum
    <3>3. ASSUME b = read_pos + want
          PROVE  Slot(read_pos' + j, capacity) = Slot(read_pos + want + j, capacity)
      BY <3>1, <3>3
    <3>4. ASSUME b + Word = read_pos + want
          PROVE  Slot(read_pos' + j, capacity) = Slot(read_pos + want + j, capacity)
      <4>1. b + j \in Nat /\ (b + j) + Word = read_pos + want + j
        BY <1>2, <1>3, <3>4
      <4>2. Slot((b + j) + Word, capacity) = Slot(b + j, capacity)
        BY <1>3, <4>1, SlotOfWrapped
      <4> QED
        BY <3>1, <4>1, <4>2
    <3>5. read_pos + want + j = read_pos + (want + j)
      BY <1>2
    <3> QED
      BY <3>2, <3>3, <3>4, <3>5 DEF At
  <2> QED
    BY <1>2, <2>1, <2>3, <2>4, <2>5
<1> QED
  BY <1>4, <1>5

\* read_pos moves past what was read.
LEMMA ReturnBytesStep ==
    ASSUME IInv, ReturnBytes
    PROVE  IInv'
<1> DEFINE n == IF call = "peek" THEN 0 ELSE want
<1>1. n \in Nat
  BY Types
<1>2. /\ capacity # 0 /\ read_pos' \in 0..(Word - 1)
      /\ n <= Readable /\ Readable' = Readable - n
      /\ \A j \in Nat : Slot(read_pos' + j, capacity) = At(n + j)
  BY <1>1, ReturnBytesEffect
<1> HIDE DEF n
<1>3. /\ UNCHANGED <<capacity, buffer, write_pos, data, copied>>
      /\ call' = "none" /\ want' = 0 /\ got' = <<>>
      /\ out' \in {out, got}
  BY DEF ReturnBytes, ring, writer
<1>4. /\ Readable \in Nat /\ Len(data) \in Nat /\ capacity \in Nat /\ read_pos \in Nat
      /\ Readable + Len(data) <= capacity
  BY Types
<1>5. <<>> \in Seq(Byte) /\ Len(<<>>) = 0
  BY EmptySeq
<1>6. TypeOK'
  <2>1. out' \in Seq(Byte)
    BY <1>3 DEF IInv, TypeOK
  <2>2. /\ capacity \in Nat /\ buffer \in [Slots -> Byte \cup {Unset}]
        /\ write_pos \in 0..(Word - 1) /\ data \in Seq(Byte) /\ copied \in 0..Len(data)
    BY DEF IInv, TypeOK
  <2> QED
    BY <1>2, <1>3, <1>5, <2>1, <2>2 DEF TypeOK, Slots
<1>7. CallsInBounds'
  BY <1>2, <1>3 DEF IInv, CallsInBounds
<1>8. PICK left \in Nat : Readable' = left /\ n + left = Readable
  <2>1. Readable - n \in Nat /\ n + (Readable - n) = Readable
    BY <1>1, <1>2, <1>4
  <2> QED
    BY <1>2, <2>1
<1>9. WithinCapacity'
  <2>1. left + Len(data) <= capacity
    BY <1>1, <1>4, <1>8
  <2> QED
    BY <1>3, <1>8, <2>1 DEF WithinCapacity
<1>10. ReadableWritten'
  <2>1. ASSUME NEW i \in 1..left
        PROVE  buffer[Slot(read_pos' + i - 1, capacity)] \in Byte
    <3>1. PICK j \in Nat : i = j + 1 /\ n + j + 1 \in 1..Readable
      <4>1. i - 1 \in Nat /\ i = (i - 1) + 1 /\ n + (i - 1) + 1 \in 1..Readable
        BY <1>1, <1>8
      <4> QED
        BY <4>1
    <3>2. PICK r \in Nat : r = read_pos'
      BY <1>2
    <3>3. r + i - 1 = r + j /\ read_pos + (n + j + 1) - 1 = read_pos + (n + j)
      BY <1>1, <1>4, <3>1
    <3>4. buffer[Slot(read_pos + (n + j + 1) - 1, capacity)] \in Byte
      BY <3>1 DEF IInv, ReadableWritten
    <3> QED
      BY <1>2, <3>2, <3>3, <3>4 DEF At
  <2> QED
    BY <1>3, <1>8, <2>1 DEF ReadableWritten
<1>11. PiecesInPlace'
  BY <1>3, <1>5 DEF IInv, PiecesInPlace
<1> QED
  BY <1>6, <1>7, <1>9, <1>10, <1>11 DEF IInv

\* Every step keeps the invariant.
LEMMA NextStep == IInv /\ [Next]_vars => IInv'
<1> SUFFICES ASSUME IInv, [Next]_vars
             PROVE  IInv'
  OBVIOUS
<1>1. ASSUME NEW size \in Requests, Create(size)
      PROVE  IInv'
  BY <1>1, CreateStep
<1>2. CASE Destroy
  BY <1>2, PositionsReset DEF Destroy
<1>3. CASE Clear
  BY <1>3, PositionsReset DEF Clear
<1>4. ASSUME NEW bytes \in Transfers, Write(bytes)
      PROVE  IInv'
  <2>1. bytes \in Seq(Byte)
    BY MaxLenAssumption, SeqDef DEF Transfers
  <2> QED
    BY <1>4, <2>1, WriteStep
<1>5. CASE WriteCopy
  BY <1>5, WriteCopyStep
<1>6. CASE WritePublish
  BY <1>6, WritePublishStep
<1>7. ASSUME NEW which \in {"read", "peek", "skip"}, NEW n \in 1..MaxLen, Decide(which, n)
      PROVE  IInv'
  <2>1. n \in Nat
    BY MaxLenAssumption
  <2> QED
    BY <1>7, <2>1, DecideStep
<1>8. CASE ReadCopy
  BY <1>8, ReadCopyStep
<1>9. CASE ReturnBytes
  BY <1>9, ReturnBytesStep
<1>10. CASE UNCHANGED vars
  BY <1>10 DEF vars, ring, writer, reader, IInv, TypeOK, CallsInBounds, WithinCapacity,
               ReadableWritten, PiecesInPlace, Readable, Slots, Idle
<1> QED
  BY <1>1, <1>2, <1>3, <1>4, <1>5, <1>6, <1>7, <1>8, <1>9, <1>10 DEF Next

\* It holds of every state.
LEMMA Invariance == Spec => []IInv
BY InitIInv, NextStep, PTL DEF Spec

\* However eg_ring_buf_write, read, peek and skip cut their copies at the end of the
\* buffer and however often the positions wrap at the width of usize: no more than
\* capacity bytes are inside, neither thread's unsigned difference wraps, every byte is
\* where its position says, and no slot is filled while it is copied.
THEOREM RingIsSound == Spec => []RingSound
<1>1. IInv => RingSound
  BY RaceFree DEF IInv, RingSound
<1> QED
  BY <1>1, Invariance, PTL

-----------------------------------------------------------------------------
(* The ring implements the abstract queue of bytes: Contents is what lies in the slots  *)
(* numbered below Readable, and a call takes effect when it moves its position.         *)

\* The contents as a sequence.
LEMMA ContentsSeq ==
    ASSUME IInv
    PROVE  /\ Readable \in Nat /\ Len(Contents) = Readable
           /\ Contents \in Seq(Byte)
           /\ \A i \in 1..Readable : Contents[i] = buffer[Slot(read_pos + i - 1, capacity)]
<1>1. Readable \in Nat
  BY Types
<1>2. Contents \in [1..Readable -> Byte]
  BY DEF Contents, IInv, ReadableWritten
<1>3. Contents \in Seq(Byte)
  BY <1>1, <1>2, SeqDef
<1>4. DOMAIN Contents = 1..Readable
  BY <1>2
<1>5. Len(Contents) = Readable
  BY <1>1, <1>3, <1>4, LenProperties
<1> QED
  BY <1>1, <1>3, <1>5 DEF Contents

\* The same of the state after a step.
LEMMA ContentsSeqNext ==
    ASSUME IInv'
    PROVE  /\ Readable' \in Nat /\ Len(Contents') = Readable'
           /\ Contents' \in Seq(Byte)
           /\ \A i \in 1..Readable' :
                 Contents'[i] = buffer'[Slot(read_pos' + i - 1, capacity')]
<1>1. (/\ Readable \in Nat /\ Len(Contents) = Readable
       /\ Contents \in Seq(Byte)
       /\ \A i \in 1..Readable : Contents[i] = buffer[Slot(read_pos + i - 1, capacity)])'
  BY ContentsSeq, PTL
<1> QED
  BY <1>1

\* Positions at the start of the buffer leave nothing to read.
LEMMA EmptyAtStart ==
    /\ read_pos = 0 /\ write_pos = 0 => Contents = <<>>
    /\ read_pos' = 0 /\ write_pos' = 0 => Contents' = <<>>
<1>1. (0 - 0) % Word = 0
  <2>1. Slot(0, Word) = 0
    BY WordAssumption, SlotOfFirstLap
  <2> QED
    BY <2>1 DEF Slot
<1>2. 1..0 = {}
  OBVIOUS
<1>3. ASSUME read_pos = 0, write_pos = 0
      PROVE  Contents = <<>>
  <2>1. Readable = 0
    BY <1>1, <1>3 DEF Readable
  <2> QED
    BY <1>2, <2>1 DEF Contents
<1>4. ASSUME read_pos' = 0, write_pos' = 0
      PROVE  Contents' = <<>>
  <2>1. Readable' = 0
    BY <1>1, <1>4 DEF Readable
  <2> QED
    BY <1>2, <2>1 DEF Contents
<1> QED
  BY <1>3, <1>4

\* A step that moves no position and keeps the readable slots keeps the contents.
LEMMA ContentsKept ==
    ASSUME IInv, UNCHANGED <<capacity, read_pos, write_pos>>,
           \A i \in 1..Readable :
               buffer'[Slot(read_pos + i - 1, capacity)] = buffer[Slot(read_pos + i - 1, capacity)]
    PROVE  Contents' = Contents
<1>1. Readable' = Readable
  BY DEF Readable
<1> QED
  BY <1>1 DEF Contents

\* A ring that does not exist is an empty queue.
LEMMA InitRefines == Init => Fifo!Init
BY EmptyAtStart DEF Init, Fifo!Init

\* Creating, destroying and clearing a ring, as a queue.
LEMMA CreateRefines ==
    ASSUME IInv, NEW size \in Requests, Create(size)
    PROVE  Fifo!Open
<1>1. capacity = 0 /\ capacity' \in Nat \ {0} /\ UNCHANGED <<data, out>>
  BY WordAssumption DEF Create, writer, reader
<1>2. Contents = <<>> /\ Contents' = <<>>
  BY <1>1, EmptyAtStart DEF Create, IInv, CallsInBounds
<1> QED
  BY <1>1, <1>2 DEF Fifo!Open

LEMMA DestroyRefines ==
    ASSUME IInv, Destroy
    PROVE  Fifo!Close
BY EmptyAtStart DEF Destroy, writer, reader, Fifo!Close

\* Clear gives up all that is readable.
LEMMA ClearRefines ==
    ASSUME IInv, Clear
    PROVE  \/ UNCHANGED Fifo!vars
           \/ \E n \in 1..Len(Contents) : Fifo!Skip(n)
<1>1. Contents' = <<>> /\ UNCHANGED <<capacity, data, out>>
  BY EmptyAtStart DEF Clear, ring, writer, reader
<1>2. Contents \in Seq(Byte) /\ Len(Contents) \in Nat
  BY ContentsSeq
<1>3. CASE Len(Contents) = 0
  <2>1. Contents = <<>>
    BY <1>2, <1>3, EmptySeq
  <2> QED
    BY <1>1, <2>1 DEF Fifo!vars
<1>4. CASE Len(Contents) # 0
  <2> DEFINE n == Len(Contents)
             rest == SubSeq(Contents, n + 1, n)
  <2>1. n \in 1..n /\ n + 1 \in 1..(n + 1) /\ n \in (n + 1 - 1)..n
    BY <1>2, <1>4
  <2>2. rest = <<>>
    BY <1>2, <2>1, SubSeqProperties, EmptySeq
  <2>3. Fifo!Skip(n)
    BY <1>1, <2>2 DEF Fifo!Skip
  <2> QED
    BY <2>1, <2>3
<1> QED
  BY <1>3, <1>4

\* A decision of write offers what fits, or finds no room and changes nothing.
LEMMA WriteRefines ==
    ASSUME IInv, NEW bytes \in Seq(Byte), Write(bytes)
    PROVE  Fifo!Offer("writer")
<1>1. data' \in Seq(Byte)
  BY WriteStep DEF IInv, TypeOK
<1>2. Contents' = Contents
  BY ContentsKept DEF Write, ring
<1>3. data = <<>> /\ UNCHANGED <<capacity, out>>
  BY DEF Write, ring, reader
<1> QED
  BY <1>1, <1>2, <1>3 DEF Fifo!Offer

\* The copying of a piece is not seen: its slots are none of the readable ones.
LEMMA WriteCopyRefines ==
    ASSUME IInv, WriteCopy
    PROVE  UNCHANGED Fifo!vars
<1>1. \A j \in Nat : j < Readable + copied => buffer'[At(j)] = buffer[At(j)]
  BY WriteCopyEffect
<1>2. ASSUME NEW i \in 1..Readable
      PROVE  buffer'[Slot(read_pos + i - 1, capacity)] = buffer[Slot(read_pos + i - 1, capacity)]
  <2>1. i - 1 \in Nat /\ i - 1 < Readable + copied /\ read_pos + (i - 1) = read_pos + i - 1
    BY Types
  <2> QED
    BY <1>1, <2>1 DEF At
<1>3. Contents' = Contents
  BY <1>2, ContentsKept DEF WriteCopy
<1> QED
  BY <1>3 DEF WriteCopy, reader, Fifo!vars

\* The store to write_pos puts all of the call's bytes in, at once and in their order.
LEMMA WritePublishRefines ==
    ASSUME IInv, WritePublish
    PROVE  Fifo!Enqueue("writer")
<1> DEFINE n == Readable
           m == Len(data)
<1>1. /\ n \in Nat /\ m \in Nat /\ capacity \in Nat /\ read_pos \in Nat
      /\ n + m <= capacity /\ data \in Seq(Byte)
  BY Types DEF IInv, TypeOK
<1>2. /\ Readable' = n + m
      /\ \A i \in 1..m : buffer[At(n + i - 1)] = data[i]
  BY WritePublishEffect
<1>3. data' = <<>> /\ UNCHANGED <<capacity, buffer, read_pos, out>>
  BY DEF WritePublish, ring, reader
<1>4. /\ Contents \in Seq(Byte) /\ Len(Contents) = n
      /\ \A i \in 1..n : Contents[i] = buffer[Slot(read_pos + i - 1, capacity)]
  BY ContentsSeq
<1>5. /\ Contents' \in Seq(Byte) /\ Len(Contents') = n + m
      /\ \A i \in 1..(n + m) : Contents'[i] = buffer[Slot(read_pos + i - 1, capacity)]
  <2>1. IInv'
    BY WritePublishStep
  <2> QED
    BY <1>2, <1>3, <2>1, ContentsSeqNext
<1> HIDE DEF n, m, Contents
<1>6. /\ Contents \o data \in Seq(Byte) /\ Len(Contents \o data) = n + m
      /\ \A i \in 1..(n + m) :
            (Contents \o data)[i] = IF i <= n THEN Contents[i] ELSE data[i - n]
  BY <1>1, <1>4, ConcatProperties DEF m
<1>7. ASSUME NEW i \in 1..(n + m)
      PROVE  Contents'[i] = (Contents \o data)[i]
  <2>1. CASE i <= n
    <3>1. i \in 1..n
      BY <1>1, <2>1
    <3> QED
      BY <1>4, <1>5, <1>6, <2>1, <3>1
  <2>2. CASE ~(i <= n)
    <3>1. i - n \in 1..m /\ n + (i - n) - 1 = i - 1
      BY <1>1, <2>2
    <3>2. buffer[At(i - 1)] = data[i - n]
      BY <1>2, <3>1
    <3>3. read_pos + (i - 1) = read_pos + i - 1
      BY <1>1
    <3>4. Contents'[i] = data[i - n]
      BY <1>5, <3>2, <3>3 DEF At
    <3> QED
      BY <1>6, <2>2, <3>4
  <2> QED
    BY <2>1, <2>2
<1>8. Contents' = Contents \o data
  BY <1>5, <1>6, <1>7, SeqEqual
<1> QED
  BY <1>1, <1>3, <1>5, <1>8 DEF Fifo!Enqueue

\* The end of a call of the reader: read hands over the oldest bytes and takes them out,
\* peek only hands them over, skip only takes them out.
LEMMA ReturnBytesRefines ==
    ASSUME IInv, ReturnBytes
    PROVE  \E n \in 1..Len(Contents) :
               Fifo!Skip(n) \/ Fifo!Dequeue("reader", n) \/ Fifo!Peek("reader", n)
<1>1. /\ call # "none" /\ call \in {"read", "peek", "skip"}
      /\ call # "skip" => Len(got) = want
      /\ out' = (IF call = "skip" THEN out ELSE got)
      /\ UNCHANGED <<capacity, buffer, write_pos, data>>
  BY DEF ReturnBytes, IInv, TypeOK, ring, writer
<1>2. /\ Readable \in Nat /\ want \in Nat \ {0} /\ want <= Readable /\ read_pos \in Nat
  BY <1>1, Types DEF IInv, CallsInBounds
<1>3. /\ Contents \in Seq(Byte) /\ Len(Contents) = Readable
      /\ \A i \in 1..Readable : Contents[i] = buffer[Slot(read_pos + i - 1, capacity)]
  BY ContentsSeq
<1>4. want \in 1..Len(Contents)
  BY <1>2, <1>3
<1>5. ASSUME call # "skip"
      PROVE  got = SubSeq(Contents, 1, want)
  <2> DEFINE front == SubSeq(Contents, 1, want)
  <2>1. /\ front \in Seq(Byte) /\ Len(front) = want
        /\ \A i \in 1..want : front[i] = Contents[i]
    BY <1>2, <1>3, SubSeqProperties, ElementOfSeq
  <2>2. got \in Seq(Byte) /\ Len(got) = want
    BY <1>1, <1>5 DEF IInv, TypeOK
  <2>3. ASSUME NEW i \in 1..want
        PROVE  got[i] = front[i]
    <3>1. i \in 1..Readable
      BY <1>2
    <3>2. got[i] = buffer[Slot(read_pos + i - 1, capacity)]
      BY <2>2 DEF IInv, PiecesInPlace
    <3> QED
      BY <1>3, <2>1, <3>1, <3>2
  <2> HIDE DEF front
  <2>4. got = front
    BY <2>1, <2>2, <2>3, SeqEqual
  <2> QED
    BY <2>4 DEF front
<1>6. ASSUME call # "peek"
      PROVE  Contents' = SubSeq(Contents, want + 1, Len(Contents))
  <2> DEFINE rest == SubSeq(Contents, want + 1, Len(Contents))
  <2>1. /\ Readable' = Readable - want /\ read_pos' \in 0..(Word - 1)
        /\ \A j \in Nat : Slot(read_pos' + j, capacity) = At(want + j)
    BY <1>2, <1>6, ReturnBytesEffect
  <2>2. PICK left \in Nat : left = Readable - want
    BY <1>2
  <2>3. /\ rest \in Seq(Byte) /\ Len(rest) = left
        /\ \A i \in 1..left : rest[i] = Contents[want + i]
    BY <1>2, <1>3, <2>2, SubSeqProperties, ElementOfSeq
  <2>4. /\ Contents' \in Seq(Byte) /\ Len(Contents') = left
        /\ \A i \in 1..left : Contents'[i] = buffer[Slot(read_pos' + i - 1, capacity)]
    <3>1. IInv'
      BY ReturnBytesStep
    <3> QED
      BY <1>1, <2>1, <2>2, <3>1, ContentsSeqNext
  <2>5. ASSUME NEW i \in 1..left
        PROVE  Contents'[i] = rest[i]
    <3>1. PICK r \in 0..(Word - 1) : r = read_pos'
      BY <2>1
    <3>2. i - 1 \in Nat /\ r + (i - 1) = r + i - 1 /\ want + i \in 1..Readable
          /\ read_pos + (want + (i - 1)) = read_pos + (want + i) - 1
      BY <1>2, <2>2, WordAssumption
    <3>3. Slot(read_pos' + i - 1, capacity) = Slot(read_pos + (want + i) - 1, capacity)
      BY <2>1, <3>1, <3>2 DEF At
    <3>4. Contents[want + i] = buffer[Slot(read_pos + (want + i) - 1, capacity)]
      BY <1>3, <3>2
    <3> QED
      BY <2>3, <2>4, <3>3, <3>4
  <2> HIDE DEF rest, Contents
  <2>6. Contents' = rest
    BY <2>3, <2>4, <2>5, SeqEqual
  <2> QED
    BY <2>6 DEF rest
<1>7. CASE call = "read"
  <2>1. Fifo!Dequeue("reader", want)
    BY <1>1, <1>5, <1>6, <1>7 DEF Fifo!Dequeue
  <2> QED
    BY <1>4, <2>1
<1>8. CASE call = "peek"
  <2>1. read_pos' = read_pos
    BY <1>8 DEF ReturnBytes
  <2>2. Contents' = Contents
    BY <1>1, <2>1, ContentsKept
  <2>3. Fifo!Peek("reader", want)
    BY <1>1, <1>5, <1>8, <2>2 DEF Fifo!Peek
  <2> QED
    BY <1>4, <2>3
<1>9. CASE call = "skip"
  <2>1. Fifo!Skip(want)
    BY <1>1, <1>6, <1>9 DEF Fifo!Skip
  <2> QED
    BY <1>4, <2>1
<1> QED
  BY <1>1, <1>7, <1>8, <1>9

\* Every step of the two threads is a step of the abstract queue, or none.
LEMMA NextRefines == IInv /\ [Next]_vars => [Fifo!Next]_Fifo!vars
<1> SUFFICES ASSUME IInv, [Next]_vars
             PROVE  [Fifo!Next]_Fifo!vars
  OBVIOUS
<1>1. ASSUME NEW size \in Requests, Create(size)
      PROVE  Fifo!Next
  BY <1>1, CreateRefines DEF Fifo!Next
<1>2. CASE Destroy
  BY <1>2, DestroyRefines DEF Fifo!Next
<1>3. CASE Clear
  BY <1>3, ClearRefines DEF Fifo!Next
<1>4. ASSUME NEW bytes \in Transfers, Write(bytes)
      PROVE  Fifo!Next
  <2>1. bytes \in Seq(Byte)
    BY MaxLenAssumption, SeqDef DEF Transfers
  <2> QED
    BY <1>4, <2>1, WriteRefines DEF Fifo!Next
<1>5. CASE WriteCopy
  BY <1>5, WriteCopyRefines
<1>6. CASE WritePublish
  BY <1>6, WritePublishRefines DEF Fifo!Next
<1>7. ASSUME NEW which, NEW n, Decide(which, n)
      PROVE  UNCHANGED Fifo!vars
  <2>1. Contents' = Contents
    BY <1>7, ContentsKept DEF Decide, ring
  <2> QED
    BY <1>7, <2>1 DEF Decide, ring, writer, Fifo!vars
<1>8. CASE ReadCopy
  <2>1. Contents' = Contents
    BY <1>8, ContentsKept DEF ReadCopy, ring
  <2> QED
    BY <1>8, <2>1 DEF ReadCopy, ring, writer, Fifo!vars
<1>9. CASE ReturnBytes
  BY <1>9, ReturnBytesRefines DEF Fifo!Next
<1>10. CASE UNCHANGED vars
  <2>1. Contents' = Contents
    BY <1>10, ContentsKept DEF vars, ring
  <2> QED
    BY <1>10, <2>1 DEF vars, ring, writer, reader, Fifo!vars
<1> QED
  BY <1>1, <1>2, <1>3, <1>4, <1>5, <1>6, <1>7, <1>8, <1>9, <1>10 DEF Next

\* eg_ring_buf_write, read, peek, skip and clear, two pieces at a time and with positions
\* that wrap, are a bounded FIFO of bytes: none is lost, doubled or out of order.
THEOREM Refinement == Spec => FifoSpec
BY InitRefines, NextRefines, Invariance, PTL DEF Spec, FifoSpec, Fifo!Spec

-----------------------------------------------------------------------------
(* The object pool.  Its stack is numbered from the bottom; an instance has   *)
(* its own copies of the library's operators, which are the library's.        *)

\* The library's operators under the object pool's name.
LEMMA SameOperators ==
    \A S : /\ O!Cardinality(S) = Cardinality(S) /\ O!IsFiniteSet(S) = IsFiniteSet(S)
           /\ O!SetToSeq(S) = SetToSeq(S) /\ O!ToSet(S) = ToSet(S)
           /\ O!IsInjective(S) = IsInjective(S)
           /\ O!Front(S) = Front(S) /\ O!Last(S) = Last(S)
<1> TAKE S
<1>1. O!IsFiniteSet(S) = IsFiniteSet(S)
  BY DEF O!IsFiniteSet, IsFiniteSet
<1>2. O!Cardinality(S) = Cardinality(S)
  BY DEF O!Cardinality, Cardinality, O!IsFiniteSet, IsFiniteSet
<1>3. O!SetToSeq(S) = SetToSeq(S)
  BY DEF O!SetToSeq, SetToSeq, O!Cardinality, Cardinality, O!IsFiniteSet, IsFiniteSet,
         O!IsInjective, IsInjective
<1>4. /\ O!ToSet(S) = ToSet(S) /\ O!IsInjective(S) = IsInjective(S)
      /\ O!Front(S) = Front(S) /\ O!Last(S) = Last(S)
  BY DEF O!ToSet, ToSet, O!IsInjective, IsInjective, O!Front, Front, O!Last, Last
<1> QED
  BY <1>1, <1>2, <1>3, <1>4

\* A sequence without repetitions, and what is in it.
Distinct(s) == \A i, j \in 1..Len(s) : s[i] = s[j] => i = j
Elements(s) == {s[i] : i \in 1..Len(s)}

\* What a sequence without repetitions loses with its last element.
LEMMA Popped ==
    ASSUME NEW S, NEW s \in Seq(S), s # <<>>, Distinct(s)
    PROVE  /\ Front(s) \in Seq(S) /\ Len(Front(s)) = Len(s) - 1 /\ Distinct(Front(s))
           /\ Last(s) \in Elements(s) /\ Elements(Front(s)) = Elements(s) \ {Last(s)}
<1>1. PICK n \in Nat \ {0} : n = Len(s)
  BY EmptySeq
<1>2. \A i \in 1..n : s[i] \in S
  BY <1>1, ElementOfSeq
<1> DEFINE f == SubSeq(s, 1, n - 1)
<1>3. f \in Seq(S) /\ Len(f) = n - 1 /\ \A i \in 1..(n - 1) : f[i] = s[i]
  <2>1. PICK m \in Nat : m = n - 1
    OBVIOUS
  <2>2. \A i \in 1..m : s[i] \in S
    BY <1>2, <2>1
  <2>3. 1 \in Int /\ m \in Int
    OBVIOUS
  <2>4. /\ SubSeq(s, 1, m) \in Seq(S)
        /\ Len(SubSeq(s, 1, m)) = IF 1 <= m THEN m - 1 + 1 ELSE 0
        /\ \A i \in 1..(m - 1 + 1) : SubSeq(s, 1, m)[i] = s[1 + i - 1]
    BY <2>2, <2>3, SubSeqProperties
  <2>5. (IF 1 <= m THEN m - 1 + 1 ELSE 0) = m /\ m - 1 + 1 = m
    OBVIOUS
  <2>6. \A i \in 1..m : SubSeq(s, 1, m)[i] = s[i]
    BY <2>4
  <2> QED
    BY <2>1, <2>4, <2>5, <2>6
<1> HIDE DEF f
<1>4. Distinct(f) /\ Elements(f) = Elements(s) \ {s[n]}
  BY <1>1, <1>3 DEF Distinct, Elements
<1>5. s[n] \in Elements(s)
  BY <1>1 DEF Elements
<1> QED
  BY <1>1, <1>3, <1>4, <1>5 DEF f, Front, Last

\* What it gains with another one.
LEMMA Pushed ==
    ASSUME NEW S, NEW s \in Seq(S), NEW e \in S, e \notin Elements(s), Distinct(s)
    PROVE  /\ Append(s, e) \in Seq(S) /\ Append(s, e) # <<>> /\ Len(Append(s, e)) = Len(s) + 1
           /\ Distinct(Append(s, e)) /\ Elements(Append(s, e)) = Elements(s) \cup {e}
<1> DEFINE f == Append(s, e)
<1>1. /\ f \in Seq(S) /\ f # <<>> /\ Len(f) = Len(s) + 1
      /\ \A i \in 1..Len(s) : f[i] = s[i]
      /\ f[Len(s) + 1] = e
  BY AppendProperties
<1>2. Len(s) \in Nat
  BY LenProperties
<1> HIDE DEF f
<1>3. Distinct(f) /\ Elements(f) = Elements(s) \cup {e}
  BY <1>1, <1>2 DEF Distinct, Elements
<1> QED
  BY <1>1, <1>3 DEF f

\* What is left of it behind the first element.
LEMMA Shifted ==
    ASSUME NEW S, NEW s \in Seq(S), s # <<>>, Distinct(s)
    PROVE  /\ Tail(s) \in Seq(S) /\ Len(Tail(s)) = Len(s) - 1 /\ Distinct(Tail(s))
           /\ s[1] \in Elements(s) /\ Elements(Tail(s)) = Elements(s) \ {s[1]}
<1> DEFINE f == Tail(s)
<1>1. f \in Seq(S) /\ Len(f) = Len(s) - 1 /\ \A i \in 1..Len(f) : f[i] = s[i + 1]
  BY HeadTailProperties
<1>2. Len(s) \in Nat \ {0}
  BY EmptySeq
<1> HIDE DEF f
<1>3. Distinct(f) /\ s[1] \in Elements(s)
  BY <1>1, <1>2 DEF Distinct, Elements
<1>4. Elements(f) = Elements(s) \ {s[1]}
  <2>1. ASSUME NEW i \in 1..Len(s), i # 1
        PROVE  s[i] \in Elements(f)
    <3>1. i - 1 \in 1..Len(f) /\ f[i - 1] = s[i]
      BY <1>1, <1>2, <2>1
    <3> QED
      BY <3>1 DEF Elements
  <2>2. ASSUME NEW i \in 1..Len(f)
        PROVE  f[i] \in Elements(s) /\ f[i] # s[1]
    BY <1>1, <1>2 DEF Distinct, Elements
  <2> QED
    BY <2>1, <2>2 DEF Elements
<1> QED
  BY <1>1, <1>3, <1>4 DEF f

\* The first n elements of a finite set, in the order SetToSeq gives them.
LEMMA Enumerated ==
    ASSUME NEW S, IsFiniteSet(S), NEW n \in Nat, n <= Cardinality(S)
    PROVE  /\ SubSeq(SetToSeq(S), 1, n) \in Seq(S)
           /\ Len(SubSeq(SetToSeq(S), 1, n)) = n
           /\ Distinct(SubSeq(SetToSeq(S), 1, n))
           /\ Elements(SubSeq(SetToSeq(S), 1, n)) \subseteq S
<1> DEFINE f == SetToSeq(S)
           g == SubSeq(f, 1, n)
<1>1. Cardinality(S) \in Nat /\ ExistsBijection(1..Cardinality(S), S)
  BY FS_CardinalityType
<1>2. f \in [1..Cardinality(S) -> S] /\ IsInjective(f)
  <2>1. \E h \in [1..Cardinality(S) -> S] : IsInjective(h)
    BY <1>1 DEF ExistsBijection, Bijection, Injection
  <2> QED
    BY <2>1 DEF SetToSeq
<1> HIDE DEF f
<1>3. g \in Seq(S) /\ Len(g) = n /\ \A i \in 1..n : g[i] = f[i]
  <2>1. \A i \in 1..n : f[i] \in S
    BY <1>1, <1>2
  <2>2. 1 \in Int /\ n \in Int
    OBVIOUS
  <2>3. /\ g \in Seq(S) /\ Len(g) = IF 1 <= n THEN n - 1 + 1 ELSE 0
        /\ \A i \in 1..(n - 1 + 1) : g[i] = f[1 + i - 1]
    BY <2>1, <2>2, SubSeqProperties
  <2> QED
    BY <2>3
<1> HIDE DEF g
<1>4. Distinct(g)
  BY <1>1, <1>2, <1>3 DEF Distinct, IsInjective
<1>5. Elements(g) \subseteq S
  BY <1>1, <1>2, <1>3 DEF Elements
<1> QED
  BY <1>3, <1>4, <1>5 DEF f, g

\* A pool exists while it has an object to give or has given one.
PoolExists == stack # <<>> \/ held # {}
Cut == Elements(stack) \cup {free_stack}    \* what a pool has of the memory pool, but for held

\* The types.
ObjectTypes ==
    /\ objCapacity \in Nat /\ callbacks \in BOOLEAN /\ stack \in Seq(Block)
    /\ free_stack \in Block \cup {0}
    /\ held \subseteq Block /\ live \subseteq held
    /\ taken \subseteq Block /\ others \subseteq Block /\ lost \subseteq Block
    /\ faults \subseteq {"destroy"}

\* Every object is on the stack once or with the caller; the array is not among them.
StackSound ==
    /\ Distinct(stack) /\ Elements(stack) \cap held = {}
    /\ alloc_count = Cardinality(held)
    /\ PoolExists => /\ Len(stack) + alloc_count = objCapacity
                     /\ free_stack \in Block \ Elements(stack)

\* A block has one of four owners.
OwnersApart ==
    /\ taken = (IF PoolExists THEN Cut \cup held ELSE {}) \cup lost \cup others
    /\ PoolExists => Cut \cap (held \cup lost \cup others) = {}
    /\ held \cap (lost \cup others) = {} /\ lost \cap others = {}

\* The objects a pool with callbacks has handed out are constructed.
HeldLive == callbacks => live = held

\* The inductive invariant of the object pool.
ObjectsInv == ObjectTypes /\ StackSound /\ OwnersApart /\ HeldLive

\* Sets of blocks are finite, and none of their positions is 0.
LEMMA BlocksFinite ==
    /\ IsFiniteSet(Block) /\ Block \subseteq Nat \ {0}
    /\ \A S \in SUBSET Block : IsFiniteSet(S) /\ Cardinality(S) \in Nat
<1>1. IsFiniteSet(Block) /\ Block \subseteq Nat \ {0}
  BY PartsAssumption, SameOperators DEF O!BlockAssumption
<1>2. ASSUME NEW S \in SUBSET Block
      PROVE  IsFiniteSet(S) /\ Cardinality(S) \in Nat
  BY <1>1, FS_Subset, FS_CardinalityType
<1> QED
  BY <1>1, <1>2

\* The invariant says what the run checks.
LEMMA ObjectsInvMeans ==
    ASSUME ObjectsInv
    PROVE  ObjectsConserved
<1>1. O!created <=> PoolExists
  BY DEF O!created, PoolExists
<1>2. ToSet(stack) = Elements(stack) /\ O!Freed = Cut
  <2>1. DOMAIN stack = 1..Len(stack)
    BY LenProperties DEF ObjectsInv, ObjectTypes
  <2>2. ToSet(stack) = Elements(stack)
    BY <2>1 DEF ToSet, Elements
  <2> QED
    BY <2>2, SameOperators DEF O!Freed, Cut
<1>3. Len(stack) \in Nat /\ alloc_count \in Nat
  BY LenProperties, BlocksFinite DEF ObjectsInv, ObjectTypes, StackSound
<1>4. Len(stack) <= objCapacity /\ alloc_count \in 0..objCapacity
  <2>1. CASE PoolExists
    BY <1>3, <2>1 DEF ObjectsInv, ObjectTypes, StackSound
  <2>2. CASE ~PoolExists
    <3>1. held = {} /\ stack = <<>>
      BY <2>2 DEF PoolExists
    <3>2. alloc_count = 0 /\ Len(stack) = 0
      BY <3>1, FS_EmptySet, EmptySeq DEF ObjectsInv, StackSound
    <3> QED
      BY <3>2 DEF ObjectsInv, ObjectTypes
  <2> QED
    BY <2>1, <2>2
<1>5. O!TypeOK
  BY <1>4 DEF ObjectsInv, ObjectTypes, O!TypeOK, O!free_top
<1>6. O!ObjectsConserved
  <2>1. IsInjective(stack)
    <3>1. DOMAIN stack = 1..Len(stack)
      BY LenProperties DEF ObjectsInv, ObjectTypes
    <3> QED
      BY <3>1 DEF IsInjective, ObjectsInv, StackSound, Distinct
  <2>2. /\ O!IsInjective(stack) /\ O!ToSet(stack) \cap held = {}
        /\ alloc_count = O!Cardinality(held)
    BY <1>2, <2>1, SameOperators DEF ObjectsInv, StackSound
  <2>3. O!created => O!free_top + alloc_count = objCapacity
    BY <1>1 DEF ObjectsInv, StackSound, O!free_top
  <2> QED
    BY <2>2, <2>3 DEF O!ObjectsConserved
<1>7. O!BlocksConserved
  BY <1>1, <1>2 DEF ObjectsInv, OwnersApart, O!BlocksConserved
<1>8. O!ReleaseDestructsLive
  BY DEF ObjectsInv, ObjectTypes, O!ReleaseDestructsLive
<1> QED
  BY <1>5, <1>6, <1>7, <1>8 DEF ObjectsConserved

\* Nothing is cut from the memory pool at first.
LEMMA ObjectsAtFirst ==
    ASSUME O!Init
    PROVE  ObjectsInv
<1>1. stack = <<>> /\ Len(stack) = 0 /\ stack \in Seq(Block)
  BY EmptySeq DEF O!Init
<1>2. held = {} /\ alloc_count = Cardinality(held)
  BY FS_EmptySet DEF O!Init
<1>3. Elements(stack) = {} /\ Distinct(stack)
  BY <1>1 DEF Elements, Distinct
<1>4. ~PoolExists
  BY <1>1, <1>2 DEF PoolExists
<1> QED
  BY <1>1, <1>2, <1>3, <1>4
     DEF ObjectsInv, ObjectTypes, StackSound, OwnersApart, HeldLive, O!Init

\* What the memory pool hands out next: blocks nobody has, each once.
LEMMA GivenFresh ==
    ASSUME taken \subseteq Block, NEW n \in Nat, n <= Cardinality(Block \ taken)
    PROVE  /\ O!Given(n) \in Seq(Block \ taken) /\ Len(O!Given(n)) = n
           /\ Distinct(O!Given(n)) /\ Elements(O!Given(n)) \subseteq Block \ taken
<1> DEFINE F == Block \ taken
<1>1. IsFiniteSet(F)
  BY BlocksFinite
<1>2. O!Given(n) = SubSeq(SetToSeq(F), 1, n)
  BY SameOperators DEF O!Given
<1>3. n <= Cardinality(F)
  OBVIOUS
<1> HIDE DEF F
<1>4. /\ SubSeq(SetToSeq(F), 1, n) \in Seq(F) /\ Len(SubSeq(SetToSeq(F), 1, n)) = n
      /\ Distinct(SubSeq(SetToSeq(F), 1, n)) /\ Elements(SubSeq(SetToSeq(F), 1, n)) \subseteq F
  BY <1>1, <1>3, Enumerated
<1> QED
  BY <1>2, <1>4 DEF F

\* The same blocks as the set the pool takes them as.
LEMMA GivenAsSet ==
    ASSUME taken \subseteq Block, NEW n \in Nat, n <= Cardinality(Block \ taken)
    PROVE  O!ToSet(O!Given(n)) = Elements(O!Given(n))
<1>1. O!Given(n) \in Seq(Block \ taken)
  BY GivenFresh
<1>2. DOMAIN O!Given(n) = 1..Len(O!Given(n))
  BY <1>1, LenProperties
<1>3. ToSet(O!Given(n)) = Elements(O!Given(n))
  BY <1>2 DEF ToSet, Elements
<1> QED
  BY <1>3, SameOperators

\* eg_objpool_create: all objects and the array, or nothing.
LEMMA ObjectsCreate ==
    ASSUME ObjectsInv, NEW size \in Capacities, O!Create(size)
    PROVE  ObjectsInv'
<1> DEFINE free == Cardinality(Block \ taken)
<1>1. stack = <<>> /\ held = {} /\ ~PoolExists /\ size \in Nat \ {0}
  BY PartsAssumption DEF O!Create, O!created, PoolExists, O!CapacitiesAssumption
<1>2. /\ objCapacity' = size /\ alloc_count' = 0 /\ callbacks' = FALSE
      /\ UNCHANGED <<held, live, others, lost, faults>>
  BY DEF O!Create
<1>3. taken \subseteq Block /\ free \in Nat
  BY BlocksFinite DEF ObjectsInv, ObjectTypes
<1>4. CASE free >= size + 1
  <2> DEFINE g == O!Given(size + 1)
  <2>1. size + 1 \in Nat /\ size + 1 <= free
    BY <1>1, <1>3, <1>4
  <2>2. /\ g \in Seq(Block \ taken) /\ Len(g) = size + 1
        /\ Distinct(g) /\ Elements(g) \subseteq Block \ taken
    BY <1>3, <2>1, GivenFresh
  <2>3. O!ToSet(g) = Elements(g)
    BY <1>3, <2>1, GivenAsSet
  <2>4. free > 0 /\ O!Cardinality(Block \ taken) = free
    BY <1>1, <1>3, <1>4, SameOperators
  <2>5. stack' = Tail(g) /\ free_stack' = g[1] /\ taken' = taken \cup Elements(g)
    BY <1>4, <2>3, <2>4 DEF O!Create
  <2> HIDE DEF g, free
  <2>6. g # <<>>
    BY <1>1, <2>2, EmptySeq
  <2>7. /\ stack' \in Seq(Block \ taken) /\ Len(stack') = size /\ Distinct(stack')
        /\ g[1] \in Elements(g) /\ Elements(stack') = Elements(g) \ {g[1]}
    <3>1. /\ Tail(g) \in Seq(Block \ taken) /\ Len(Tail(g)) = Len(g) - 1 /\ Distinct(Tail(g))
          /\ g[1] \in Elements(g) /\ Elements(Tail(g)) = Elements(g) \ {g[1]}
      BY <2>2, <2>6, Shifted
    <3>2. Len(g) - 1 = size
      BY <1>1, <2>2
    <3> QED
      BY <2>5, <3>1, <3>2
  <2>8. stack' \in Seq(Block)
    BY <2>7, SeqMonotonic
  <2>9. stack' # <<>>
    BY <1>1, <2>7, EmptySeq
  <2>10. ObjectTypes'
    BY <1>1, <1>2, <1>3, <2>2, <2>5, <2>7, <2>8 DEF ObjectsInv, ObjectTypes
  <2>11. StackSound'
    <3>1. alloc_count' = Cardinality(held')
      BY <1>1, <1>2, FS_EmptySet
    <3>2. Len(stack') + alloc_count' = objCapacity'
      BY <1>1, <1>2, <2>7
    <3>3. free_stack' \in Block \ Elements(stack')
      BY <2>2, <2>5, <2>7
    <3> QED
      BY <1>1, <1>2, <2>7, <3>1, <3>2, <3>3 DEF StackSound
  <2>12. OwnersApart'
    <3>1. PoolExists'
      BY <2>9 DEF PoolExists
    <3>2. Cut' = Elements(g)
      BY <2>5, <2>7 DEF Cut
    <3>3. taken = lost \cup others
      BY <1>1 DEF ObjectsInv, OwnersApart
    <3> QED
      BY <1>1, <1>2, <2>2, <2>5, <3>1, <3>2, <3>3 DEF ObjectsInv, OwnersApart
  <2> QED
    BY <1>2, <2>10, <2>11, <2>12 DEF ObjectsInv, HeldLive
<1>5. CASE ~(free >= size + 1)
  <2>1. O!Cardinality(Block \ taken) = free
    BY SameOperators
  <2>2. stack' = <<>> /\ taken' = taken /\ free_stack' = (IF free > 0 THEN O!Given(free)[1] ELSE 0)
    BY <1>5, <2>1 DEF O!Create, O!Rollback
  <2>3. free_stack' \in Block \cup {0}
    <3>1. CASE free > 0
      <4>1. O!Given(free) \in Seq(Block \ taken) /\ Len(O!Given(free)) = free
        BY <1>3, GivenFresh
      <4>2. 1 \in 1..Len(O!Given(free))
        BY <1>3, <3>1, <4>1
      <4>3. O!Given(free)[1] \in Block \ taken
        BY <4>1, <4>2, ElementOfSeq
      <4> QED
        BY <2>2, <3>1, <4>3
    <3> QED
      BY <2>2, <3>1
  <2> HIDE DEF free
  <2>4. stack' \in Seq(Block) /\ Len(stack') = 0 /\ Elements(stack') = {} /\ Distinct(stack')
    BY <2>2, EmptySeq DEF Elements, Distinct
  <2>5. ~PoolExists'
    BY <1>1, <1>2, <2>2 DEF PoolExists
  <2>6. alloc_count' = Cardinality(held')
    BY <1>1, <1>2, FS_EmptySet
  <2> QED
    BY <1>1, <1>2, <2>2, <2>3, <2>4, <2>5, <2>6
       DEF ObjectsInv, ObjectTypes, StackSound, OwnersApart, HeldLive
<1> QED
  BY <1>4, <1>5

\* eg_objpool_destroy: what was cut goes back, what callers hold is lost.
LEMMA ObjectsDestroy ==
    ASSUME ObjectsInv, O!Destroy
    PROVE  ObjectsInv'
<1>1. PoolExists
  BY DEF O!Destroy, O!created, PoolExists
<1>2. O!Freed = Cut
  <2>1. DOMAIN stack = 1..Len(stack)
    BY LenProperties DEF ObjectsInv, ObjectTypes
  <2>2. ToSet(stack) = Elements(stack)
    BY <2>1 DEF ToSet, Elements
  <2> QED
    BY <2>2, SameOperators DEF O!Freed, Cut
<1>3. Cut \subseteq taken \ others
  BY <1>1 DEF ObjectsInv, OwnersApart
<1>4. /\ objCapacity' = 0 /\ free_stack' = 0 /\ stack' = <<>> /\ alloc_count' = 0
      /\ callbacks' = FALSE /\ held' = {} /\ live' = {}
      /\ taken' = taken \ Cut /\ lost' = lost \cup held /\ UNCHANGED others
      /\ faults' \subseteq faults \cup {"destroy"}
  BY <1>2, <1>3 DEF O!Destroy
<1>5. stack' \in Seq(Block) /\ Len(stack') = 0 /\ Elements(stack') = {} /\ Distinct(stack')
  BY <1>4, EmptySeq DEF Elements, Distinct
<1>6. alloc_count' = Cardinality(held')
  BY <1>4, FS_EmptySet
<1>7. ~PoolExists'
  BY <1>4 DEF PoolExists
<1>8. OwnersApart'
  BY <1>1, <1>4, <1>7 DEF ObjectsInv, OwnersApart
<1> QED
  BY <1>4, <1>5, <1>6, <1>7, <1>8 DEF ObjectsInv, ObjectTypes, StackSound, HeldLive

\* eg_objpool_acquire: the top of the stack goes to the caller, or stays where it is.
LEMMA ObjectsAcquire ==
    ASSUME ObjectsInv, NEW constructed \in BOOLEAN, O!Acquire(constructed)
    PROVE  ObjectsInv'
<1>1. CASE O!Fails(constructed)
  <2>1. UNCHANGED objects
    BY <1>1 DEF O!Acquire, O!FailedAcquire, O!pool, objects
  <2> QED
    BY <2>1 DEF ObjectsInv, ObjectTypes, StackSound, OwnersApart, HeldLive, PoolExists, Cut,
                objects
<1>2. CASE ~O!Fails(constructed)
  <2> DEFINE x == Last(stack)
  <2>1. stack # <<>> /\ stack \in Seq(Block)
    BY EmptySeq DEF O!Acquire, O!free_top, ObjectsInv, ObjectTypes
  <2>2. /\ stack' = Front(stack) /\ held' = held \cup {x} /\ alloc_count' = alloc_count + 1
        /\ live' = (IF callbacks /\ constructed THEN live \cup {x} ELSE live)
        /\ UNCHANGED <<objCapacity, free_stack, callbacks, taken, others, lost, faults>>
    BY <1>2, SameOperators DEF O!Acquire
  <2>3. callbacks => constructed
    BY <1>2 DEF O!Fails
  <2>4. /\ Front(stack) \in Seq(Block) /\ Len(Front(stack)) = Len(stack) - 1
        /\ Distinct(Front(stack)) /\ x \in Elements(stack)
        /\ Elements(Front(stack)) = Elements(stack) \ {x}
    BY <2>1, Popped DEF ObjectsInv, StackSound
  <2>5. Elements(stack) \subseteq Block
    BY <2>1, ElementOfSeq DEF Elements
  <2> HIDE DEF x
  <2>6. x \notin held /\ IsFiniteSet(held) /\ Cardinality(held) \in Nat
    BY <2>4, BlocksFinite DEF ObjectsInv, StackSound, ObjectTypes
  <2>7. Cardinality(held') = Cardinality(held) + 1
    BY <2>2, <2>6, FS_AddElement
  <2>8. ObjectTypes'
    BY <2>2, <2>4, <2>5 DEF ObjectsInv, ObjectTypes
  <2>9. PoolExists /\ PoolExists'
    BY <2>1, <2>2 DEF PoolExists
  <2>10. StackSound'
    <3>1. Len(stack) \in Nat
      BY <2>1, LenProperties
    <3>2. Len(stack') + alloc_count' = objCapacity'
      BY <2>2, <2>4, <2>6, <2>9, <3>1 DEF ObjectsInv, StackSound
    <3>3. alloc_count' = Cardinality(held')
      BY <2>2, <2>7 DEF ObjectsInv, StackSound
    <3> QED
      BY <2>2, <2>4, <2>9, <3>2, <3>3 DEF ObjectsInv, StackSound
  <2>11. OwnersApart'
    <3>1. Cut' = Cut \ {x} /\ x \in Cut
      BY <2>2, <2>4, <2>9 DEF Cut, ObjectsInv, StackSound
    <3> QED
      BY <2>2, <2>9, <3>1 DEF ObjectsInv, OwnersApart
  <2>12. HeldLive'
    BY <2>2, <2>3 DEF ObjectsInv, HeldLive
  <2> QED
    BY <2>8, <2>10, <2>11, <2>12 DEF ObjectsInv
<1> QED
  BY <1>1, <1>2

\* eg_objpool_release: an object comes back onto the stack.
LEMMA ObjectsRelease ==
    ASSUME ObjectsInv, NEW obj \in held, O!Release(obj)
    PROVE  ObjectsInv'
<1>1. /\ stack' = Append(stack, obj) /\ held' = held \ {obj} /\ live' = live \ {obj}
      /\ alloc_count' = alloc_count - 1
      /\ UNCHANGED <<objCapacity, free_stack, callbacks, taken, others, lost>>
  BY DEF O!Release
<1>2. faults' = faults
  BY DEF O!Release, ObjectsInv, HeldLive
<1>3. obj \in Block /\ stack \in Seq(Block) /\ obj \notin Elements(stack) /\ Distinct(stack)
  BY DEF ObjectsInv, ObjectTypes, StackSound
<1>4. /\ stack' \in Seq(Block) /\ stack' # <<>> /\ Len(stack') = Len(stack) + 1
      /\ Distinct(stack') /\ Elements(stack') = Elements(stack) \cup {obj}
  BY <1>1, <1>3, Pushed
<1>5. PoolExists /\ PoolExists'
  BY <1>4 DEF PoolExists
<1>6. IsFiniteSet(held) /\ Cardinality(held) \in Nat
  BY BlocksFinite DEF ObjectsInv, ObjectTypes
<1>7. Cardinality(held') = Cardinality(held) - 1
  BY <1>1, <1>6, FS_RemoveElement
<1>8. ObjectTypes'
  BY <1>1, <1>2, <1>4 DEF ObjectsInv, ObjectTypes
<1>9. StackSound'
  <2>1. Len(stack) \in Nat
    BY <1>3, LenProperties
  <2>2. Len(stack') + alloc_count' = objCapacity'
    <3>1. Len(stack) + alloc_count = objCapacity /\ alloc_count \in Nat
      BY <1>5, <1>6 DEF ObjectsInv, StackSound
    <3>2. Len(stack') + alloc_count' = Len(stack) + 1 + (alloc_count - 1)
      BY <1>1, <1>4
    <3> QED
      BY <1>1, <2>1, <3>1, <3>2
  <2>3. alloc_count' = Cardinality(held')
    BY <1>1, <1>7 DEF ObjectsInv, StackSound
  <2>4. free_stack' \in Block \ Elements(stack')
    <3>1. obj # free_stack
      BY <1>5 DEF ObjectsInv, OwnersApart, Cut
    <3> QED
      BY <1>1, <1>4, <1>5, <3>1 DEF ObjectsInv, StackSound
  <2> QED
    BY <1>1, <1>4, <1>5, <2>2, <2>3, <2>4 DEF ObjectsInv, StackSound
<1>10. OwnersApart'
  <2>1. Cut' = Cut \cup {obj}
    BY <1>1, <1>4 DEF Cut
  <2> QED
    BY <1>1, <1>5, <2>1 DEF ObjectsInv, OwnersApart
<1>11. HeldLive'
  BY <1>1 DEF ObjectsInv, HeldLive
<1> QED
  BY <1>8, <1>9, <1>10, <1>11 DEF ObjectsInv

\* What others do with the memory pool touches no block of this one.
LEMMA ObjectsOthers ==
    ASSUME ObjectsInv, O!OtherTakes \/ \E b \in others : O!OtherFrees(b)
    PROVE  ObjectsInv'
<1>1. ASSUME UNCHANGED <<objCapacity, free_stack, stack, alloc_count, callbacks, held, live, lost, faults>>,
             others' \subseteq Block, taken' \subseteq Block, OwnersApart'
      PROVE  ObjectsInv'
  BY <1>1 DEF ObjectsInv, ObjectTypes, StackSound, HeldLive, PoolExists
<1>2. ASSUME UNCHANGED <<free_stack, stack, held>>
      PROVE  (PoolExists' <=> PoolExists) /\ Cut' = Cut
  BY <1>2 DEF PoolExists, Cut
<1>3. CASE O!OtherTakes
  <2> DEFINE new == Elements(O!Given(1))
  <2>1. taken \subseteq Block /\ taken # Block
    BY <1>3 DEF ObjectsInv, ObjectTypes, O!OtherTakes
  <2>2. 1 <= Cardinality(Block \ taken)
    <3>1. IsFiniteSet(Block \ taken) /\ Cardinality(Block \ taken) \in Nat /\ Block \ taken # {}
      BY <2>1, BlocksFinite
    <3>2. Cardinality(Block \ taken) # 0
      BY <3>1, FS_EmptySet
    <3> QED
      BY <3>1, <3>2
  <2>3. new \subseteq Block \ taken /\ O!ToSet(O!Given(1)) = new
    BY <2>1, <2>2, GivenFresh, GivenAsSet
  <2>4. /\ others' = others \cup new /\ taken' = taken \cup new
        /\ UNCHANGED <<objCapacity, free_stack, stack, alloc_count, callbacks, held, live, lost, faults>>
    BY <1>3, <2>3 DEF O!OtherTakes, O!pool
  <2> HIDE DEF new
  <2>5. OwnersApart'
    <3>1. (PoolExists' <=> PoolExists) /\ Cut' = Cut
      BY <1>2, <2>4
    <3>2. OwnersApart /\ new \cap taken = {}
      BY <2>3 DEF ObjectsInv
    <3>3. taken' = (IF PoolExists' THEN Cut' \cup held' ELSE {}) \cup lost' \cup others'
      <4>1. (IF PoolExists' THEN Cut' \cup held' ELSE {}) = (IF PoolExists THEN Cut \cup held ELSE {})
        BY <2>4, <3>1
      <4> QED
        BY <2>4, <3>2, <4>1 DEF OwnersApart
    <3>4. PoolExists' => Cut' \cap (held' \cup lost' \cup others') = {}
      <4>1. PoolExists => Cut \subseteq taken
        BY <3>2 DEF OwnersApart
      <4> QED
        BY <2>4, <3>1, <3>2, <4>1 DEF OwnersApart
    <3>5. held' \cap (lost' \cup others') = {} /\ lost' \cap others' = {}
      <4>1. lost \subseteq taken /\ held \cap new = {}
        BY <2>3, <3>2 DEF OwnersApart, PoolExists
      <4> QED
        BY <2>4, <3>2, <4>1 DEF OwnersApart
    <3> QED
      BY <3>3, <3>4, <3>5 DEF OwnersApart
  <2> QED
    BY <1>1, <2>1, <2>3, <2>4, <2>5 DEF ObjectsInv, ObjectTypes
<1>4. ASSUME NEW b \in others, O!OtherFrees(b)
      PROVE  ObjectsInv'
  <2>1. /\ others' = others \ {b} /\ taken' = taken \ {b}
        /\ UNCHANGED <<objCapacity, free_stack, stack, alloc_count, callbacks, held, live, lost, faults>>
    BY <1>4 DEF O!OtherFrees, O!pool
  <2>2. OwnersApart'
    BY <1>2, <2>1 DEF ObjectsInv, OwnersApart
  <2> QED
    BY <1>1, <2>1, <2>2 DEF ObjectsInv, ObjectTypes
<1> QED
  BY <1>3, <1>4

\* Every step keeps the invariant.
LEMMA ObjectsStep ==
    ASSUME ObjectsInv, O!Next \/ UNCHANGED objects
    PROVE  ObjectsInv'
<1>1. ASSUME NEW set \in BOOLEAN, O!SetCallbacks(set)
      PROVE  ObjectsInv'
  <2>1. /\ callbacks' = set /\ held = {}
        /\ UNCHANGED <<objCapacity, free_stack, stack, alloc_count, held, live, taken, others, lost, faults>>
    BY <1>1 DEF O!SetCallbacks
  <2> QED
    BY <2>1 DEF ObjectsInv, ObjectTypes, StackSound, OwnersApart, HeldLive, PoolExists, Cut
<1>2. CASE UNCHANGED objects
  BY <1>2 DEF ObjectsInv, ObjectTypes, StackSound, OwnersApart, HeldLive, PoolExists, Cut,
              objects
<1> QED
  BY <1>1, <1>2, ObjectsCreate, ObjectsDestroy, ObjectsAcquire, ObjectsRelease, ObjectsOthers
     DEF O!Next

\* eg_objpool_create, acquire, release, set_callbacks and destroy: no object and no
\* block is lost or there twice, for any number of blocks and any capacities, and
\* whatever others take from the memory pool and give back.
THEOREM ObjectsAreConserved == PartsSpec => []ObjectsConserved
<1>1. PartsInit => ObjectsInv
  BY ObjectsAtFirst DEF PartsInit
<1>2. ObjectsInv /\ [PartsNext]_<<subject, vars, objects, exporter, board, tests>> => ObjectsInv'
  BY ObjectsStep DEF PartsNext
<1>3. ObjectsInv => ObjectsConserved
  BY ObjectsInvMeans
<1> QED
  BY <1>1, <1>2, <1>3, PTL DEF PartsSpec

-----------------------------------------------------------------------------
(* The exporter.  What a caller still has to add is a set of callers for each *)
(* metric; pages are compared with the metrics by what they have read, or     *)
(* would read now.                                                            *)

\* The metrics that are compared, and that only rise.
Buckets == {"le1", "le2"}
Rising == {"count", "requests_total", "requests_success", "requests_failed"} \cup Buckets

\* A call touches its metrics in this order.
Rank(m) ==
    IF m \in {"count", "requests_total", "connections_total", "bytes_received",
              "memory_pool_used"} THEN 1
    ELSE IF m = "le1" THEN 3
    ELSE IF m = "le2" THEN 4 ELSE 2

\* The statements of calls, of any amount.
Entries == [op : {"add", "plus", "set"}, metric : E!Metric, by : Int]

\* One statement of a call: += is on the sum alone, what only rises rises by one.
EntrySound(e) ==
    /\ e.metric \notin {"cpu_usage", "memory_usage"}
    /\ e.op = "plus" => e.metric = "sum" /\ e.by \in 1..3
    /\ e.metric = "sum" => e.op # "add"
    /\ e.metric \in Rising => e.op = "add" /\ e.by = 1

\* A statement is on metric m.
Touches(s, m) == \E i \in 1..Len(s) : s[i].metric = m

\* The statements of a call that are left.  Who has the small bucket to count has the
\* large one, too, and a request is a success or a failure.
StepsSound(s) ==
    /\ s \in Seq(Entries)
    /\ \A i \in 1..Len(s) : EntrySound(s[i])
    /\ \A i, j \in 1..Len(s) : i < j => Rank(s[i].metric) < Rank(s[j].metric)
    /\ Touches(s, "le1") => Touches(s, "le2")
    /\ Touches(s, "requests_total") =>
           Touches(s, "requests_success") \/ Touches(s, "requests_failed")

\* The callers that have still to touch metric m.
Pending(m) == {t \in Caller : Touches(todo[t], m)}

\* The seconds of the observations whose load is still to come, one by one.
Owes(s, k) == \E i \in 1..Len(s) : s[i].op = "plus" /\ k <= s[i].by
Due == {d \in Caller \X (1..3) : Owes(todo[d[1]], d[2])}

\* What the callers have left to do is the rest of a call.
CallsSound == todo \in [Caller -> Seq(Entries)] /\ \A t \in Caller : StepsSound(todo[t])

\* No bucket is ahead of count, none of a larger one, and no request is counted that
\* has not been counted as one of its kind, but for the callers in between.
CountersOrdered ==
    /\ \A b \in Buckets :
           value[b] + Cardinality(Pending(b) \ Pending("count")) <= value["count"]
    /\ value["le1"] <= value["le2"] + Cardinality(Pending("le2") \ Pending("le1"))
    /\ value["requests_total"] <=
           value["requests_success"] + value["requests_failed"]
           + Cardinality((Pending("requests_success") \cup Pending("requests_failed"))
                         \ Pending("requests_total"))

\* The sum, and whatever it will be set to, and what is to be added to it.
SumWithin ==
    /\ value["sum"] + Cardinality(Due) <= observed
    /\ \A t \in Caller : \A i \in 1..Len(todo[t]) :
           todo[t][i].metric = "sum" /\ todo[t][i].op = "set" =>
               todo[t][i].by + Cardinality(Due) <= observed

\* The caller is in the middle of an observation.
Observing(t) == \E i \in 1..Len(todo[t]) : todo[t][i].metric \in {"count", "sum"} \cup Buckets

\* While no two observations ran at once the sum is what was observed, or will be.
SumExact ==
    ~overlapped =>
        /\ \A t, u \in Caller : Observing(t) /\ Observing(u) => t = u
        /\ Pending("sum") = {} => value["sum"] = observed
        /\ \A t \in Caller : \A i \in 1..Len(todo[t]) :
               /\ todo[t][i].op = "plus" => value["sum"] + todo[t][i].by = observed
               /\ todo[t][i].metric = "sum" /\ todo[t][i].op = "set" => todo[t][i].by = observed

\* What the page says of metric m at place i, or would say now.
Seen(i, m) == IF i <= Len(page) THEN page[i] ELSE value[m]

\* A page, as far as it is read, against what it would read now.
PageCoherent ==
    /\ page \in Seq(Int) /\ Len(page) <= 20
    /\ Len(page) >= 4 => page[4] <= Seen(5, "requests_success") + Seen(6, "requests_failed")
                                    + Cardinality(Caller)
    /\ Len(page) >= 7 => /\ page[7] <= Seen(8, "le2") + Cardinality(Caller)
                         /\ page[7] <= Seen(9, "count")
    /\ Len(page) >= 8 => page[8] <= Seen(9, "count")
    /\ Len(page) >= 9 => page[9] <= Seen(11, "count")

\* The last look at /proc/stat is an earlier one.
ProcSound ==
    /\ busy \in Nat /\ idle \in Nat /\ prev_total \in Nat /\ prev_idle \in Nat
    /\ events \in 0..MaxEvents /\ busy + idle <= events
    /\ prev_idle <= idle /\ prev_idle <= prev_total /\ prev_total - prev_idle <= busy
    /\ value["cpu_usage"] \in 0..100

\* The exporter's thread serves one client at a time.
ServerSound ==
    /\ starting \in Nat /\ server \in {"none", "accept", "recv", "format", "send"}
    /\ client \in [Client -> {"idle", "connected", "asked", "answered"}]
    /\ backlog \in Seq(Client)
    /\ IF server \in {"none", "accept"} THEN serving = {} ELSE \E c \in Client : serving = {c}

\* The inductive invariant of the exporter.
ExporterInv ==
    /\ value \in [E!Metric -> Int] /\ observed \in Nat /\ overlapped \in BOOLEAN
    /\ CallsSound /\ CountersOrdered /\ SumWithin /\ SumExact
    /\ PageCoherent /\ ProcSound /\ ServerSound

\* The library's operators under the exporter's name.
LEMMA SameOperatorsToo ==
    \A S : /\ E!Cardinality(S) = Cardinality(S) /\ E!IsFiniteSet(S) = IsFiniteSet(S)
           /\ E!Range(S) = {S[i] : i \in DOMAIN S}
BY DEF E!Cardinality, Cardinality, E!IsFiniteSet, IsFiniteSet, E!Range

\* The metrics by name.
LEMMA MetricIs ==
    /\ E!Observations = {"count", "sum", "le1", "le2"}
    /\ E!Metric = {"connections_total", "connections_errors", "requests_total",
                   "requests_success", "requests_failed", "bytes_received", "bytes_sent",
                   "parse_errors", "crc_errors", "timeout_errors", "connections_active",
                   "cpu_usage", "memory_usage", "memory_pool_used", "memory_pool_free",
                   "queue_size", "queue_capacity", "count", "sum", "le1", "le2"}
<1>1. E!Range(<<"le1", "le2">>) = {"le1", "le2"}
  <2>1. E!Range(<<"le1", "le2">>) = {<<"le1", "le2">>[i] : i \in DOMAIN <<"le1", "le2">>}
    BY SameOperatorsToo
  <2>2. DOMAIN <<"le1", "le2">> = {1, 2}
    OBVIOUS
  <2>3. <<"le1", "le2">>[1] = "le1" /\ <<"le1", "le2">>[2] = "le2"
    OBVIOUS
  <2> QED
    BY <2>1, <2>2, <2>3
<1>2. E!Observations = {"count", "sum", "le1", "le2"}
  BY <1>1 DEF E!Observations
<1> QED
  BY <1>2 DEF E!Metric, E!Counters, E!Gauges

\* Two sequences in a row.
LEMMA Joined ==
    \A S : \A r, s \in Seq(S) :
        /\ r \o s \in Seq(S) /\ Len(r \o s) = Len(r) + Len(s)
        /\ \A i \in 1..Len(r) : (r \o s)[i] = r[i]
        /\ \A i \in 1..Len(s) : (r \o s)[Len(r) + i] = s[i]
OBVIOUS

\* Where the metrics that are compared are on a page.
LEMMA PageIs ==
    /\ Len(E!Page) = 20 /\ \A i \in 1..20 : E!Page[i] \in E!Metric
    /\ E!Page[4] = "requests_total" /\ E!Page[5] = "requests_success"
    /\ E!Page[6] = "requests_failed"
    /\ E!Page[7] = "le1" /\ E!Page[8] = "le2" /\ E!Page[9] = "count" /\ E!Page[11] = "count"
<1> DEFINE a == <<"connections_total", "connections_active", "connections_errors",
                  "requests_total", "requests_success", "requests_failed">>
           b == <<"le1", "le2">>
           c == <<"count", "sum", "count", "bytes_received", "bytes_sent", "cpu_usage",
                  "memory_usage", "memory_pool_used", "memory_pool_free", "parse_errors",
                  "crc_errors", "timeout_errors">>
<1>1. a \in Seq(E!Metric) /\ b \in Seq(E!Metric) /\ c \in Seq(E!Metric)
  BY MetricIs
<1>2. Len(a) = 6 /\ Len(b) = 2 /\ Len(c) = 12
  OBVIOUS
<1>3. /\ a[4] = "requests_total" /\ a[5] = "requests_success" /\ a[6] = "requests_failed"
      /\ b[1] = "le1" /\ b[2] = "le2" /\ c[1] = "count" /\ c[3] = "count"
  OBVIOUS
<1>4. E!Page = (a \o b) \o c
  BY DEF E!Page
<1> HIDE DEF a, b, c
<1> DEFINE d == a \o b
<1>5. /\ d \in Seq(E!Metric) /\ Len(d) = 6 + 2 /\ \A i \in 1..6 : d[i] = a[i]
      /\ \A i \in 1..2 : d[6 + i] = b[i]
  <2>1. /\ a \o b \in Seq(E!Metric) /\ Len(a \o b) = Len(a) + Len(b)
        /\ \A i \in 1..Len(a) : (a \o b)[i] = a[i]
        /\ \A i \in 1..Len(b) : (a \o b)[Len(a) + i] = b[i]
    BY <1>1, Joined
  <2> HIDE DEF d
  <2> QED
    BY <1>2, <2>1 DEF d
<1> HIDE DEF d
<1>6. Len(d) = 8 /\ 6 + 1 = 7 /\ 6 + 2 = 8
  BY <1>5
<1>7. d[4] = a[4] /\ d[5] = a[5] /\ d[6] = a[6] /\ d[7] = b[1] /\ d[8] = b[2]
  <2>1. d[6 + 1] = b[1] /\ d[6 + 2] = b[2]
    BY <1>5
  <2> QED
    BY <1>5, <1>6, <2>1
<1> DEFINE p == d \o c
<1>8. /\ p \in Seq(E!Metric) /\ Len(p) = 8 + 12 /\ \A i \in 1..8 : p[i] = d[i]
      /\ \A i \in 1..12 : p[8 + i] = c[i]
  <2>1. /\ d \o c \in Seq(E!Metric) /\ Len(d \o c) = Len(d) + Len(c)
        /\ \A i \in 1..Len(d) : (d \o c)[i] = d[i]
        /\ \A i \in 1..Len(c) : (d \o c)[Len(d) + i] = c[i]
    <3>1. d \in Seq(E!Metric) /\ c \in Seq(E!Metric)
      BY <1>1, <1>5
    <3> QED
      BY <3>1, Joined
  <2> HIDE DEF p
  <2> QED
    BY <1>2, <1>6, <2>1 DEF p
<1>9. E!Page = p
  BY <1>4 DEF d
<1> HIDE DEF p
<1>10. p[9] = c[1] /\ p[11] = c[3]
  <2>1. p[8 + 1] = c[1] /\ p[8 + 3] = c[3]
    BY <1>8
  <2>2. 8 + 1 = 9 /\ 8 + 3 = 11
    OBVIOUS
  <2> QED
    BY <2>1, <2>2
<1>11. Len(p) = 20 /\ \A i \in 1..20 : p[i] \in E!Metric
  <2>1. Len(p) = 20
    BY <1>8
  <2> QED
    BY <1>8, <2>1, ElementOfSeq
<1>12. p[4] = d[4] /\ p[5] = d[5] /\ p[6] = d[6] /\ p[7] = d[7] /\ p[8] = d[8]
  BY <1>8
<1> QED
  BY <1>3, <1>7, <1>9, <1>10, <1>11, <1>12

\* One statement less.
LEMMA StepsDone ==
    ASSUME NEW s, StepsSound(s), s # <<>>
    PROVE  /\ StepsSound(Tail(s)) /\ Len(s) \in Nat \ {0} /\ Len(Tail(s)) = Len(s) - 1
           /\ Head(s) = s[1] /\ s[1] \in Entries /\ EntrySound(s[1])
           /\ \A i \in 1..Len(Tail(s)) : Tail(s)[i] = s[i + 1]
           /\ \A m : Touches(Tail(s), m) <=> Touches(s, m) /\ m # s[1].metric
           /\ \A m : Rank(m) < Rank(s[1].metric) => ~Touches(s, m)
<1>1. /\ s \in Seq(Entries) /\ \A i \in 1..Len(s) : EntrySound(s[i])
      /\ \A i, j \in 1..Len(s) : i < j => Rank(s[i].metric) < Rank(s[j].metric)
      /\ Touches(s, "le1") => Touches(s, "le2")
      /\ Touches(s, "requests_total") =>
             Touches(s, "requests_success") \/ Touches(s, "requests_failed")
  BY DEF StepsSound
<1> DEFINE r == Tail(s)
<1>2. PICK n \in Nat \ {0} : n = Len(s)
  BY <1>1, EmptySeq
<1>3. r \in Seq(Entries) /\ Len(r) = n - 1 /\ \A i \in 1..(n - 1) : r[i] = s[i + 1]
  BY <1>1, <1>2, HeadTailProperties
<1>4. s[1] \in Entries /\ EntrySound(s[1]) /\ Head(s) = s[1]
  <2>1. 1 \in 1..Len(s)
    BY <1>2
  <2> QED
    BY <1>1, <2>1, ElementOfSeq
<1> HIDE DEF r
<1>5. \A m : Rank(m) \in 1..4
  BY DEF Rank
<1>6. \A i \in 2..n : Rank(s[1].metric) < Rank(s[i].metric)
  BY <1>1, <1>2
<1>7. ASSUME NEW m
      PROVE  Touches(r, m) <=> Touches(s, m) /\ m # s[1].metric
  <2>1. ASSUME NEW i \in 1..(n - 1)
        PROVE  i + 1 \in 2..n /\ r[i] = s[i + 1]
    BY <1>3
  <2>2. ASSUME NEW i \in 2..n
        PROVE  i - 1 \in 1..(n - 1) /\ r[i - 1] = s[i] /\ s[i].metric # s[1].metric
    <3>1. i - 1 \in 1..(n - 1) /\ (i - 1) + 1 = i
      OBVIOUS
    <3>2. r[i - 1] = s[i]
      BY <1>3, <3>1
    <3>3. s[i].metric # s[1].metric
      BY <1>5, <1>6
    <3> QED
      BY <3>1, <3>2, <3>3
  <2>3. ASSUME Touches(r, m)
        PROVE  Touches(s, m) /\ m # s[1].metric
    <3>1. PICK i \in 1..(n - 1) : r[i].metric = m
      BY <1>3, <2>3 DEF Touches
    <3>2. i + 1 \in 2..n /\ s[i + 1].metric = m
      BY <2>1, <3>1
    <3>3. i + 1 \in 1..n /\ m # s[1].metric
      BY <2>2, <3>2
    <3> QED
      BY <1>2, <3>2, <3>3 DEF Touches
  <2>4. ASSUME Touches(s, m), m # s[1].metric
        PROVE  Touches(r, m)
    <3>1. PICK i \in 1..n : s[i].metric = m
      BY <1>2, <2>4 DEF Touches
    <3>2. i \in 2..n
      BY <2>4, <3>1
    <3>3. i - 1 \in 1..(n - 1) /\ r[i - 1].metric = m
      BY <2>2, <3>1, <3>2
    <3> QED
      BY <1>3, <3>3 DEF Touches
  <2> QED
    BY <2>3, <2>4
<1>8. ASSUME NEW m, Rank(m) < Rank(s[1].metric)
      PROVE  ~Touches(s, m)
  <2> SUFFICES ASSUME NEW i \in 1..n, s[i].metric = m
               PROVE  FALSE
    BY <1>2 DEF Touches
  <2>1. CASE i = 1
    BY <1>5, <1>8, <2>1
  <2>2. CASE i # 1
    <3>1. i \in 2..n
      BY <2>2
    <3>2. Rank(s[1].metric) < Rank(m)
      BY <1>6, <3>1
    <3> QED
      BY <1>5, <1>8, <3>2
  <2> QED
    BY <2>1, <2>2
<1>9. StepsSound(r)
  <2>1. \A i \in 1..(n - 1) : EntrySound(r[i])
    BY <1>1, <1>2, <1>3
  <2>2. ASSUME NEW i \in 1..(n - 1), NEW j \in 1..(n - 1), i < j
        PROVE  Rank(r[i].metric) < Rank(r[j].metric)
    <3>1. i + 1 \in 1..n /\ j + 1 \in 1..n /\ i + 1 < j + 1
      BY <2>2
    <3>2. r[i] = s[i + 1] /\ r[j] = s[j + 1]
      BY <1>3
    <3> QED
      BY <1>1, <1>2, <3>1, <3>2
  <2>3. Touches(r, "le1") => Touches(r, "le2")
    <3>1. s[1].metric = "le2" => ~Touches(s, "le1")
      BY <1>8 DEF Rank
    <3> QED
      BY <1>1, <1>7, <3>1
  <2>4. Touches(r, "requests_total") => Touches(r, "requests_success") \/ Touches(r, "requests_failed")
    <3>1. s[1].metric \in {"requests_success", "requests_failed"} => ~Touches(s, "requests_total")
      BY <1>8 DEF Rank
    <3> QED
      BY <1>1, <1>7, <3>1
  <2> QED
    BY <1>3, <2>1, <2>2, <2>3, <2>4 DEF StepsSound
<1> QED
  BY <1>2, <1>3, <1>4, <1>7, <1>8, <1>9 DEF r

-----------------------------------------------------------------------------
(* What the calls have to do *)

\* Calls of no, one and two statements.
LEMMA NoSteps == StepsSound(<<>>) /\ \A m : ~Touches(<<>>, m)
<1>1. <<>> \in Seq(Entries) /\ Len(<<>>) = 0
  OBVIOUS
<1> QED
  BY <1>1 DEF StepsSound, Touches

\* One statement.
LEMMA OneStep ==
    ASSUME NEW e \in Entries, EntrySound(e), e.metric \notin {"le1", "requests_total"}
    PROVE  StepsSound(<<e>>) /\ Len(<<e>>) = 1 /\ \A m : Touches(<<e>>, m) <=> m = e.metric
<1> DEFINE s == <<e>>
<1>1. s \in Seq(Entries) /\ Len(s) = 1 /\ s[1] = e
  OBVIOUS
<1> HIDE DEF s
<1>2. \A m : Touches(s, m) <=> m = e.metric
  BY <1>1 DEF Touches
<1>3. StepsSound(s)
  BY <1>1, <1>2 DEF StepsSound
<1> QED
  BY <1>1, <1>2, <1>3 DEF s

\* Two, in the order of their ranks.
LEMMA TwoSteps ==
    ASSUME NEW e \in Entries, NEW f \in Entries, EntrySound(e), EntrySound(f),
           Rank(e.metric) < Rank(f.metric), e.metric # "le1",
           f.metric \notin {"le1", "requests_total"},
           e.metric = "requests_total" => f.metric \in {"requests_success", "requests_failed"}
    PROVE  /\ StepsSound(<<e, f>>) /\ Len(<<e, f>>) = 2
           /\ \A m : Touches(<<e, f>>, m) <=> m \in {e.metric, f.metric}
<1> DEFINE s == <<e, f>>
<1>1. s \in Seq(Entries) /\ Len(s) = 2 /\ s[1] = e /\ s[2] = f
  OBVIOUS
<1> HIDE DEF s
<1>2. \A m : Touches(s, m) <=> m \in {e.metric, f.metric}
  <2>1. 1..2 = {1, 2}
    OBVIOUS
  <2> QED
    BY <1>1, <2>1 DEF Touches
<1>3. \A i \in 1..Len(s) : EntrySound(s[i])
  BY <1>1
<1>4. \A i, j \in 1..Len(s) : i < j => Rank(s[i].metric) < Rank(s[j].metric)
  BY <1>1
<1>5. StepsSound(s)
  BY <1>1, <1>2, <1>3, <1>4 DEF StepsSound
<1> QED
  BY <1>1, <1>2, <1>5 DEF s

\* An observation counts, adds its seconds and then counts each bucket they fit.
LEMMA ObservationIs ==
    ASSUME NEW v \in 1..3
    PROVE  LET s == E!ObserveLatency(v)
           IN  /\ s \in Seq(Entries) /\ Len(s) = 5 - v
               /\ s[1] = E!Adding("count", 1) /\ s[2] = E!Plus("sum", v)
               /\ v = 1 => s[3] = E!Adding("le1", 1) /\ s[4] = E!Adding("le2", 1)
               /\ v = 2 => s[3] = E!Adding("le2", 1)
<1> DEFINE a == <<E!Adding("count", 1), E!Plus("sum", v)>>
           b == E!BucketsFrom(v)
           s == a \o b
<1>1. \A i \in {1, 2} : <<"le1", "le2">>[i] \in {"le1", "le2"}
  BY DEF E!Adding
<1>2. a \in Seq(Entries) /\ Len(a) = 2 /\ a[1] = E!Adding("count", 1) /\ a[2] = E!Plus("sum", v)
  <2>1. E!Adding("count", 1) \in Entries /\ E!Plus("sum", v) \in Entries
    BY MetricIs DEF E!Adding, E!Plus, Entries
  <2> QED
    BY <2>1
<1>3. /\ b \in Seq(Entries) /\ Len(b) = 3 - v
      /\ v = 1 => b[1] = E!Adding("le1", 1) /\ b[2] = E!Adding("le2", 1)
      /\ v = 2 => b[1] = E!Adding("le2", 1)
  <2>1. PICK n \in Nat : n = 3 - v
    OBVIOUS
  <2>2. b = [i \in 1..n |-> E!Adding(<<"le1", "le2">>[v + i - 1], 1)]
    <3>1. Len(<<"le1", "le2">>) + 1 - v = n
      BY <2>1
    <3> QED
      BY <3>1 DEF E!BucketsFrom
  <2>3. \A i \in 1..n : v + i - 1 \in {1, 2}
    BY <2>1
  <2>4. \A i \in 1..n : E!Adding(<<"le1", "le2">>[v + i - 1], 1) \in Entries
    <3>1. E!Adding("le1", 1) \in Entries /\ E!Adding("le2", 1) \in Entries
      BY MetricIs DEF E!Adding, Entries
    <3> QED
      BY <1>1, <2>3, <3>1
  <2> HIDE DEF b
  <2>5. b \in [1..n -> Entries]
    BY <2>2, <2>4
  <2>6. b \in Seq(Entries) /\ Len(b) = n
    BY <2>5
  <2>7. ASSUME v = 1
        PROVE  b[1] = E!Adding("le1", 1) /\ b[2] = E!Adding("le2", 1)
    <3>1. 1 \in 1..n /\ 2 \in 1..n /\ v + 1 - 1 = 1 /\ v + 2 - 1 = 2
      BY <2>1, <2>7
    <3>2. b[1] = E!Adding(<<"le1", "le2">>[v + 1 - 1], 1) /\ b[2] = E!Adding(<<"le1", "le2">>[v + 2 - 1], 1)
      BY <2>2, <3>1
    <3> QED
      BY <3>1, <3>2
  <2>8. ASSUME v = 2
        PROVE  b[1] = E!Adding("le2", 1)
    <3>1. 1 \in 1..n /\ v + 1 - 1 = 2
      BY <2>1, <2>8
    <3>2. b[1] = E!Adding(<<"le1", "le2">>[v + 1 - 1], 1)
      BY <2>2, <3>1
    <3> QED
      BY <3>1, <3>2
  <2> QED
    BY <2>1, <2>6, <2>7, <2>8
<1>4. E!ObserveLatency(v) = s
  BY DEF E!ObserveLatency
<1> HIDE DEF a, b
<1>5. /\ s \in Seq(Entries) /\ Len(s) = Len(a) + Len(b)
      /\ \A i \in 1..Len(a) : s[i] = a[i]
      /\ \A i \in 1..Len(b) : s[Len(a) + i] = b[i]
  BY <1>2, <1>3, Joined
<1> HIDE DEF s
<1>6. Len(s) = 5 - v /\ s[1] = a[1] /\ s[2] = a[2]
  BY <1>2, <1>3, <1>5
<1>7. ASSUME v = 1
      PROVE  s[3] = b[1] /\ s[4] = b[2]
  <2>1. s[2 + 1] = b[1] /\ s[2 + 2] = b[2]
    BY <1>2, <1>3, <1>5, <1>7
  <2>2. 2 + 1 = 3 /\ 2 + 2 = 4
    OBVIOUS
  <2> QED
    BY <2>1, <2>2
<1>8. ASSUME v = 2
      PROVE  s[3] = b[1]
  <2>1. s[2 + 1] = b[1]
    BY <1>2, <1>3, <1>5, <1>8
  <2>2. 2 + 1 = 3
    OBVIOUS
  <2> QED
    BY <2>1, <2>2
<1> QED
  BY <1>2, <1>3, <1>4, <1>5, <1>6, <1>7, <1>8

\* It touches count, sum and the buckets from the first it fits on, in their order.
LEMMA ObservationSound ==
    ASSUME NEW v \in 1..3, NEW s, s = E!ObserveLatency(v)
    PROVE  /\ StepsSound(s) /\ Len(s) \in Nat /\ Len(s) >= 2
           /\ s[2].op = "plus" /\ s[2].metric = "sum" /\ s[2].by = v
           /\ \A i \in 1..Len(s) : i # 2 => s[i].op = "add" /\ s[i].metric # "sum"
           /\ Touches(s, "count") /\ Touches(s, "sum")
           /\ \A m : Touches(s, m) => m \in {"count", "sum", "le1", "le2"}
<1>1. /\ s \in Seq(Entries) /\ Len(s) = 5 - v
      /\ s[1] = E!Adding("count", 1) /\ s[2] = E!Plus("sum", v)
      /\ v = 1 => s[3] = E!Adding("le1", 1) /\ s[4] = E!Adding("le2", 1)
      /\ v = 2 => s[3] = E!Adding("le2", 1)
  BY ObservationIs
<1>2. /\ s[1].metric = "count" /\ s[1].op = "add" /\ s[1].by = 1
      /\ s[2].metric = "sum" /\ s[2].op = "plus" /\ s[2].by = v
      /\ v = 1 => /\ s[3].metric = "le1" /\ s[3].op = "add" /\ s[3].by = 1
                  /\ s[4].metric = "le2" /\ s[4].op = "add" /\ s[4].by = 1
      /\ v = 2 => s[3].metric = "le2" /\ s[3].op = "add" /\ s[3].by = 1
  BY <1>1 DEF E!Adding, E!Plus
<1>3. /\ v = 1 => 1..Len(s) = {1, 2, 3, 4}
      /\ v = 2 => 1..Len(s) = {1, 2, 3}
      /\ v = 3 => 1..Len(s) = {1, 2}
  <2>1. PICK n \in Nat : n = Len(s) /\ n = 5 - v
    BY <1>1
  <2>2. v = 1 => 1..n = {1, 2, 3, 4}
    BY <2>1
  <2>3. v = 2 => 1..n = {1, 2, 3}
    BY <2>1
  <2>4. v = 3 => 1..n = {1, 2}
    BY <2>1
  <2> QED
    BY <2>1, <2>2, <2>3, <2>4
<1>4. \A m : Touches(s, m) <=>
                 m \in IF v = 1 THEN {"count", "sum", "le1", "le2"}
                       ELSE IF v = 2 THEN {"count", "sum", "le2"} ELSE {"count", "sum"}
  BY <1>2, <1>3 DEF Touches
<1>5. \A i \in 1..Len(s) : EntrySound(s[i])
  BY <1>2, <1>3 DEF EntrySound, Rising, Buckets
<1>6. \A i \in 1..Len(s) : Rank(s[i].metric) = IF v = 2 /\ i = 3 THEN 4 ELSE i
  <2>1. Rank("count") = 1 /\ Rank("sum") = 2 /\ Rank("le1") = 3 /\ Rank("le2") = 4
    BY DEF Rank
  <2>2. v = 1 => \A i \in {1, 2, 3, 4} : Rank(s[i].metric) = i
    BY <1>2, <2>1
  <2>3. v = 3 => \A i \in {1, 2} : Rank(s[i].metric) = i
    BY <1>2, <2>1
  <2>4. v = 2 => \A i \in {1, 2, 3} : Rank(s[i].metric) = IF i = 3 THEN 4 ELSE i
    BY <1>2, <2>1
  <2>5. v = 1 \/ v = 2 \/ v = 3
    OBVIOUS
  <2> QED
    BY <1>3, <2>2, <2>3, <2>4, <2>5
<1>7. StepsSound(s)
  <2>1. \A i, j \in 1..Len(s) : i < j => Rank(s[i].metric) < Rank(s[j].metric)
    BY <1>3, <1>6
  <2>2. /\ Touches(s, "le1") => Touches(s, "le2")
        /\ ~Touches(s, "requests_total")
    BY <1>4
  <2> QED
    BY <1>1, <1>5, <2>1, <2>2 DEF StepsSound
<1>8. Len(s) \in Nat /\ Len(s) >= 2
  BY <1>1
<1>9. \A i \in 1..Len(s) : i # 2 => s[i].op = "add" /\ s[i].metric # "sum"
  BY <1>2, <1>3
<1> QED
  BY <1>2, <1>4, <1>7, <1>8, <1>9

\* What is left to do when a call begins.  Only an observation counts a bucket or adds to the sum.
LEMMA StepsOfCalls ==
    ASSUME NEW made \in Call, NEW s, s = E!Steps(made)
    PROVE  /\ StepsSound(s)
           /\ E!Observes(s) <=> made.name = "observe_latency"
           /\ \A b \in Buckets : Touches(s, b) => Touches(s, "count")
           /\ made.name = "observe_latency" =>
                  /\ made.seconds \in 1..3 /\ Len(s) \in Nat /\ Len(s) >= 2
                  /\ s[2].op = "plus" /\ s[2].metric = "sum" /\ s[2].by = made.seconds
                  /\ \A i \in 1..Len(s) : i # 2 => s[i].op = "add" /\ s[i].metric # "sum"
           /\ made.name # "observe_latency" =>
                  \A i \in 1..Len(s) :
                      s[i].op # "plus" /\ s[i].metric \notin {"count", "sum", "le1", "le2"}
<1> DEFINE Plain == /\ StepsSound(s)
                    /\ \A m : Touches(s, m) => m \notin {"count", "sum", "le1", "le2"}
                    /\ \A i \in 1..Len(s) : s[i].op # "plus"
<1>1. made \in [name : {"inc_connections", "dec_connections"}]
                   \cup [name : {"inc_requests"}, success : BOOLEAN]
                   \cup [name : {"observe_latency"}, seconds : 1..(Len(<<"le1", "le2">>) + 1)]
                   \cup [name : {"add_bytes"}, recv : Nat, sent : Nat]
                   \cup [name : {"set_memory"}, used : Nat, free : Nat]
                   \cup [name : {"inc_error"}, type : STRING]
  BY PartsAssumption DEF E!CallAssumption
<1>2. Len(<<"le1", "le2">>) + 1 = 3
  OBVIOUS
<1>3. ASSUME NEW e \in Entries, EntrySound(e), e.op # "plus", s = <<e>>,
             e.metric \notin {"count", "sum", "le1", "le2", "requests_total"}
      PROVE  Plain
  <2>1. s[1] = e /\ Len(s) = 1
    BY <1>3
  <2>2. StepsSound(s) /\ \A m : Touches(s, m) <=> m = e.metric
    BY <1>3, OneStep
  <2>3. \A i \in 1..Len(s) : s[i] = e
    BY <2>1
  <2> QED
    BY <1>3, <2>2, <2>3
<1>4. ASSUME NEW e \in Entries, NEW f \in Entries, EntrySound(e), EntrySound(f),
             s = <<e, f>>, e.op # "plus", f.op # "plus", Rank(e.metric) < Rank(f.metric),
             e.metric \notin {"count", "sum", "le1", "le2"},
             f.metric \notin {"count", "sum", "le1", "le2", "requests_total"},
             e.metric = "requests_total" => f.metric \in {"requests_success", "requests_failed"}
      PROVE  Plain
  <2>1. s[1] = e /\ s[2] = f /\ Len(s) = 2
    BY <1>4
  <2>2. StepsSound(s) /\ \A m : Touches(s, m) <=> m \in {e.metric, f.metric}
    <3>1. StepsSound(<<e, f>>) /\ \A m : Touches(<<e, f>>, m) <=> m \in {e.metric, f.metric}
      BY <1>4, TwoSteps
    <3> QED
      BY <1>4, <3>1
  <2>3. \A i \in 1..Len(s) : s[i] = e \/ s[i] = f
    BY <2>1
  <2> QED
    BY <1>4, <2>2, <2>3
<1>5. made.name = "inc_connections" => Plain
  <2> DEFINE e == E!Adding("connections_total", 1)
             f == E!Adding("connections_active", 1)
  <2> HAVE made.name = "inc_connections"
  <2>1. s = <<e, f>>
    BY DEF E!Steps
  <2>2. e \in Entries /\ f \in Entries /\ EntrySound(e) /\ EntrySound(f)
    BY MetricIs DEF E!Adding, Entries, EntrySound, Rising, Buckets
  <2>3. /\ e.op = "add" /\ e.metric = "connections_total"
        /\ f.op = "add" /\ f.metric = "connections_active" /\ Rank(e.metric) < Rank(f.metric)
    BY DEF E!Adding, Rank
  <2> HIDE DEF e, f, Plain
  <2> QED
    BY <1>4, <2>1, <2>2, <2>3
<1>6. made.name = "dec_connections" => Plain
  <2> DEFINE e == E!Adding("connections_active", -1)
  <2> HAVE made.name = "dec_connections"
  <2>1. s = <<e>>
    BY DEF E!Steps
  <2>2. e \in Entries /\ EntrySound(e) /\ e.op = "add" /\ e.metric = "connections_active"
    BY MetricIs DEF E!Adding, Entries, EntrySound, Rising, Buckets
  <2> HIDE DEF e, Plain
  <2> QED
    BY <1>3, <2>1, <2>2
<1>7. made.name = "inc_requests" => Plain
  <2> DEFINE kind == IF made.success THEN "requests_success" ELSE "requests_failed"
             e == E!Adding("requests_total", 1)
             f == E!Adding(kind, 1)
  <2> HAVE made.name = "inc_requests"
  <2>1. s = <<e, f>>
    BY DEF E!Steps, E!IncRequests
  <2>2. kind \in {"requests_success", "requests_failed"}
    OBVIOUS
  <2> HIDE DEF kind
  <2>3. e \in Entries /\ f \in Entries /\ EntrySound(e) /\ EntrySound(f)
    BY <2>2, MetricIs DEF E!Adding, Entries, EntrySound, Rising, Buckets
  <2>4. /\ e.op = "add" /\ e.metric = "requests_total" /\ f.op = "add" /\ f.metric = kind
        /\ Rank(e.metric) < Rank(f.metric)
    BY <2>2 DEF E!Adding, Rank
  <2> HIDE DEF e, f, Plain
  <2> QED
    BY <1>4, <2>1, <2>2, <2>3, <2>4
<1>8. made.name = "add_bytes" => Plain
  <2> DEFINE e == E!Adding("bytes_received", made.recv)
             f == E!Adding("bytes_sent", made.sent)
  <2> HAVE made.name = "add_bytes"
  <2>1. s = <<e, f>>
    BY DEF E!Steps
  <2>2. made.recv \in Int /\ made.sent \in Int
    BY <1>1
  <2>3. e \in Entries /\ f \in Entries /\ EntrySound(e) /\ EntrySound(f)
    BY <2>2, MetricIs DEF E!Adding, Entries, EntrySound, Rising, Buckets
  <2>4. /\ e.op = "add" /\ e.metric = "bytes_received" /\ f.op = "add" /\ f.metric = "bytes_sent"
        /\ Rank(e.metric) < Rank(f.metric)
    BY DEF E!Adding, Rank
  <2> HIDE DEF e, f, Plain
  <2> QED
    BY <1>4, <2>1, <2>3, <2>4
<1>9. made.name = "set_memory" => Plain
  <2> DEFINE e == E!Setting("memory_pool_used", made.used)
             f == E!Setting("memory_pool_free", made.free)
  <2> HAVE made.name = "set_memory"
  <2>1. s = <<e, f>>
    BY DEF E!Steps
  <2>2. made.used \in Int /\ made.free \in Int
    BY <1>1
  <2>3. e \in Entries /\ f \in Entries /\ EntrySound(e) /\ EntrySound(f)
    BY <2>2, MetricIs DEF E!Setting, Entries, EntrySound, Rising, Buckets
  <2>4. /\ e.op = "set" /\ e.metric = "memory_pool_used"
        /\ f.op = "set" /\ f.metric = "memory_pool_free" /\ Rank(e.metric) < Rank(f.metric)
    BY DEF E!Setting, Rank
  <2> HIDE DEF e, f, Plain
  <2> QED
    BY <1>4, <2>1, <2>3, <2>4
<1>10. made.name = "inc_error" => Plain
  <2> HAVE made.name = "inc_error"
  <2>1. s = E!IncError(made.type)
    BY DEF E!Steps
  <2>2. CASE made.type \in {"parse_errors", "crc_errors", "timeout_errors"}
    <3> DEFINE e == E!Adding(made.type, 1)
    <3>1. s = <<e>>
      BY <2>1, <2>2 DEF E!IncError
    <3>2. e \in Entries /\ EntrySound(e) /\ e.op = "add" /\ e.metric = made.type
      BY <2>2, MetricIs DEF E!Adding, Entries, EntrySound, Rising, Buckets
    <3> HIDE DEF e, Plain
    <3> QED
      BY <1>3, <2>2, <3>1, <3>2
  <2>3. CASE made.type \notin {"parse_errors", "crc_errors", "timeout_errors"}
    <3>1. s = <<>>
      BY <2>1, <2>3 DEF E!IncError
    <3>2. Len(<<>>) = 0
      OBVIOUS
    <3> QED
      BY <3>1, <3>2, NoSteps
  <2> QED
    BY <2>2, <2>3
<1>11. made.name # "observe_latency" => Plain
  <2>1. made.name \in {"inc_connections", "dec_connections", "inc_requests", "observe_latency",
                       "add_bytes", "set_memory", "inc_error"}
    BY <1>1
  <2> HIDE DEF Plain
  <2> QED
    BY <1>5, <1>6, <1>7, <1>8, <1>9, <1>10, <2>1
<1>12. E!Observes(s) <=> \E i \in DOMAIN s : s[i].metric \in {"count", "sum", "le1", "le2"}
  BY MetricIs DEF E!Observes
<1>13. StepsSound(s) => DOMAIN s = 1..Len(s)
  BY DEF StepsSound
<1>14. CASE made.name # "observe_latency"
  <2>1. \A m : Touches(s, m) => m \notin {"count", "sum", "le1", "le2"}
    BY <1>11, <1>14
  <2>2. \A i \in 1..Len(s) : s[i].metric \notin {"count", "sum", "le1", "le2"}
    BY <2>1 DEF Touches
  <2> QED
    BY <1>11, <1>12, <1>13, <1>14, <2>1, <2>2 DEF Buckets
<1>15. CASE made.name = "observe_latency"
  <2>1. made.seconds \in 1..3
    BY <1>1, <1>2, <1>15
  <2>2. s = E!ObserveLatency(made.seconds)
    BY <1>15 DEF E!Steps
  <2>3. PICK v \in 1..3 : v = made.seconds
    BY <2>1
  <2>4. /\ StepsSound(s) /\ Len(s) \in Nat /\ Len(s) >= 2
        /\ s[2].op = "plus" /\ s[2].metric = "sum" /\ s[2].by = v
        /\ \A i \in 1..Len(s) : i # 2 => s[i].op = "add" /\ s[i].metric # "sum"
        /\ Touches(s, "count")
    BY <2>2, <2>3, ObservationSound
  <2>5. E!Observes(s)
    <3>1. PICK i \in 1..Len(s) : s[i].metric = "count"
      BY <2>4 DEF Touches
    <3> QED
      BY <1>12, <1>13, <2>4, <3>1
  <2> QED
    BY <1>15, <2>1, <2>3, <2>4, <2>5
<1> QED
  BY <1>14, <1>15

-----------------------------------------------------------------------------
(* How a statement changes what is left to do *)

\* One more, one less.
LEMMA SizeStep ==
    ASSUME NEW S, IsFiniteSet(S), NEW t
    PROVE  /\ Cardinality(S) \in Nat
           /\ t \in S => Cardinality(S \ {t}) = Cardinality(S) - 1
           /\ t \notin S => Cardinality(S \cup {t}) = Cardinality(S) + 1
           /\ \A Q : Q \subseteq S \cup {t} =>
                  Cardinality(Q) \in Nat /\ Cardinality(Q) <= Cardinality(S) + 1
           /\ \A Q : Q \subseteq S =>
                  /\ IsFiniteSet(Q) /\ Cardinality(Q) \in Nat
                  /\ Cardinality(Q) <= Cardinality(S)
<1>1. Cardinality(S) \in Nat
  BY FS_CardinalityType
<1>2. IsFiniteSet(S \cup {t}) /\ Cardinality(S \cup {t}) \in Nat
  BY FS_AddElement, FS_CardinalityType
<1>3. Cardinality(S \cup {t}) <= Cardinality(S) + 1
  <2>1. Cardinality(S \cup {t}) = IF t \in S THEN Cardinality(S) ELSE Cardinality(S) + 1
    BY FS_AddElement
  <2> QED
    BY <1>1, <2>1
<1>4. ASSUME NEW Q, Q \subseteq S \cup {t}
      PROVE  Cardinality(Q) \in Nat /\ Cardinality(Q) <= Cardinality(S) + 1
  <2>1. IsFiniteSet(Q) /\ Cardinality(Q) <= Cardinality(S \cup {t})
    BY <1>2, <1>4, FS_Subset
  <2>2. Cardinality(Q) \in Nat
    BY <2>1, FS_CardinalityType
  <2> QED
    BY <1>1, <1>2, <1>3, <2>1, <2>2
<1>5. ASSUME NEW Q, Q \subseteq S
      PROVE  /\ IsFiniteSet(Q) /\ Cardinality(Q) \in Nat
             /\ Cardinality(Q) <= Cardinality(S)
  <2>1. IsFiniteSet(Q) /\ Cardinality(Q) <= Cardinality(S)
    BY <1>5, FS_Subset
  <2> QED
    BY <2>1, FS_CardinalityType
<1>6. t \in S => Cardinality(S \ {t}) = Cardinality(S) - 1
  BY FS_RemoveElement
<1>7. t \notin S => Cardinality(S \cup {t}) = Cardinality(S) + 1
  BY FS_AddElement
<1> QED
  BY <1>1, <1>4, <1>5, <1>6, <1>7

\* The sets of the exporter's state are finite.
LEMMA CallersFinite ==
    /\ IsFiniteSet(Caller) /\ Cardinality(Caller) \in Nat /\ MaxEvents \in Nat
    /\ \A S : S \subseteq Caller =>
           IsFiniteSet(S) /\ Cardinality(S) \in Nat /\ Cardinality(S) <= Cardinality(Caller)
    /\ \A S : S \subseteq Caller \X (1..3) => IsFiniteSet(S) /\ Cardinality(S) \in Nat
    /\ \A t : \A v \in 1..3 : Cardinality({t} \X (1..v)) = v /\ IsFiniteSet({t} \X (1..v))
<1>1. IsFiniteSet(Caller) /\ MaxEvents \in Nat
  BY PartsAssumption, SameOperatorsToo DEF E!BoundsAssumption
<1>2. ASSUME NEW v \in 1..3
      PROVE  IsFiniteSet(1..v) /\ Cardinality(1..v) = v
  <2>1. 1 \in Int /\ v \in Int
    OBVIOUS
  <2>2. IsFiniteSet(1..v) /\ Cardinality(1..v) = IF 1 > v THEN 0 ELSE v - 1 + 1
    BY <2>1, FS_Interval
  <2>3. (IF 1 > v THEN 0 ELSE v - 1 + 1) = v
    OBVIOUS
  <2> QED
    BY <2>2, <2>3
<1>3. IsFiniteSet(Caller \X (1..3))
  <2>1. 3 \in 1..3
    OBVIOUS
  <2> QED
    BY <1>1, <1>2, <2>1, FS_Product
<1>4. ASSUME NEW t, NEW v \in 1..3
      PROVE  Cardinality({t} \X (1..v)) = v /\ IsFiniteSet({t} \X (1..v))
  <2>1. IsFiniteSet({t}) /\ Cardinality({t}) = 1
    BY FS_Singleton
  <2>2. IsFiniteSet({t} \X (1..v)) /\ Cardinality({t} \X (1..v)) = Cardinality({t}) * Cardinality(1..v)
    BY <1>2, <2>1, FS_Product
  <2>3. 1 * v = v
    OBVIOUS
  <2> QED
    BY <1>2, <2>1, <2>2, <2>3
<1>5. Cardinality(Caller) \in Nat
  BY <1>1, FS_CardinalityType
<1>6. ASSUME NEW S, S \subseteq Caller
      PROVE  IsFiniteSet(S) /\ Cardinality(S) \in Nat /\ Cardinality(S) <= Cardinality(Caller)
  <2>1. IsFiniteSet(S) /\ Cardinality(S) <= Cardinality(Caller)
    BY <1>1, <1>6, FS_Subset
  <2> QED
    BY <2>1, FS_CardinalityType
<1>7. ASSUME NEW S, S \subseteq Caller \X (1..3)
      PROVE  IsFiniteSet(S) /\ Cardinality(S) \in Nat
  <2>1. IsFiniteSet(S)
    BY <1>3, <1>7, FS_Subset
  <2> QED
    BY <2>1, FS_CardinalityType
<1> QED
  BY <1>1, <1>4, <1>5, <1>6, <1>7

\* A caller has other things to do than before.
LEMMA TodoChanges ==
    ASSUME CallsSound, NEW t \in Caller, NEW s, StepsSound(s), todo' = [todo EXCEPT ![t] = s]
    PROVE  /\ CallsSound'
           /\ todo'[t] = s /\ \A u \in Caller \ {t} : todo'[u] = todo[u]
           /\ \A m : Pending(m)' = (Pending(m) \ {t}) \cup (IF Touches(s, m) THEN {t} ELSE {})
           /\ Due' = {d \in Due : d[1] # t} \cup {d \in {t} \X (1..3) : Owes(s, d[2])}
<1>1. todo \in [Caller -> Seq(Entries)] /\ \A u \in Caller : StepsSound(todo[u])
  BY DEF CallsSound
<1>2. s \in Seq(Entries)
  BY DEF StepsSound
<1>3. todo'[t] = s /\ \A u \in Caller \ {t} : todo'[u] = todo[u]
  BY <1>1
<1>4. todo' \in [Caller -> Seq(Entries)] /\ \A u \in Caller : StepsSound(todo'[u])
  BY <1>1, <1>2, <1>3
<1>5. CallsSound'
  BY <1>4 DEF CallsSound, StepsSound, Touches
<1>6. ASSUME NEW m
      PROVE  Pending(m)' = (Pending(m) \ {t}) \cup (IF Touches(s, m) THEN {t} ELSE {})
  <2>1. Pending(m)' = {u \in Caller : Touches(todo'[u], m)}
    BY DEF Pending, Touches
  <2> QED
    BY <1>3, <2>1 DEF Pending
<1>7. Due' = {d \in Due : d[1] # t} \cup {d \in {t} \X (1..3) : Owes(s, d[2])}
  <2>1. Due' = {d \in Caller \X (1..3) : Owes(todo'[d[1]], d[2])}
    BY DEF Due, Owes
  <2>2. \A d \in Caller \X (1..3) :
            Owes(todo'[d[1]], d[2]) <=> IF d[1] = t THEN Owes(s, d[2]) ELSE Owes(todo[d[1]], d[2])
    BY <1>3
  <2> QED
    BY <2>1, <2>2 DEF Due
<1> QED
  BY <1>3, <1>5, <1>6, <1>7

\* A caller is done with its next statement.
LEMMA HeadDone ==
    ASSUME CallsSound, NEW t \in Caller, todo[t] # <<>>, todo' = [todo EXCEPT ![t] = Tail(@)]
    PROVE  LET e == todo[t][1]
           IN  /\ CallsSound' /\ Head(todo[t]) = e /\ e \in Entries /\ EntrySound(e)
               /\ t \in Pending(e.metric)
               /\ \A x : Pending(x)' = IF x = e.metric THEN Pending(x) \ {t} ELSE Pending(x)
               /\ \A x : Rank(x) < Rank(e.metric) => t \notin Pending(x)
               /\ e.metric = "le1" => t \in Pending("le2")
               /\ e.metric = "requests_total" =>
                      t \in Pending("requests_success") \cup Pending("requests_failed")
               /\ e.op # "plus" => Due' = Due
               /\ \A u \in Caller : \A i \in 1..Len(todo'[u]) :
                      \E j \in 1..Len(todo[u]) : todo'[u][i] = todo[u][j]
               /\ 1 \in 1..Len(todo[t])
<1> DEFINE s == todo[t]
           e == s[1]
           r == Tail(s)
<1>1. todo \in [Caller -> Seq(Entries)] /\ StepsSound(s) /\ s # <<>>
  BY DEF CallsSound
<1> HIDE DEF s
<1>2. /\ StepsSound(r) /\ Len(s) \in Nat \ {0} /\ Len(r) = Len(s) - 1
      /\ Head(s) = e /\ e \in Entries /\ EntrySound(e)
      /\ \A i \in 1..Len(r) : r[i] = s[i + 1]
      /\ \A m : Touches(r, m) <=> Touches(s, m) /\ m # e.metric
      /\ \A m : Rank(m) < Rank(e.metric) => ~Touches(s, m)
  BY <1>1, StepsDone
<1>3. todo' = [todo EXCEPT ![t] = r]
  BY DEF s
<1> HIDE DEF r
<1>4. /\ CallsSound'
      /\ todo'[t] = r /\ \A u \in Caller \ {t} : todo'[u] = todo[u]
      /\ \A m : Pending(m)' = (Pending(m) \ {t}) \cup (IF Touches(r, m) THEN {t} ELSE {})
      /\ Due' = {d \in Due : d[1] # t} \cup {d \in {t} \X (1..3) : Owes(r, d[2])}
  BY <1>2, <1>3, TodoChanges
<1>5. \A x : t \in Pending(x) <=> Touches(s, x)
  BY DEF Pending, s
<1>6. Touches(s, e.metric)
  <2>1. 1 \in 1..Len(s)
    BY <1>2
  <2> QED
    BY <2>1 DEF Touches
<1>7. \A x : Pending(x)' = IF x = e.metric THEN Pending(x) \ {t} ELSE Pending(x)
  <2> TAKE x
  <2>1. Pending(x)' = (Pending(x) \ {t}) \cup (IF Touches(r, x) THEN {t} ELSE {})
    BY <1>4
  <2>2. Touches(r, x) <=> t \in Pending(x) /\ x # e.metric
    BY <1>2, <1>5
  <2> QED
    BY <2>1, <2>2
<1>8. e.metric = "le1" => t \in Pending("le2")
  BY <1>1, <1>5, <1>6 DEF StepsSound
<1>9. e.metric = "requests_total" => t \in Pending("requests_success") \cup Pending("requests_failed")
  BY <1>1, <1>5, <1>6 DEF StepsSound
<1>10. ASSUME e.op # "plus"
       PROVE  Due' = Due
  <2>1. \A k : Owes(r, k) <=> Owes(s, k)
    <3> TAKE k
    <3>1. ASSUME Owes(r, k)
          PROVE  Owes(s, k)
      <4>1. PICK i \in 1..Len(r) : r[i].op = "plus" /\ k <= r[i].by
        BY <3>1 DEF Owes
      <4>2. i + 1 \in 1..Len(s) /\ r[i] = s[i + 1]
        BY <1>2
      <4> QED
        BY <4>1, <4>2 DEF Owes
    <3>2. ASSUME Owes(s, k)
          PROVE  Owes(r, k)
      <4>1. PICK i \in 1..Len(s) : s[i].op = "plus" /\ k <= s[i].by
        BY <3>2 DEF Owes
      <4>2. i # 1
        BY <1>10, <4>1
      <4>3. i - 1 \in 1..Len(r) /\ (i - 1) + 1 = i
        BY <1>2, <4>2
      <4>4. r[i - 1] = s[i]
        BY <1>2, <4>3
      <4> QED
        BY <4>1, <4>3, <4>4 DEF Owes
    <3> QED
      BY <3>1, <3>2
  <2>2. Due = {d \in Due : d[1] # t} \cup {d \in {t} \X (1..3) : Owes(s, d[2])}
    <3>1. \A d \in Caller \X (1..3) : d[1] = t => (d \in Due <=> Owes(s, d[2]))
      BY DEF Due, s
    <3>2. {t} \X (1..3) \subseteq Caller \X (1..3)
      OBVIOUS
    <3>3. \A d \in Caller \X (1..3) : d[1] = t => d \in {t} \X (1..3)
      OBVIOUS
    <3>4. Due \subseteq Caller \X (1..3) /\ \A d \in {t} \X (1..3) : d[1] = t
      BY DEF Due
    <3> QED
      BY <3>1, <3>2, <3>3, <3>4
  <2> QED
    BY <1>4, <2>1, <2>2
<1>11. \A u \in Caller : \A i \in 1..Len(todo'[u]) :
           \E j \in 1..Len(todo[u]) : todo'[u][i] = todo[u][j]
  <2> TAKE u \in Caller
  <2>1. CASE u # t
    BY <1>4, <2>1
  <2>2. CASE u = t
    <3> SUFFICES ASSUME NEW i \in 1..Len(r)
                 PROVE  \E j \in 1..Len(s) : r[i] = s[j]
      BY <1>4, <2>2 DEF s
    <3>1. i + 1 \in 1..Len(s) /\ r[i] = s[i + 1]
      BY <1>2
    <3> QED
      BY <3>1
  <2> QED
    BY <2>1, <2>2
<1>12. 1 \in 1..Len(s)
  BY <1>2
<1> QED
  BY <1>2, <1>4, <1>5, <1>6, <1>7, <1>8, <1>9, <1>10, <1>11, <1>12 DEF s

\* The counters stay in order when a caller adds to one of them, or to another metric.
LEMMA CountersStep ==
    ASSUME CallsSound, CountersOrdered, value \in [E!Metric -> Int],
           NEW t \in Caller, todo[t] # <<>>, todo' = [todo EXCEPT ![t] = Tail(@)],
           NEW e, e = todo[t][1],
           \A x \in Rising : value'[x] = IF x = e.metric THEN value[x] + 1 ELSE value[x]
    PROVE  CountersOrdered'
<1> DEFINE P(x) == Pending(x)
           Q(x) == Pending(x)'
<1>1. /\ t \in P(e.metric)
      /\ \A x : Q(x) = IF x = e.metric THEN P(x) \ {t} ELSE P(x)
      /\ \A x : Rank(x) < Rank(e.metric) => t \notin P(x)
      /\ e.metric = "le1" => t \in P("le2")
      /\ e.metric = "requests_total" => t \in P("requests_success") \cup P("requests_failed")
  BY HeadDone
<1>2. /\ \A b \in Buckets : value[b] + Cardinality(P(b) \ P("count")) <= value["count"]
      /\ value["le1"] <= value["le2"] + Cardinality(P("le2") \ P("le1"))
      /\ value["requests_total"] <=
             value["requests_success"] + value["requests_failed"]
             + Cardinality((P("requests_success") \cup P("requests_failed")) \ P("requests_total"))
  BY DEF CountersOrdered
<1>3. \A x \in Rising : value[x] \in Int
  BY MetricIs DEF Rising, Buckets
<1>4. \A x : P(x) \subseteq Caller
  BY DEF Pending
<1> HIDE DEF P, Q
<1>5. \A x, y : /\ IsFiniteSet(P(x) \ P(y)) /\ Cardinality(P(x) \ P(y)) \in Nat
                /\ IsFiniteSet(Q(x) \ Q(y)) /\ Cardinality(Q(x) \ Q(y)) \in Nat
  <2> TAKE x, y
  <2>1. P(x) \ P(y) \subseteq Caller /\ Q(x) \ Q(y) \subseteq Caller
    BY <1>1, <1>4
  <2> QED
    BY <2>1, CallersFinite
<1>6. ASSUME NEW b \in Buckets
      PROVE  value'[b] + Cardinality(Q(b) \ Q("count")) <= value'["count"]
  <2>1. /\ value'[b] = IF b = e.metric THEN value[b] + 1 ELSE value[b]
        /\ value'["count"] = IF "count" = e.metric THEN value["count"] + 1 ELSE value["count"]
        /\ value[b] \in Int /\ value["count"] \in Int /\ b # "count"
    BY <1>3 DEF Rising, Buckets
  <2>2. /\ Cardinality(P(b) \ P("count")) \in Nat /\ Cardinality(Q(b) \ Q("count")) \in Nat
        /\ value[b] + Cardinality(P(b) \ P("count")) <= value["count"]
    BY <1>2, <1>5
  <2>3. CASE e.metric = b
    <3>1. t \in P(b) /\ t \notin P("count")
      <4>1. Rank("count") < Rank(b)
        BY DEF Rank, Buckets
      <4> QED
        BY <1>1, <2>3, <4>1
    <3>2. Q(b) \ Q("count") = (P(b) \ P("count")) \ {t}
      BY <1>1, <2>1, <2>3
    <3>3. Cardinality(Q(b) \ Q("count")) = Cardinality(P(b) \ P("count")) - 1
      BY <1>5, <3>1, <3>2, SizeStep
    <3> QED
      BY <2>1, <2>3, <2>2, <3>3
  <2>4. CASE e.metric = "count"
    <3>1. Q(b) \ Q("count") \subseteq (P(b) \ P("count")) \cup {t}
      BY <1>1, <2>1, <2>4
    <3>2. Cardinality(Q(b) \ Q("count")) <= Cardinality(P(b) \ P("count")) + 1
      BY <1>5, <3>1, SizeStep
    <3> QED
      BY <2>1, <2>4, <2>2, <3>2
  <2>5. CASE e.metric # b /\ e.metric # "count"
    <3>1. Q(b) \ Q("count") = P(b) \ P("count")
      BY <1>1, <2>5
    <3> QED
      BY <1>2, <2>1, <2>5, <3>1
  <2> QED
    BY <2>3, <2>4, <2>5
<1>7. value'["le1"] <= value'["le2"] + Cardinality(Q("le2") \ Q("le1"))
  <2>1. /\ value'["le1"] = IF "le1" = e.metric THEN value["le1"] + 1 ELSE value["le1"]
        /\ value'["le2"] = IF "le2" = e.metric THEN value["le2"] + 1 ELSE value["le2"]
        /\ value["le1"] \in Int /\ value["le2"] \in Int
    BY <1>3 DEF Rising, Buckets
  <2>2. IsFiniteSet(P("le2") \ P("le1")) /\ IsFiniteSet(Q("le2") \ Q("le1"))
    BY <1>5
  <2>3. /\ Cardinality(P("le2") \ P("le1")) \in Nat /\ Cardinality(Q("le2") \ Q("le1")) \in Nat
        /\ value["le1"] <= value["le2"] + Cardinality(P("le2") \ P("le1"))
    BY <1>2, <1>5
  <2>4. CASE e.metric = "le1"
    <3>1. t \notin P("le2") \ P("le1")
      BY <1>1, <2>4
    <3>2. Q("le2") \ Q("le1") = (P("le2") \ P("le1")) \cup {t}
      BY <1>1, <2>4
    <3>3. Cardinality(Q("le2") \ Q("le1")) = Cardinality(P("le2") \ P("le1")) + 1
      <4> DEFINE p == P("le2") \ P("le1")
                 q == Q("le2") \ Q("le1")
      <4>1. IsFiniteSet(p) /\ t \notin p /\ q = p \cup {t}
        BY <2>2, <3>1, <3>2
      <4> HIDE DEF p, q
      <4>2. Cardinality(q) = Cardinality(p) + 1
        BY <4>1, SizeStep
      <4> QED
        BY <4>2 DEF p, q
    <3> QED
      BY <2>1, <2>4, <2>3, <3>3
  <2>5. CASE e.metric = "le2"
    <3>1. P("le2") \ P("le1") \subseteq (Q("le2") \ Q("le1")) \cup {t}
      BY <1>1, <2>5
    <3>2. Cardinality(P("le2") \ P("le1")) <= Cardinality(Q("le2") \ Q("le1")) + 1
      BY <2>2, <3>1, SizeStep
    <3> QED
      BY <2>1, <2>5, <2>3, <3>2
  <2>6. CASE e.metric \notin {"le1", "le2"}
    <3>1. Q("le2") \ Q("le1") = P("le2") \ P("le1")
      BY <1>1, <2>6
    <3> QED
      BY <1>2, <2>1, <2>6, <3>1
  <2> QED
    BY <2>4, <2>5, <2>6
<1>8. value'["requests_total"] <=
          value'["requests_success"] + value'["requests_failed"]
          + Cardinality((Q("requests_success") \cup Q("requests_failed")) \ Q("requests_total"))
  <2> DEFINE p == (P("requests_success") \cup P("requests_failed")) \ P("requests_total")
             q == (Q("requests_success") \cup Q("requests_failed")) \ Q("requests_total")
  <2>1. /\ \A x \in {"requests_total", "requests_success", "requests_failed"} :
               /\ value'[x] = IF x = e.metric THEN value[x] + 1 ELSE value[x]
               /\ value[x] \in Int
    BY <1>3 DEF Rising, Buckets
  <2>2. p \subseteq Caller /\ q \subseteq Caller
    BY <1>1, <1>4
  <2>3. /\ IsFiniteSet(p) /\ Cardinality(p) \in Nat
        /\ IsFiniteSet(q) /\ Cardinality(q) \in Nat
    <3> HIDE DEF p, q
    <3> QED
      BY <2>2, CallersFinite
  <2>4. value["requests_total"] <=
            value["requests_success"] + value["requests_failed"] + Cardinality(p)
    BY <1>2
  <2>5. CASE e.metric = "requests_total"
    <3>1. t \notin p /\ q = p \cup {t}
      BY <1>1, <2>5
    <3> HIDE DEF p, q
    <3>2. Cardinality(q) = Cardinality(p) + 1
      BY <2>3, <3>1, SizeStep
    <3> QED
      BY <2>1, <2>3, <2>4, <2>5, <3>2 DEF q
  <2>6. CASE e.metric \in {"requests_success", "requests_failed"}
    <3>1. p \subseteq q \cup {t}
      BY <1>1, <2>6
    <3> HIDE DEF p, q
    <3>2. Cardinality(p) <= Cardinality(q) + 1
      BY <2>3, <3>1, SizeStep
    <3>3. /\ value'["requests_total"] = value["requests_total"]
          /\ value'["requests_success"] + value'["requests_failed"] =
                 value["requests_success"] + value["requests_failed"] + 1
          /\ value["requests_success"] + value["requests_failed"] \in Int
          /\ value["requests_total"] \in Int
      BY <2>1, <2>6
    <3> QED
      BY <2>3, <2>4, <3>2, <3>3 DEF q
  <2>7. CASE e.metric \notin {"requests_total", "requests_success", "requests_failed"}
    <3>1. q = p
      BY <1>1, <2>7
    <3> HIDE DEF p, q
    <3> QED
      BY <2>1, <2>4, <2>7, <3>1 DEF q
  <2> QED
    BY <2>5, <2>6, <2>7
<1> QED
  BY <1>6, <1>7, <1>8 DEF CountersOrdered, Q

\* They stay in order when nothing happens to them.
LEMMA CountersUntouched ==
    ASSUME CountersOrdered,
           \A x \in Rising : value'[x] = value[x] /\ Pending(x)' = Pending(x)
    PROVE  CountersOrdered'
<1>1. \A b \in Buckets : b \in Rising
  BY DEF Rising
<1>2. /\ "count" \in Rising /\ "le1" \in Rising /\ "le2" \in Rising
      /\ "requests_total" \in Rising /\ "requests_success" \in Rising
      /\ "requests_failed" \in Rising
  BY DEF Rising, Buckets
<1>3. \A b \in Buckets : value'[b] + Cardinality(Pending(b)' \ Pending("count")') <= value'["count"]
  BY <1>1, <1>2 DEF CountersOrdered
<1>4. value'["le1"] <= value'["le2"] + Cardinality(Pending("le2")' \ Pending("le1")')
  BY <1>2 DEF CountersOrdered
<1>5. value'["requests_total"] <=
          value'["requests_success"] + value'["requests_failed"]
          + Cardinality((Pending("requests_success")' \cup Pending("requests_failed")')
                        \ Pending("requests_total")')
  BY <1>2 DEF CountersOrdered
<1> QED
  BY <1>3, <1>4, <1>5 DEF CountersOrdered

\* A page read so far stays coherent while what it compares rises.
LEMMA PageKept ==
    ASSUME PageCoherent, page' = page,
           \A x \in Rising : value[x] \in Int /\ value'[x] \in Int /\ value[x] <= value'[x]
    PROVE  PageCoherent'
<1>1. PICK n \in Nat : n = Len(page)
  BY DEF PageCoherent
<1>2. \A i \in 1..n : page[i] \in Int
  BY <1>1, ElementOfSeq DEF PageCoherent
<1>3. Cardinality(Caller) \in Nat
  BY CallersFinite
<1>4. ASSUME NEW i \in 1..20, NEW x \in Rising
      PROVE  /\ Seen(i, x) \in Int /\ Seen(i, x)' \in Int
             /\ Seen(i, x) <= Seen(i, x)'
  <2>1. Seen(i, x) = IF i <= n THEN page[i] ELSE value[x]
    BY <1>1 DEF Seen
  <2>2. Seen(i, x)' = IF i <= n THEN page[i] ELSE value'[x]
    BY <1>1 DEF Seen
  <2>3. i <= n => i \in 1..n
    OBVIOUS
  <2> QED
    BY <1>2, <2>1, <2>2, <2>3
<1>5. /\ page \in Seq(Int) /\ n <= 20
      /\ n >= 4 => page[4] <= Seen(5, "requests_success") + Seen(6, "requests_failed")
                              + Cardinality(Caller)
      /\ n >= 7 => page[7] <= Seen(8, "le2") + Cardinality(Caller)
      /\ n >= 7 => page[7] <= Seen(9, "count")
      /\ n >= 8 => page[8] <= Seen(9, "count")
      /\ n >= 9 => page[9] <= Seen(11, "count")
  BY <1>1 DEF PageCoherent
<1>6. /\ n >= 4 => page[4] \in Int
      /\ n >= 7 => page[7] \in Int
      /\ n >= 8 => page[8] \in Int
      /\ n >= 9 => page[9] \in Int
  BY <1>2
<1>7. "requests_success" \in Rising /\ "requests_failed" \in Rising /\ "le2" \in Rising
      /\ "count" \in Rising
  BY DEF Rising, Buckets
<1>8. n >= 4 => page[4] <= Seen(5, "requests_success")' + Seen(6, "requests_failed")'
                           + Cardinality(Caller)
  <2>1. /\ Seen(5, "requests_success") \in Int /\ Seen(5, "requests_success")' \in Int
        /\ Seen(5, "requests_success") <= Seen(5, "requests_success")'
        /\ Seen(6, "requests_failed") \in Int /\ Seen(6, "requests_failed")' \in Int
        /\ Seen(6, "requests_failed") <= Seen(6, "requests_failed")'
    BY <1>4, <1>7
  <2> QED
    BY <1>3, <1>5, <1>6, <2>1
<1>9. /\ n >= 7 => page[7] <= Seen(8, "le2")' + Cardinality(Caller)
      /\ n >= 7 => page[7] <= Seen(9, "count")'
      /\ n >= 8 => page[8] <= Seen(9, "count")'
      /\ n >= 9 => page[9] <= Seen(11, "count")'
  <2>1. /\ Seen(8, "le2") \in Int /\ Seen(8, "le2")' \in Int
        /\ Seen(8, "le2") <= Seen(8, "le2")'
        /\ Seen(9, "count") \in Int /\ Seen(9, "count")' \in Int
        /\ Seen(9, "count") <= Seen(9, "count")'
        /\ Seen(11, "count") \in Int /\ Seen(11, "count")' \in Int
        /\ Seen(11, "count") <= Seen(11, "count")'
    BY <1>4, <1>7
  <2>2. n >= 7 => page[7] <= Seen(8, "le2")' + Cardinality(Caller)
    <3>1. n >= 7 => page[7] \in Int /\ page[7] <= Seen(8, "le2") + Cardinality(Caller)
      BY <1>5, <1>6
    <3>2. /\ Seen(8, "le2") \in Int /\ Seen(8, "le2")' \in Int
          /\ Seen(8, "le2") <= Seen(8, "le2")'
      BY <2>1
    <3> QED
      BY <1>3, <3>1, <3>2
  <2>3. n >= 7 => page[7] <= Seen(9, "count")'
    BY <1>5, <1>6, <2>1
  <2>4. n >= 8 => page[8] <= Seen(9, "count")'
    BY <1>5, <1>6, <2>1
  <2>5. n >= 9 => page[9] <= Seen(11, "count")'
    BY <1>5, <1>6, <2>1
  <2> QED
    BY <2>2, <2>3, <2>4, <2>5
<1> QED
  BY <1>1, <1>5, <1>8, <1>9 DEF PageCoherent

\* A statement that is not on the sum leaves it as it was.
LEMMA SumKept ==
    ASSUME SumWithin, SumExact, value'["sum"] = value["sum"], Due' = Due,
           observed' = observed, overlapped' = overlapped, Pending("sum")' = Pending("sum"),
           \A u \in Caller : \A i \in 1..Len(todo'[u]) :
               \E j \in 1..Len(todo[u]) : todo'[u][i] = todo[u][j]
    PROVE  SumWithin' /\ SumExact'
<1>1. SumWithin'
  <2>1. value'["sum"] + Cardinality(Due') <= observed'
    BY DEF SumWithin
  <2>2. ASSUME NEW u \in Caller, NEW i \in 1..Len(todo'[u]),
               todo'[u][i].metric = "sum", todo'[u][i].op = "set"
        PROVE  todo'[u][i].by + Cardinality(Due') <= observed'
    <3>1. PICK j \in 1..Len(todo[u]) : todo'[u][i] = todo[u][j]
      OBVIOUS
    <3> QED
      BY <2>2, <3>1 DEF SumWithin
  <2> QED
    BY <2>1, <2>2 DEF SumWithin
<1>2. SumExact'
  <2> SUFFICES ASSUME ~overlapped
               PROVE  /\ \A t, u \in Caller : Observing(t)' /\ Observing(u)' => t = u
                      /\ Pending("sum")' = {} => value'["sum"] = observed'
                      /\ \A t \in Caller : \A i \in 1..Len(todo'[t]) :
                             /\ todo'[t][i].op = "plus" => value'["sum"] + todo'[t][i].by = observed'
                             /\ todo'[t][i].metric = "sum" /\ todo'[t][i].op = "set" =>
                                    todo'[t][i].by = observed'
    BY DEF SumExact
  <2>1. /\ \A t, u \in Caller : Observing(t) /\ Observing(u) => t = u
        /\ Pending("sum") = {} => value["sum"] = observed
        /\ \A t \in Caller : \A i \in 1..Len(todo[t]) :
               /\ todo[t][i].op = "plus" => value["sum"] + todo[t][i].by = observed
               /\ todo[t][i].metric = "sum" /\ todo[t][i].op = "set" => todo[t][i].by = observed
    BY DEF SumExact
  <2>2. \A u \in Caller : Observing(u)' => Observing(u)
    BY DEF Observing
  <2>3. ASSUME NEW t \in Caller, NEW i \in 1..Len(todo'[t])
        PROVE  /\ todo'[t][i].op = "plus" => value'["sum"] + todo'[t][i].by = observed'
               /\ todo'[t][i].metric = "sum" /\ todo'[t][i].op = "set" =>
                      todo'[t][i].by = observed'
    <3>1. PICK j \in 1..Len(todo[t]) : todo'[t][i] = todo[t][j]
      OBVIOUS
    <3> QED
      BY <2>1, <3>1
  <2> QED
    BY <2>1, <2>2, <2>3
<1> QED
  BY <1>1, <1>2

\* What the calls leave alone.
LEMMA SystemKept ==
    ASSUME ProcSound, ServerSound, UNCHANGED <<E!system, E!http, events>>,
           value'["cpu_usage"] = value["cpu_usage"]
    PROVE  ProcSound' /\ ServerSound'
BY DEF ProcSound, ServerSound, E!system, E!http

\* Another statement on the same metric in the place of the next one.
LEMMA HeadReplaced ==
    ASSUME NEW s, StepsSound(s), s # <<>>, NEW e \in Entries, EntrySound(e),
           e.metric = s[1].metric, NEW r, r = <<e>> \o Tail(s)
    PROVE  /\ StepsSound(r) /\ Len(r) = Len(s) /\ r[1] = e
           /\ \A i \in 1..Len(s) : i # 1 => r[i] = s[i]
           /\ \A m : Touches(r, m) <=> Touches(s, m)
<1>1. PICK n \in Nat \ {0} : n = Len(s)
  BY StepsDone
<1>2. Tail(s) \in Seq(Entries) /\ Len(Tail(s)) = n - 1 /\ \A i \in 1..(n - 1) : Tail(s)[i] = s[i + 1]
  BY <1>1, StepsDone DEF StepsSound
<1>3. <<e>> \in Seq(Entries) /\ Len(<<e>>) = 1 /\ <<e>>[1] = e
  OBVIOUS
<1> DEFINE a == <<e>>
           b == Tail(s)
<1> HIDE DEF a, b
<1>4. a \in Seq(Entries) /\ b \in Seq(Entries) /\ r = a \o b
  BY <1>2, <1>3 DEF a, b
<1>5. /\ a \o b \in Seq(Entries) /\ Len(a \o b) = Len(a) + Len(b)
      /\ \A i \in 1..Len(a) : (a \o b)[i] = a[i]
      /\ \A i \in 1..Len(b) : (a \o b)[Len(a) + i] = b[i]
  BY <1>4, Joined
<1>6. Len(a) = 1 /\ a[1] = e /\ Len(b) = n - 1 /\ \A i \in 1..(n - 1) : b[i] = s[i + 1]
  BY <1>2, <1>3 DEF a, b
<1>7. r \in Seq(Entries) /\ Len(r) = n /\ r[1] = e
  <2>1. Len(r) = 1 + (n - 1) /\ 1 + (n - 1) = n
    BY <1>1, <1>4, <1>5, <1>6
  <2>2. 1 \in 1..Len(a)
    BY <1>6
  <2>3. r[1] = a[1]
    BY <1>4, <1>5, <2>2
  <2> QED
    BY <1>4, <1>5, <1>6, <2>1, <2>3
<1>8. ASSUME NEW i \in 1..n, i # 1
      PROVE  r[i] = s[i]
  <2>1. PICK k \in 1..(n - 1) : i = 1 + k /\ i = k + 1
    <3>1. i - 1 \in 1..(n - 1) /\ i = 1 + (i - 1) /\ i = (i - 1) + 1
      BY <1>1, <1>8
    <3> QED
      BY <3>1
  <2>2. (a \o b)[1 + k] = b[k] /\ b[k] = s[k + 1]
    BY <1>5, <1>6, <2>1
  <2> QED
    BY <1>4, <2>1, <2>2
<1>9. \A i \in 1..n : r[i].metric = s[i].metric /\ EntrySound(r[i])
  BY <1>1, <1>7, <1>8 DEF StepsSound
<1>10. \A m : Touches(r, m) <=> Touches(s, m)
  BY <1>1, <1>7, <1>9 DEF Touches
<1>11. StepsSound(r)
  <2>1. \A i, j \in 1..n : i < j => Rank(r[i].metric) < Rank(r[j].metric)
    BY <1>1, <1>9 DEF StepsSound
  <2>2. /\ Touches(r, "le1") => Touches(r, "le2")
        /\ Touches(r, "requests_total") =>
               Touches(r, "requests_success") \/ Touches(r, "requests_failed")
    BY <1>10 DEF StepsSound
  <2> QED
    BY <1>7, <1>9, <2>1, <2>2 DEF StepsSound
<1> QED
  BY <1>1, <1>7, <1>8, <1>10, <1>11

\* metrics_inc_*, metrics_add_bytes and the counting of metrics_observe_latency.
LEMMA ExporterAtomicAdd ==
    ASSUME ExporterInv, NEW t \in Caller, E!AtomicAdd(t)
    PROVE  ExporterInv'
<1> DEFINE e == todo[t][1]
<1>1. /\ value \in [E!Metric -> Int] /\ observed \in Nat /\ overlapped \in BOOLEAN
      /\ CallsSound /\ CountersOrdered /\ SumWithin /\ SumExact
      /\ PageCoherent /\ ProcSound /\ ServerSound
  BY DEF ExporterInv
<1>2. /\ todo[t] # <<>> /\ Head(todo[t]).op = "add"
      /\ value' = [value EXCEPT ![Head(todo[t]).metric] = @ + Head(todo[t]).by]
      /\ todo' = [todo EXCEPT ![t] = Tail(@)]
      /\ UNCHANGED <<observed, overlapped, E!system, E!http, events>>
  BY DEF E!AtomicAdd
<1>3. /\ CallsSound' /\ Head(todo[t]) = e /\ e \in Entries /\ EntrySound(e)
      /\ \A x : Pending(x)' = IF x = e.metric THEN Pending(x) \ {t} ELSE Pending(x)
      /\ e.op # "plus" => Due' = Due
      /\ \A u \in Caller : \A i \in 1..Len(todo'[u]) :
             \E j \in 1..Len(todo[u]) : todo'[u][i] = todo[u][j]
  BY <1>1, <1>2, HeadDone
<1> HIDE DEF e
<1>4. e.op = "add" /\ e.metric \in E!Metric /\ e.by \in Int
  BY <1>2, <1>3 DEF Entries
<1>5. /\ e.metric \notin {"cpu_usage", "memory_usage", "sum"}
      /\ e.metric \in Rising => e.by = 1
  BY <1>3, <1>4 DEF EntrySound
<1>6. /\ value' \in [E!Metric -> Int]
      /\ \A x \in E!Metric : value'[x] = IF x = e.metric THEN value[x] + e.by ELSE value[x]
  BY <1>1, <1>2, <1>3, <1>4
<1>7. Rising \subseteq E!Metric /\ "sum" \in E!Metric /\ "cpu_usage" \in E!Metric
  BY MetricIs DEF Rising, Buckets
<1>8. \A x \in Rising : /\ value'[x] = IF x = e.metric THEN value[x] + 1 ELSE value[x]
                        /\ value[x] \in Int /\ value'[x] \in Int /\ value[x] <= value'[x]
  BY <1>1, <1>5, <1>6, <1>7
<1>9. CountersOrdered'
  <2>1. e = todo[t][1]
    BY DEF e
  <2>2. \A x \in Rising : value'[x] = IF x = e.metric THEN value[x] + 1 ELSE value[x]
    BY <1>8
  <2>3. /\ CallsSound /\ CountersOrdered /\ value \in [E!Metric -> Int]
        /\ todo[t] # <<>> /\ todo' = [todo EXCEPT ![t] = Tail(@)]
    BY <1>1, <1>2
  <2> QED
    BY <2>1, <2>2, <2>3, CountersStep
<1>10. SumWithin' /\ SumExact'
  <2>1. value'["sum"] = value["sum"]
    BY <1>5, <1>6, <1>7
  <2>2. Due' = Due /\ observed' = observed /\ overlapped' = overlapped
    BY <1>2, <1>3, <1>4
  <2>3. Pending("sum")' = Pending("sum")
    BY <1>3, <1>5
  <2> QED
    BY <1>1, <1>3, <2>1, <2>2, <2>3, SumKept
<1>11. PageCoherent'
  <2>1. page' = page
    BY <1>2 DEF E!http
  <2> QED
    BY <1>1, <1>8, <2>1, PageKept
<1>12. ProcSound' /\ ServerSound'
  <2>1. value'["cpu_usage"] = value["cpu_usage"]
    BY <1>5, <1>6, <1>7
  <2> QED
    BY <1>1, <1>2, <2>1, SystemKept
<1> QED
  BY <1>1, <1>2, <1>3, <1>6, <1>9, <1>10, <1>11, <1>12 DEF ExporterInv

\* The second half of a plain addition, and metrics_set_memory.
LEMMA ExporterStore ==
    ASSUME ExporterInv, NEW t \in Caller, E!Store(t)
    PROVE  ExporterInv'
<1> DEFINE e == todo[t][1]
<1>1. /\ value \in [E!Metric -> Int] /\ observed \in Nat /\ overlapped \in BOOLEAN
      /\ CallsSound /\ CountersOrdered /\ SumWithin /\ SumExact
      /\ PageCoherent /\ ProcSound /\ ServerSound
  BY DEF ExporterInv
<1>2. /\ todo[t] # <<>> /\ Head(todo[t]).op = "set"
      /\ value' = [value EXCEPT ![Head(todo[t]).metric] = Head(todo[t]).by]
      /\ todo' = [todo EXCEPT ![t] = Tail(@)]
      /\ UNCHANGED <<observed, overlapped, E!system, E!http, events>>
  BY DEF E!Store
<1>3. /\ CallsSound' /\ Head(todo[t]) = e /\ e \in Entries /\ EntrySound(e)
      /\ t \in Pending(e.metric)
      /\ \A x : Pending(x)' = IF x = e.metric THEN Pending(x) \ {t} ELSE Pending(x)
      /\ e.op # "plus" => Due' = Due
      /\ \A u \in Caller : \A i \in 1..Len(todo'[u]) :
             \E j \in 1..Len(todo[u]) : todo'[u][i] = todo[u][j]
      /\ 1 \in 1..Len(todo[t])
  BY <1>1, <1>2, HeadDone
<1>4. e.op = "set" /\ e.metric \in E!Metric /\ e.by \in Int
  BY <1>2, <1>3 DEF Entries, e
<1>5. e.metric \notin {"cpu_usage", "memory_usage"} /\ e.metric \notin Rising
  BY <1>3, <1>4 DEF EntrySound, e
<1>6. /\ value' \in [E!Metric -> Int]
      /\ \A x \in E!Metric : value'[x] = IF x = e.metric THEN e.by ELSE value[x]
  BY <1>1, <1>2, <1>3, <1>4 DEF e
<1> HIDE DEF e
<1>7. Rising \subseteq E!Metric /\ "sum" \in E!Metric /\ "cpu_usage" \in E!Metric
  BY MetricIs DEF Rising, Buckets
<1>8. \A x \in Rising : /\ value'[x] = value[x] /\ Pending(x)' = Pending(x)
                        /\ value[x] \in Int /\ value'[x] \in Int /\ value[x] <= value'[x]
  BY <1>1, <1>3, <1>5, <1>6, <1>7
<1>9. CountersOrdered'
  <2>1. \A x \in Rising : value'[x] = value[x] /\ Pending(x)' = Pending(x)
    BY <1>8
  <2> QED
    BY <1>1, <2>1, CountersUntouched
<1>10. Due' = Due /\ observed' = observed /\ overlapped' = overlapped
  BY <1>2, <1>3, <1>4
<1>11. SumWithin' /\ SumExact'
  <2>1. CASE e.metric # "sum"
    <3>1. value'["sum"] = value["sum"]
      BY <1>6, <1>7, <2>1
    <3>2. Pending("sum")' = Pending("sum")
      BY <1>3, <2>1
    <3> QED
      BY <1>1, <1>3, <1>10, <3>1, <3>2, SumKept
  <2>2. CASE e.metric = "sum"
    <3>1. value'["sum"] = e.by
      BY <1>6, <1>7, <2>2
    <3>2. e.by + Cardinality(Due) <= observed
      BY <1>1, <1>3, <1>4, <2>2 DEF SumWithin, e
    <3>3. ASSUME NEW u \in Caller, NEW i \in 1..Len(todo'[u]),
                 todo'[u][i].metric = "sum", todo'[u][i].op = "set"
          PROVE  todo'[u][i].by + Cardinality(Due') <= observed'
      <4>1. PICK j \in 1..Len(todo[u]) : todo'[u][i] = todo[u][j]
        BY <1>3
      <4> QED
        BY <1>1, <1>10, <3>3, <4>1 DEF SumWithin
    <3>4. SumWithin'
      BY <1>10, <3>1, <3>2, <3>3 DEF SumWithin
    <3>5. SumExact'
      <4> SUFFICES ASSUME ~overlapped
                   PROVE  /\ \A v, u \in Caller : Observing(v)' /\ Observing(u)' => v = u
                          /\ Pending("sum")' = {} => value'["sum"] = observed'
                          /\ \A u \in Caller : \A i \in 1..Len(todo'[u]) :
                                 /\ todo'[u][i].op = "plus" =>
                                        value'["sum"] + todo'[u][i].by = observed'
                                 /\ todo'[u][i].metric = "sum" /\ todo'[u][i].op = "set" =>
                                        todo'[u][i].by = observed'
        BY <1>10 DEF SumExact
      <4>1. /\ \A v, u \in Caller : Observing(v) /\ Observing(u) => v = u
            /\ \A u \in Caller : \A i \in 1..Len(todo[u]) :
                   todo[u][i].metric = "sum" /\ todo[u][i].op = "set" => todo[u][i].by = observed
        BY <1>1 DEF SumExact
      <4>2. \A u \in Caller : Observing(u)' => Observing(u)
        <5> SUFFICES ASSUME NEW u \in Caller, NEW i \in 1..Len(todo'[u]),
                            todo'[u][i].metric \in {"count", "sum"} \cup Buckets
                     PROVE  Observing(u)
          BY DEF Observing
        <5>1. PICK j \in 1..Len(todo[u]) : todo'[u][i] = todo[u][j]
          BY <1>3
        <5> QED
          BY <5>1 DEF Observing
      <4>3. e.by = observed
        BY <1>3, <1>4, <2>2, <4>1 DEF e
      <4>4. ASSUME NEW u \in Caller, NEW i \in 1..Len(todo'[u])
            PROVE  todo'[u][i].metric # "sum" /\ todo'[u][i].op # "plus"
        <5>1. u \notin Pending("sum")'
          <6>1. u \in Pending("sum") => u = t
            <7>1. Observing(t)
              BY <1>3, <2>2 DEF Observing, e
            <7>2. u \in Pending("sum") => Observing(u)
              BY DEF Pending, Touches, Observing
            <7> QED
              BY <4>1, <7>1, <7>2
          <6> QED
            BY <1>3, <2>2, <6>1
        <5>2. todo'[u][i].metric # "sum"
          BY <5>1 DEF Pending, Touches
        <5>3. EntrySound(todo'[u][i])
          BY <1>3 DEF CallsSound, StepsSound
        <5> QED
          BY <5>2, <5>3 DEF EntrySound
      <4> QED
        BY <1>10, <3>1, <4>1, <4>2, <4>3, <4>4
    <3> QED
      BY <3>4, <3>5
  <2> QED
    BY <2>1, <2>2
<1>12. PageCoherent'
  <2>1. page' = page
    BY <1>2 DEF E!http
  <2> QED
    BY <1>1, <1>8, <2>1, PageKept
<1>13. ProcSound' /\ ServerSound'
  <2>1. value'["cpu_usage"] = value["cpu_usage"]
    BY <1>5, <1>6, <1>7
  <2> QED
    BY <1>1, <1>2, <2>1, SystemKept
<1> QED
  BY <1>1, <1>3, <1>6, <1>9, <1>10, <1>11, <1>12, <1>13 DEF ExporterInv

\* The first half of sum += seconds.
LEMMA ExporterLoad ==
    ASSUME ExporterInv, NEW t \in Caller, E!Load(t)
    PROVE  ExporterInv'
<1> DEFINE s == todo[t]
           e == s[1]
           f == E!Setting("sum", value["sum"] + e.by)
           r == <<f>> \o Tail(s)
<1>1. /\ value \in [E!Metric -> Int] /\ observed \in Nat /\ overlapped \in BOOLEAN
      /\ CallsSound /\ CountersOrdered /\ SumWithin /\ SumExact
      /\ PageCoherent /\ ProcSound /\ ServerSound
  BY DEF ExporterInv
<1>2. /\ s # <<>> /\ Head(s).op = "plus"
      /\ UNCHANGED <<value, observed, overlapped, E!system, E!http, events>>
  BY DEF E!Load
<1>3. StepsSound(s) /\ todo \in [Caller -> Seq(Entries)]
  BY <1>1 DEF CallsSound
<1>4. todo' = [todo EXCEPT ![t] = <<E!Setting(Head(s).metric, value[Head(s).metric] + Head(s).by)>> \o Tail(s)]
  BY <1>3 DEF E!Load
<1> HIDE DEF s
<1>5. /\ Head(s) = e /\ e \in Entries /\ EntrySound(e) /\ Len(s) \in Nat \ {0}
      /\ \A i \in 1..Len(s) : EntrySound(s[i])
      /\ \A i \in 1..Len(s) : i # 1 => Rank(e.metric) < Rank(s[i].metric)
  <2>1. Head(s) = e /\ e \in Entries /\ EntrySound(e) /\ Len(s) \in Nat \ {0}
    BY <1>2, <1>3, StepsDone
  <2>2. /\ \A i \in 1..Len(s) : EntrySound(s[i])
        /\ \A i, j \in 1..Len(s) : i < j => Rank(s[i].metric) < Rank(s[j].metric)
    BY <1>3 DEF StepsSound
  <2>3. \A i \in 1..Len(s) : i # 1 => 1 \in 1..Len(s) /\ 1 < i
    BY <2>1
  <2> QED
    BY <2>1, <2>2, <2>3
<1>6. e.op = "plus" /\ e.metric = "sum" /\ e.by \in 1..3
  BY <1>2, <1>5 DEF EntrySound
<1>7. value["sum"] \in Int
  BY <1>1, MetricIs
<1> HIDE DEF e
<1>8. /\ f \in Entries /\ EntrySound(f) /\ f.metric = "sum" /\ f.op = "set"
      /\ f.by = value["sum"] + e.by
  BY <1>6, <1>7, MetricIs DEF E!Setting, Entries, EntrySound, Rising, Buckets
<1>9. todo' = [todo EXCEPT ![t] = r]
  BY <1>4, <1>5, <1>6
<1> HIDE DEF f
<1>10. /\ StepsSound(r) /\ Len(r) = Len(s) /\ r[1] = f
       /\ \A i \in 1..Len(s) : i # 1 => r[i] = s[i]
       /\ \A m : Touches(r, m) <=> Touches(s, m)
  BY <1>2, <1>3, <1>6, <1>8, HeadReplaced DEF e
<1> HIDE DEF r
<1>11. /\ CallsSound'
       /\ todo'[t] = r /\ \A u \in Caller \ {t} : todo'[u] = todo[u]
       /\ \A m : Pending(m)' = (Pending(m) \ {t}) \cup (IF Touches(r, m) THEN {t} ELSE {})
       /\ Due' = {d \in Due : d[1] # t} \cup {d \in {t} \X (1..3) : Owes(r, d[2])}
  BY <1>1, <1>9, <1>10, TodoChanges
<1>12. \A i \in 1..Len(s) : i # 1 => s[i].metric # "sum" /\ s[i].op # "plus"
  <2> SUFFICES ASSUME NEW i \in 1..Len(s), i # 1
               PROVE  s[i].metric # "sum" /\ s[i].op # "plus"
    OBVIOUS
  <2>1. Rank("sum") < Rank(s[i].metric) /\ ~(Rank("sum") < Rank("sum"))
    BY <1>5, <1>6 DEF Rank
  <2>2. s[i].metric # "sum"
    BY <2>1
  <2> QED
    BY <1>5, <2>2 DEF EntrySound
<1>13. \A m : Pending(m)' = Pending(m)
  <2> TAKE m
  <2>1. t \in Pending(m) <=> Touches(s, m)
    BY DEF Pending, s
  <2> QED
    BY <1>10, <1>11, <2>1
<1>14. CountersOrdered'
  <2>1. \A x \in Rising : value'[x] = value[x] /\ Pending(x)' = Pending(x)
    BY <1>2, <1>13
  <2> QED
    BY <1>1, <2>1, CountersUntouched
<1>15. Due' = {d \in Due : d[1] # t}
  <2>1. \A k : ~Owes(r, k)
    <3> SUFFICES ASSUME NEW i \in 1..Len(s)
                 PROVE  r[i].op # "plus"
      BY <1>10 DEF Owes
    <3> QED
      BY <1>8, <1>10, <1>12
  <2> QED
    BY <1>11, <2>1
<1>16. Cardinality(Due') \in Nat /\ Cardinality(Due) = Cardinality(Due') + e.by
  <2> DEFINE D == Due
             M == {d \in Due : d[1] # t}
             N == {t} \X (1..e.by)
  <2>1. \A k \in 1..3 : Owes(s, k) <=> k <= e.by
    <3>1. 1 \in 1..Len(s) /\ s[1].op = "plus" /\ s[1].by = e.by
      BY <1>5, <1>6 DEF e
    <3> QED
      BY <1>12, <3>1 DEF Owes
  <2>2. \A d \in Caller \X (1..3) : d[1] = t => (d \in D <=> d[2] <= e.by)
    BY <2>1 DEF Due, s
  <2>3. D \subseteq Caller \X (1..3)
    BY DEF Due
  <2> HIDE DEF D
  <2>4. D = {d \in D : d[1] # t} \cup N
    <3>1. N \subseteq Caller \X (1..3)
      BY <1>6
    <3>2. \A d \in N : d[1] = t /\ d[2] <= e.by
      BY <1>6
    <3>3. \A d \in Caller \X (1..3) : d[1] = t /\ d[2] <= e.by => d \in N
      BY <1>6
    <3> QED
      BY <2>2, <2>3, <3>1, <3>2, <3>3
  <2>5. M \subseteq Caller \X (1..3) /\ M \cap N = {} /\ D = M \cup N
    BY <2>3, <2>4 DEF D
  <2> HIDE DEF M, N
  <2>6. IsFiniteSet(M) /\ Cardinality(M) \in Nat
    BY <2>5, CallersFinite
  <2>7. IsFiniteSet(N) /\ Cardinality(N) = e.by
    BY <1>6, CallersFinite DEF N
  <2>8. Cardinality(M \cup N) = Cardinality(M) + Cardinality(N) - Cardinality(M \cap N)
    BY <2>6, <2>7, FS_Union
  <2>9. Cardinality(M \cap N) = 0
    BY <2>5, FS_EmptySet
  <2>10. Cardinality(D) = Cardinality(M) + e.by
    BY <1>6, <2>5, <2>6, <2>7, <2>8, <2>9
  <2> QED
    BY <1>15, <2>6, <2>10 DEF D, M
<1>17. \A u \in Caller : \A i \in 1..Len(todo'[u]) :
           \/ i \in 1..Len(todo[u]) /\ todo'[u][i] = todo[u][i]
           \/ u = t /\ i = 1 /\ todo'[u][i] = f
  BY <1>10, <1>11 DEF s
<1>18. SumWithin'
  <2>1. value["sum"] + Cardinality(Due) <= observed
    BY <1>1 DEF SumWithin
  <2>2. ASSUME NEW u \in Caller, NEW i \in 1..Len(todo'[u]),
               todo'[u][i].metric = "sum", todo'[u][i].op = "set"
        PROVE  todo'[u][i].by + Cardinality(Due') <= observed
    <3>1. CASE todo'[u][i] = f
      BY <1>1, <1>6, <1>7, <1>8, <1>16, <2>1, <3>1
    <3>2. CASE i \in 1..Len(todo[u]) /\ todo'[u][i] = todo[u][i]
      <4>1. todo[u][i].by + Cardinality(Due) <= observed
        BY <1>1, <2>2, <3>2 DEF SumWithin
      <4>2. todo[u][i].by \in Int
        <5>1. todo[u] \in Seq(Entries)
          BY <1>3
        <5>2. todo[u][i] \in Entries
          BY <3>2, <5>1, ElementOfSeq
        <5> QED
          BY <5>2 DEF Entries
      <4>3. todo[u][i].by + Cardinality(Due') <= observed
        BY <1>1, <1>6, <1>16, <4>1, <4>2
      <4> QED
        BY <3>2, <4>3
    <3> QED
      BY <1>17, <3>1, <3>2
  <2>3. value["sum"] + Cardinality(Due') <= observed
    BY <1>1, <1>6, <1>7, <1>16, <2>1
  <2> QED
    BY <1>2, <2>2, <2>3 DEF SumWithin
<1>19. SumExact'
  <2> SUFFICES ASSUME ~overlapped
               PROVE  /\ \A v, u \in Caller : Observing(v)' /\ Observing(u)' => v = u
                      /\ Pending("sum")' = {} => value["sum"] = observed
                      /\ \A u \in Caller : \A i \in 1..Len(todo'[u]) :
                             /\ todo'[u][i].op = "plus" => value["sum"] + todo'[u][i].by = observed
                             /\ todo'[u][i].metric = "sum" /\ todo'[u][i].op = "set" =>
                                    todo'[u][i].by = observed
    BY <1>2 DEF SumExact
  <2>1. /\ \A v, u \in Caller : Observing(v) /\ Observing(u) => v = u
        /\ Pending("sum") = {} => value["sum"] = observed
        /\ \A u \in Caller : \A i \in 1..Len(todo[u]) :
               /\ todo[u][i].op = "plus" => value["sum"] + todo[u][i].by = observed
               /\ todo[u][i].metric = "sum" /\ todo[u][i].op = "set" => todo[u][i].by = observed
    BY <1>1 DEF SumExact
  <2>2. \A u \in Caller : Observing(u) <=> \E m \in {"count", "sum"} \cup Buckets : u \in Pending(m)
    BY DEF Observing, Pending, Touches
  <2>3. \A u \in Caller : Observing(u)' <=> \E m \in {"count", "sum"} \cup Buckets : u \in Pending(m)'
    BY DEF Observing, Pending, Touches
  <2>4. f.by = observed
    <3>1. 1 \in 1..Len(todo[t]) /\ todo[t][1].op = "plus" /\ todo[t][1].by = e.by
      BY <1>5, <1>6 DEF s, e
    <3> QED
      BY <1>8, <2>1, <3>1
  <2>5. ASSUME NEW u \in Caller, NEW i \in 1..Len(todo'[u])
        PROVE  /\ todo'[u][i].op = "plus" => value["sum"] + todo'[u][i].by = observed
               /\ todo'[u][i].metric = "sum" /\ todo'[u][i].op = "set" => todo'[u][i].by = observed
    BY <1>8, <1>17, <2>1, <2>4
  <2> QED
    BY <1>13, <2>1, <2>2, <2>3, <2>5
<1>20. PageCoherent'
  <2>1. \A x \in Rising : value[x] \in Int /\ value'[x] \in Int /\ value[x] <= value'[x]
    <3>1. \A x \in Rising : value[x] \in Int /\ value'[x] = value[x]
      BY <1>1, <1>2, MetricIs DEF Rising, Buckets
    <3> QED
      BY <3>1
  <2>2. page' = page
    BY <1>2 DEF E!http
  <2> QED
    BY <1>1, <2>1, <2>2, PageKept
<1>21. ProcSound' /\ ServerSound'
  BY <1>1, <1>2, SystemKept
<1> QED
  BY <1>1, <1>2, <1>11, <1>14, <1>18, <1>19, <1>20, <1>21 DEF ExporterInv

\* A call begins.
LEMMA ExporterBegin ==
    ASSUME ExporterInv, NEW t \in Caller, NEW made \in Call, E!Begin(t, made)
    PROVE  ExporterInv'
<1> DEFINE s == E!Steps(made)
           Observation == made.name = "observe_latency"
           v == IF Observation THEN made.seconds ELSE 0
           O4 == {"count", "sum", "le1", "le2"}
<1>1. /\ value \in [E!Metric -> Int] /\ observed \in Nat /\ overlapped \in BOOLEAN
      /\ CallsSound /\ CountersOrdered /\ SumWithin /\ SumExact
      /\ PageCoherent /\ ProcSound /\ ServerSound
  BY DEF ExporterInv
<1>2. /\ todo[t] = <<>> /\ events < MaxEvents /\ events' = events + 1
      /\ todo' = [todo EXCEPT ![t] = s]
      /\ observed' = observed + v
      /\ overlapped' = (overlapped \/ (E!Observes(s) /\ \E u \in Caller : E!Observes(todo[u])))
      /\ UNCHANGED <<value, E!system, E!http>>
  BY DEF E!Begin, E!Happens
<1>3. /\ StepsSound(s)
      /\ E!Observes(s) <=> Observation
      /\ \A b \in Buckets : Touches(s, b) => Touches(s, "count")
      /\ Observation =>
             /\ made.seconds \in 1..3 /\ Len(s) \in Nat /\ Len(s) >= 2
             /\ s[2].op = "plus" /\ s[2].metric = "sum" /\ s[2].by = made.seconds
             /\ \A i \in 1..Len(s) : i # 2 => s[i].op = "add" /\ s[i].metric # "sum"
      /\ ~Observation => \A i \in 1..Len(s) : s[i].op # "plus" /\ s[i].metric \notin O4
  BY StepsOfCalls
<1> HIDE DEF s, Observation
<1>4. /\ CallsSound'
      /\ todo'[t] = s /\ \A u \in Caller \ {t} : todo'[u] = todo[u]
      /\ \A m : Pending(m)' = (Pending(m) \ {t}) \cup (IF Touches(s, m) THEN {t} ELSE {})
      /\ Due' = {d \in Due : d[1] # t} \cup {d \in {t} \X (1..3) : Owes(s, d[2])}
  BY <1>1, <1>2, <1>3, TodoChanges
<1>5. 1..Len(todo[t]) = {}
  BY <1>2
<1>6. \A m : t \notin Pending(m)
  BY <1>5 DEF Pending, Touches
<1>7. \A m : Pending(m)' = Pending(m) \cup (IF Touches(s, m) THEN {t} ELSE {})
  BY <1>4, <1>6
<1>8. \A d \in Due : d[1] # t
  BY <1>5 DEF Due, Owes
<1>9. v \in 0..3
  BY <1>3
<1>10. \A x \in Rising : value[x] \in Int
  BY <1>1, MetricIs DEF Rising, Buckets
<1>11. CountersOrdered'
  <2>1. ASSUME NEW b \in Buckets
        PROVE  value'[b] + Cardinality(Pending(b)' \ Pending("count")') <= value'["count"]
    <3>1. Pending(b)' \ Pending("count")' = Pending(b) \ Pending("count")
      BY <1>3, <1>6, <1>7
    <3> QED
      BY <1>1, <1>2, <3>1 DEF CountersOrdered
  <2>2. value'["le1"] <= value'["le2"] + Cardinality(Pending("le2")' \ Pending("le1")')
    <3> DEFINE p == Pending("le2") \ Pending("le1")
               q == Pending("le2")' \ Pending("le1")'
    <3>1. p \subseteq q
      BY <1>6, <1>7
    <3>2. q \subseteq Caller /\ p \subseteq Caller
      BY DEF Pending
    <3>3. value["le1"] <= value["le2"] + Cardinality(p)
      BY <1>1 DEF CountersOrdered
    <3> HIDE DEF p, q
    <3>4. IsFiniteSet(q) /\ Cardinality(q) \in Nat /\ Cardinality(p) \in Nat
      BY <3>2, CallersFinite
    <3>5. Cardinality(p) <= Cardinality(q)
      BY <3>1, <3>4, FS_Subset
    <3>6. value["le1"] \in Int /\ value["le2"] \in Int
      BY <1>10 DEF Rising, Buckets
    <3>7. value["le1"] <= value["le2"] + Cardinality(q)
      BY <3>3, <3>4, <3>5, <3>6
    <3> QED
      BY <1>2, <3>7 DEF q
  <2>3. value'["requests_total"] <=
            value'["requests_success"] + value'["requests_failed"]
            + Cardinality((Pending("requests_success")' \cup Pending("requests_failed")')
                          \ Pending("requests_total")')
    <3> DEFINE p == (Pending("requests_success") \cup Pending("requests_failed"))
                    \ Pending("requests_total")
               q == (Pending("requests_success")' \cup Pending("requests_failed")')
                    \ Pending("requests_total")'
    <3>1. p \subseteq q
      BY <1>6, <1>7
    <3>2. q \subseteq Caller /\ p \subseteq Caller
      BY DEF Pending
    <3>3. value["requests_total"] <=
              value["requests_success"] + value["requests_failed"] + Cardinality(p)
      BY <1>1 DEF CountersOrdered
    <3> HIDE DEF p, q
    <3>4. IsFiniteSet(q) /\ Cardinality(q) \in Nat /\ Cardinality(p) \in Nat
      BY <3>2, CallersFinite
    <3>5. Cardinality(p) <= Cardinality(q)
      BY <3>1, <3>4, FS_Subset
    <3>6. value["requests_total"] \in Int /\ value["requests_success"] \in Int
          /\ value["requests_failed"] \in Int
      BY <1>10 DEF Rising
    <3>7. value["requests_total"] <=
              value["requests_success"] + value["requests_failed"] + Cardinality(q)
      BY <3>3, <3>4, <3>5, <3>6
    <3> QED
      BY <1>2, <3>7 DEF q
  <2> QED
    BY <2>1, <2>2, <2>3 DEF CountersOrdered
<1>12. Cardinality(Due') \in Nat /\ Cardinality(Due) \in Nat
       /\ Cardinality(Due') = Cardinality(Due) + v
  <2> DEFINE D == Due
             N == {d \in {t} \X (1..3) : Owes(s, d[2])}
  <2>1. D \subseteq Caller \X (1..3) /\ \A d \in D : d[1] # t
    BY <1>8 DEF Due
  <2> HIDE DEF D, N
  <2>2. Due' = D \cup N
    BY <1>4, <2>1 DEF D, N
  <2>3. IsFiniteSet(D) /\ Cardinality(D) \in Nat
    BY <2>1, CallersFinite
  <2>4. CASE ~Observation
    <3>1. \A k : ~Owes(s, k)
      BY <1>3, <2>4 DEF Owes
    <3>2. Due' = D
      BY <2>2, <3>1 DEF N
    <3> QED
      BY <2>3, <2>4, <3>2 DEF D
  <2>5. CASE Observation
    <3>1. v \in 1..3 /\ 2 \in 1..Len(s) /\ s[2].op = "plus" /\ s[2].by = v
      BY <1>3, <2>5
    <3> HIDE DEF v
    <3>2. \A k \in 1..3 : Owes(s, k) <=> k <= v
      BY <1>3, <2>5, <3>1 DEF Owes
    <3>3. N = {t} \X (1..v)
      <4>1. \A d \in {t} \X (1..3) : d \in N <=> d[2] <= v
        BY <3>2 DEF N
      <4>2. \A d \in {t} \X (1..3) : d \in {t} \X (1..v) <=> d[2] <= v
        BY <3>1
      <4>3. N \subseteq {t} \X (1..3) /\ {t} \X (1..v) \subseteq {t} \X (1..3)
        BY <3>1 DEF N
      <4> HIDE DEF N
      <4> QED
        BY <4>1, <4>2, <4>3
    <3>4. IsFiniteSet(N) /\ Cardinality(N) = v
      BY <3>1, <3>3, CallersFinite
    <3>5. D \cap N = {}
      BY <2>1 DEF N
    <3>6. Cardinality(D \cup N) = Cardinality(D) + Cardinality(N) - Cardinality(D \cap N)
      BY <2>3, <3>4, FS_Union
    <3>7. Cardinality(D \cap N) = 0
      BY <3>5, FS_EmptySet
    <3> QED
      BY <2>2, <2>3, <3>1, <3>4, <3>6, <3>7 DEF D
  <2> QED
    BY <2>4, <2>5
<1>13. ASSUME NEW u \in Caller, NEW i \in 1..Len(todo'[u])
       PROVE  \/ u # t /\ i \in 1..Len(todo[u]) /\ todo'[u][i] = todo[u][i]
              \/ u = t /\ i \in 1..Len(s) /\ todo'[u][i] = s[i]
  BY <1>4
<1>14. \A i \in 1..Len(s) : ~(s[i].metric = "sum" /\ s[i].op = "set")
  BY <1>3
<1>15. SumWithin'
  <2>1. value["sum"] \in Int /\ value["sum"] + Cardinality(Due) <= observed
    BY <1>1, MetricIs DEF SumWithin
  <2>2. ASSUME NEW u \in Caller, NEW i \in 1..Len(todo'[u]),
               todo'[u][i].metric = "sum", todo'[u][i].op = "set"
        PROVE  todo'[u][i].by + Cardinality(Due') <= observed'
    <3>1. i \in 1..Len(todo[u]) /\ todo'[u][i] = todo[u][i]
      BY <1>13, <1>14, <2>2
    <3>2. todo[u][i].by + Cardinality(Due) <= observed
      BY <1>1, <2>2, <3>1 DEF SumWithin
    <3>3. todo[u][i].by \in Int
      <4>1. todo[u] \in Seq(Entries)
        BY <1>1 DEF CallsSound
      <4>2. todo[u][i] \in Entries
        BY <3>1, <4>1, ElementOfSeq
      <4> QED
        BY <4>2 DEF Entries
    <3> HIDE DEF v
    <3> QED
      BY <1>1, <1>2, <1>9, <1>12, <3>1, <3>2, <3>3
  <2> HIDE DEF v
  <2>3. value["sum"] + Cardinality(Due') <= observed'
    BY <1>1, <1>2, <1>9, <1>12, <2>1
  <2> QED
    BY <1>2, <2>2, <2>3 DEF SumWithin
<1>16. \A u \in Caller : Observing(u) <=> \E m \in O4 : u \in Pending(m)
  BY DEF Observing, Pending, Touches, Buckets
<1>17. \A u \in Caller : Observing(u)' <=> \E m \in O4 : u \in Pending(m)'
  BY DEF Observing, Pending, Touches, Buckets
<1>18. SumExact'
  <2> SUFFICES ASSUME ~overlapped'
               PROVE  /\ \A x, u \in Caller : Observing(x)' /\ Observing(u)' => x = u
                      /\ Pending("sum")' = {} => value["sum"] = observed'
                      /\ \A u \in Caller : \A i \in 1..Len(todo'[u]) :
                             /\ todo'[u][i].op = "plus" => value["sum"] + todo'[u][i].by = observed'
                             /\ todo'[u][i].metric = "sum" /\ todo'[u][i].op = "set" =>
                                    todo'[u][i].by = observed'
    BY <1>2 DEF SumExact
  <2>1. ~overlapped /\ (Observation => \A u \in Caller : ~E!Observes(todo[u]))
    BY <1>1, <1>2, <1>3
  <2>2. /\ \A x, u \in Caller : Observing(x) /\ Observing(u) => x = u
        /\ Pending("sum") = {} => value["sum"] = observed
        /\ \A u \in Caller : \A i \in 1..Len(todo[u]) :
               /\ todo[u][i].op = "plus" => value["sum"] + todo[u][i].by = observed
               /\ todo[u][i].metric = "sum" /\ todo[u][i].op = "set" => todo[u][i].by = observed
    BY <1>1, <2>1 DEF SumExact
  <2>3. CASE ~Observation
    <3>1. observed' = observed
      BY <1>1, <1>2, <2>3
    <3>2. \A m \in O4 : ~Touches(s, m)
      BY <1>3, <2>3 DEF Touches
    <3>3. \A m \in O4 : Pending(m)' = Pending(m)
      BY <1>7, <3>2
    <3>4. \A u \in Caller : Observing(u)' <=> Observing(u)
      BY <1>16, <1>17, <3>3
    <3>5. ASSUME NEW u \in Caller, NEW i \in 1..Len(todo'[u])
          PROVE  /\ todo'[u][i].op = "plus" => value["sum"] + todo'[u][i].by = observed
                 /\ todo'[u][i].metric = "sum" /\ todo'[u][i].op = "set" =>
                        todo'[u][i].by = observed
      <4>1. CASE i \in 1..Len(todo[u]) /\ todo'[u][i] = todo[u][i]
        BY <2>2, <4>1
      <4>2. CASE i \in 1..Len(s) /\ todo'[u][i] = s[i]
        BY <1>3, <1>14, <2>3, <4>2
      <4> QED
        BY <1>13, <4>1, <4>2
    <3> QED
      BY <2>2, <3>1, <3>3, <3>4, <3>5
  <2>4. CASE Observation
    <3>1. \A u \in Caller : E!Observes(todo[u]) <=> Observing(u)
      <4> TAKE u \in Caller
      <4>1. DOMAIN todo[u] = 1..Len(todo[u])
        BY <1>1 DEF CallsSound
      <4> QED
        BY <4>1, MetricIs DEF E!Observes, Observing, Buckets
    <3>2. \A u \in Caller : ~Observing(u)
      BY <2>1, <2>4, <3>1
    <3>3. \A m \in O4 : Pending(m) = {}
      BY <1>16, <3>2 DEF Pending
    <3>4. \A u \in Caller : Observing(u)' => u = t
      BY <1>7, <1>17, <3>3
    <3>5. value["sum"] = observed
      BY <2>2, <3>3
    <3>6. t \in Pending("sum")'
      <4>1. Touches(s, "sum")
        <5>1. 2 \in 1..Len(s) /\ s[2].metric = "sum"
          BY <1>3, <2>4
        <5> QED
          BY <5>1 DEF Touches
      <4> QED
        BY <1>7, <4>1
    <3>7. ASSUME NEW u \in Caller, NEW i \in 1..Len(todo'[u])
          PROVE  /\ todo'[u][i].op = "plus" => value["sum"] + todo'[u][i].by = observed'
                 /\ todo'[u][i].metric = "sum" => todo'[u][i].op # "set"
      <4>1. CASE u # t /\ i \in 1..Len(todo[u]) /\ todo'[u][i] = todo[u][i]
        <5>1. todo[u][i].metric # "sum"
          BY <3>3, <4>1 DEF Pending, Touches
        <5>2. EntrySound(todo[u][i])
          BY <1>1, <4>1 DEF CallsSound, StepsSound
        <5> QED
          BY <4>1, <5>1, <5>2 DEF EntrySound
      <4>2. CASE i \in 1..Len(s) /\ todo'[u][i] = s[i]
        <5>1. s[i].op = "plus" => i = 2
          BY <1>3, <2>4, <4>2
        <5>2. s[2].by = v /\ observed' = observed + v
          BY <1>2, <1>3, <2>4
        <5>3. s[i].metric = "sum" => s[i].op # "set"
          BY <1>14, <4>2
        <5> HIDE DEF v
        <5> QED
          BY <3>5, <4>2, <5>1, <5>2, <5>3
      <4> QED
        BY <1>13, <4>1, <4>2
    <3> QED
      BY <3>4, <3>6, <3>7
  <2> QED
    BY <2>3, <2>4
<1>19. PageCoherent'
  <2>1. \A x \in Rising : value[x] \in Int /\ value'[x] \in Int /\ value[x] <= value'[x]
    <3>1. \A x \in Rising : value[x] \in Int /\ value'[x] = value[x]
      BY <1>2, <1>10
    <3> QED
      BY <3>1
  <2>2. page' = page
    BY <1>2 DEF E!http
  <2> QED
    BY <1>1, <2>1, <2>2, PageKept
<1>20. ProcSound' /\ ServerSound'
  <2>1. MaxEvents \in Nat
    BY CallersFinite
  <2> QED
    BY <1>1, <1>2, <2>1 DEF ProcSound, ServerSound, E!system, E!http
<1>21. observed' \in Nat /\ overlapped' \in BOOLEAN /\ value' = value
  <2>1. observed' \in Nat
    <3> HIDE DEF v
    <3> QED
      BY <1>1, <1>2, <1>9
  <2> QED
    BY <1>1, <1>2, <2>1
<1> QED
  BY <1>1, <1>4, <1>11, <1>15, <1>18, <1>19, <1>20, <1>21 DEF ExporterInv

-----------------------------------------------------------------------------
(* The exporter's thread *)

\* What runs beside the calls leaves what they count alone.
LEMMA CallsKept ==
    ASSUME CallsSound, CountersOrdered, SumWithin, SumExact,
           UNCHANGED <<todo, observed, overlapped>>,
           \A x \in Rising \cup {"sum"} : value'[x] = value[x]
    PROVE  CallsSound' /\ CountersOrdered' /\ SumWithin' /\ SumExact'
<1>1. CallsSound'
  BY DEF CallsSound
<1>2. \A x : Pending(x)' = Pending(x)
  BY DEF Pending
<1>3. Due' = Due
  BY DEF Due
<1>4. CountersOrdered'
  <2>1. \A x \in Rising : value'[x] = value[x] /\ Pending(x)' = Pending(x)
    BY <1>2
  <2> QED
    BY <2>1, CountersUntouched
<1>5. SumWithin' /\ SumExact'
  <2>1. \A u \in Caller : \A i \in 1..Len(todo'[u]) :
            \E j \in 1..Len(todo[u]) : todo'[u][i] = todo[u][j]
    OBVIOUS
  <2>2. value'["sum"] = value["sum"] /\ observed' = observed /\ overlapped' = overlapped
        /\ Pending("sum")' = Pending("sum")
    BY <1>2
  <2> QED
    BY <1>3, <2>1, <2>2, SumKept
<1> QED
  BY <1>1, <1>4, <1>5

\* generate_metrics reads the next metric.
LEMMA ExporterFormat ==
    ASSUME ExporterInv, E!FormatMetric
    PROVE  ExporterInv'
<1>1. /\ value \in [E!Metric -> Int] /\ observed \in Nat /\ overlapped \in BOOLEAN
      /\ CallsSound /\ CountersOrdered /\ SumWithin /\ SumExact
      /\ PageCoherent /\ ProcSound /\ ServerSound
  BY DEF ExporterInv
<1>2. PICK n \in Nat : n = Len(page) /\ n < 20
  BY PageIs DEF E!FormatMetric, PageCoherent
<1> DEFINE x == E!Shown(E!Page[n + 1])
<1>3. /\ page' = Append(page, x)
      /\ UNCHANGED <<value, todo, observed, overlapped, E!system, starting, server, client,
                     backlog, serving, events>>
  BY <1>2 DEF E!FormatMetric, E!metrics
<1>4. x \in Int /\ (E!Page[n + 1] # "connections_active" => x = value[E!Page[n + 1]])
  <2>1. n + 1 \in 1..20
    BY <1>2
  <2>2. E!Page[n + 1] \in E!Metric
    BY <2>1, PageIs
  <2> QED
    BY <1>1, <2>2 DEF E!Shown
<1> HIDE DEF x
<1>5. /\ page' \in Seq(Int) /\ Len(page') = n + 1 /\ page'[n + 1] = x
      /\ \A i \in 1..n : page'[i] = page[i]
  BY <1>1, <1>2, <1>3, <1>4, AppendProperties DEF PageCoherent
<1>6. ASSUME NEW i \in 1..20, NEW m, E!Page[i] = m, m # "connections_active"
      PROVE  /\ Seen(i, m)' = Seen(i, m)
             /\ i > n => Seen(i, m) = value[m]
             /\ i = n + 1 => page'[i] = value[m]
  <2>1. Seen(i, m) = IF i <= n THEN page[i] ELSE value[m]
    BY <1>2 DEF Seen
  <2>2. Seen(i, m)' = IF i <= n + 1 THEN page'[i] ELSE value[m]
    BY <1>3, <1>5 DEF Seen
  <2>3. i = n + 1 => page'[i] = value[m]
    BY <1>4, <1>5, <1>6
  <2>4. i <= n => page'[i] = page[i]
    <3>1. i <= n => i \in 1..n
      BY <1>2
    <3> QED
      BY <1>5, <3>1
  <2>5. CASE i <= n
    <3>1. i <= n + 1 /\ ~(i > n) /\ i # n + 1
      BY <1>2, <2>5
    <3> QED
      BY <2>1, <2>2, <2>4, <2>5, <3>1
  <2>6. CASE i = n + 1
    <3>1. ~(i <= n) /\ i <= n + 1
      BY <1>2, <2>6
    <3> QED
      BY <2>1, <2>2, <2>3, <2>6, <3>1
  <2>7. CASE i > n + 1
    <3>1. ~(i <= n) /\ ~(i <= n + 1) /\ i # n + 1
      BY <1>2, <2>7
    <3> QED
      BY <2>1, <2>2, <3>1
  <2> QED
    BY <1>2, <2>5, <2>6, <2>7
<1>7. /\ Seen(5, "requests_success")' = Seen(5, "requests_success")
      /\ Seen(6, "requests_failed")' = Seen(6, "requests_failed")
      /\ Seen(8, "le2")' = Seen(8, "le2")
      /\ Seen(9, "count")' = Seen(9, "count") /\ Seen(11, "count")' = Seen(11, "count")
  BY <1>6, PageIs
<1>8. /\ 5 > n => Seen(5, "requests_success") = value["requests_success"]
      /\ 6 > n => Seen(6, "requests_failed") = value["requests_failed"]
      /\ 8 > n => Seen(8, "le2") = value["le2"]
      /\ 9 > n => Seen(9, "count") = value["count"]
      /\ 11 > n => Seen(11, "count") = value["count"]
  BY <1>6, PageIs
<1>9. /\ n + 1 = 4 => page'[4] = value["requests_total"]
      /\ n + 1 = 7 => page'[7] = value["le1"]
      /\ n + 1 = 8 => page'[8] = value["le2"]
      /\ n + 1 = 9 => page'[9] = value["count"]
  BY <1>6, PageIs
<1>10. /\ n >= 4 => page'[4] = page[4]
       /\ n >= 7 => page'[7] = page[7]
       /\ n >= 8 => page'[8] = page[8]
       /\ n >= 9 => page'[9] = page[9]
  BY <1>5
<1>11. \A m \in Rising : value[m] \in Int
  BY <1>1, MetricIs DEF Rising, Buckets
<1>12. /\ value["requests_total"] <=
              value["requests_success"] + value["requests_failed"] + Cardinality(Caller)
       /\ value["le1"] <= value["le2"] + Cardinality(Caller)
       /\ value["le1"] <= value["count"] /\ value["le2"] <= value["count"]
  <2>1. \A S : S \subseteq Caller =>
            Cardinality(S) \in Nat /\ Cardinality(S) <= Cardinality(Caller)
    BY CallersFinite
  <2>2. Cardinality(Caller) \in Nat
    BY CallersFinite
  <2>3. value["requests_total"] <=
            value["requests_success"] + value["requests_failed"] + Cardinality(Caller)
    <3> DEFINE p == (Pending("requests_success") \cup Pending("requests_failed"))
                    \ Pending("requests_total")
    <3>1. p \subseteq Caller
      BY DEF Pending
    <3>2. value["requests_total"] <=
              value["requests_success"] + value["requests_failed"] + Cardinality(p)
      BY <1>1 DEF CountersOrdered
    <3>3. /\ value["requests_total"] \in Int /\ value["requests_success"] \in Int
          /\ value["requests_failed"] \in Int
      BY <1>11 DEF Rising
    <3> HIDE DEF p
    <3>4. Cardinality(p) \in Nat /\ Cardinality(p) <= Cardinality(Caller)
      BY <2>1, <3>1
    <3> QED
      BY <2>2, <3>2, <3>3, <3>4
  <2>4. value["le1"] <= value["le2"] + Cardinality(Caller)
    <3> DEFINE p == Pending("le2") \ Pending("le1")
    <3>1. p \subseteq Caller
      BY DEF Pending
    <3>2. value["le1"] <= value["le2"] + Cardinality(p)
      BY <1>1 DEF CountersOrdered
    <3>3. value["le1"] \in Int /\ value["le2"] \in Int
      BY <1>11 DEF Rising, Buckets
    <3> HIDE DEF p
    <3>4. Cardinality(p) \in Nat /\ Cardinality(p) <= Cardinality(Caller)
      BY <2>1, <3>1
    <3> QED
      BY <2>2, <3>2, <3>3, <3>4
  <2>5. ASSUME NEW b \in Buckets
        PROVE  value[b] <= value["count"]
    <3> DEFINE p == Pending(b) \ Pending("count")
    <3>1. p \subseteq Caller
      BY DEF Pending
    <3>2. value[b] + Cardinality(p) <= value["count"]
      BY <1>1 DEF CountersOrdered
    <3>3. value[b] \in Int /\ value["count"] \in Int
      BY <1>11 DEF Rising
    <3> HIDE DEF p
    <3>4. Cardinality(p) \in Nat
      BY <2>1, <3>1
    <3> QED
      BY <3>2, <3>3, <3>4
  <2> QED
    BY <2>3, <2>4, <2>5 DEF Buckets
<1>13. PageCoherent'
  <2>1. /\ n >= 4 => page[4] <= Seen(5, "requests_success") + Seen(6, "requests_failed")
                                + Cardinality(Caller)
        /\ n >= 7 => /\ page[7] <= Seen(8, "le2") + Cardinality(Caller)
                     /\ page[7] <= Seen(9, "count")
        /\ n >= 8 => page[8] <= Seen(9, "count")
        /\ n >= 9 => page[9] <= Seen(11, "count")
    BY <1>1, <1>2 DEF PageCoherent
  <2>2. n + 1 >= 4 => page'[4] <= Seen(5, "requests_success")' + Seen(6, "requests_failed")'
                                  + Cardinality(Caller)
    <3>1. CASE n >= 4
      BY <1>7, <1>10, <2>1, <3>1
    <3>2. CASE n = 3
      BY <1>7, <1>8, <1>9, <1>12, <3>2
    <3> QED
      BY <1>2, <3>1, <3>2
  <2>3. n + 1 >= 7 => /\ page'[7] <= Seen(8, "le2")' + Cardinality(Caller)
                      /\ page'[7] <= Seen(9, "count")'
    <3>1. CASE n >= 7
      BY <1>7, <1>10, <2>1, <3>1
    <3>2. CASE n = 6
      BY <1>7, <1>8, <1>9, <1>12, <3>2
    <3> QED
      BY <1>2, <3>1, <3>2
  <2>4. n + 1 >= 8 => page'[8] <= Seen(9, "count")'
    <3>1. CASE n >= 8
      BY <1>7, <1>10, <2>1, <3>1
    <3>2. CASE n = 7
      BY <1>7, <1>8, <1>9, <1>12, <3>2
    <3> QED
      BY <1>2, <3>1, <3>2
  <2>5. n + 1 >= 9 => page'[9] <= Seen(11, "count")'
    <3>1. CASE n >= 9
      BY <1>7, <1>10, <2>1, <3>1
    <3>2. CASE n = 8
      <4>1. value["count"] <= value["count"]
        BY <1>11 DEF Rising
      <4> QED
        BY <1>7, <1>8, <1>9, <3>2, <4>1
    <3> QED
      BY <1>2, <3>1, <3>2
  <2>6. Len(page') <= 20
    BY <1>2, <1>5
  <2> QED
    BY <1>5, <2>2, <2>3, <2>4, <2>5, <2>6 DEF PageCoherent
<1>14. CallsSound' /\ CountersOrdered' /\ SumWithin' /\ SumExact'
  BY <1>1, <1>3, CallsKept
<1>15. ProcSound' /\ ServerSound'
  BY <1>1, <1>3 DEF ProcSound, ServerSound, E!system
<1> QED
  BY <1>1, <1>3, <1>13, <1>14, <1>15 DEF ExporterInv

\* A share of a whole, in percent.
LEMMA Percent ==
    ASSUME NEW whole \in Nat \ {0}, NEW part \in 0..whole
    PROVE  (100 * part) \div whole \in 0..100
<1>1. PICK q \in Int : q = (100 * part) \div whole
  OBVIOUS
<1>2. whole * q <= 100 * part /\ 100 * part < whole * (q + 1)
  BY <1>1
<1>3. q >= 0
  <2> SUFFICES ASSUME q + 1 <= 0
               PROVE  FALSE
    OBVIOUS
  <2>1. whole * (q + 1) <= 0
    OBVIOUS
  <2> QED
    BY <1>2, <2>1
<1>4. q <= 100
  <2> SUFFICES ASSUME q >= 101
               PROVE  FALSE
    OBVIOUS
  <2>1. whole * q >= whole * 101
    OBVIOUS
  <2> QED
    BY <1>2, <2>1
<1> QED
  BY <1>1, <1>3, <1>4

\* recv returns and collect_system_metrics runs.
LEMMA ExporterCollect ==
    ASSUME ExporterInv, NEW stat \in BOOLEAN, NEW status \in BOOLEAN, E!Collect(stat, status)
    PROVE  ExporterInv'
<1> DEFINE total == busy + idle
           spent == total - prev_total
           cpu == IF stat /\ spent > 0 THEN (100 * (spent - (idle - prev_idle))) \div spent
                                       ELSE value["cpu_usage"]
<1>1. /\ value \in [E!Metric -> Int] /\ observed \in Nat /\ overlapped \in BOOLEAN
      /\ CallsSound /\ CountersOrdered /\ SumWithin /\ SumExact
      /\ PageCoherent /\ ProcSound /\ ServerSound
  BY DEF ExporterInv
<1>2. /\ server = "recv"
      /\ \E rss \in Rss \cup {value["memory_usage"]} :
            value' = [value EXCEPT !["cpu_usage"] = cpu, !["memory_usage"] = rss]
      /\ IF stat THEN prev_total' = busy + idle /\ prev_idle' = idle
                 ELSE UNCHANGED <<prev_total, prev_idle>>
      /\ server' = "format" /\ page' = <<>>
      /\ UNCHANGED <<todo, observed, overlapped, busy, idle, starting, client, backlog, serving,
                     events>>
  <2>1. /\ server = "recv"
        /\ IF stat THEN prev_total' = busy + idle /\ prev_idle' = idle
                   ELSE UNCHANGED <<prev_total, prev_idle>>
        /\ server' = "format" /\ page' = <<>>
        /\ UNCHANGED <<todo, observed, overlapped, busy, idle, starting, client, backlog, serving,
                       events>>
    BY DEF E!Collect, E!KeptIdle
  <2>2. \E rss \in Rss \cup {value["memory_usage"]} :
            value' = [value EXCEPT !["cpu_usage"] = cpu, !["memory_usage"] = rss]
    <3>1. \E rss \in Rss \cup {value["memory_usage"]} :
              /\ status \/ rss = value["memory_usage"]
              /\ value' = [value EXCEPT !["cpu_usage"] = cpu, !["memory_usage"] = rss]
      BY DEF E!Collect
    <3> HIDE DEF cpu
    <3> QED
      BY <3>1
  <2> QED
    BY <2>1, <2>2
<1>3. /\ busy \in Nat /\ idle \in Nat /\ prev_total \in Nat /\ prev_idle \in Nat
      /\ prev_idle <= idle /\ prev_total - prev_idle <= busy /\ prev_idle <= prev_total
      /\ value["cpu_usage"] \in 0..100
  BY <1>1 DEF ProcSound
<1>4. cpu \in 0..100
  <2>1. CASE stat /\ spent > 0
    <3>1. PICK whole \in Nat \ {0} : whole = spent
      BY <1>3, <2>1
    <3>2. PICK part \in 0..whole : part = spent - (idle - prev_idle)
      BY <1>3, <3>1
    <3> QED
      BY <2>1, <3>1, <3>2, Percent
  <2>2. CASE ~(stat /\ spent > 0)
    BY <1>3, <2>2
  <2> QED
    BY <2>1, <2>2
<1> HIDE DEF cpu
<1>5. PICK rss \in Int : value' = [value EXCEPT !["cpu_usage"] = cpu, !["memory_usage"] = rss]
  <2>1. Rss \cup {value["memory_usage"]} \subseteq Int
    <3>1. Rss \subseteq Nat
      BY PartsAssumption DEF E!BoundsAssumption
    <3>2. value["memory_usage"] \in Int
      BY <1>1, MetricIs
    <3>3. ASSUME NEW rss \in Rss \cup {value["memory_usage"]}
          PROVE  rss \in Int
      <4>1. rss \in Rss => rss \in Nat
        BY <3>1
      <4> QED
        BY <3>2, <4>1
    <3> QED
      BY <3>3
  <2> QED
    BY <1>2, <2>1
<1>6. /\ value' \in [E!Metric -> Int] /\ value'["cpu_usage"] = cpu
      /\ \A x \in E!Metric \ {"cpu_usage", "memory_usage"} : value'[x] = value[x]
  <2>1. "cpu_usage" \in E!Metric /\ "memory_usage" \in E!Metric /\ cpu \in Int
    BY <1>4, MetricIs
  <2> QED
    BY <1>1, <1>5, <2>1
<1>7. \A x \in Rising \cup {"sum"} : value'[x] = value[x]
  BY <1>6, MetricIs DEF Rising, Buckets
<1>8. CallsSound' /\ CountersOrdered' /\ SumWithin' /\ SumExact'
  BY <1>1, <1>2, <1>7, CallsKept
<1>9. PageCoherent'
  BY <1>2 DEF PageCoherent
<1>10. ProcSound'
  <2>1. /\ busy' = busy /\ idle' = idle /\ events' = events
        /\ busy \in Nat /\ idle \in Nat /\ busy + idle <= events /\ events \in 0..MaxEvents
    BY <1>1, <1>2 DEF ProcSound
  <2>2. /\ prev_total' \in Nat /\ prev_idle' \in Nat /\ prev_idle' <= idle
        /\ prev_idle' <= prev_total' /\ prev_total' - prev_idle' <= busy
    BY <1>2, <1>3
  <2>3. value'["cpu_usage"] \in 0..100
    BY <1>4, <1>6
  <2> QED
    BY <2>1, <2>2, <2>3 DEF ProcSound
<1>11. ServerSound'
  BY <1>1, <1>2 DEF ServerSound
<1> QED
  BY <1>1, <1>2, <1>6, <1>8, <1>9, <1>10, <1>11 DEF ExporterInv

\* Time, starts, clients and the steps of the exporter's thread that read no metric.
LEMMA ExporterOthers ==
    ASSUME ExporterInv,
           \/ \E working \in BOOLEAN : E!Tick(working)
           \/ E!Start \/ E!Bind \/ E!StartFails
           \/ \E c \in Client : E!Connect(c) \/ E!Ask(c)
           \/ E!Accept \/ E!PageDone \/ E!Send
           \/ UNCHANGED exporter
    PROVE  ExporterInv'
<1>1. /\ value \in [E!Metric -> Int] /\ observed \in Nat /\ overlapped \in BOOLEAN
      /\ CallsSound /\ CountersOrdered /\ SumWithin /\ SumExact
      /\ PageCoherent /\ ProcSound /\ ServerSound
  BY DEF ExporterInv
<1>2. ASSUME UNCHANGED E!metrics, PageCoherent', ProcSound', ServerSound'
      PROVE  ExporterInv'
  <2>1. value' = value /\ UNCHANGED <<todo, observed, overlapped>>
    BY <1>2 DEF E!metrics
  <2>2. CallsSound' /\ CountersOrdered' /\ SumWithin' /\ SumExact'
    BY <1>1, <2>1, CallsKept
  <2> QED
    BY <1>1, <1>2, <2>1, <2>2 DEF ExporterInv
<1>3. ASSUME UNCHANGED <<E!metrics, page>>
      PROVE  PageCoherent'
  BY <1>1, <1>3 DEF PageCoherent, Seen, E!metrics
<1>4. page' = <<>> => PageCoherent'
  BY DEF PageCoherent
<1>5. ASSUME UNCHANGED <<E!metrics, E!system, events>>
      PROVE  ProcSound'
  BY <1>1, <1>5 DEF ProcSound, E!metrics, E!system
<1>6. MaxEvents \in Nat
  BY CallersFinite
<1>7. ASSUME E!Happens, UNCHANGED <<E!metrics, E!system>>
      PROVE  ProcSound'
  BY <1>1, <1>6, <1>7 DEF ProcSound, E!metrics, E!system, E!Happens
<1>8. ASSUME NEW working \in BOOLEAN, E!Tick(working)
      PROVE  ExporterInv'
  <2>1. /\ UNCHANGED <<E!metrics, prev_total, prev_idle, E!http>>
        /\ events < MaxEvents /\ events' = events + 1
        /\ \/ busy' = busy + 1 /\ idle' = idle
           \/ idle' = idle + 1 /\ busy' = busy
    BY <1>8 DEF E!Tick, E!Happens
  <2>2. ProcSound'
    <3>1. /\ busy \in Nat /\ idle \in Nat /\ prev_total \in Nat /\ prev_idle \in Nat
          /\ events \in 0..MaxEvents /\ busy + idle <= events
          /\ prev_idle <= idle /\ prev_idle <= prev_total /\ prev_total - prev_idle <= busy
          /\ value["cpu_usage"] \in 0..100
      BY <1>1 DEF ProcSound
    <3>2. value' = value
      BY <2>1 DEF E!metrics
    <3>3. /\ busy' \in Nat /\ idle' \in Nat /\ busy' + idle' <= events'
          /\ events' \in 0..MaxEvents /\ prev_idle <= idle' /\ prev_total - prev_idle <= busy'
      BY <1>6, <2>1, <3>1
    <3> QED
      BY <2>1, <3>1, <3>2, <3>3 DEF ProcSound
  <2>3. PageCoherent' /\ ServerSound'
    BY <1>1, <1>3, <2>1 DEF ServerSound, E!http
  <2> QED
    BY <1>2, <2>1, <2>2, <2>3
<1>9. CASE E!Start
  <2>1. UNCHANGED <<E!metrics, E!system, server, page, client, backlog, serving>>
        /\ E!Happens /\ starting' = starting + 1
    BY <1>9 DEF E!Start
  <2> QED
    BY <1>1, <1>2, <1>3, <1>7, <2>1 DEF ServerSound
<1>10. CASE E!Bind
  <2>1. /\ UNCHANGED <<E!metrics, E!system, page, client, backlog, serving, events>>
        /\ starting > 0 /\ server = "none" /\ starting' = starting - 1 /\ server' = "accept"
    BY <1>10 DEF E!Bind
  <2> QED
    BY <1>1, <1>2, <1>3, <1>5, <2>1 DEF ServerSound
<1>11. CASE E!StartFails
  <2>1. /\ UNCHANGED <<E!metrics, E!system, server, page, client, backlog, serving, events>>
        /\ starting > 0 /\ starting' = starting - 1
    BY <1>11 DEF E!StartFails
  <2> QED
    BY <1>1, <1>2, <1>3, <1>5, <2>1 DEF ServerSound
<1>12. ASSUME NEW c \in Client, E!Connect(c)
       PROVE  ExporterInv'
  <2>1. /\ UNCHANGED <<E!metrics, E!system, starting, server, page, serving>> /\ E!Happens
        /\ client' = [client EXCEPT ![c] = "connected"] /\ backlog' = Append(backlog, c)
    BY <1>12 DEF E!Connect
  <2>2. /\ client' \in [Client -> {"idle", "connected", "asked", "answered"}]
        /\ backlog' \in Seq(Client)
    BY <1>1, <2>1 DEF ServerSound
  <2> QED
    BY <1>1, <1>2, <1>3, <1>7, <2>1, <2>2 DEF ServerSound
<1>13. ASSUME NEW c \in Client, E!Ask(c)
       PROVE  ExporterInv'
  <2>1. /\ UNCHANGED <<E!metrics, E!system, starting, server, page, backlog, serving, events>>
        /\ client' = [client EXCEPT ![c] = "asked"]
    BY <1>13 DEF E!Ask
  <2>2. client' \in [Client -> {"idle", "connected", "asked", "answered"}]
    BY <1>1, <2>1 DEF ServerSound
  <2> QED
    BY <1>1, <1>2, <1>3, <1>5, <2>1, <2>2 DEF ServerSound
<1>14. CASE E!Accept
  <2>1. /\ UNCHANGED <<E!metrics, E!system, starting, page, client, events>>
        /\ backlog # <<>> /\ serving' = {Head(backlog)} /\ backlog' = Tail(backlog)
        /\ server' = "recv"
    BY <1>14 DEF E!Accept
  <2>2. Head(backlog) \in Client /\ backlog' \in Seq(Client)
    BY <1>1, <2>1 DEF ServerSound
  <2> QED
    BY <1>1, <1>2, <1>3, <1>5, <2>1, <2>2 DEF ServerSound
<1>15. CASE E!PageDone
  <2>1. /\ UNCHANGED <<E!metrics, E!system, starting, page, client, backlog, serving, events>>
        /\ server = "format" /\ server' = "send"
    BY <1>15 DEF E!PageDone
  <2> QED
    BY <1>1, <1>2, <1>3, <1>5, <2>1 DEF ServerSound
<1>16. CASE E!Send
  <2>1. /\ UNCHANGED <<E!metrics, E!system, starting, backlog, events>>
        /\ client' = [c \in Client |-> IF c \in serving THEN "answered" ELSE client[c]]
        /\ serving' = {} /\ server' = "accept" /\ page' = <<>>
    BY <1>16 DEF E!Send
  <2>2. client' \in [Client -> {"idle", "connected", "asked", "answered"}]
    BY <1>1, <2>1 DEF ServerSound
  <2> QED
    BY <1>1, <1>2, <1>4, <1>5, <2>1, <2>2 DEF ServerSound
<1>17. CASE UNCHANGED exporter
  <2>1. UNCHANGED <<E!metrics, E!system, E!http, events, page>>
    BY <1>17 DEF exporter, E!metrics, E!system, E!http
  <2> QED
    BY <1>1, <1>2, <1>3, <1>5, <2>1 DEF ServerSound, E!http
<1> QED
  BY <1>8, <1>9, <1>10, <1>11, <1>12, <1>13, <1>14, <1>15, <1>16, <1>17

\* Every step keeps the invariant.
LEMMA ExporterStep ==
    ASSUME ExporterInv, E!Next \/ UNCHANGED exporter
    PROVE  ExporterInv'
BY ExporterAtomicAdd, ExporterLoad, ExporterStore, ExporterBegin, ExporterFormat,
   ExporterCollect, ExporterOthers DEF E!Next, E!CallStep, E!Serve

\* No call is under way at first and nothing is counted.
LEMMA ExporterAtFirst == E!Init => ExporterInv
<1> SUFFICES ASSUME E!Init
             PROVE  ExporterInv
  OBVIOUS
<1>1. /\ value = [m \in E!Metric |-> 0] /\ todo = [t \in Caller |-> <<>>]
      /\ events = 0 /\ observed = 0 /\ overlapped = FALSE
      /\ busy = 0 /\ idle = 0 /\ prev_total = 0 /\ prev_idle = 0
      /\ starting = 0 /\ server = "none" /\ page = <<>>
      /\ client = [c \in Client |-> "idle"] /\ backlog = <<>> /\ serving = {}
  BY DEF E!Init
<1>2. \A t \in Caller : todo[t] = <<>> /\ 1..Len(todo[t]) = {}
  BY <1>1
<1>3. \A m : Pending(m) = {}
  BY <1>2 DEF Pending, Touches
<1>4. Due = {} /\ Cardinality(Due) = 0
  <2>1. \A t \in Caller : \A k : ~Owes(todo[t], k)
    BY <1>2 DEF Owes
  <2>2. Due = {}
    BY <2>1 DEF Due
  <2> QED
    BY <2>2, FS_EmptySet
<1>5. value \in [E!Metric -> Int] /\ \A m \in Rising \cup {"sum", "cpu_usage"} : value[m] = 0
  BY <1>1, MetricIs DEF Rising, Buckets
<1>6. CallsSound
  BY <1>1, <1>2, NoSteps DEF CallsSound, StepsSound
<1>7. CountersOrdered
  <2>1. \A S : Cardinality({} \ S) = 0 /\ Cardinality(({} \cup {}) \ S) = 0
    <3>1. \A S : {} \ S = {} /\ ({} \cup {}) \ S = {}
      OBVIOUS
    <3> QED
      BY <3>1, FS_EmptySet
  <2>2. \A b \in Buckets : value[b] + Cardinality(Pending(b) \ Pending("count")) <= value["count"]
    <3> TAKE b \in Buckets
    <3>1. Pending(b) \ Pending("count") = {} \ Pending("count")
      BY <1>3
    <3>2. Cardinality(Pending(b) \ Pending("count")) = 0 /\ value[b] = 0 /\ value["count"] = 0
      BY <1>5, <2>1, <3>1 DEF Rising
    <3> QED
      BY <3>2
  <2>3. value["le1"] <= value["le2"] + Cardinality(Pending("le2") \ Pending("le1"))
    <3>1. Pending("le2") \ Pending("le1") = {} \ Pending("le1")
      BY <1>3
    <3>2. Cardinality(Pending("le2") \ Pending("le1")) = 0 /\ value["le1"] = 0 /\ value["le2"] = 0
      BY <1>5, <2>1, <3>1 DEF Rising, Buckets
    <3> QED
      BY <3>2
  <2>4. value["requests_total"] <=
            value["requests_success"] + value["requests_failed"]
            + Cardinality((Pending("requests_success") \cup Pending("requests_failed"))
                          \ Pending("requests_total"))
    <3> DEFINE p == (Pending("requests_success") \cup Pending("requests_failed"))
                    \ Pending("requests_total")
    <3>1. p = {} \ Pending("requests_total")
      BY <1>3
    <3> HIDE DEF p
    <3>2. Cardinality(p) = 0
      BY <2>1, <3>1
    <3>3. /\ value["requests_total"] = 0 /\ value["requests_success"] = 0
          /\ value["requests_failed"] = 0
      BY <1>5 DEF Rising
    <3>4. value["requests_total"] <=
              value["requests_success"] + value["requests_failed"] + Cardinality(p)
      BY <3>2, <3>3
    <3> QED
      BY <3>4 DEF p
  <2> QED
    BY <2>2, <2>3, <2>4 DEF CountersOrdered
<1>8. SumWithin /\ SumExact
  BY <1>1, <1>2, <1>4, <1>5 DEF SumWithin, SumExact, Observing
<1>9. PageCoherent
  BY <1>1 DEF PageCoherent
<1>10. ProcSound /\ ServerSound
  <2>1. MaxEvents \in Nat
    BY CallersFinite
  <2>2. ProcSound
    <3>1. value["cpu_usage"] = 0
      BY <1>5
    <3>2. events = 0 /\ busy = 0 /\ idle = 0 /\ prev_total = 0 /\ prev_idle = 0
      BY <1>1
    <3> QED
      BY <2>1, <3>1, <3>2 DEF ProcSound
  <2>3. client \in [Client -> {"idle", "connected", "asked", "answered"}] /\ backlog \in Seq(Client)
    BY <1>1
  <2>4. ServerSound
    BY <1>1, <2>3 DEF ServerSound
  <2> QED
    BY <2>2, <2>4
<1> QED
  BY <1>1, <1>5, <1>6, <1>7, <1>8, <1>9, <1>10 DEF ExporterInv

\* What the invariant says of a page, of the sum and of the state's types.
LEMMA ExporterInvMeans == ExporterInv => PagesCoherent
<1> SUFFICES ASSUME ExporterInv
             PROVE  PagesCoherent
  OBVIOUS
<1>1. /\ value \in [E!Metric -> Int] /\ observed \in Nat /\ overlapped \in BOOLEAN
      /\ CallsSound /\ CountersOrdered /\ SumWithin /\ SumExact
      /\ PageCoherent /\ ProcSound /\ ServerSound
  BY DEF ExporterInv
<1>2. E!Cardinality(Caller) = Cardinality(Caller) /\ Cardinality(Caller) \in Nat
      /\ MaxEvents \in Nat
  BY SameOperatorsToo, CallersFinite
<1>3. todo \in [Caller -> Seq(Entries)] /\ \A t \in Caller : DOMAIN todo[t] = 1..Len(todo[t])
  BY <1>1 DEF CallsSound
<1>4. E!TypeOK
  <2>1. \A t \in Caller : \A i \in DOMAIN todo[t] : todo[t][i].metric \in E!Metric
    <3> TAKE t \in Caller
    <3> TAKE i \in DOMAIN todo[t]
    <3>1. todo[t] \in Seq(Entries) /\ i \in 1..Len(todo[t])
      BY <1>3
    <3>2. todo[t][i] \in Entries
      BY <3>1, ElementOfSeq
    <3> QED
      BY <3>2 DEF Entries
  <2>2. E!Cardinality(serving) = (IF server \in {"none", "accept"} THEN 0 ELSE 1)
    <3>1. E!Cardinality(serving) = Cardinality(serving)
      BY SameOperatorsToo
    <3> QED
      BY <1>1, <3>1, FS_EmptySet, FS_Singleton DEF ServerSound
  <2>3. Len(page) <= Len(E!Page)
    BY <1>1, PageIs DEF PageCoherent
  <2>4. busy + idle \in 0..MaxEvents /\ prev_idle \in 0..prev_total /\ events \in 0..MaxEvents
    BY <1>1, <1>2 DEF ProcSound
  <2>5. /\ starting \in Nat /\ server \in {"none", "accept", "recv", "format", "send"}
        /\ client \in [Client -> {"idle", "connected", "asked", "answered"}]
        /\ backlog \in Seq(Client) /\ serving \subseteq Client
    BY <1>1 DEF ServerSound
  <2> QED
    BY <1>1, <2>1, <2>2, <2>3, <2>4, <2>5 DEF E!TypeOK
<1>5. E!CpuInRange
  BY <1>1 DEF ProcSound, E!CpuInRange
<1>6. PICK n \in Nat : n = Len(page) /\ n <= 20
  BY <1>1 DEF PageCoherent
<1>7. /\ n >= 4 => page[4] <= Seen(5, "requests_success") + Seen(6, "requests_failed")
                              + Cardinality(Caller)
      /\ n >= 7 => /\ page[7] <= Seen(8, "le2") + Cardinality(Caller)
                   /\ page[7] <= Seen(9, "count")
      /\ n >= 8 => page[8] <= Seen(9, "count")
      /\ n >= 9 => page[9] <= Seen(11, "count")
  BY <1>1, <1>6 DEF PageCoherent
<1>8. \A i \in 1..20 : \A m : i <= n => Seen(i, m) = page[i]
  BY <1>6 DEF Seen
<1>9. E!RequestsAddUp
  <2>1. n >= 6 => page[4] <= page[5] + page[6] + Cardinality(Caller)
    BY <1>7, <1>8
  <2> QED
    BY <1>2, <1>6, <2>1 DEF E!RequestsAddUp, E!Read
<1>10. E!HistogramCoherent
  <2>1. E!Infinity = 9
    <3>1. Len(<<"le1", "le2">>) = 2
      OBVIOUS
    <3> QED
      BY <3>1 DEF E!Infinity
  <2>2. /\ n >= 9 => page[7] <= page[9] /\ page[8] <= page[9]
        /\ n >= 8 => page[7] <= page[8] + Cardinality(Caller)
        /\ n >= 11 => page[9] <= page[11]
    BY <1>7, <1>8
  <2>3. ASSUME NEW i \in 7..8
        PROVE  /\ E!Read(9) => page[i] <= page[9]
               /\ \A j \in (i + 1)..8 : E!Read(j) => page[i] <= page[j] + E!Cardinality(Caller)
    <3>1. i = 7 \/ i = 8
      OBVIOUS
    <3>2. E!Read(9) => page[i] <= page[9]
      BY <1>6, <2>2, <3>1 DEF E!Read
    <3>3. ASSUME NEW j \in (i + 1)..8, E!Read(j)
          PROVE  page[i] <= page[j] + E!Cardinality(Caller)
      <4>1. i = 7 /\ j = 8
        BY <3>1
      <4> QED
        BY <1>2, <1>6, <2>2, <3>3, <4>1 DEF E!Read
    <3> QED
      BY <3>2, <3>3
  <2>4. E!Read(11) => page[9] <= page[11]
    BY <1>6, <2>2 DEF E!Read
  <2>5. E!Infinity - 1 = 8 /\ E!Infinity + 2 = 11
    BY <2>1
  <2> QED
    BY <2>1, <2>3, <2>4, <2>5 DEF E!HistogramCoherent
<1>11. E!SumExactAlone
  <2> DEFINE P == {t \in Caller : \E i \in DOMAIN todo[t] : todo[t][i].metric = "sum"}
  <2>1. P = Pending("sum")
    BY <1>3 DEF Pending, Touches
  <2>2. P \subseteq Caller
    OBVIOUS
  <2>3. value["sum"] <= observed
    <3>1. Due \subseteq Caller \X (1..3)
      BY DEF Due
    <3>2. Cardinality(Due) \in Nat
      BY <3>1, CallersFinite
    <3>3. value["sum"] \in Int /\ value["sum"] + Cardinality(Due) <= observed
      BY <1>1, MetricIs DEF SumWithin
    <3> QED
      BY <1>1, <3>2, <3>3
  <2> HIDE DEF P
  <2>4. E!Cardinality(P) = 0 => P = {}
    <3>1. E!Cardinality(P) = Cardinality(P) /\ IsFiniteSet(P)
      BY <2>2, SameOperatorsToo, CallersFinite
    <3> QED
      BY <3>1, FS_EmptySet
  <2>5. ~overlapped /\ E!Cardinality(P) = 0 => value["sum"] = observed
    BY <1>1, <2>1, <2>4 DEF SumExact
  <2> QED
    BY <2>3, <2>5 DEF E!SumExactAlone, P
<1> QED
  BY <1>4, <1>5, <1>9, <1>10, <1>11 DEF PagesCoherent

\* metrics_observe_latency, metrics_inc_requests and the other calls beside the
\* exporter's thread: what a page read in the middle of calls still says, and that
\* the plain addition to the sum counts nothing twice, for any callers, any calls,
\* any clients and any number of events.
THEOREM PagesAreCoherent == PartsSpec => []PagesCoherent
<1>1. PartsInit => ExporterInv
  BY ExporterAtFirst DEF PartsInit
<1>2. ExporterInv /\ [PartsNext]_<<subject, vars, objects, exporter, board, tests>> => ExporterInv'
  BY ExporterStep DEF PartsNext
<1>3. ExporterInv => PagesCoherent
  BY ExporterInvMeans
<1> QED
  BY <1>1, <1>2, <1>3, PTL DEF PartsSpec

===============================================================================
