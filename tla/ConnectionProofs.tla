-------------------------- MODULE ConnectionProofs --------------------------
(***************************************************************************)
(* The safety of one connection for any streams, buffer sizes, heartbeat   *)
(* type, length of an acknowledgement and checksum, however the bytes are  *)
(* cut into pieces by the peer, the kernel, recv and send.                 *)
(***************************************************************************)
EXTENDS Connection, FiniteSetTheorems, SequenceTheorems, TLAPS

IInv == BuffersSuffice /\ AcksWhole

LEMMA Constants ==
    /\ Byte \subseteq Nat /\ MaxPayload \in Nat /\ HeaderLen = 3 /\ CrcLen = 2
    /\ AckLen \in Nat \ {0} /\ RecvCap \in Nat \ {0}
    /\ SendCap \in Nat \ {0} /\ Room \in Nat \ {0}
BY ByteAssumption, MaxPayloadAssumption, SizesAssumption DEF HeaderLen, CrcLen

\* A part of a frame takes what it still needs of data, or all there is, and the rest stays.
LEMMA FillAndRest ==
    ASSUME data \in Seq(Byte), NEW part \in Seq(Byte), NEW n \in Nat, Len(part) <= n
    PROVE  /\ Fill(part, n) \in Seq(Byte) /\ Len(Fill(part, n)) <= n
           /\ Rest(part, n) \in Seq(Byte) /\ Len(Rest(part, n)) <= Len(data)
           /\ Len(Fill(part, n)) < n => Rest(part, n) = <<>>
<1> DEFINE m == Smaller(n - Len(part), Len(data))
<1>1. /\ Len(data) \in Nat /\ Len(part) \in Nat /\ \A i \in 1..Len(data) : data[i] \in Byte
      /\ DOMAIN data = 1..Len(data)
  BY LenProperties
<1>2. /\ m \in Nat /\ m <= Len(data) /\ m <= n - Len(part)
      /\ m < n - Len(part) => m = Len(data)
  BY <1>1 DEF Smaller
<1>9. Len(data) \in Nat /\ Len(part) \in Nat
  BY <1>1
<1> HIDE DEF m
<1>3. SubSeq(data, 1, m) \in Seq(Byte) /\ Len(SubSeq(data, 1, m)) = m
  <2>1. ASSUME NEW i \in 1..m
        PROVE  data[i] \in Byte
    <3>1. i \in 1..Len(data)
      BY <1>2, <1>9
    <3> QED
      BY <1>1, <3>1
  <2>2. 1 \in Int /\ m \in Int
    BY <1>2
  <2>3. /\ SubSeq(data, 1, m) \in Seq(Byte)
        /\ Len(SubSeq(data, 1, m)) = IF 1 <= m THEN m - 1 + 1 ELSE 0
    BY <2>1, <2>2, SubSeqProperties
  <2> QED
    BY <1>2, <2>3
<1>4. /\ Fill(part, n) \in Seq(Byte) /\ Len(Fill(part, n)) = Len(part) + m
  <2>1. Fill(part, n) = part \o SubSeq(data, 1, m)
    BY DEF Fill, m
  <2> QED
    BY <1>3, <2>1, ConcatProperties
<1>5. /\ Rest(part, n) \in Seq(Byte)
      /\ Len(Rest(part, n)) = IF n - Len(part) + 1 <= Len(data)
                              THEN Len(data) - (n - Len(part) + 1) + 1 ELSE 0
  <2>1. \A i \in (n - Len(part) + 1)..Len(data) : data[i] \in Byte
    BY <1>1
  <2>2. n - Len(part) + 1 \in Int /\ Len(data) \in Int
    BY <1>1
  <2> QED
    BY <2>1, <2>2, SubSeqProperties DEF Rest
<1>6. Len(Fill(part, n)) < n => Rest(part, n) = <<>>
  <2> SUFFICES ASSUME Len(part) + m < n
               PROVE  Rest(part, n) = <<>>
    BY <1>4
  <2>1. m = Len(data)
    BY <1>2, <1>9
  <2>2. ~(n - Len(part) + 1 <= Len(data))
    BY <1>1, <2>1
  <2> QED
    BY <1>5, <2>2, EmptySeq
<1>7. Len(Fill(part, n)) <= n
  BY <1>2, <1>4, <1>9
<1>8. Len(Rest(part, n)) <= Len(data)
  BY <1>1, <1>5
<1> QED
  BY <1>4, <1>5, <1>6, <1>7, <1>8

LEMMA InitIInv == Init => IInv
<1> SUFFICES ASSUME Init
             PROVE  IInv
  OBVIOUS
<1> USE DEF Init, ParserInit
<1>1. <<>> \in Seq(Byte) /\ <<>> \in Seq([type : Byte, payload : Seq(Byte)]) /\ Len(<<>>) = 0
  OBVIOUS
<1>2. TypeOK
  <2>1. closing \in BOOLEAN /\ ready \in BOOLEAN
    BY Zenon
  <2> QED
    BY <1>1, <2>1, Constants DEF TypeOK, ParserTypeOK
<1>3. PartsInTurn /\ NothingLeftBehind
  BY <1>1, Constants DEF PartsInTurn, NothingLeftBehind
<1>4. AcksWhole
  <2>1. Heartbeats = {}
    BY DEF Heartbeats
  <2> QED
    BY <2>1, FS_EmptySet, Constants DEF AcksWhole
<1> QED
  BY <1>2, <1>3, <1>4 DEF IInv, BuffersSuffice

\* The heartbeats among the frames are finitely many.
LEMMA HeartbeatsFinite ==
    ASSUME frames \in Seq([type : Byte, payload : Seq(Byte)])
    PROVE  IsFiniteSet(Heartbeats) /\ Cardinality(Heartbeats) \in Nat
<1>1. Len(frames) \in Nat /\ Heartbeats \subseteq 1..Len(frames)
  BY LenProperties DEF Heartbeats
<1>2. IsFiniteSet(Heartbeats)
  <2>1. IsFiniteSet(1..Len(frames))
    BY <1>1, FS_Interval
  <2> QED
    BY <1>1, <2>1, FS_Subset
<1> QED
  BY <1>2, FS_CardinalityType

-----------------------------------------------------------------------------
(* Steps that leave the parser alone. *)

\* The parser's part of the invariant outlives them.
LEMMA ParserUntouched ==
    ASSUME IInv, UNCHANGED parser, TypeOK', NothingLeftBehind', (pc' = "frame") = (pc = "frame"),
           acks' = acks, sent' + (send_len' - send_pos') = sent + (send_len - send_pos)
    PROVE  IInv'
<1>1. PartsInTurn'
  BY DEF IInv, BuffersSuffice, PartsInTurn, parser, frame
<1>2. Heartbeats' = Heartbeats
  BY DEF Heartbeats, parser
<1>3. AcksWhole'
  BY <1>2 DEF IInv, AcksWhole
<1> QED
  BY <1>1, <1>3 DEF IInv, BuffersSuffice

LEMMA PeerSteps ==
    ASSUME IInv, \/ \E n \in 1..(Len(wire) - arrived) : Arrive(n)
                 \/ \E how \in {"fin", "rst"} : Leave(how)
                 \/ PeerReads
    PROVE  IInv'
<1> USE DEF worker, conn
<1>0. UNCHANGED <<parser, pc, have, send_len, send_pos, acks, sent, wire, taken, events, closing>>
  BY DEF Arrive, Leave, PeerReads
<1>1. arrived' \in 0..Len(wire) /\ taken \in 0..arrived'
  <2>1. Len(wire) \in Nat /\ taken \in 0..arrived /\ arrived \in 0..Len(wire)
    BY LenProperties DEF IInv, BuffersSuffice, TypeOK
  <2> QED
    BY <2>1 DEF Arrive, Leave, PeerReads
<1>2. ready' \in BOOLEAN /\ interest' = interest
  BY DEF IInv, BuffersSuffice, TypeOK, Arrive, Leave, PeerReads
<1>3. room' \in 0..Room /\ gone' \in {"no", "fin", "rst"}
  BY Constants DEF IInv, BuffersSuffice, TypeOK, Arrive, Leave, PeerReads
<1>4. TypeOK'
  BY <1>0, <1>1, <1>2, <1>3 DEF IInv, BuffersSuffice, TypeOK, ParserTypeOK, parser, frame
<1>5. NothingLeftBehind'
  BY <1>0 DEF IInv, BuffersSuffice, NothingLeftBehind, parser
<1> QED
  BY <1>0, <1>4, <1>5, ParserUntouched

LEMMA AcceptStep ==
    ASSUME IInv, NEW stream \in Streams, NEW buffers \in Allocations, Accept(stream, buffers)
    PROVE  IInv'
<1> USE DEF Accept
<1>1. stream \in Seq(Byte) /\ buffers \subseteq {"recv", "send", "payload"} /\ Len(stream) \in Nat
  BY StreamsAssumption, AllocationsAssumption, LenProperties
<1>2. TypeOK'
  <2>1. ready' \in BOOLEAN
    BY Zenon
  <2> QED
    BY <1>1, <2>1, Constants DEF IInv, BuffersSuffice, TypeOK, ParserTypeOK, parser, frame
<1>3. NothingLeftBehind'
  BY DEF IInv, BuffersSuffice, NothingLeftBehind, parser
<1> QED
  BY <1>2, <1>3, ParserUntouched

LEMMA EpollWaitStep ==
    ASSUME IInv, EpollWait
    PROVE  IInv'
<1> USE DEF EpollWait, peer
<1>1. pc' \in {"done", "recv", "send", "wait"}
  <2>1. CASE gone = "rst"
    BY <2>1
  <2>2. CASE gone # "rst"
    BY <2>2
  <2> QED
    BY <2>1, <2>2
<1>2. TypeOK'
  <2>1. events' \subseteq {"in", "out"}
    BY DEF Level
  <2>2. closing' \in BOOLEAN /\ ready' \in BOOLEAN
    BY Zenon
  <2> QED
    BY <1>1, <2>1, <2>2 DEF IInv, BuffersSuffice, TypeOK, ParserTypeOK, parser, frame
<1>3. NothingLeftBehind'
  BY <1>1 DEF IInv, BuffersSuffice, NothingLeftBehind, parser
<1> QED
  BY <1>1, <1>2, <1>3, ParserUntouched

LEMMA ArmStep ==
    ASSUME IInv, Arm
    PROVE  IInv'
<1> USE DEF Arm, conn, peer
<1>1. pc' \in {"send", "done"} /\ pc = "arm"
  OBVIOUS
<1>2. interest' \subseteq {"in", "out"} /\ ready' \in BOOLEAN
  BY DEF IInv, BuffersSuffice, TypeOK, epoll, Watch
<1>3. TypeOK'
  BY <1>1, <1>2 DEF IInv, BuffersSuffice, TypeOK, ParserTypeOK, parser, frame
<1>4. NothingLeftBehind'
  BY <1>1 DEF IInv, BuffersSuffice, NothingLeftBehind, parser
<1> QED
  BY <1>1, <1>3, <1>4, ParserUntouched

LEMMA SendStep ==
    ASSUME IInv, Send
    PROVE  IInv'
<1> USE DEF worker, epoll
<1>1. PICK n \in Nat :
          /\ n = Smaller(send_len - send_pos, room)
          /\ n <= room /\ n <= send_len - send_pos
          /\ send_pos' = send_pos + n /\ sent' = sent + n /\ room' = room - n
  <2>1. /\ send_len \in Nat /\ send_pos \in Nat /\ room \in Nat
    BY Constants DEF IInv, BuffersSuffice, TypeOK
  <2>2. send_pos < send_len /\ room > 0
    BY DEF Send
  <2>3. /\ Smaller(send_len - send_pos, room) \in Nat
        /\ Smaller(send_len - send_pos, room) <= room
        /\ Smaller(send_len - send_pos, room) <= send_len - send_pos
    BY <2>1, <2>2 DEF Smaller
  <2> QED
    BY <2>3 DEF Send
<1>2. UNCHANGED <<parser, pc, events, have, send_len, closing, interest, ready, wire, arrived,
                  gone, taken, acks>>
  BY DEF Send
<1>3. /\ send_len \in 0..SendCap /\ send_pos \in 0..send_len /\ room \in 0..Room /\ sent \in Nat
  BY DEF IInv, BuffersSuffice, TypeOK
<1>4. /\ send_pos' \in 0..send_len /\ room' \in 0..Room /\ sent' \in Nat
      /\ sent' + (send_len' - send_pos') = sent + (send_len - send_pos)
  BY <1>1, <1>2, <1>3, Constants
<1>5. TypeOK'
  BY <1>2, <1>4 DEF IInv, BuffersSuffice, TypeOK, ParserTypeOK, parser, frame
<1>6. NothingLeftBehind'
  BY <1>2 DEF IInv, BuffersSuffice, NothingLeftBehind, parser
<1> QED
  BY <1>2, <1>4, <1>5, <1>6, ParserUntouched

\* The ends of handle_write and of an event.
LEMMA StopSteps ==
    ASSUME IInv, SendStops \/ SentAll \/ Done
    PROVE  IInv'
<1> USE DEF peer
<1>1. UNCHANGED <<parser, have, wire, arrived, room, gone, taken, acks, sent>>
  BY DEF SendStops, SentAll, Done, conn
<1>2. /\ pc \in {"send", "done"} /\ pc' \in {"done", "wait"} /\ events' \in {events, {}}
      /\ closing' \in BOOLEAN
  BY DEF SendStops, SentAll, Done, conn, IInv, BuffersSuffice, TypeOK
<1>3. interest' \subseteq {"in", "out"} /\ ready' \in BOOLEAN
  BY DEF SendStops, SentAll, Done, epoll, Watch, IInv, BuffersSuffice, TypeOK
<1>4. /\ send_len' \in 0..SendCap /\ send_pos' \in 0..send_len'
      /\ sent' + (send_len' - send_pos') = sent + (send_len - send_pos)
  <2>1. send_len \in 0..SendCap /\ send_pos \in 0..send_len /\ SendCap \in Nat
    BY Constants DEF IInv, BuffersSuffice, TypeOK
  <2>2. \/ send_len' = send_len /\ send_pos' = send_pos
        \/ send_len' = 0 /\ send_pos' = 0 /\ send_pos = send_len
    BY DEF SendStops, SentAll, Done, conn
  <2> QED
    BY <1>1, <2>1, <2>2
<1>5. TypeOK'
  BY <1>1, <1>2, <1>3, <1>4 DEF IInv, BuffersSuffice, TypeOK, ParserTypeOK, parser, frame
<1>6. NothingLeftBehind'
  BY <1>1, <1>2 DEF IInv, BuffersSuffice, NothingLeftBehind, parser
<1> QED
  BY <1>1, <1>2, <1>4, <1>5, <1>6, ParserUntouched

-----------------------------------------------------------------------------
(* Steps of the parser and of what feeds it. *)

\* A piece of a stream.
LEMMA Piece ==
    ASSUME NEW s \in Seq(Byte), NEW a \in Nat, NEW b \in Nat, 0 < a, a <= b, b <= Len(s)
    PROVE  SubSeq(s, a, b) \in Seq(Byte) /\ Len(SubSeq(s, a, b)) = b - a + 1
<1>1. \A i \in a..b : s[i] \in Byte
  BY LenProperties
<1> QED
  BY <1>1, SubSeqProperties

\* recv: whatever it was given, the buffer holds it, and only an error, the end of
\* the stream or nothing to receive leads out of the loop.
LEMMA RecvStep ==
    ASSUME IInv, Recv
    PROVE  IInv'
<1> DEFINE n == Smaller(arrived - taken, RecvCap - Len(data))
           piece == SubSeq(wire, taken + 1, taken + n)
<1>1. /\ pc = "recv" /\ UNCHANGED <<frame, frames, frames_error, events, have, send_len, send_pos,
                                    epoll, peer, acks, sent>>
      /\ \/ /\ n > 0 /\ data' = data \o piece /\ taken' = taken + n /\ pc' = "parse"
            /\ UNCHANGED closing
         \/ /\ pc' = "arm" /\ UNCHANGED <<data, taken>>
            /\ closing' = (arrived > taken \/ gone # "no" \/ RecvCap - Len(data) = 0)
  BY DEF Recv
<1>2. /\ data = <<>> /\ Len(data) = 0 /\ data \in Seq(Byte)
      /\ taken \in Nat /\ arrived \in Nat /\ taken <= arrived /\ arrived <= Len(wire)
      /\ Len(wire) \in Nat /\ \A i \in 1..Len(wire) : wire[i] \in Byte
  BY <1>1, LenProperties DEF IInv, BuffersSuffice, NothingLeftBehind, TypeOK
<1>3. n \in Int /\ n <= arrived - taken /\ n <= RecvCap
  BY <1>2, Constants DEF Smaller
<1> HIDE DEF n
<1>4. CASE pc' = "arm" /\ UNCHANGED <<data, taken>>
  <2>1. closing' \in BOOLEAN
    BY <1>1, <1>4, Zenon
  <2>2. TypeOK'
    BY <1>1, <1>4, <2>1
       DEF IInv, BuffersSuffice, TypeOK, ParserTypeOK, frame, epoll, peer
  <2>3. NothingLeftBehind'
    BY <1>2, <1>4 DEF NothingLeftBehind
  <2> QED
    BY <1>1, <1>4, <2>2, <2>3, ParserUntouched DEF parser
<1>5. CASE n > 0 /\ data' = data \o piece /\ taken' = taken + n /\ pc' = "parse" /\ UNCHANGED closing
  <2>1. piece \in Seq(Byte) /\ Len(piece) = n
    <3>1. /\ taken + 1 \in Nat /\ taken + n \in Nat /\ taken + 1 <= taken + n
          /\ taken + n <= Len(wire) /\ taken + n - (taken + 1) + 1 = n
      BY <1>2, <1>3, <1>5
    <3>2. wire \in Seq(Byte) /\ 0 < taken + 1
      BY <1>2 DEF IInv, BuffersSuffice, TypeOK
    <3>3. ASSUME NEW a \in Nat, NEW b \in Nat, a = taken + 1, b = taken + n
          PROVE  SubSeq(wire, a, b) \in Seq(Byte) /\ Len(SubSeq(wire, a, b)) = n
      <4>1. 0 < a /\ a <= b /\ b <= Len(wire) /\ b - a + 1 = n
        BY <1>2, <1>3, <1>5, <3>3
      <4>2. SubSeq(wire, a, b) \in Seq(Byte) /\ Len(SubSeq(wire, a, b)) = b - a + 1
        BY <3>2, <4>1, Piece
      <4> QED
        BY <4>1, <4>2
    <3> QED
      BY <3>1, <3>3
  <2> HIDE DEF piece
  <2>2. data' \in Seq(Byte) /\ Len(data') = n /\ data' # <<>>
    <3>1. data \o piece \in Seq(Byte) /\ Len(data \o piece) = Len(data) + Len(piece)
      BY <1>2, <2>1, ConcatProperties
    <3>2. Len(data \o piece) = n
      BY <1>2, <1>3, <2>1, <3>1
    <3>3. data \o piece # <<>>
      BY <1>3, <1>5, <3>2
    <3> QED
      BY <1>5, <3>1, <3>2, <3>3
  <2>3. taken' \in 0..arrived
    BY <1>2, <1>3, <1>5
  <2>4. TypeOK'
    BY <1>1, <1>3, <1>5, <2>2, <2>3
       DEF IInv, BuffersSuffice, TypeOK, ParserTypeOK, frame, epoll, peer
  <2>5. PartsInTurn' /\ NothingLeftBehind'
    BY <1>1, <1>5, <2>2
       DEF IInv, BuffersSuffice, PartsInTurn, NothingLeftBehind, frame
  <2>6. Heartbeats' = Heartbeats
    BY <1>1 DEF Heartbeats
  <2>7. AcksWhole'
    BY <1>1, <2>6 DEF IInv, AcksWhole
  <2> QED
    BY <2>4, <2>5, <2>7 DEF IInv, BuffersSuffice
<1> QED
  BY <1>1, <1>4, <1>5

\* A turn of eg_proto_parse's loop keeps every part within its buffer, and says COMPLETE
\* for a whole frame only.
LEMMA ParseStep ==
    ASSUME IInv, Parse
    PROVE  IInv'
<1>1. /\ pc = "parse" /\ UNCHANGED <<events, conn, epoll, peer, taken, acks, sent, frames>>
      /\ pc' = IF state' = "COMPLETE" THEN "frame" ELSE IF data' = <<>> THEN "recv" ELSE "parse"
  BY DEF Parse, ParseHeader, ParsePayload, ParseCrc
<1>2. /\ data \in Seq(Byte) /\ header_buf \in Seq(Byte) /\ payload_buf \in Seq(Byte)
      /\ crc_buf \in Seq(Byte) /\ Len(data) <= RecvCap /\ frames_error \in Nat
      /\ Len(header_buf) <= HeaderLen /\ Len(payload_buf) <= MaxPayload /\ Len(crc_buf) <= CrcLen
      /\ Len(data) \in Nat
  BY LenProperties DEF IInv, BuffersSuffice, TypeOK, ParserTypeOK
<1> DEFINE Fits == /\ data' \in Seq(Byte) /\ Len(data') <= RecvCap
                   /\ state' \in {"IDLE", "PAYLOAD", "CRC", "COMPLETE"}
                   /\ header_buf' \in Seq(Byte) /\ Len(header_buf') <= HeaderLen
                   /\ payload_buf' \in Seq(Byte) /\ Len(payload_buf') <= MaxPayload
                   /\ crc_buf' \in Seq(Byte) /\ Len(crc_buf') <= CrcLen
                   /\ frames_error' \in Nat
           Parts == /\ state' = "IDLE" => Len(header_buf') < HeaderLen /\ payload_buf' = <<>>
                    /\ state' # "IDLE" => Len(header_buf') = HeaderLen /\ HeaderValid(header_buf')
                    /\ state' = "PAYLOAD" => Len(payload_buf') <= payload_len(header_buf')
                    /\ state' \in {"CRC", "COMPLETE"} => Len(payload_buf') = payload_len(header_buf')
                    /\ state' \in {"IDLE", "PAYLOAD"} => crc_buf' = <<>>
                    /\ state' = "CRC" => Len(crc_buf') < CrcLen
<1>3. <<>> \in Seq(Byte) /\ Len(<<>>) = 0 /\ HeaderLen = 3 /\ CrcLen = 2 /\ MaxPayload \in Nat
  BY Constants
<1>4. ASSUME Reset, frames_error' = frames_error + 1, data' \in Seq(Byte), Len(data') <= Len(data)
      PROVE  Fits /\ Parts
  <2>1. Len(data') <= RecvCap
    <3>1. Len(data') \in Nat /\ RecvCap \in Nat
      BY <1>4, Constants, LenProperties
    <3> QED
      BY <1>2, <1>4, <3>1
  <2> QED
    BY <1>2, <1>3, <1>4, <2>1 DEF Reset
<1>5. \A q \in Seq(Byte) : Len(q) <= Len(data) => Len(q) <= RecvCap
  <2> TAKE q \in Seq(Byte)
  <2>1. Len(q) \in Nat /\ RecvCap \in Nat
    BY Constants, LenProperties
  <2> QED
    BY <1>2, <2>1
<1>6. ASSUME ParseHeader PROVE Fits /\ Parts
  <2> DEFINE header == Fill(header_buf, HeaderLen)
  <2>1. state = "IDLE" /\ payload_buf = <<>> /\ crc_buf = <<>>
    BY <1>6 DEF ParseHeader, IInv, BuffersSuffice, PartsInTurn
  <2>2. /\ header \in Seq(Byte) /\ Len(header) <= HeaderLen
        /\ data' \in Seq(Byte) /\ Len(data') <= Len(data)
    <3>1. HeaderLen \in Nat
      BY <1>3
    <3>2. data' = Rest(header_buf, HeaderLen)
      BY <1>6 DEF ParseHeader
    <3> QED
      BY <1>2, <3>1, <3>2, FillAndRest
  <2> HIDE DEF header
  <2>3. \/ /\ Len(header) < HeaderLen /\ header_buf' = header
           /\ UNCHANGED <<state, payload_buf, crc_buf, frames_error>>
        \/ /\ Len(header) = HeaderLen /\ HeaderValid(header) /\ header_buf' = header
           /\ state' = "PAYLOAD" /\ UNCHANGED <<payload_buf, crc_buf, frames_error>>
        \/ Reset /\ frames_error' = frames_error + 1
    BY <1>6 DEF ParseHeader, header
  <2>4. CASE Len(header) < HeaderLen /\ header_buf' = header
             /\ UNCHANGED <<state, payload_buf, crc_buf, frames_error>>
    BY <1>2, <1>3, <1>5, <2>1, <2>2, <2>4
  <2>5. CASE /\ Len(header) = HeaderLen /\ HeaderValid(header) /\ header_buf' = header
             /\ state' = "PAYLOAD" /\ UNCHANGED <<payload_buf, crc_buf, frames_error>>
    <3>1. header[3] \in Nat
      <4>1. 3 \in 1..Len(header)
        BY <1>3, <2>5
      <4> QED
        BY <2>2, <4>1, LenProperties, Constants
    <3>2. Len(payload_buf') <= payload_len(header)
      BY <1>3, <2>1, <2>5, <3>1 DEF payload_len
    <3> QED
      BY <1>2, <1>3, <1>5, <2>1, <2>2, <2>5, <3>2
  <2> QED
    BY <1>4, <2>2, <2>3, <2>4, <2>5
<1>7. ASSUME ParsePayload PROVE Fits /\ Parts
  <2> DEFINE n == payload_len(header_buf)
             payload == Fill(payload_buf, n)
  <2>1. /\ state = "PAYLOAD" /\ crc_buf = <<>> /\ Len(header_buf) = HeaderLen
        /\ HeaderValid(header_buf) /\ Len(payload_buf) <= n
    BY <1>7 DEF ParsePayload, IInv, BuffersSuffice, PartsInTurn
  <2>2. n \in Nat /\ n <= MaxPayload
    <3>1. 3 \in 1..Len(header_buf)
      BY <1>3, <2>1
    <3>2. header_buf[3] \in Byte
      BY <1>2, <3>1, LenProperties
    <3> QED
      BY <2>1, <3>2, Constants DEF payload_len, HeaderValid
  <2> HIDE DEF n
  <2>3. /\ payload \in Seq(Byte) /\ Len(payload) <= n
        /\ data' \in Seq(Byte) /\ Len(data') <= Len(data)
    <3>1. data' = Rest(payload_buf, n)
      BY <1>7 DEF ParsePayload, n
    <3> QED
      BY <1>2, <2>1, <2>2, <3>1, FillAndRest
  <2> HIDE DEF payload
  <2>4. /\ payload_buf' = payload /\ state' = IF Len(payload) = n THEN "CRC" ELSE "PAYLOAD"
        /\ UNCHANGED <<header_buf, crc_buf, frames_error>>
    BY <1>7 DEF ParsePayload, n, payload
  <2>5. Len(payload) <= MaxPayload
    BY <1>3, <2>2, <2>3, LenProperties
  <2>6. Fits
    BY <1>2, <1>3, <1>5, <2>3, <2>4, <2>5
  <2>7. Parts
    BY <1>3, <2>1, <2>3, <2>4 DEF n
  <2> QED
    BY <2>6, <2>7
<1>8. ASSUME ParseCrc PROVE Fits /\ Parts
  <2> DEFINE crc == Fill(crc_buf, CrcLen)
  <2>1. /\ state = "CRC" /\ Len(header_buf) = HeaderLen
        /\ HeaderValid(header_buf) /\ Len(payload_buf) = payload_len(header_buf)
    BY <1>8 DEF ParseCrc, IInv, BuffersSuffice, PartsInTurn
  <2>2. /\ crc \in Seq(Byte) /\ Len(crc) <= CrcLen
        /\ data' \in Seq(Byte) /\ Len(data') <= Len(data)
    <3>1. CrcLen \in Nat
      BY <1>3
    <3>2. data' = Rest(crc_buf, CrcLen)
      BY <1>8 DEF ParseCrc
    <3> QED
      BY <1>2, <3>1, <3>2, FillAndRest
  <2> HIDE DEF crc
  <2>3. \/ /\ Len(crc) < CrcLen /\ crc_buf' = crc
           /\ UNCHANGED <<state, header_buf, payload_buf, frames_error>>
        \/ /\ crc_buf' = crc /\ state' = "COMPLETE"
           /\ UNCHANGED <<header_buf, payload_buf, frames_error>>
        \/ Reset /\ frames_error' = frames_error + 1
    BY <1>8 DEF ParseCrc, crc
  <2>4. CASE /\ Len(crc) < CrcLen /\ crc_buf' = crc
             /\ UNCHANGED <<state, header_buf, payload_buf, frames_error>>
    BY <1>2, <1>5, <2>1, <2>2, <2>4
  <2>5. CASE /\ crc_buf' = crc /\ state' = "COMPLETE"
             /\ UNCHANGED <<header_buf, payload_buf, frames_error>>
    BY <1>2, <1>5, <2>1, <2>2, <2>5
  <2> QED
    BY <1>4, <2>2, <2>3, <2>4, <2>5
<1>9. Fits /\ Parts
  BY <1>6, <1>7, <1>8 DEF Parse
<1>10. TypeOK'
  <2>1. pc' \in {"frame", "recv", "parse"}
    BY <1>1
  <2> QED
    BY <1>1, <1>9, <2>1 DEF IInv, BuffersSuffice, TypeOK, ParserTypeOK, conn, epoll, peer
<1>11. PartsInTurn'
  BY <1>1, <1>9 DEF PartsInTurn
<1>12. NothingLeftBehind'
  BY <1>1 DEF NothingLeftBehind
<1>13. AcksWhole'
  <2>1. Heartbeats' = Heartbeats
    BY <1>1 DEF Heartbeats
  <2> QED
    BY <1>1, <2>1 DEF IInv, AcksWhole, conn
<1> QED
  BY <1>10, <1>11, <1>12, <1>13 DEF IInv, BuffersSuffice

\* A frame is handed over whole; an acknowledgement is built whole or not at all.
LEMMA HandleFrameStep ==
    ASSUME IInv, HandleFrame
    PROVE  IInv'
<1> DEFINE type == msg_type(header_buf)
           got  == [type |-> type, payload |-> payload_buf]
           ack  == type = Heartbeat /\ "send" \in have /\ SendCap - send_len >= AckLen
<1>1. /\ pc = "frame" /\ state = "COMPLETE" /\ frames' = Append(frames, got) /\ Reset
      /\ pc' = (IF data = <<>> THEN "recv" ELSE "parse")
      /\ UNCHANGED <<data, frames_error, events, have, send_pos, closing, epoll, peer, taken, sent>>
      /\ IF ack THEN send_len' = send_len + AckLen /\ acks' = acks + 1
                ELSE UNCHANGED <<send_len, acks>>
  BY DEF HandleFrame, GetFrame
<1>2. got \in [type : Byte, payload : Seq(Byte)]
  <2>1. header_buf \in Seq(Byte) /\ payload_buf \in Seq(Byte) /\ Len(header_buf) = 3
    BY <1>1, Constants DEF IInv, BuffersSuffice, TypeOK, ParserTypeOK, PartsInTurn
  <2>2. 2 \in 1..Len(header_buf)
    BY <2>1
  <2>3. header_buf[2] \in Byte
    BY <2>1, <2>2, LenProperties
  <2> QED
    BY <2>1, <2>3 DEF msg_type
<1> HIDE DEF got
<1>3. /\ frames \in Seq([type : Byte, payload : Seq(Byte)]) /\ acks \in Nat /\ sent \in Nat
      /\ send_len \in 0..SendCap /\ send_pos \in 0..send_len /\ data \in Seq(Byte)
  BY DEF IInv, BuffersSuffice, TypeOK, ParserTypeOK
<1>4. frames' \in Seq([type : Byte, payload : Seq(Byte)])
  BY <1>1, <1>2, <1>3, AppendProperties
<1>5. send_len' \in 0..SendCap /\ send_pos' \in 0..send_len' /\ acks' \in Nat
  BY <1>1, <1>3, Constants
<1>6. TypeOK'
  <2>1. <<>> \in Seq(Byte) /\ Len(<<>>) = 0
    OBVIOUS
  <2>2. pc' \in {"recv", "parse"}
    BY <1>1
  <2> QED
    BY <1>1, <1>4, <1>5, <2>1, <2>2, Constants
       DEF IInv, BuffersSuffice, TypeOK, ParserTypeOK, Reset, epoll, peer
<1>7. PartsInTurn' /\ NothingLeftBehind'
  <2>1. Len(<<>>) = 0
    OBVIOUS
  <2> QED
    BY <1>1, <2>1, Constants DEF PartsInTurn, NothingLeftBehind, Reset
<1>8. AcksWhole'
  <2>1. /\ sent + (send_len - send_pos) = AckLen * acks /\ acks <= Cardinality(Heartbeats)
    BY DEF IInv, AcksWhole
  <2>2. IsFiniteSet(Heartbeats) /\ Cardinality(Heartbeats) \in Nat
    BY <1>3, HeartbeatsFinite
  <2>3. /\ Len(frames) \in Nat /\ DOMAIN frames = 1..Len(frames)
        /\ DOMAIN frames' = 1..(Len(frames) + 1)
        /\ \A i \in 1..Len(frames) : frames'[i] = frames[i]
        /\ frames'[Len(frames) + 1].type = type
    <3>1. Len(frames) \in Nat /\ DOMAIN frames = 1..Len(frames)
      BY <1>3, LenProperties
    <3>2. Len(frames') = Len(frames) + 1 /\ \A i \in 1..Len(frames) : frames'[i] = frames[i]
      BY <1>1, <1>2, <1>3, AppendProperties
    <3>3. frames'[Len(frames) + 1] = got
      BY <1>1, <1>2, <1>3, AppendProperties
    <3>4. DOMAIN frames' = 1..Len(frames')
      BY <1>4, LenProperties
    <3> QED
      BY <3>1, <3>2, <3>3, <3>4 DEF got
  <2>4. CASE type = Heartbeat
    <3>1. Heartbeats' = Heartbeats \cup {Len(frames) + 1}
      <4>1. ASSUME NEW i \in 1..(Len(frames) + 1)
            PROVE  i \in Heartbeats' <=> i \in Heartbeats \/ i = Len(frames) + 1
        <5>1. CASE i = Len(frames) + 1
          BY <2>3, <2>4, <5>1 DEF Heartbeats
        <5>2. CASE i # Len(frames) + 1
          <6>1. i \in 1..Len(frames)
            BY <2>3, <5>2
          <6> QED
            BY <2>3, <5>2, <6>1 DEF Heartbeats
        <5> QED
          BY <5>1, <5>2
      <4>2. /\ Heartbeats' \subseteq 1..(Len(frames) + 1) /\ Heartbeats \subseteq 1..(Len(frames) + 1)
            /\ Len(frames) + 1 \in 1..(Len(frames) + 1)
        BY <2>3 DEF Heartbeats
      <4> QED
        BY <4>1, <4>2
    <3>2. Len(frames) + 1 \notin Heartbeats
      BY <2>3 DEF Heartbeats
    <3>3. Cardinality(Heartbeats') = Cardinality(Heartbeats) + 1
      BY <2>2, <3>1, <3>2, FS_AddElement
    <3>4. acks' <= Cardinality(Heartbeats')
      BY <1>1, <1>3, <2>1, <2>2, <3>3
    <3>5. sent' + (send_len' - send_pos') = AckLen * acks'
      <4>1. CASE ack
        <5>1. AckLen * (acks + 1) = AckLen * acks + AckLen
          BY <1>3, Constants
        <5> QED
          BY <1>1, <1>3, <2>1, <4>1, <5>1, Constants
      <4>2. CASE ~ack
        BY <1>1, <2>1, <4>2
      <4> QED
        BY <4>1, <4>2
    <3> QED
      BY <3>4, <3>5 DEF AcksWhole
  <2>5. CASE type # Heartbeat
    <3>1. Heartbeats' = Heartbeats
      <4>1. ASSUME NEW i \in 1..(Len(frames) + 1)
            PROVE  i \in Heartbeats' <=> i \in Heartbeats
        <5>1. CASE i = Len(frames) + 1
          BY <2>3, <2>5, <5>1 DEF Heartbeats
        <5>2. CASE i # Len(frames) + 1
          <6>1. i \in 1..Len(frames)
            BY <2>3, <5>2
          <6> QED
            BY <2>3, <6>1 DEF Heartbeats
        <5> QED
          BY <5>1, <5>2
      <4>2. Heartbeats' \subseteq 1..(Len(frames) + 1) /\ Heartbeats \subseteq 1..(Len(frames) + 1)
        BY <2>3 DEF Heartbeats
      <4> QED
        BY <4>1, <4>2
    <3> QED
      BY <1>1, <2>1, <2>5, <3>1 DEF AcksWhole
  <2> QED
    BY <2>4, <2>5
<1> QED
  BY <1>6, <1>7, <1>8 DEF IInv, BuffersSuffice

LEMMA CloseStep ==
    ASSUME IInv, Close
    PROVE  IInv'
<1> USE DEF Close, Reset
<1>1. <<>> \in Seq(Byte) /\ <<>> \in Seq([type : Byte, payload : Seq(Byte)]) /\ Len(<<>>) = 0
  OBVIOUS
<1>2. TypeOK'
  <2>1. closing' \in BOOLEAN /\ ready' \in BOOLEAN
    BY Zenon
  <2> QED
    BY <1>1, <2>1, Constants DEF TypeOK, ParserTypeOK
<1>3. PartsInTurn' /\ NothingLeftBehind'
  BY <1>1, Constants DEF PartsInTurn, NothingLeftBehind
<1>4. AcksWhole'
  <2>1. Heartbeats' = {}
    BY DEF Heartbeats
  <2>2. Cardinality(Heartbeats') = 0
    BY <2>1, FS_EmptySet
  <2> QED
    BY <2>2, Constants DEF AcksWhole
<1> QED
  BY <1>2, <1>3, <1>4 DEF IInv, BuffersSuffice

-----------------------------------------------------------------------------
(* All steps together. *)

LEMMA NextIInv ==
    ASSUME IInv, [Next]_vars
    PROVE  IInv'
<1>1. CASE Next
  BY <1>1, PeerSteps, AcceptStep, EpollWaitStep, RecvStep, ParseStep, HandleFrameStep, ArmStep,
     SendStep, StopSteps, CloseStep DEF Next, WorkerStep
<1>2. CASE UNCHANGED vars
  <2>1. UNCHANGED <<parser, worker, conn, epoll, peer, taken, acks, sent>>
    BY <1>2 DEF vars
  <2>2. TypeOK' /\ NothingLeftBehind'
    BY <2>1 DEF IInv, BuffersSuffice, TypeOK, ParserTypeOK, NothingLeftBehind, parser, frame,
                worker, conn, epoll, peer
  <2> QED
    BY <2>1, <2>2, ParserUntouched DEF worker, conn
<1> QED
  BY <1>1, <1>2

THEOREM Invariance == Spec => []IInv
<1>1. Init => IInv
  BY InitIInv
<1>2. IInv /\ [Next]_vars => IInv'
  BY NextIInv
<1> QED
  BY <1>1, <1>2, PTL DEF Spec

\* No buffer of a connection is written past its end, whatever the peer sends and in
\* whatever pieces, and recv always has room (BuffersSuffice).
THEOREM BuffersAlwaysSuffice == Spec => []BuffersSuffice
<1>1. IInv => BuffersSuffice
  BY DEF IInv
<1> QED
  BY <1>1, Invariance, PTL

\* Acknowledgements are sent whole and in order, none twice and none for nothing,
\* however little the kernel takes at a time (AcksWhole).
THEOREM AcksAreWhole == Spec => []AcksWhole
<1>1. IInv => AcksWhole
  BY DEF IInv
<1> QED
  BY <1>1, Invariance, PTL

\* handle_read closes a connection only when its peer left or there is no buffer to
\* receive into; in particular never because the buffer is full (ClosedForCause).
THEOREM ClosesForCause == Spec => ClosedForCause
<1>1. IInv /\ [Next]_vars => [closing' /\ ~closing => gone # "no" \/ "recv" \notin have]_vars
  <2> SUFFICES ASSUME IInv, Next, closing', ~closing, gone = "no", "recv" \in have
               PROVE  FALSE
    BY DEF vars
  <2>1. CASE \/ \E n \in 1..(Len(wire) - arrived) : Arrive(n)
             \/ \E how \in {"fin", "rst"} : Leave(how)
             \/ PeerReads
             \/ \E stream \in Streams, buffers \in Allocations : Accept(stream, buffers)
    BY <2>1 DEF Arrive, Leave, PeerReads, Accept, conn
  <2>2. CASE EpollWait \/ Parse \/ HandleFrame \/ Arm \/ Send \/ SendStops \/ SentAll \/ Done \/ Close
    BY <2>2 DEF EpollWait, Parse, HandleFrame, Arm, Send, SendStops, SentAll, Done, Close, conn
  <2>3. CASE Recv
    <3>1. data = <<>> /\ Len(data) = 0
      BY <2>3 DEF IInv, BuffersSuffice, NothingLeftBehind, Recv
    <3>2. arrived \in Nat /\ taken \in Nat /\ taken <= arrived
      BY LenProperties DEF IInv, BuffersSuffice, TypeOK
    <3>3. arrived > taken \/ RecvCap - Len(data) = 0
      BY <2>3 DEF Recv
    <3>4. arrived > taken
      BY <3>1, <3>3, Constants
    <3>5. Smaller(arrived - taken, RecvCap - Len(data)) > 0
      BY <3>1, <3>2, <3>4, Constants DEF Smaller
    <3> QED
      BY <2>3, <3>5 DEF Recv
  <2> QED
    BY <2>1, <2>2, <2>3 DEF Next, WorkerStep
<1>2. Spec => [][closing' /\ ~closing => gone # "no" \/ "recv" \notin have]_vars
  BY <1>1, Invariance, PTL DEF Spec
<1> QED
  BY <1>2 DEF ClosedForCause

-----------------------------------------------------------------------------
(* What a stream means: DecodedFrom is a recursive function, so its equation  *)
(* has to be proved before it can be used.                                    *)

Result == [frames : Seq([type : Byte, payload : Seq(Byte)]), errors : Nat]

Nothing == [frames |-> <<>>, errors |-> 0]

\* One turn of DecodedFrom at byte i, given what the stream means further on.
DecodedAt(stream, i, from) ==
    LET header == SubSeq(stream, i, i + HeaderLen - 1)
        n      == HeaderLen + payload_len(header) + CrcLen
        bytes  == SubSeq(stream, i, i + n - 1)
    IN  IF i + HeaderLen - 1 > Len(stream)
        THEN [frames |-> <<>>, errors |-> 0]
        ELSE IF ~HeaderValid(header)
        THEN [from[i + HeaderLen] EXCEPT !.errors = @ + 1]
        ELSE IF i + n - 1 > Len(stream)
        THEN [frames |-> <<>>, errors |-> 0]
        ELSE IF VerifyFrame(bytes)
        THEN [from[i + n] EXCEPT
                 !.frames = <<[type    |-> msg_type(header),
                               payload |-> SubSeq(bytes, HeaderLen + 1,
                                                  n - CrcLen)]>> \o @]
        ELSE [from[i + n] EXCEPT !.errors = @ + 1]

LEMMA DecodedFromChosen ==
    ASSUME NEW stream
    PROVE  DecodedFrom(stream) =
               CHOOSE f : f = [i \in 1..(Len(stream) + 1) |-> DecodedAt(stream, i, f)]
BY DEF DecodedFrom, DecodedAt

\* A sequence of bytes cut out of a stream.
LEMMA PieceOf ==
    ASSUME NEW s \in Seq(Byte), NEW a \in Nat \ {0}, NEW b \in Nat, a <= b + 1, b <= Len(s)
    PROVE  /\ SubSeq(s, a, b) \in Seq(Byte)
           /\ Len(SubSeq(s, a, b)) = b - a + 1
           /\ \A i \in 1..(b - a + 1) : SubSeq(s, a, b)[i] = s[a + i - 1]
<1>1. /\ Len(s) \in Nat /\ DOMAIN s = 1..Len(s) /\ \A i \in 1..Len(s) : s[i] \in Byte
  BY LenProperties
<1>2. \A i \in a..b : s[i] \in Byte
  <2>1. a..b \subseteq 1..Len(s)
    BY <1>1
  <2> QED
    BY <1>1, <2>1
<1>3. a \in Int /\ b \in Int /\ b - a + 1 \in Nat
  OBVIOUS
<1>4. /\ SubSeq(s, a, b) \in Seq(Byte)
      /\ Len(SubSeq(s, a, b)) = IF a <= b THEN b - a + 1 ELSE 0
      /\ \A i \in 1..(b - a + 1) : SubSeq(s, a, b)[i] = s[a + i - 1]
  BY <1>2, <1>3, SubSeqProperties
<1> QED
  BY <1>3, <1>4

\* What DecodedAt looks at lies within the stream, and it goes on further to the right.
LEMMA HeaderAt ==
    ASSUME NEW s \in Seq(Byte), NEW i \in 1..(Len(s) + 1), i + HeaderLen - 1 <= Len(s)
    PROVE  LET header == SubSeq(s, i, i + HeaderLen - 1)
               n      == HeaderLen + payload_len(header) + CrcLen
           IN  /\ header \in Seq(Byte) /\ Len(header) = HeaderLen
               /\ msg_type(header) \in Byte /\ payload_len(header) \in Nat
               /\ i + HeaderLen \in (i + 1)..(Len(s) + 1)
               /\ n \in Nat /\ n - CrcLen \in Nat /\ n - CrcLen >= HeaderLen
               /\ i + n - 1 <= Len(s) => i + n \in (i + 1)..(Len(s) + 1)
<1> DEFINE header == SubSeq(s, i, i + HeaderLen - 1)
<1>1. i \in Nat \ {0} /\ i + HeaderLen - 1 \in Nat /\ Len(s) \in Nat
  BY Constants, LenProperties
<1>2. /\ header \in Seq(Byte) /\ Len(header) = HeaderLen
  <2>1. i <= i + HeaderLen - 1 + 1 /\ i + HeaderLen - 1 - i + 1 = HeaderLen
    BY <1>1, Constants
  <2>2. ASSUME NEW b \in Nat, b = i + HeaderLen - 1
        PROVE  SubSeq(s, i, b) \in Seq(Byte) /\ Len(SubSeq(s, i, b)) = b - i + 1
    BY <1>1, <2>1, <2>2, PieceOf
  <2>3. PICK b \in Nat : b = i + HeaderLen - 1
    BY <1>1
  <2>4. header = SubSeq(s, i, b)
    BY <2>3
  <2>5. b - i + 1 = HeaderLen
    BY <1>1, <2>3, Constants
  <2> QED
    BY <2>2, <2>3, <2>4, <2>5
<1> HIDE DEF header
<1>3. header[1] \in Byte /\ header[2] \in Byte /\ header[3] \in Byte
  <2>1. \A k \in 1..Len(header) : header[k] \in Byte
    BY <1>2, LenProperties
  <2> QED
    BY <1>2, <2>1, Constants
<1>4. msg_type(header) \in Byte /\ payload_len(header) \in Nat
  BY <1>3, Constants DEF msg_type, payload_len
<1> QED
  BY <1>1, <1>2, <1>4, Constants DEF header

\* The bytes of a whole frame.
LEMMA FrameAt ==
    ASSUME NEW s \in Seq(Byte), NEW i \in Nat \ {0}, NEW n \in Nat, n - CrcLen >= HeaderLen,
           i + n - 1 <= Len(s)
    PROVE  LET bytes == SubSeq(s, i, i + n - 1)
           IN  /\ bytes \in Seq(Byte) /\ Len(bytes) = n
               /\ \A k \in 1..n : bytes[k] = s[i + k - 1]
               /\ SubSeq(bytes, HeaderLen + 1, n - CrcLen) \in Seq(Byte)
<1> DEFINE bytes == SubSeq(s, i, i + n - 1)
<1>1. bytes \in Seq(Byte) /\ Len(bytes) = n /\ \A k \in 1..n : bytes[k] = s[i + k - 1]
  <2>1. i <= i + n - 1 + 1 /\ i + n - 1 - i + 1 = n /\ i + n - 1 \in Nat
    BY Constants
  <2>2. ASSUME NEW b \in Nat, b = i + n - 1
        PROVE  /\ SubSeq(s, i, b) \in Seq(Byte) /\ Len(SubSeq(s, i, b)) = b - i + 1
               /\ \A k \in 1..(b - i + 1) : SubSeq(s, i, b)[k] = s[i + k - 1]
    BY <2>1, <2>2, PieceOf
  <2> QED
    BY <2>1, <2>2
<1> HIDE DEF bytes
<1>2. SubSeq(bytes, HeaderLen + 1, n - CrcLen) \in Seq(Byte)
  <2>1. HeaderLen + 1 \in Nat \ {0} /\ n - CrcLen \in Nat /\ HeaderLen + 1 <= n - CrcLen + 1
        /\ n - CrcLen <= n
    BY Constants
  <2>2. ASSUME NEW a \in Nat \ {0}, NEW b \in Nat, a = HeaderLen + 1, b = n - CrcLen
        PROVE  SubSeq(bytes, a, b) \in Seq(Byte)
    BY <1>1, <2>1, <2>2, PieceOf
  <2> QED
    BY <2>1, <2>2
<1> QED
  BY <1>1, <1>2 DEF bytes

\* DecodedAt depends on what comes further on only, and gives a result if that does.
LEMMA DecodedAtType ==
    ASSUME NEW s \in Seq(Byte), NEW i \in 1..(Len(s) + 1), NEW f,
           \A j \in (i + 1)..(Len(s) + 1) : f[j] \in Result
    PROVE  DecodedAt(s, i, f) \in Result
<1> DEFINE header == SubSeq(s, i, i + HeaderLen - 1)
           n      == HeaderLen + payload_len(header) + CrcLen
           bytes  == SubSeq(s, i, i + n - 1)
           one    == [type |-> msg_type(header), payload |-> SubSeq(bytes, HeaderLen + 1, n - CrcLen)]
<1>1. Nothing \in Result
  BY DEF Nothing, Result
<1>2. ASSUME NEW r \in Result
      PROVE  [r EXCEPT !.errors = @ + 1] \in Result
  <2>1. r.errors + 1 \in Nat
    BY DEF Result
  <2> QED
    BY <2>1 DEF Result
<1>3. ASSUME NEW r \in Result, NEW x \in [type : Byte, payload : Seq(Byte)]
      PROVE  [r EXCEPT !.frames = <<x>> \o @] \in Result
  <2>1. <<x>> \o r.frames \in Seq([type : Byte, payload : Seq(Byte)])
    BY ConcatProperties DEF Result
  <2> QED
    BY <2>1 DEF Result
<1>4. CASE i + HeaderLen - 1 > Len(s)
  BY <1>1, <1>4 DEF DecodedAt, Nothing
<1>5. CASE ~(i + HeaderLen - 1 > Len(s))
  <2>1. i + HeaderLen - 1 <= Len(s)
    BY <1>5, Constants, LenProperties
  <2>2. /\ msg_type(header) \in Byte
        /\ i + HeaderLen \in (i + 1)..(Len(s) + 1)
        /\ n \in Nat /\ n - CrcLen >= HeaderLen
        /\ i + n - 1 <= Len(s) => i + n \in (i + 1)..(Len(s) + 1)
    BY <2>1, HeaderAt
  <2>3. i \in Nat \ {0} /\ Len(s) \in Nat
    BY LenProperties
  <2> HIDE DEF header, n
  <2>4. ASSUME ~(i + n - 1 > Len(s))
        PROVE  i + n \in (i + 1)..(Len(s) + 1) /\ one \in [type : Byte, payload : Seq(Byte)]
    <3>1. i + n - 1 <= Len(s)
      BY <2>2, <2>3, <2>4
    <3> QED
      BY <2>2, <2>3, <3>1, FrameAt
  <2> HIDE DEF bytes, one
  <2>5. DecodedAt(s, i, f) =
            IF ~HeaderValid(header) THEN [f[i + HeaderLen] EXCEPT !.errors = @ + 1]
            ELSE IF i + n - 1 > Len(s) THEN Nothing
            ELSE IF VerifyFrame(bytes) THEN [f[i + n] EXCEPT !.frames = <<one>> \o @]
            ELSE [f[i + n] EXCEPT !.errors = @ + 1]
    BY <1>5 DEF DecodedAt, Nothing, header, n, bytes, one
  <2>6. [f[i + HeaderLen] EXCEPT !.errors = @ + 1] \in Result
    BY <1>2, <2>2
  <2>7. ASSUME ~(i + n - 1 > Len(s))
        PROVE  /\ [f[i + n] EXCEPT !.errors = @ + 1] \in Result
               /\ [f[i + n] EXCEPT !.frames = <<one>> \o @] \in Result
    BY <1>2, <1>3, <2>4, <2>7
  <2> QED
    BY <1>1, <2>5, <2>6, <2>7
<1> QED
  BY <1>4, <1>5

LEMMA DecodedAtLocal ==
    ASSUME NEW s \in Seq(Byte), NEW i \in 1..(Len(s) + 1), NEW f, NEW g,
           \A j \in (i + 1)..(Len(s) + 1) : f[j] = g[j]
    PROVE  DecodedAt(s, i, f) = DecodedAt(s, i, g)
<1> DEFINE header == SubSeq(s, i, i + HeaderLen - 1)
           n      == HeaderLen + payload_len(header) + CrcLen
<1>1. CASE i + HeaderLen - 1 > Len(s)
  BY <1>1 DEF DecodedAt
<1>2. CASE ~(i + HeaderLen - 1 > Len(s))
  <2>1. i + HeaderLen - 1 <= Len(s)
    BY <1>2, Constants, LenProperties
  <2>2. /\ i + HeaderLen \in (i + 1)..(Len(s) + 1) /\ n \in Nat
        /\ i + n - 1 <= Len(s) => i + n \in (i + 1)..(Len(s) + 1)
    BY <2>1, HeaderAt
  <2>3. i \in Nat /\ Len(s) \in Nat
    BY LenProperties
  <2> HIDE DEF header, n
  <2>4. f[i + HeaderLen] = g[i + HeaderLen]
    BY <2>2
  <2>5. CASE i + n - 1 > Len(s)
    BY <1>2, <2>4, <2>5 DEF DecodedAt, header, n
  <2>6. CASE ~(i + n - 1 > Len(s))
    <3>1. f[i + n] = g[i + n]
      BY <2>2, <2>3, <2>6
    <3> QED
      BY <1>2, <2>4, <2>6, <3>1 DEF DecodedAt, header, n
  <2> QED
    BY <2>5, <2>6
<1> QED
  BY <1>1, <1>2

\* The induction over the stream, as a least counterexample.
LEMMA Least ==
    ASSUME NEW T \in SUBSET Nat, T # {}
    PROVE  \E x \in T : \A y \in T : x <= y
<1> DEFINE R == {ss \in Nat \X Nat : ss[1] < ss[2]}
<1>1. IsWellFoundedOn(R, Nat)
  BY NatLessThanWellFounded DEF OpToRel
<1> HIDE DEF R
<1>2. \E x \in T : \A y \in T : ~(<<y, x>> \in R)
  BY <1>1, WFMin
<1>3. PICK x \in T : \A y \in T : ~(<<y, x>> \in R)
  BY <1>2
<1>4. ASSUME NEW y \in T
      PROVE  x <= y
  <2>1. x \in Nat /\ y \in Nat /\ ~(<<y, x>> \in R)
    BY <1>3
  <2>2. ~(y < x)
    BY <2>1 DEF R
  <2> QED
    BY <2>1, <2>2
<1> QED
  BY <1>4

\* The equation of DecodedFrom has a solution: built from the end of the stream.
LEMMA DecodingExists ==
    ASSUME NEW s \in Seq(Byte)
    PROVE  \E f : f = [i \in 1..(Len(s) + 1) |-> DecodedAt(s, i, f)]
<1> DEFINE D       == 1..(Len(s) + 1)
           Upto(k) == \E f : /\ f = [i \in D |-> f[i]]
                             /\ \A i \in D : i > k => f[i] = DecodedAt(s, i, f)
           K       == {k \in 0..(Len(s) + 1) : Upto(k)}
<1>1. Len(s) \in Nat
  BY LenProperties
<1>2. Len(s) + 1 \in K
  <2> DEFINE f == [i \in D |-> Nothing]
  <2>1. f = [i \in D |-> f[i]]
    OBVIOUS
  <2>2. \A i \in D : ~(i > Len(s) + 1)
    BY <1>1
  <2> HIDE DEF f
  <2>3. Upto(Len(s) + 1)
    BY <2>1, <2>2
  <2> QED
    BY <1>1, <2>3
<1>3. PICK k \in K : \A y \in K : k <= y
  <2>1. K \in SUBSET Nat /\ K # {}
    BY <1>1, <1>2
  <2> QED
    BY <2>1, Least
<1>4. PICK f : /\ f = [i \in D |-> f[i]]
               /\ \A i \in D : i > k => f[i] = DecodedAt(s, i, f)
  BY <1>3
<1>5. ASSUME k # 0
      PROVE  FALSE
  <2> DEFINE g == [i \in D |-> IF i = k THEN DecodedAt(s, k, f) ELSE f[i]]
  <2>1. k \in D /\ k \in Nat
    BY <1>1, <1>3, <1>5
  <2>2. g = [i \in D |-> g[i]]
    OBVIOUS
  <2>3. \A i \in D : g[i] = IF i = k THEN DecodedAt(s, k, f) ELSE f[i]
    OBVIOUS
  <2> HIDE DEF g
  <2>4. ASSUME NEW i \in D, i > k - 1
        PROVE  g[i] = DecodedAt(s, i, g)
    <3>1. i >= k
      BY <1>1, <2>1, <2>4
    <3>2. \A j \in (i + 1)..(Len(s) + 1) : g[j] = f[j]
      BY <1>1, <2>1, <2>3, <3>1
    <3>3. DecodedAt(s, i, g) = DecodedAt(s, i, f)
      BY <3>2, DecodedAtLocal
    <3>4. CASE i = k
      BY <2>3, <3>3, <3>4
    <3>5. CASE i # k
      <4>1. i > k
        BY <1>1, <2>1, <3>1, <3>5
      <4> QED
        BY <1>4, <2>3, <3>3, <3>5, <4>1
    <3> QED
      BY <3>4, <3>5
  <2>5. Upto(k - 1)
    BY <2>2, <2>4
  <2>6. k - 1 \in K
    BY <1>1, <2>1, <2>5
  <2> QED
    BY <1>3, <2>1, <2>6
<1>6. \A i \in D : f[i] = DecodedAt(s, i, f)
  <2>1. \A i \in D : i > 0
    BY <1>1
  <2> QED
    BY <1>4, <1>5, <2>1
<1>7. f = [i \in D |-> DecodedAt(s, i, f)]
  BY <1>4, <1>6
<1> QED
  BY <1>7

\* What DecodedFrom says of each byte of the stream.
LEMMA Decoding ==
    ASSUME NEW s \in Seq(Byte), NEW i \in 1..(Len(s) + 1)
    PROVE  /\ DecodedFrom(s)[i] = DecodedAt(s, i, DecodedFrom(s))
           /\ DecodedFrom(s)[i] \in Result
<1> DEFINE D == 1..(Len(s) + 1)
           d == DecodedFrom(s)
<1>1. Len(s) \in Nat
  BY LenProperties
<1>2. d = [j \in D |-> DecodedAt(s, j, d)]
  BY DecodedFromChosen, DecodingExists
<1> HIDE DEF d
<1>3. \A j \in D : d[j] = DecodedAt(s, j, d)
  BY <1>2
<1> DEFINE Bad == {k \in Nat : \E j \in D : k = Len(s) + 1 - j /\ d[j] \notin Result}
<1>4. ASSUME Bad # {}
      PROVE  FALSE
  <2>1. PICK k \in Bad : \A y \in Bad : k <= y
    <3>1. Bad \in SUBSET Nat
      OBVIOUS
    <3> QED
      BY <1>4, <3>1, Least
  <2>2. PICK j \in D : k = Len(s) + 1 - j /\ d[j] \notin Result
    BY <2>1
  <2>3. ASSUME NEW l \in (j + 1)..(Len(s) + 1), d[l] \notin Result
        PROVE  FALSE
    <3>1. l \in D /\ Len(s) + 1 - l \in Nat /\ Len(s) + 1 - l < k
      BY <1>1, <2>2
    <3>2. Len(s) + 1 - l \in Bad
      BY <2>3, <3>1
    <3> HIDE DEF Bad
    <3>3. k <= Len(s) + 1 - l /\ k \in Nat
      BY <1>1, <2>1, <2>2, <3>2
    <3> QED
      BY <1>1, <3>1, <3>3
  <2>4. DecodedAt(s, j, d) \in Result
    BY <2>3, DecodedAtType
  <2> QED
    BY <1>3, <2>2, <2>4
<1>5. \A j \in D : d[j] \in Result
  <2>1. ASSUME NEW j \in D, d[j] \notin Result
        PROVE  FALSE
    <3>1. Len(s) + 1 - j \in Nat
      BY <1>1
    <3>2. Len(s) + 1 - j \in Bad
      BY <2>1, <3>1
    <3> QED
      BY <1>4, <3>2
  <2> QED
    BY <2>1
<1> QED
  BY <1>3, <1>5 DEF d

\* Where the stream agrees with a sequence of bytes, it holds that sequence.
LEMMA StretchOf ==
    ASSUME NEW s \in Seq(Byte), NEW i \in Nat \ {0}, NEW h \in Seq(Byte),
           i + Len(h) - 1 <= Len(s), \A k \in 1..Len(h) : s[i + k - 1] = h[k]
    PROVE  SubSeq(s, i, i + Len(h) - 1) = h
<1>1. Len(h) \in Nat /\ Len(s) \in Nat /\ i + Len(h) - 1 \in Nat
  BY LenProperties
<1>2. PICK b \in Nat : b = i + Len(h) - 1
  BY <1>1
<1>3. b - i + 1 = Len(h) /\ i <= b + 1 /\ b <= Len(s)
  BY <1>1, <1>2
<1>4. /\ SubSeq(s, i, b) \in Seq(Byte) /\ Len(SubSeq(s, i, b)) = b - i + 1
      /\ \A k \in 1..(b - i + 1) : SubSeq(s, i, b)[k] = s[i + k - 1]
  BY <1>3, PieceOf
<1>5. SubSeq(s, i, b) = h
  BY <1>3, <1>4, SeqEqual
<1> QED
  BY <1>2, <1>5

LEMMA TwoParts ==
    ASSUME NEW a \in Seq(Byte), NEW b \in Seq(Byte)
    PROVE  /\ a \o b \in Seq(Byte) /\ Len(a \o b) = Len(a) + Len(b)
           /\ \A k \in 1..Len(a) : (a \o b)[k] = a[k]
           /\ \A k \in 1..Len(b) : (a \o b)[Len(a) + k] = b[k]
<1>1. Len(a) \in Nat /\ Len(b) \in Nat
  BY LenProperties
<1>2. /\ a \o b \in Seq(Byte) /\ Len(a \o b) = Len(a) + Len(b)
      /\ \A k \in 1..(Len(a) + Len(b)) :
             (a \o b)[k] = IF k <= Len(a) THEN a[k] ELSE b[k - Len(a)]
  BY ConcatProperties
<1> QED
  BY <1>1, <1>2

\* The three facts on DecodedAt that the parser needs: a header that is not valid,
\* a frame, and the rest of a stream that is neither.
\* s has the header h at its byte i.
HeaderIn(s, i, h) ==
    /\ s \in Seq(Byte) /\ i \in Nat \ {0} /\ i + HeaderLen - 1 <= Len(s)
    /\ h \in Seq(Byte) /\ Len(h) = HeaderLen
    /\ \A k \in 1..HeaderLen : s[i + k - 1] = h[k]

LEMMA InvalidHeader ==
    ASSUME NEW s, NEW i, NEW h, NEW f, HeaderIn(s, i, h), ~HeaderValid(h)
    PROVE  DecodedAt(s, i, f) = [f[i + HeaderLen] EXCEPT !.errors = @ + 1]
<1>1. SubSeq(s, i, i + HeaderLen - 1) = h
  BY StretchOf DEF HeaderIn
<1>2. ~(i + HeaderLen - 1 > Len(s))
  BY Constants, LenProperties DEF HeaderIn
<1> QED
  BY <1>1, <1>2 DEF DecodedAt

LEMMA ShortRest ==
    ASSUME NEW s \in Seq(Byte), NEW i \in Nat \ {0}, NEW h \in Seq(Byte), NEW f,
           \/ i + HeaderLen - 1 > Len(s)
           \/ /\ Len(h) = HeaderLen /\ HeaderValid(h)
              /\ \A k \in 1..HeaderLen : s[i + k - 1] = h[k]
              /\ i + HeaderLen + payload_len(h) + CrcLen - 1 > Len(s)
    PROVE  DecodedAt(s, i, f) = Nothing
<1>1. CASE i + HeaderLen - 1 > Len(s)
  BY <1>1 DEF DecodedAt, Nothing
<1>2. CASE ~(i + HeaderLen - 1 > Len(s))
  <2>1. i + HeaderLen - 1 <= Len(s) /\ Len(s) \in Nat
    BY <1>2, Constants, LenProperties
  <2>2. SubSeq(s, i, i + HeaderLen - 1) = h
    BY <1>2, <2>1, StretchOf
  <2>3. h[3] \in Nat
    <3>1. Len(h) = 3 /\ \A k \in 1..Len(h) : h[k] \in Byte
      BY <1>2, Constants, LenProperties
    <3>2. 3 \in 1..Len(h)
      BY <3>1
    <3>3. h[3] \in Byte
      BY <3>1, <3>2
    <3> QED
      BY <3>3, Constants
  <2>4. i + (HeaderLen + payload_len(h) + CrcLen) - 1 > Len(s)
    BY <1>2, <2>1, <2>3, Constants DEF payload_len
  <2> QED
    BY <1>2, <2>2, <2>4 DEF DecodedAt, Nothing
<1> QED
  BY <1>1, <1>2

\* s has the frame of header h, payload p and checksum c at its byte i, n bytes long.
FrameIn(s, i, h, p, c, n) ==
    /\ s \in Seq(Byte) /\ i \in Nat \ {0} /\ i + n - 1 <= Len(s)
    /\ h \in Seq(Byte) /\ Len(h) = HeaderLen /\ HeaderValid(h)
    /\ p \in Seq(Byte) /\ Len(p) = payload_len(h)
    /\ c \in Seq(Byte) /\ Len(c) = CrcLen
    /\ n \in Nat /\ n = HeaderLen + Len(p) + CrcLen
    /\ \A k \in 1..n : s[i + k - 1] = (h \o p \o c)[k]

LEMMA WholeFrame ==
    ASSUME NEW s, NEW i, NEW f, NEW h, NEW p, NEW c, NEW n, FrameIn(s, i, h, p, c, n)
    PROVE  DecodedAt(s, i, f) =
               IF c = Crc(h \o p)
               THEN [f[i + n] EXCEPT
                        !.frames = <<[type |-> msg_type(h), payload |-> p]>> \o @]
               ELSE [f[i + n] EXCEPT !.errors = @ + 1]
<1> DEFINE body  == h \o p
           bytes == body \o c
<1>01. /\ s \in Seq(Byte) /\ i \in Nat \ {0} /\ i + n - 1 <= Len(s)
       /\ h \in Seq(Byte) /\ Len(h) = HeaderLen /\ HeaderValid(h)
       /\ p \in Seq(Byte) /\ Len(p) = payload_len(h)
       /\ c \in Seq(Byte) /\ Len(c) = CrcLen
       /\ n \in Nat /\ n = HeaderLen + Len(p) + CrcLen
  BY DEF FrameIn
<1>0. Len(s) \in Nat /\ Len(p) \in Nat /\ HeaderLen \in Nat /\ CrcLen \in Nat
  BY <1>01, Constants, LenProperties
<1>1. /\ body \in Seq(Byte) /\ Len(body) = HeaderLen + Len(p)
      /\ \A k \in 1..HeaderLen : body[k] = h[k]
      /\ \A k \in 1..Len(p) : body[HeaderLen + k] = p[k]
  <2>1. /\ body \in Seq(Byte) /\ Len(body) = Len(h) + Len(p)
        /\ \A k \in 1..Len(h) : body[k] = h[k]
        /\ \A k \in 1..Len(p) : body[Len(h) + k] = p[k]
    BY <1>01, TwoParts
  <2> HIDE DEF body
  <2> QED
    BY <1>01, <2>1
<1> HIDE DEF body
<1>2. /\ bytes \in Seq(Byte) /\ Len(bytes) = n
      /\ \A k \in 1..(HeaderLen + Len(p)) : bytes[k] = body[k]
      /\ \A k \in 1..CrcLen : bytes[HeaderLen + Len(p) + k] = c[k]
  <2>1. /\ bytes \in Seq(Byte) /\ Len(bytes) = Len(body) + Len(c)
        /\ \A k \in 1..Len(body) : bytes[k] = body[k]
        /\ \A k \in 1..Len(c) : bytes[Len(body) + k] = c[k]
    BY <1>01, <1>1, TwoParts
  <2> HIDE DEF bytes
  <2> QED
    BY <1>0, <1>01, <1>1, <2>1
<1> HIDE DEF bytes
<1>3. /\ \A k \in 1..HeaderLen : bytes[k] = h[k]
      /\ \A k \in 1..Len(p) : bytes[HeaderLen + k] = p[k]
  <2>1. 1..HeaderLen \subseteq 1..(HeaderLen + Len(p))
    BY <1>0, <1>01
  <2>2. \A k \in 1..Len(p) : HeaderLen + k \in 1..(HeaderLen + Len(p))
    BY <1>0, <1>01
  <2> QED
    BY <1>01, <1>1, <1>2, <2>1, <2>2
<1>31. \A k \in 1..n : s[i + k - 1] = bytes[k]
  BY DEF bytes, body, FrameIn
<1>4. SubSeq(s, i, i + n - 1) = bytes
  BY <1>01, <1>2, <1>31, StretchOf, SMTT(30)
<1>5. SubSeq(s, i, i + HeaderLen - 1) = h
  <2>1. \A k \in 1..HeaderLen : s[i + k - 1] = h[k]
    <3>1. 1..HeaderLen \subseteq 1..n
      BY <1>0, <1>01
    <3> QED
      BY <1>3, <1>31, <3>1
  <2>2. i + Len(h) - 1 <= Len(s)
    BY <1>0, <1>01, SMTT(30)
  <2> QED
    BY <1>01, <2>1, <2>2, StretchOf
<1>02. /\ Len(body) = HeaderLen + Len(p) /\ Len(bytes) = n /\ Len(c) = CrcLen
       /\ n = HeaderLen + Len(p) + CrcLen
  BY <1>01, <1>1, <1>2
<1>6. SubSeq(bytes, 1, n - CrcLen) = body
  <2>1. \A k \in 1..Len(body) : bytes[1 + k - 1] = body[k]
    BY <1>0, <1>01, <1>1, <1>2
  <2>2. 1 + Len(body) - 1 <= Len(bytes) /\ 1 + Len(body) - 1 = n - CrcLen
    BY <1>0, <1>02
  <2>3. SubSeq(bytes, 1, 1 + Len(body) - 1) = body
    <3>1. 1 \in Nat \ {0} /\ bytes \in Seq(Byte) /\ body \in Seq(Byte)
      BY <1>1, <1>2
    <3> QED
      BY <2>1, <2>2, <3>1, StretchOf
  <2> QED
    BY <2>2, <2>3
<1>7. SubSeq(bytes, HeaderLen + 1, n - CrcLen) = p
  <2>1. \A k \in 1..Len(p) : bytes[HeaderLen + 1 + k - 1] = p[k]
    BY <1>0, <1>01, <1>3, SMTT(30)
  <2>2. /\ HeaderLen + 1 + Len(p) - 1 <= Len(bytes) /\ HeaderLen + 1 + Len(p) - 1 = n - CrcLen
        /\ HeaderLen + 1 \in Nat \ {0}
    BY <1>0, <1>02
  <2>3. ASSUME NEW a \in Nat \ {0}, a = HeaderLen + 1
        PROVE  SubSeq(bytes, a, a + Len(p) - 1) = p
    BY <1>01, <1>2, <2>1, <2>2, <2>3, StretchOf
  <2> QED
    BY <2>2, <2>3
<1>8. SubSeq(bytes, n - CrcLen + 1, n) = c
  <2>1. n - CrcLen + 1 \in Nat \ {0} /\ n - CrcLen = HeaderLen + Len(p)
    BY <1>0, <1>02
  <2>2. \A k \in 1..Len(c) : bytes[(n - CrcLen + 1) + k - 1] = c[k]
    <3>1. \A k \in 1..CrcLen : (n - CrcLen + 1) + k - 1 = HeaderLen + Len(p) + k
      BY <1>0, <1>01, <2>1
    <3> QED
      BY <1>01, <1>2, <3>1
  <2>3. (n - CrcLen + 1) + Len(c) - 1 <= Len(bytes) /\ (n - CrcLen + 1) + Len(c) - 1 = n
    BY <1>0, <1>02
  <2>4. ASSUME NEW a \in Nat \ {0}, a = n - CrcLen + 1
        PROVE  SubSeq(bytes, a, a + Len(c) - 1) = c
    BY <1>01, <1>2, <2>2, <2>3, <2>4, StretchOf
  <2> QED
    BY <2>1, <2>3, <2>4
<1>9. VerifyFrame(bytes) <=> c = Crc(body)
  <2>1. bytes[1] = h[1] /\ bytes[3] = h[3]
    BY <1>3, Constants
  <2>2. magic(bytes) = Magic /\ payload_len(bytes) = payload_len(h)
    BY <1>01, <2>1 DEF magic, payload_len, HeaderValid
  <2>3. Len(bytes) >= HeaderLen + CrcLen
    BY <1>0, <1>01, <1>2
  <2> QED
    BY <1>01, <1>2, <1>6, <1>8, <2>2, <2>3 DEF VerifyFrame
<1>10. ~(i + HeaderLen - 1 > Len(s)) /\ ~(i + n - 1 > Len(s))
  BY <1>0, <1>01
<1>11. n = HeaderLen + payload_len(h) + CrcLen
  BY <1>01
<1> QED
  BY <1>01, <1>4, <1>5, <1>7, <1>9, <1>10, <1>11 DEF DecodedAt, body

-----------------------------------------------------------------------------
(* The parser and the stream: what has been taken of a frame is the stretch of *)
(* the stream that ends where the parser is, data is what follows it, and what *)
(* has been handed out and counted stands for everything before it.            *)

part  == header_buf \o payload_buf \o crc_buf
start == consumed - Len(part) + 1

Fresh ==
    /\ data = <<>> /\ frames = <<>> /\ frames_error = 0 /\ state = "IDLE"
    /\ header_buf = <<>> /\ payload_buf = <<>> /\ crc_buf = <<>>
    /\ taken = 0

PartsOfStream ==
    /\ pc = "free" => Fresh /\ wire = <<>>
    /\ consumed \in Nat /\ start \in 1..(consumed + 1)
    /\ \A i \in 1..Len(data) : data[i] = wire[consumed + i]
    /\ \A i \in 1..Len(part) : part[i] = wire[start + i - 1]
    /\ state = "COMPLETE" => Len(crc_buf) = CrcLen /\ crc_buf = Crc(header_buf \o payload_buf)

\* Said of every prefix of the stream that holds what has been taken, so that it
\* need not be compared with a longer one.
SoFar ==
    \A m \in consumed..Len(wire) :
        LET d == DecodedFrom(SubSeq(wire, 1, m))
        IN  /\ d[1].frames = frames \o d[start].frames
            /\ d[1].errors = frames_error + d[start].errors

DecodingInv == PartsOfStream /\ SoFar

\* The shapes of the parser's parts, and the place of data in the stream.
LEMMA Shapes ==
    ASSUME IInv, PartsOfStream
    PROVE  /\ data \in Seq(Byte) /\ wire \in Seq(Byte) /\ Len(data) \in Nat /\ Len(wire) \in Nat
           /\ header_buf \in Seq(Byte) /\ payload_buf \in Seq(Byte) /\ crc_buf \in Seq(Byte)
           /\ part \in Seq(Byte)
           /\ Len(part) = Len(header_buf) + Len(payload_buf) + Len(crc_buf) /\ Len(part) \in Nat
           /\ taken \in Nat /\ taken <= Len(wire) /\ consumed \in Nat
           /\ consumed + Len(data) = taken /\ start + Len(part) = consumed + 1
           /\ start \in Nat \ {0} /\ start <= consumed + 1 /\ frames_error \in Nat
           /\ frames \in Seq([type : Byte, payload : Seq(Byte)])
<1>1. /\ data \in Seq(Byte) /\ wire \in Seq(Byte)
      /\ header_buf \in Seq(Byte) /\ payload_buf \in Seq(Byte) /\ crc_buf \in Seq(Byte)
      /\ arrived \in 0..Len(wire) /\ taken \in 0..arrived /\ frames_error \in Nat
      /\ frames \in Seq([type : Byte, payload : Seq(Byte)])
  BY DEF IInv, BuffersSuffice, TypeOK, ParserTypeOK
<1>2. /\ Len(data) \in Nat /\ Len(wire) \in Nat
      /\ Len(header_buf) \in Nat /\ Len(payload_buf) \in Nat /\ Len(crc_buf) \in Nat
  BY <1>1, LenProperties
<1>3. /\ part \in Seq(Byte)
      /\ Len(part) = Len(header_buf) + Len(payload_buf) + Len(crc_buf)
  <2>1. /\ header_buf \o payload_buf \in Seq(Byte)
        /\ Len(header_buf \o payload_buf) = Len(header_buf) + Len(payload_buf)
    BY <1>1, TwoParts
  <2> QED
    BY <1>1, <2>1, TwoParts DEF part
<1>4. taken \in Nat /\ taken <= Len(wire)
  BY <1>1, <1>2
<1>5. consumed \in Nat /\ start \in 1..(consumed + 1)
  BY DEF PartsOfStream
<1>6. consumed + Len(data) = taken
  BY <1>2, <1>4 DEF consumed
<1>7. start + Len(part) = consumed + 1 /\ start \in Nat \ {0} /\ start <= consumed + 1
  BY <1>2, <1>3, <1>5 DEF start
<1> QED
  BY <1>1, <1>2, <1>3, <1>4, <1>5, <1>6, <1>7

\* A prefix of the stream, and what is said of it.
LEMMA Prefixes ==
    ASSUME IInv, PartsOfStream, NEW m \in consumed..Len(wire)
    PROVE  LET s == SubSeq(wire, 1, m)
           IN  /\ s \in Seq(Byte) /\ Len(s) = m /\ m \in Nat
               /\ \A i \in 1..m : s[i] = wire[i]
               /\ \A i \in 1..(m + 1) : /\ DecodedFrom(s)[i] = DecodedAt(s, i, DecodedFrom(s))
                                        /\ DecodedFrom(s)[i] \in Result
<1> DEFINE s == SubSeq(wire, 1, m)
<1>1. m \in Nat /\ m <= Len(wire) /\ wire \in Seq(Byte) /\ Len(wire) \in Nat
  BY Shapes
<1>2. s \in Seq(Byte) /\ Len(s) = m /\ \A i \in 1..m : s[i] = wire[i]
  <2>1. 1 \in Nat \ {0} /\ 1 <= m + 1 /\ m - 1 + 1 = m
    BY <1>1
  <2>2. /\ s \in Seq(Byte) /\ Len(s) = m - 1 + 1
        /\ \A i \in 1..(m - 1 + 1) : s[i] = wire[1 + i - 1]
    BY <1>1, <2>1, PieceOf
  <2>3. \A i \in 1..m : 1 + i - 1 = i
    BY <1>1
  <2> QED
    BY <2>1, <2>2, <2>3
<1> HIDE DEF s
<1>3. \A i \in 1..(m + 1) : /\ DecodedFrom(s)[i] = DecodedAt(s, i, DecodedFrom(s))
                            /\ DecodedFrom(s)[i] \in Result
  BY <1>2, Decoding
<1> QED
  BY <1>1, <1>2, <1>3 DEF s

\* At the start of a connection nothing has been taken of the stream.
Begun == Fresh /\ wire \in Seq(Byte) /\ (pc = "free" => wire = <<>>)

LEMMA BegunDecodes == Begun => DecodingInv
<1> SUFFICES ASSUME Begun
             PROVE  DecodingInv
  OBVIOUS
<1>1. /\ data = <<>> /\ frames = <<>> /\ frames_error = 0 /\ state = "IDLE"
      /\ header_buf = <<>> /\ payload_buf = <<>> /\ crc_buf = <<>> /\ taken = 0
      /\ wire \in Seq(Byte) /\ (pc = "free" => wire = <<>>)
  BY DEF Begun, Fresh
<1>2. part = <<>> /\ Len(<<>>) = 0
  BY <1>1 DEF part
<1>3. consumed = 0 /\ start = 1
  <2>1. taken = 0 /\ Len(data) = 0 /\ Len(part) = 0
    BY <1>1, <1>2
  <2>2. consumed = 0
    BY <2>1 DEF consumed
  <2> QED
    BY <2>1, <2>2 DEF start
<1>4. PartsOfStream
  BY <1>1, <1>2, <1>3 DEF PartsOfStream, Begun
<1>5. SoFar
  <2> SUFFICES ASSUME NEW m \in 0..Len(wire)
               PROVE  LET d == DecodedFrom(SubSeq(wire, 1, m))
                      IN  /\ d[1].frames = frames \o d[1].frames
                          /\ d[1].errors = frames_error + d[1].errors
    BY <1>3 DEF SoFar
  <2> DEFINE s == SubSeq(wire, 1, m)
  <2>1. Len(wire) \in Nat /\ m \in Nat /\ m <= Len(wire)
    BY <1>1, LenProperties
  <2>2. s \in Seq(Byte) /\ Len(s) = m - 1 + 1
    BY <1>1, <2>1, PieceOf
  <2> HIDE DEF s
  <2>3. DecodedFrom(s)[1] \in Result
    BY <2>1, <2>2, Decoding
  <2>4. DecodedFrom(s)[1].errors \in Nat /\ <<>> \o DecodedFrom(s)[1].frames = DecodedFrom(s)[1].frames
    BY <2>3, ConcatEmptySeq DEF Result
  <2> QED
    BY <1>1, <2>4 DEF s
<1> QED
  BY <1>4, <1>5 DEF DecodingInv

LEMMA BegunDecodesNext == Begun' => DecodingInv'
BY BegunDecodes, PTL

-----------------------------------------------------------------------------
(* The steps. *)

\* Most of them concern neither the parser nor the stream.
LEMMA ElsewhereDecodes ==
    ASSUME DecodingInv, UNCHANGED <<parser, wire, taken>>, pc' = "free" => pc = "free"
    PROVE  DecodingInv'
<1>1. UNCHANGED <<data, state, header_buf, payload_buf, crc_buf, frames, frames_error, wire, taken>>
  BY DEF parser, frame
<1>2. consumed' = consumed /\ part' = part /\ start' = start
  BY <1>1 DEF consumed, part, start
<1>3. Fresh' = Fresh
  BY <1>1 DEF Fresh
<1>4. PartsOfStream'
  BY <1>1, <1>2, <1>3 DEF DecodingInv, PartsOfStream
<1>5. SoFar'
  BY <1>1, <1>2 DEF DecodingInv, SoFar
<1> QED
  BY <1>4, <1>5 DEF DecodingInv

\* The next m bytes of data are taken, and the frame is longer by them.
Taken(m) ==
    /\ UNCHANGED <<taken, wire>>
    /\ Len(data') = Len(data) - m
    /\ \A i \in 1..Len(data') : data'[i] = data[m + i]

Longer(q, m) ==
    /\ Len(q) = Len(part) + m
    /\ \A i \in 1..Len(part) : q[i] = part[i]
    /\ \A i \in 1..m : q[Len(part) + i] = data[i]

LEMMA LongerIsStretch ==
    ASSUME IInv, PartsOfStream, NEW m \in 0..Len(data), NEW q, Longer(q, m)
    PROVE  \A i \in 1..(Len(part) + m) : q[i] = wire[start + i - 1]
<1>1. /\ Len(data) \in Nat /\ Len(part) \in Nat /\ consumed \in Nat
      /\ start + Len(part) = consumed + 1 /\ start \in Nat
  BY Shapes
<1>2. m \in Nat /\ m <= Len(data)
  BY <1>1
<1>3. \A i \in 1..Len(data) : data[i] = wire[consumed + i]
  BY DEF PartsOfStream
<1>4. \A i \in 1..Len(part) : part[i] = wire[start + i - 1]
  BY DEF PartsOfStream
<1>5. ASSUME NEW i \in 1..(Len(part) + m)
      PROVE  q[i] = wire[start + i - 1]
  <2>1. CASE i <= Len(part)
    <3>1. i \in 1..Len(part)
      BY <1>1, <1>2, <2>1
    <3> QED
      BY <1>4, <3>1 DEF Longer
  <2>2. CASE ~(i <= Len(part))
    <3>1. PICK k \in 1..m : i = Len(part) + k
      <4>1. i - Len(part) \in 1..m /\ i = Len(part) + (i - Len(part))
        BY <1>1, <1>2, <2>2
      <4> QED
        BY <4>1
    <3>2. k \in 1..Len(data) /\ consumed + k = start + i - 1
      BY <1>1, <1>2, <3>1
    <3>3. q[i] = data[k]
      BY <3>1 DEF Longer
    <3> QED
      BY <1>3, <3>2, <3>3
  <2> QED
    BY <2>1, <2>2
<1> QED
  BY <1>5

\* Taking more of the current frame: the same is said of fewer prefixes.
LEMMA LongerDecodes ==
    ASSUME IInv, DecodingInv, NEW m \in 0..Len(data), Taken(m), Longer(part', m),
           UNCHANGED <<frames, frames_error>>, pc' # "free",
           state' = "COMPLETE" =>
               Len(crc_buf') = CrcLen /\ crc_buf' = Crc(header_buf' \o payload_buf')
    PROVE  DecodingInv'
<1>1. /\ Len(data) \in Nat /\ Len(part) \in Nat /\ taken \in Nat /\ Len(wire) \in Nat
      /\ taken <= Len(wire) /\ consumed \in Nat /\ consumed + Len(data) = taken
      /\ start + Len(part) = consumed + 1 /\ start \in Nat \ {0} /\ start <= consumed + 1
  BY Shapes DEF DecodingInv
<1>0. m \in Nat /\ m <= Len(data)
  BY <1>1
<1>2. consumed' = taken - (Len(data) - m)
  BY DEF consumed, Taken
<1>3. consumed' = consumed + m /\ m \in Nat
  <2>1. taken - (Len(data) - m) = consumed + m
    BY <1>0, <1>1
  <2> QED
    BY <1>0, <1>2, <2>1
<1>4. start' = consumed' - (Len(part) + m) + 1
  BY DEF start, Longer
<1>5. start' = start
  <2>1. (consumed + m) - (Len(part) + m) + 1 = start
    BY <1>0, <1>1
  <2> QED
    BY <1>3, <1>4, <2>1
<1>6. PartsOfStream'
  <2>1. \A i \in 1..Len(data) : data[i] = wire[consumed + i]
    BY DEF DecodingInv, PartsOfStream
  <2>3. ASSUME NEW i \in 1..Len(data')
        PROVE  data'[i] = wire'[consumed' + i]
    <3>1. m + i \in 1..Len(data) /\ consumed + (m + i) = consumed' + i
      <4>1. Len(data') = Len(data) - m
        BY DEF Taken
      <4> QED
        BY <1>0, <1>1, <1>3, <4>1
    <3> QED
      BY <2>1, <3>1 DEF Taken
  <2>4. \A i \in 1..Len(part') : part'[i] = wire'[start' + i - 1]
    <3>1. \A i \in 1..(Len(part) + m) : part'[i] = wire[start + i - 1]
      BY LongerIsStretch DEF DecodingInv
    <3> QED
      BY <1>5, <3>1 DEF Longer, Taken
  <2>5. consumed' \in Nat /\ start' \in 1..(consumed' + 1)
    BY <1>1, <1>3, <1>5
  <2> QED
    BY <2>3, <2>4, <2>5 DEF PartsOfStream
<1>7. SoFar'
  <2>1. consumed'..Len(wire') \subseteq consumed..Len(wire)
    BY <1>0, <1>1, <1>3 DEF Taken
  <2> QED
    BY <1>5, <2>1 DEF DecodingInv, SoFar, Taken
<1> QED
  BY <1>6, <1>7 DEF DecodingInv

\* What is received continues the stream.
LEMMA RecvDecodes == IInv /\ DecodingInv /\ Recv => DecodingInv'
<1> SUFFICES ASSUME IInv, DecodingInv, Recv
             PROVE  DecodingInv'
  OBVIOUS
<1> DEFINE n == Smaller(arrived - taken, RecvCap - Len(data))
<1>1. pc = "recv" /\ pc' # "free" /\ UNCHANGED <<frame, frames, frames_error, wire>>
  BY DEF Recv, peer
<1>2. CASE data' = data /\ taken' = taken
  BY <1>1, <1>2, ElsewhereDecodes DEF parser
<1>3. CASE n > 0 /\ data' = data \o SubSeq(wire, taken + 1, taken + n) /\ taken' = taken + n
  <2>1. /\ Len(data) \in Nat /\ Len(part) \in Nat /\ taken \in Nat /\ Len(wire) \in Nat
        /\ taken <= Len(wire) /\ consumed \in Nat /\ consumed + Len(data) = taken
        /\ wire \in Seq(Byte) /\ data \in Seq(Byte)
    BY Shapes DEF DecodingInv
  <2>2. n \in Nat /\ taken + n <= Len(wire)
    <3>1. arrived \in 0..Len(wire) /\ taken \in 0..arrived
      BY DEF IInv, BuffersSuffice, TypeOK
    <3>2. n <= arrived - taken /\ n \in Int
      BY <2>1, <3>1, Constants DEF Smaller
    <3> HIDE DEF n
    <3> QED
      BY <1>3, <2>1, <3>1, <3>2
  <2> HIDE DEF n
  <2> DEFINE new == SubSeq(wire, taken + 1, taken + n)
  <2>3. new \in Seq(Byte) /\ Len(new) = n /\ \A i \in 1..n : new[i] = wire[taken + i]
    <3>1. ASSUME NEW a \in Nat \ {0}, NEW b \in Nat, a = taken + 1, b = taken + n
          PROVE  /\ SubSeq(wire, a, b) \in Seq(Byte) /\ Len(SubSeq(wire, a, b)) = b - a + 1
                 /\ \A i \in 1..(b - a + 1) : SubSeq(wire, a, b)[i] = wire[a + i - 1]
      <4>1. a <= b + 1 /\ b <= Len(wire)
        BY <2>1, <2>2, <3>1
      <4> QED
        BY <2>1, <4>1, PieceOf
    <3>2. taken + 1 \in Nat \ {0} /\ taken + n \in Nat
      BY <2>1, <2>2
    <3>3. (taken + n) - (taken + 1) + 1 = n /\ \A i \in 1..n : (taken + 1) + i - 1 = taken + i
      BY <2>1, <2>2
    <3> QED
      BY <3>1, <3>2, <3>3
  <2> HIDE DEF new
  <2>4. data' = data \o new
    BY <1>3 DEF new
  <2>5. /\ Len(data') = Len(data) + n
        /\ \A k \in 1..Len(data) : data'[k] = data[k]
        /\ \A k \in 1..n : data'[Len(data) + k] = new[k]
    BY <2>1, <2>3, <2>4, TwoParts
  <2>6. consumed' = consumed
    <3>1. consumed' = (taken + n) - Len(data')
      BY <1>3 DEF consumed
    <3>2. Len(data') = Len(data) + n
      BY <2>5
    <3>3. (taken + n) - (Len(data) + n) = consumed
      BY <2>1, <2>2
    <3> QED
      BY <3>1, <3>2, <3>3
  <2>7. part' = part /\ UNCHANGED <<state, header_buf, payload_buf, crc_buf>>
    BY <1>1 DEF frame, part
  <2>8. start' = start
    BY <2>6, <2>7 DEF start
  <2>9. ASSUME NEW i \in 1..Len(data')
        PROVE  data'[i] = wire[consumed + i]
    <3>1. CASE i \in 1..Len(data)
      BY <2>5, <3>1 DEF DecodingInv, PartsOfStream
    <3>2. CASE i \notin 1..Len(data)
      <4>1. PICK k \in 1..n : i = Len(data) + k
        <5>1. i - Len(data) \in 1..n /\ i = Len(data) + (i - Len(data))
          BY <2>1, <2>2, <2>5, <3>2
        <5> QED
          BY <5>1
      <4>2. taken + k = consumed + i
        BY <2>1, <4>1
      <4> QED
        BY <2>3, <2>5, <4>1, <4>2
    <3> QED
      BY <3>1, <3>2
  <2>10. PartsOfStream'
    BY <1>1, <2>6, <2>7, <2>8, <2>9 DEF DecodingInv, PartsOfStream
  <2>11. SoFar'
    BY <1>1, <2>6, <2>8 DEF DecodingInv, SoFar
  <2> QED
    BY <2>10, <2>11 DEF DecodingInv
<1> QED
  BY <1>2, <1>3 DEF Recv

\* The end of a frame: the next one starts behind it, with what it meant on the account.
Stands(k, i, fs, errors) ==
    LET d == DecodedFrom(SubSeq(wire, 1, k))
    IN  /\ d[1].frames = fs \o d[i].frames
        /\ d[1].errors = errors + d[i].errors

LEMMA FrameEndDecodes ==
    ASSUME IInv, DecodingInv, NEW m \in 0..Len(data), Taken(m), NEW q, Longer(q, m),
           Reset, pc' # "free",
           \A k \in (consumed + m)..Len(wire) :
               Stands(k, start + Len(part) + m, frames', frames_error')
    PROVE  DecodingInv'
<1>1. /\ Len(data) \in Nat /\ Len(part) \in Nat /\ taken \in Nat /\ Len(wire) \in Nat
      /\ taken <= Len(wire) /\ consumed \in Nat /\ consumed + Len(data) = taken
      /\ start + Len(part) = consumed + 1 /\ start \in Nat
  BY Shapes DEF DecodingInv
<1>2. m \in Nat /\ m <= Len(data)
  BY <1>1
<1>3. consumed' = consumed + m
  <2>1. consumed' = taken - (Len(data) - m)
    BY DEF consumed, Taken
  <2> QED
    BY <1>1, <1>2, <2>1
<1>4. part' = <<>> /\ Len(<<>>) = 0
  BY DEF part, Reset
<1>5. start' = consumed' + 1 /\ consumed' + 1 = start + Len(part) + m
  <2>1. start' = consumed' - 0 + 1
    BY <1>4 DEF start
  <2> QED
    BY <1>1, <1>2, <1>3, <2>1
<1>6. PartsOfStream'
  <2>1. \A i \in 1..Len(data) : data[i] = wire[consumed + i]
    BY DEF DecodingInv, PartsOfStream
  <2>2. ASSUME NEW i \in 1..Len(data')
        PROVE  data'[i] = wire'[consumed' + i]
    <3>1. m + i \in 1..Len(data) /\ consumed + (m + i) = consumed' + i
      <4>1. Len(data') = Len(data) - m
        BY DEF Taken
      <4> QED
        BY <1>1, <1>2, <1>3, <4>1
    <3> QED
      BY <2>1, <3>1 DEF Taken
  <2>3. consumed' \in Nat /\ start' \in 1..(consumed' + 1)
    BY <1>1, <1>2, <1>3, <1>5
  <2>4. Len(part') = 0 /\ 1..0 = {}
    BY <1>4
  <2>5. state' = "IDLE"
    BY DEF Reset
  <2> QED
    BY <2>2, <2>3, <2>4, <2>5 DEF PartsOfStream
<1>7. SoFar'
  <2>1. consumed'..Len(wire') = (consumed + m)..Len(wire)
    BY <1>3 DEF Taken
  <2> QED
    BY <1>5, <2>1 DEF SoFar, Stands, Taken
<1> QED
  BY <1>6, <1>7 DEF DecodingInv

\* What Fill and Rest do, byte by byte.
LEMMA FillTakes ==
    ASSUME data \in Seq(Byte), NEW p \in Seq(Byte), NEW n \in Nat, Len(p) <= n
    PROVE  \E m \in 0..Len(data) :
               /\ SubSeq(data, 1, m) \in Seq(Byte) /\ Len(SubSeq(data, 1, m)) = m
               /\ \A i \in 1..m : SubSeq(data, 1, m)[i] = data[i]
               /\ Fill(p, n) = p \o SubSeq(data, 1, m)
               /\ Len(Rest(p, n)) = Len(data) - m
               /\ \A i \in 1..Len(Rest(p, n)) : Rest(p, n)[i] = data[m + i]
<1> DEFINE m == Smaller(n - Len(p), Len(data))
<1>1. Len(data) \in Nat /\ Len(p) \in Nat /\ \A i \in 1..Len(data) : data[i] \in Byte
  BY LenProperties
<1>2. /\ m \in Nat /\ m <= Len(data)
      /\ m = n - Len(p) \/ (m = Len(data) /\ m < n - Len(p))
  BY <1>1 DEF Smaller
<1>3. Fill(p, n) = p \o SubSeq(data, 1, m)
  BY DEF Fill
<1> HIDE DEF m
<1>4. /\ SubSeq(data, 1, m) \in Seq(Byte) /\ Len(SubSeq(data, 1, m)) = m
      /\ \A i \in 1..m : SubSeq(data, 1, m)[i] = data[i]
  <2>1. /\ SubSeq(data, 1, m) \in Seq(Byte) /\ Len(SubSeq(data, 1, m)) = m - 1 + 1
        /\ \A i \in 1..(m - 1 + 1) : SubSeq(data, 1, m)[i] = data[1 + i - 1]
    <3>1. 1 \in Nat \ {0} /\ 1 <= m + 1
      BY <1>2
    <3> QED
      BY <1>2, <3>1, PieceOf
  <2>2. m - 1 + 1 = m /\ \A i \in 1..m : 1 + i - 1 = i
    BY <1>2
  <2> QED
    BY <2>1, <2>2
<1>5. /\ Len(Rest(p, n)) = Len(data) - m
      /\ \A i \in 1..Len(Rest(p, n)) : Rest(p, n)[i] = data[m + i]
  <2>0. n - Len(p) + 1 \in Int
    BY <1>1
  <2>1. PICK a \in Int : a = n - Len(p) + 1
    BY <2>0
  <2>2. a \in Nat \ {0}
    BY <1>1, <2>1
  <2>3. \A i \in a..Len(data) : data[i] \in Byte
    BY <1>1, <2>2
  <2>4. /\ Len(SubSeq(data, a, Len(data))) = IF a <= Len(data) THEN Len(data) - a + 1 ELSE 0
        /\ \A i \in 1..(Len(data) - a + 1) : SubSeq(data, a, Len(data))[i] = data[a + i - 1]
    BY <1>1, <2>3, SubSeqProperties
  <2>5. Rest(p, n) = SubSeq(data, a, Len(data))
    BY <2>1 DEF Rest
  <2>6. Len(Rest(p, n)) = Len(data) - m
    <3>1. (IF a <= Len(data) THEN Len(data) - a + 1 ELSE 0) = Len(data) - m
      <4>1. Len(data) \in Nat /\ Len(p) \in Nat
        BY <1>1
      <4> QED
        BY <1>2, <2>1, <4>1
    <3> QED
      BY <2>4, <2>5, <3>1
  <2>7. ASSUME NEW i \in 1..Len(Rest(p, n))
        PROVE  Rest(p, n)[i] = data[m + i]
    <3>1. i \in 1..(Len(data) - a + 1) /\ a + i - 1 = m + i
      BY <1>1, <1>2, <2>1, <2>6
    <3> QED
      BY <2>4, <2>5, <3>1
  <2> QED
    BY <2>6, <2>7
<1>6. m \in 0..Len(data)
  BY <1>1, <1>2
<1> QED
  BY <1>3, <1>4, <1>5, <1>6

\* More of the part that is being taken is more of the frame.
LEMMA FillIsLonger ==
    ASSUME IInv, PartsOfStream, NEW m \in 0..Len(data), NEW new \in Seq(Byte), Len(new) = m,
           \A i \in 1..m : new[i] = data[i]
    PROVE  Longer(part \o new, m)
<1>1. part \in Seq(Byte)
  BY Shapes
<1> QED
  BY <1>1, TwoParts DEF Longer

\* What the account says at one prefix, and the bytes of the prefix.
LEMMA AccountAt ==
    ASSUME IInv, DecodingInv, NEW m \in 0..Len(data), NEW k \in (consumed + m)..Len(wire),
           NEW q, Longer(q, m)
    PROVE  LET s == SubSeq(wire, 1, k)
               d == DecodedFrom(s)
           IN  /\ s \in Seq(Byte) /\ Len(s) = k /\ k \in Nat
               /\ start + (Len(part) + m) - 1 <= k
               /\ \A i \in 1..(Len(part) + m) : s[start + i - 1] = q[i]
               /\ d[start] = DecodedAt(s, start, d)
               /\ d[start + Len(part) + m] \in Result
               /\ d[1].frames = frames \o d[start].frames
               /\ d[1].errors = frames_error + d[start].errors
<1> DEFINE s == SubSeq(wire, 1, k)
           d == DecodedFrom(s)
<1>1. /\ Len(data) \in Nat /\ Len(part) \in Nat /\ consumed \in Nat /\ Len(wire) \in Nat
      /\ start + Len(part) = consumed + 1 /\ start \in Nat \ {0}
  BY Shapes DEF DecodingInv
<1>2. m \in Nat /\ k \in Nat /\ consumed + m <= k /\ k \in consumed..Len(wire)
  BY <1>1
<1>3. /\ s \in Seq(Byte) /\ Len(s) = k
      /\ \A i \in 1..k : s[i] = wire[i]
      /\ \A i \in 1..(k + 1) : d[i] = DecodedAt(s, i, d) /\ d[i] \in Result
  BY <1>2, Prefixes DEF DecodingInv
<1>4. d[1].frames = frames \o d[start].frames /\ d[1].errors = frames_error + d[start].errors
  BY <1>2 DEF DecodingInv, SoFar
<1> HIDE DEF s, d
<1>5. start + (Len(part) + m) - 1 <= k /\ start \in 1..(k + 1)
      /\ start + Len(part) + m \in 1..(k + 1)
  BY <1>1, <1>2
<1>6. ASSUME NEW i \in 1..(Len(part) + m)
      PROVE  s[start + i - 1] = q[i]
  <2>1. q[i] = wire[start + i - 1]
    BY LongerIsStretch DEF DecodingInv
  <2>2. start + i - 1 \in 1..k
    BY <1>1, <1>2, <1>5
  <2> QED
    BY <1>3, <2>1, <2>2
<1> QED
  BY <1>2, <1>3, <1>4, <1>5, <1>6 DEF s, d

LEMMA HeaderDecodes ==
    ASSUME IInv, DecodingInv, ParseHeader, UNCHANGED <<taken, wire>>, pc' # "free"
    PROVE  DecodingInv'
<1> DEFINE header == Fill(header_buf, HeaderLen)
<1>1. /\ state = "IDLE" /\ data' = Rest(header_buf, HeaderLen) /\ UNCHANGED frames
  BY DEF ParseHeader
<1>2. /\ payload_buf = <<>> /\ crc_buf = <<>> /\ Len(header_buf) <= HeaderLen
      /\ header_buf \in Seq(Byte) /\ data \in Seq(Byte)
  <2>1. header_buf \in Seq(Byte) /\ data \in Seq(Byte) /\ Len(header_buf) <= HeaderLen
    BY DEF IInv, BuffersSuffice, TypeOK, ParserTypeOK
  <2> QED
    BY <1>1, <2>1 DEF IInv, BuffersSuffice, PartsInTurn
<1>3. part = header_buf
  BY <1>2, ConcatEmptySeq DEF part
<1>4. PICK m \in 0..Len(data) :
          /\ SubSeq(data, 1, m) \in Seq(Byte) /\ Len(SubSeq(data, 1, m)) = m
          /\ \A i \in 1..m : SubSeq(data, 1, m)[i] = data[i]
          /\ header = header_buf \o SubSeq(data, 1, m)
          /\ Len(Rest(header_buf, HeaderLen)) = Len(data) - m
          /\ \A i \in 1..Len(Rest(header_buf, HeaderLen)) :
                 Rest(header_buf, HeaderLen)[i] = data[m + i]
  <2>1. HeaderLen \in Nat
    BY Constants
  <2> QED
    BY <1>2, <2>1, FillTakes
<1>5. Taken(m)
  BY <1>1, <1>4 DEF Taken
<1>6. Longer(header, m)
  BY <1>3, <1>4, FillIsLonger DEF DecodingInv
<1>7. header \in Seq(Byte) /\ Len(header) <= HeaderLen /\ Len(header) = Len(part) + m
  BY <1>2, <1>6, FillAndRest, Constants DEF Longer
<1> HIDE DEF header
<1>8. CASE /\ header_buf' = header /\ UNCHANGED <<payload_buf, crc_buf, frames_error>>
           /\ state' # "COMPLETE"
  <2>1. part' = header
    BY <1>2, <1>7, <1>8, ConcatEmptySeq DEF part
  <2> QED
    BY <1>1, <1>5, <1>6, <1>8, <2>1, LongerDecodes
<1>9. CASE Len(header) = HeaderLen /\ ~HeaderValid(header) /\ Reset /\ frames_error' = frames_error + 1
  <2>1. ASSUME NEW k \in (consumed + m)..Len(wire)
        PROVE  Stands(k, start + Len(part) + m, frames', frames_error')
    <3> DEFINE s == SubSeq(wire, 1, k)
               d == DecodedFrom(s)
    <3>1. /\ s \in Seq(Byte) /\ Len(s) = k /\ k \in Nat
          /\ start + (Len(part) + m) - 1 <= k
          /\ \A i \in 1..(Len(part) + m) : s[start + i - 1] = header[i]
          /\ d[start] = DecodedAt(s, start, d)
          /\ d[start + Len(part) + m] \in Result
          /\ d[1].frames = frames \o d[start].frames
          /\ d[1].errors = frames_error + d[start].errors
      BY <1>6, AccountAt
    <3> HIDE DEF s, d
    <3>2. /\ start \in Nat \ {0} /\ Len(part) + m = HeaderLen /\ frames_error \in Nat
          /\ start + Len(part) + m = start + HeaderLen
      <4>1. /\ start \in Nat \ {0} /\ Len(part) \in Nat /\ Len(data) \in Nat
            /\ frames_error \in Nat
        BY Shapes DEF DecodingInv
      <4> QED
        BY <1>7, <1>9, <4>1
    <3>3. DecodedAt(s, start, d) = [d[start + HeaderLen] EXCEPT !.errors = @ + 1]
      <4>1. start + HeaderLen - 1 <= Len(s) /\ \A i \in 1..HeaderLen : s[start + i - 1] = header[i]
        BY <3>1, <3>2
      <4>2. HeaderIn(s, start, header)
        BY <1>7, <1>9, <3>1, <3>2, <4>1 DEF HeaderIn
      <4> QED
        BY <1>9, <4>2, InvalidHeader
    <3>4. d[start + HeaderLen] \in Result
      BY <3>1, <3>2
    <3>5. /\ d[start].frames = d[start + HeaderLen].frames
          /\ d[start].errors = d[start + HeaderLen].errors + 1
          /\ d[start + HeaderLen].errors \in Nat
      BY <3>1, <3>3, <3>4 DEF Result
    <3>6. d[1].errors = (frames_error + 1) + d[start + HeaderLen].errors
      <4>1. d[1].errors = frames_error + (d[start + HeaderLen].errors + 1)
        BY <3>1, <3>5
      <4>2. d[start + HeaderLen].errors \in Nat /\ frames_error \in Nat
        BY <3>2, <3>5
      <4> QED
        BY <4>1, <4>2
    <3> QED
      BY <1>1, <1>9, <3>1, <3>2, <3>5, <3>6 DEF Stands, s, d
  <2> QED
    BY <1>5, <1>6, <1>9, <2>1, FrameEndDecodes
<1> QED
  <2>1. \/ /\ header_buf' = header
           /\ UNCHANGED <<state, payload_buf, crc_buf, frames_error>>
        \/ /\ header_buf' = header /\ state' = "PAYLOAD"
           /\ UNCHANGED <<payload_buf, crc_buf, frames_error>>
        \/ /\ ~(Len(header) < HeaderLen) /\ ~(Len(header) = HeaderLen /\ HeaderValid(header))
           /\ Reset /\ frames_error' = frames_error + 1
    BY DEF ParseHeader, header
  <2>2. Len(header) < HeaderLen \/ Len(header) = HeaderLen
    BY <1>7, Constants, LenProperties
  <2> QED
    BY <1>1, <1>8, <1>9, <2>1, <2>2


LEMMA Associative ==
    ASSUME NEW a \in Seq(Byte), NEW b \in Seq(Byte), NEW c \in Seq(Byte)
    PROVE  (a \o b) \o c = a \o (b \o c)
BY ConcatAssociative

LEMMA PayloadDecodes ==
    ASSUME IInv, DecodingInv, ParsePayload, UNCHANGED <<taken, wire>>, pc' # "free"
    PROVE  DecodingInv'
<1> DEFINE n    == payload_len(header_buf)
           more == Fill(payload_buf, n)
<1>1. /\ state = "PAYLOAD" /\ data' = Rest(payload_buf, n) /\ payload_buf' = more
      /\ state' # "COMPLETE" /\ UNCHANGED <<header_buf, crc_buf, frames, frames_error>>
  BY DEF ParsePayload
<1>2. /\ crc_buf = <<>> /\ header_buf \in Seq(Byte) /\ payload_buf \in Seq(Byte)
      /\ data \in Seq(Byte) /\ Len(payload_buf) <= n /\ Len(header_buf) = HeaderLen
  BY <1>1 DEF IInv, BuffersSuffice, TypeOK, ParserTypeOK, PartsInTurn
<1>3. n \in Nat
  <2>1. Len(header_buf) = 3 /\ \A k \in 1..Len(header_buf) : header_buf[k] \in Byte
    BY <1>2, Constants, LenProperties
  <2>2. header_buf[3] \in Byte
    BY <2>1
  <2> QED
    BY <2>2, Constants DEF payload_len
<1> HIDE DEF n
<1>4. PICK m \in 0..Len(data) :
          /\ SubSeq(data, 1, m) \in Seq(Byte) /\ Len(SubSeq(data, 1, m)) = m
          /\ \A i \in 1..m : SubSeq(data, 1, m)[i] = data[i]
          /\ more = payload_buf \o SubSeq(data, 1, m)
          /\ Len(Rest(payload_buf, n)) = Len(data) - m
          /\ \A i \in 1..Len(Rest(payload_buf, n)) : Rest(payload_buf, n)[i] = data[m + i]
  BY <1>2, <1>3, FillTakes
<1>5. Taken(m)
  BY <1>1, <1>4 DEF Taken
<1> DEFINE new == SubSeq(data, 1, m)
<1>6. new \in Seq(Byte) /\ Len(new) = m /\ \A i \in 1..m : new[i] = data[i]
  BY <1>4
<1>7. more = payload_buf \o new
  BY <1>4
<1> HIDE DEF new, more
<1>8. Longer(part \o new, m)
  BY <1>6, FillIsLonger DEF DecodingInv
<1>9. part' = part \o new
  <2>1. header_buf \o payload_buf \in Seq(Byte) /\ more \in Seq(Byte)
    BY <1>2, <1>6, <1>7, ConcatProperties
  <2>2. part = header_buf \o payload_buf
    BY <1>2, <2>1, ConcatEmptySeq DEF part
  <2>3. header_buf \o more \in Seq(Byte)
    BY <1>2, <2>1, ConcatProperties
  <2>4. part' = header_buf \o more
    BY <1>1, <1>2, <2>3, ConcatEmptySeq DEF part
  <2>5. (header_buf \o payload_buf) \o new = header_buf \o (payload_buf \o new)
    BY <1>2, <1>6, Associative
  <2> QED
    BY <1>7, <2>2, <2>4, <2>5
<1> QED
  BY <1>1, <1>5, <1>8, <1>9, LongerDecodes

LEMMA CrcDecodes ==
    ASSUME IInv, DecodingInv, ParseCrc, UNCHANGED <<taken, wire>>, pc' # "free"
    PROVE  DecodingInv'
<1> DEFINE crc == Fill(crc_buf, CrcLen)
           n   == HeaderLen + Len(payload_buf) + CrcLen
<1>1. state = "CRC" /\ data' = Rest(crc_buf, CrcLen) /\ UNCHANGED frames
  BY DEF ParseCrc
<1>2. /\ header_buf \in Seq(Byte) /\ payload_buf \in Seq(Byte) /\ crc_buf \in Seq(Byte)
      /\ data \in Seq(Byte) /\ Len(payload_buf) = payload_len(header_buf)
      /\ Len(header_buf) = HeaderLen /\ HeaderValid(header_buf) /\ Len(crc_buf) <= CrcLen
  BY <1>1 DEF IInv, BuffersSuffice, TypeOK, ParserTypeOK, PartsInTurn
<1>3. PICK m \in 0..Len(data) :
          /\ SubSeq(data, 1, m) \in Seq(Byte) /\ Len(SubSeq(data, 1, m)) = m
          /\ \A i \in 1..m : SubSeq(data, 1, m)[i] = data[i]
          /\ crc = crc_buf \o SubSeq(data, 1, m)
          /\ Len(Rest(crc_buf, CrcLen)) = Len(data) - m
          /\ \A i \in 1..Len(Rest(crc_buf, CrcLen)) : Rest(crc_buf, CrcLen)[i] = data[m + i]
  <2>1. CrcLen \in Nat
    BY Constants
  <2> QED
    BY <1>2, <2>1, FillTakes
<1>4. Taken(m)
  BY <1>1, <1>3 DEF Taken
<1> DEFINE new == SubSeq(data, 1, m)
<1>5. new \in Seq(Byte) /\ Len(new) = m /\ \A i \in 1..m : new[i] = data[i]
  BY <1>3
<1>6. crc = crc_buf \o new
  BY <1>3
<1>7. crc \in Seq(Byte) /\ Len(crc) <= CrcLen
  BY <1>2, FillAndRest, Constants
<1> HIDE DEF new, crc
<1> DEFINE q == header_buf \o payload_buf \o crc
<1>8. Longer(q, m)
  <2>1. Longer(part \o new, m)
    BY <1>5, FillIsLonger DEF DecodingInv
  <2>2. header_buf \o payload_buf \in Seq(Byte)
    BY <1>2, ConcatProperties
  <2>3. part \o new = q
    <3>1. ((header_buf \o payload_buf) \o crc_buf) \o new
              = (header_buf \o payload_buf) \o (crc_buf \o new)
      BY <1>2, <1>5, <2>2, Associative
    <3> QED
      BY <1>6, <3>1 DEF part
  <2> QED
    BY <2>1, <2>3
<1>9. Len(part) + m = HeaderLen + Len(payload_buf) + Len(crc)
  <2>1. Len(crc) = Len(crc_buf) + m
    BY <1>2, <1>5, <1>6, TwoParts
  <2>2. Len(part) = HeaderLen + Len(payload_buf) + Len(crc_buf)
    BY <1>2, Shapes DEF DecodingInv
  <2>3. /\ Len(payload_buf) \in Nat /\ Len(crc_buf) \in Nat /\ m \in Nat /\ HeaderLen \in Nat
    BY <1>2, <1>5, Constants, LenProperties
  <2> QED
    BY <2>1, <2>2, <2>3
<1>10. CASE /\ crc_buf' = crc /\ UNCHANGED <<header_buf, payload_buf, frames_error>>
            /\ state' = "COMPLETE" => Len(crc) = CrcLen /\ crc = Crc(header_buf \o payload_buf)
  <2>1. part' = q
    BY <1>10 DEF part
  <2> QED
    BY <1>1, <1>4, <1>8, <1>10, <2>1, LongerDecodes
<1>11. CASE /\ Len(crc) = CrcLen /\ crc # Crc(header_buf \o payload_buf)
            /\ Reset /\ frames_error' = frames_error + 1
  <2> HIDE DEF q
  <2>1. ASSUME NEW k \in (consumed + m)..Len(wire)
        PROVE  Stands(k, start + Len(part) + m, frames', frames_error')
    <3> DEFINE s == SubSeq(wire, 1, k)
               d == DecodedFrom(s)
    <3>1. /\ s \in Seq(Byte) /\ Len(s) = k /\ k \in Nat
          /\ start + (Len(part) + m) - 1 <= k
          /\ \A i \in 1..(Len(part) + m) : s[start + i - 1] = q[i]
          /\ d[start] = DecodedAt(s, start, d)
          /\ d[start + Len(part) + m] \in Result
          /\ d[1].frames = frames \o d[start].frames
          /\ d[1].errors = frames_error + d[start].errors
      BY <1>8, AccountAt
    <3> HIDE DEF s, d
    <3>2. /\ start \in Nat \ {0} /\ Len(part) + m = n /\ frames_error \in Nat /\ n \in Nat
          /\ start + Len(part) + m = start + n
      <4>1. /\ start \in Nat \ {0} /\ Len(part) \in Nat /\ Len(data) \in Nat
            /\ frames_error \in Nat /\ m \in Nat
        BY <1>5, Shapes DEF DecodingInv
      <4>2. Len(part) + m = n
        BY <1>9, <1>11
      <4> QED
        BY <4>1, <4>2
    <3> HIDE DEF n
    <3>3. DecodedAt(s, start, d) = [d[start + n] EXCEPT !.errors = @ + 1]
      <4>1. start + n - 1 <= Len(s) /\ \A i \in 1..n : s[start + i - 1] = q[i]
        BY <3>1, <3>2
      <4>2. n = HeaderLen + Len(payload_buf) + CrcLen
        BY DEF n
      <4>3. \A i \in 1..n : s[start + i - 1] = (header_buf \o payload_buf \o crc)[i]
        BY <4>1 DEF q
      <4>4. DecodedAt(s, start, d) =
                IF crc = Crc(header_buf \o payload_buf)
                THEN [d[start + n] EXCEPT
                         !.frames = <<[type |-> msg_type(header_buf),
                                       payload |-> payload_buf]>> \o @]
                ELSE [d[start + n] EXCEPT !.errors = @ + 1]
        <5>1. /\ s \in Seq(Byte) /\ start \in Nat \ {0} /\ n \in Nat /\ start + n - 1 <= Len(s)
              /\ header_buf \in Seq(Byte) /\ Len(header_buf) = HeaderLen
              /\ HeaderValid(header_buf)
              /\ payload_buf \in Seq(Byte) /\ Len(payload_buf) = payload_len(header_buf)
              /\ crc \in Seq(Byte) /\ Len(crc) = CrcLen
          BY <1>2, <1>7, <1>11, <3>1, <3>2, <4>1
        <5>2. FrameIn(s, start, header_buf, payload_buf, crc, n)
          BY <4>2, <4>3, <5>1 DEF FrameIn
        <5> QED
          BY <5>2, WholeFrame, SMTT(30)
      <4> QED
        BY <1>11, <4>4
    <3>4. d[start + n] \in Result
      BY <3>1, <3>2
    <3>5. /\ d[start].frames = d[start + n].frames
          /\ d[start].errors = d[start + n].errors + 1
          /\ d[start + n].errors \in Nat
      BY <3>1, <3>3, <3>4 DEF Result
    <3>6. d[1].errors = (frames_error + 1) + d[start + n].errors
      <4>1. d[1].errors = frames_error + (d[start + n].errors + 1)
        BY <3>1, <3>5
      <4>2. d[start + n].errors \in Nat /\ frames_error \in Nat
        BY <3>2, <3>5
      <4> QED
        BY <4>1, <4>2
    <3> QED
      BY <1>1, <1>11, <3>1, <3>2, <3>5, <3>6 DEF Stands, s, d
  <2> QED
    BY <1>4, <1>8, <1>11, <2>1, FrameEndDecodes
<1> QED
  <2>1. \/ /\ crc_buf' = crc
           /\ UNCHANGED <<state, header_buf, payload_buf, frames_error>>
        \/ /\ Len(crc) = CrcLen /\ crc = Crc(header_buf \o payload_buf) /\ crc_buf' = crc
           /\ UNCHANGED <<header_buf, payload_buf, frames_error>>
        \/ /\ ~(Len(crc) < CrcLen) /\ ~(Len(crc) = CrcLen /\ crc = Crc(header_buf \o payload_buf))
           /\ Reset /\ frames_error' = frames_error + 1
    BY DEF ParseCrc, crc
  <2>2. Len(crc) < CrcLen \/ Len(crc) = CrcLen
    <3>1. Len(crc) \in Nat /\ CrcLen \in Nat
      BY <1>7, Constants, LenProperties
    <3> QED
      BY <1>7, <3>1
  <2> QED
    BY <1>1, <1>10, <1>11, <2>1, <2>2

LEMMA ParseDecodes == IInv /\ DecodingInv /\ Parse => DecodingInv'
<1> SUFFICES ASSUME IInv, DecodingInv, Parse
             PROVE  DecodingInv'
  OBVIOUS
<1>1. UNCHANGED <<taken, wire>> /\ pc' # "free"
  BY DEF Parse, peer
<1> QED
  BY <1>1, HeaderDecodes, PayloadDecodes, CrcDecodes DEF Parse

\* The caller takes what COMPLETE promised it.
LEMMA HandleFrameDecodes == IInv /\ DecodingInv /\ HandleFrame => DecodingInv'
<1> SUFFICES ASSUME IInv, DecodingInv, HandleFrame
             PROVE  DecodingInv'
  OBVIOUS
<1> DEFINE n   == HeaderLen + Len(payload_buf) + CrcLen
           one == [type |-> msg_type(header_buf), payload |-> payload_buf]
<1>1. /\ state = "COMPLETE" /\ frames' = Append(frames, one) /\ Reset
      /\ UNCHANGED <<data, frames_error, taken, wire>> /\ pc' # "free"
  BY DEF HandleFrame, GetFrame, peer
<1>2. /\ header_buf \in Seq(Byte) /\ payload_buf \in Seq(Byte) /\ crc_buf \in Seq(Byte)
      /\ Len(payload_buf) = payload_len(header_buf)
      /\ Len(header_buf) = HeaderLen /\ HeaderValid(header_buf)
  BY <1>1 DEF IInv, BuffersSuffice, TypeOK, ParserTypeOK, PartsInTurn
<1>3. Len(crc_buf) = CrcLen /\ crc_buf = Crc(header_buf \o payload_buf)
  BY <1>1 DEF DecodingInv, PartsOfStream
<1>4. /\ Len(data) \in Nat /\ Len(part) \in Nat /\ start \in Nat \ {0} /\ frames_error \in Nat
      /\ frames \in Seq([type : Byte, payload : Seq(Byte)]) /\ data \in Seq(Byte)
      /\ Len(part) = Len(header_buf) + Len(payload_buf) + Len(crc_buf)
  BY Shapes DEF DecodingInv
<1>5. 0 \in 0..Len(data) /\ n \in Nat /\ Len(part) + 0 = n /\ start + Len(part) + 0 = start + n
  <2>1. Len(part) = HeaderLen + Len(payload_buf) + CrcLen
    BY <1>2, <1>3, <1>4
  <2> QED
    BY <1>4, <2>1
<1>6. Taken(0)
  <2>1. Len(data) - 0 = Len(data) /\ \A i \in 1..Len(data) : 0 + i = i
    BY <1>4
  <2> QED
    BY <1>1, <2>1 DEF Taken
<1>7. Longer(part, 0)
  <2>1. Len(part) = Len(part) + 0 /\ 1..0 = {}
    BY <1>4
  <2> QED
    BY <2>1 DEF Longer
<1>8. one \in [type : Byte, payload : Seq(Byte)]
  <2>1. Len(header_buf) = 3 /\ \A k \in 1..Len(header_buf) : header_buf[k] \in Byte
    BY <1>2, Constants, LenProperties
  <2>2. header_buf[2] \in Byte
    BY <2>1
  <2> QED
    BY <1>2, <2>2 DEF msg_type
<1>9. ASSUME NEW k \in (consumed + 0)..Len(wire)
      PROVE  Stands(k, start + Len(part) + 0, frames', frames_error')
  <2> DEFINE s == SubSeq(wire, 1, k)
             d == DecodedFrom(s)
  <2>1. /\ s \in Seq(Byte) /\ Len(s) = k /\ k \in Nat
        /\ start + (Len(part) + 0) - 1 <= k
        /\ \A i \in 1..(Len(part) + 0) : s[start + i - 1] = part[i]
        /\ d[start] = DecodedAt(s, start, d)
        /\ d[start + Len(part) + 0] \in Result
        /\ d[1].frames = frames \o d[start].frames
        /\ d[1].errors = frames_error + d[start].errors
    BY <1>5, <1>7, AccountAt
  <2> HIDE DEF s, d
  <2>2. d[start] = [d[start + n] EXCEPT !.frames = <<one>> \o @]
    <3>1. start + n - 1 <= Len(s) /\ \A i \in 1..n : s[start + i - 1] = part[i]
      BY <1>5, <2>1
    <3>2. \A i \in 1..n : s[start + i - 1] = (header_buf \o payload_buf \o crc_buf)[i]
      BY <3>1 DEF part
    <3>3. FrameIn(s, start, header_buf, payload_buf, crc_buf, n)
      BY <1>2, <1>3, <1>4, <1>5, <2>1, <3>1, <3>2 DEF FrameIn
    <3> HIDE DEF n
    <3> QED
      BY <1>3, <2>1, <3>3, WholeFrame
  <2> HIDE DEF n, one
  <2>3. d[start + n] \in Result
    BY <1>5, <2>1
  <2>4. /\ d[start].frames = <<one>> \o d[start + n].frames
        /\ d[start].errors = d[start + n].errors
    BY <2>2, <2>3 DEF Result
  <2>5. frames \o (<<one>> \o d[start + n].frames) = Append(frames, one) \o d[start + n].frames
    <3>1. /\ <<one>> \in Seq([type : Byte, payload : Seq(Byte)])
          /\ d[start + n].frames \in Seq([type : Byte, payload : Seq(Byte)])
      BY <1>8, <2>3 DEF Result
    <3>2. frames \o <<one>> = Append(frames, one)
      BY <1>4, <1>8, AppendIsConcat
    <3>3. (frames \o <<one>>) \o d[start + n].frames = frames \o (<<one>> \o d[start + n].frames)
      <4>1. PICK S : S = [type : Byte, payload : Seq(Byte)]
        OBVIOUS
      <4>2. PICK x \in Seq(S) : x = <<one>>
        BY <3>1, <4>1
      <4>3. PICK y \in Seq(S) : y = d[start + n].frames
        BY <3>1, <4>1
      <4>4. PICK z \in Seq(S) : z = frames
        BY <1>4, <4>1
      <4>5. (z \o x) \o y = z \o (x \o y)
        BY ConcatAssociative
      <4> QED
        BY <4>2, <4>3, <4>4, <4>5
    <3> QED
      BY <3>2, <3>3
  <2> QED
    BY <1>1, <1>5, <2>1, <2>4, <2>5 DEF Stands, s, d
<1> QED
  BY <1>1, <1>5, <1>6, <1>7, <1>9, FrameEndDecodes

LEMMA AcceptDecodes ==
    ASSUME DecodingInv, NEW stream \in Streams, NEW buffers \in Allocations,
           Accept(stream, buffers)
    PROVE  DecodingInv'
<1>1. Fresh
  BY DEF DecodingInv, PartsOfStream, Accept
<1>2. Fresh' /\ pc' # "free" /\ wire' = stream
  BY <1>1 DEF Accept, Fresh, parser, frame
<1>3. stream \in Seq(Byte)
  BY StreamsAssumption
<1>4. Begun'
  BY <1>2, <1>3 DEF Begun
<1> QED
  BY <1>4, BegunDecodesNext

LEMMA CloseDecodes == Close => DecodingInv'
<1> SUFFICES ASSUME Close
             PROVE  DecodingInv'
  OBVIOUS
<1>1. Fresh' /\ wire' = <<>> /\ <<>> \in Seq(Byte)
  BY DEF Close, Fresh, Reset
<1>2. Begun'
  BY <1>1 DEF Begun
<1> QED
  BY <1>2, BegunDecodesNext

LEMMA InitDecodes == Init => DecodingInv
<1>1. Init => Begun
  BY DEF Init, ParserInit, Begun, Fresh
<1> QED
  BY <1>1, BegunDecodes

LEMMA NextDecodes == IInv /\ DecodingInv /\ [Next]_vars => DecodingInv'
<1> SUFFICES ASSUME IInv, DecodingInv, [Next]_vars
             PROVE  DecodingInv'
  OBVIOUS
<1>1. CASE \/ \E n \in 1..(Len(wire) - arrived) : Arrive(n)
           \/ \E how \in {"fin", "rst"} : Leave(how)
           \/ PeerReads
  <2>1. UNCHANGED <<parser, wire, taken, pc>>
    BY <1>1 DEF Arrive, Leave, PeerReads, worker
  <2> QED
    BY <2>1, ElsewhereDecodes
<1>2. CASE \E stream \in Streams, buffers \in Allocations : Accept(stream, buffers)
  BY <1>2, AcceptDecodes
<1>3. CASE EpollWait \/ Arm \/ SendStops \/ SentAll \/ Done
  <2>1. UNCHANGED <<parser, wire, taken>> /\ pc' # "free"
    BY <1>3 DEF EpollWait, Arm, SendStops, SentAll, Done, peer
  <2> QED
    BY <2>1, ElsewhereDecodes
<1>4. CASE Send
  <2>1. UNCHANGED <<parser, wire, taken, pc>>
    BY <1>4 DEF Send, worker
  <2> QED
    BY <2>1, ElsewhereDecodes
<1>5. CASE Recv
  BY <1>5, RecvDecodes
<1>6. CASE Parse
  BY <1>6, ParseDecodes
<1>7. CASE HandleFrame
  BY <1>7, HandleFrameDecodes
<1>8. CASE Close
  BY <1>8, CloseDecodes
<1>9. CASE UNCHANGED vars
  <2>1. UNCHANGED <<parser, wire, taken, pc>>
    BY <1>9 DEF vars, worker, peer
  <2> QED
    BY <2>1, ElsewhereDecodes
<1> QED
  BY <1>1, <1>2, <1>3, <1>4, <1>5, <1>6, <1>7, <1>8, <1>9 DEF Next, WorkerStep

\* What is taken and not handed out yet means nothing, until it is a whole frame.
LEMMA DecodingSuffices == IInv /\ DecodingInv => FramesAsDecoded
<1> SUFFICES ASSUME IInv, DecodingInv
             PROVE  FramesAsDecoded
  OBVIOUS
<1> DEFINE s   == SubSeq(wire, 1, consumed)
           d   == DecodedFrom(s)
           one == [type |-> msg_type(header_buf), payload |-> payload_buf]
           n   == HeaderLen + Len(payload_buf) + CrcLen
<1>1. /\ Len(data) \in Nat /\ Len(part) \in Nat /\ consumed \in Nat /\ taken \in Nat
      /\ Len(wire) \in Nat /\ taken <= Len(wire) /\ consumed + Len(data) = taken
      /\ start + Len(part) = consumed + 1 /\ start \in Nat \ {0} /\ frames_error \in Nat
      /\ Len(part) = Len(header_buf) + Len(payload_buf) + Len(crc_buf)
      /\ frames \in Seq([type : Byte, payload : Seq(Byte)])
  BY Shapes DEF DecodingInv
<1>2. /\ header_buf \in Seq(Byte) /\ payload_buf \in Seq(Byte) /\ crc_buf \in Seq(Byte)
      /\ Len(header_buf) \in Nat /\ Len(payload_buf) \in Nat /\ Len(crc_buf) \in Nat
      /\ state \in {"IDLE", "PAYLOAD", "CRC", "COMPLETE"}
  BY LenProperties DEF IInv, BuffersSuffice, TypeOK, ParserTypeOK
<1>3. Longer(part, 0)
  <2>1. Len(part) = Len(part) + 0 /\ 1..0 = {}
    BY <1>1
  <2> QED
    BY <2>1 DEF Longer
<1>4. 0 \in 0..Len(data) /\ consumed \in (consumed + 0)..Len(wire) /\ consumed \in consumed..Len(wire)
  BY <1>1
<1>5. /\ s \in Seq(Byte) /\ Len(s) = consumed
      /\ \A i \in 1..(Len(part) + 0) : s[start + i - 1] = part[i]
      /\ d[start] = DecodedAt(s, start, d)
      /\ d[1].frames = frames \o d[start].frames
      /\ d[1].errors = frames_error + d[start].errors
  BY <1>3, <1>4, AccountAt
<1>6. \A i \in 1..(consumed + 1) : d[i] = DecodedAt(s, i, d) /\ d[i] \in Result
  BY <1>4, Prefixes DEF DecodingInv
<1>7. Decode(s) = d[1]
  BY DEF Decode
<1> HIDE DEF s, d
<1>8. \A i \in 1..Len(part) : s[start + i - 1] = part[i]
  BY <1>1, <1>5
<1>9. /\ 1 \in 1..(consumed + 1) /\ consumed + 1 \in 1..(consumed + 1) /\ consumed + 1 \in Nat \ {0}
      /\ consumed + 1 + HeaderLen - 1 > Len(s)
  BY <1>1, <1>5, Constants
<1>10. ASSUME NEW fs \in Seq([type : Byte, payload : Seq(Byte)]),
              d[1].frames = fs, d[1].errors = frames_error
       PROVE  Decode(s) = [frames |-> fs, errors |-> frames_error]
  BY <1>6, <1>7, <1>9, <1>10 DEF Result
<1>11. /\ Nothing.frames = <<>> /\ Nothing.errors = 0
  BY DEF Nothing
<1>12. CASE state # "COMPLETE"
  <2>1. DecodedAt(s, start, d) = Nothing
    <3>1. CASE state = "IDLE"
      <4>1. Len(part) < HeaderLen
        <5>1. payload_buf = <<>> /\ crc_buf = <<>> /\ Len(header_buf) < HeaderLen
          BY <3>1 DEF IInv, BuffersSuffice, PartsInTurn
        <5>2. Len(payload_buf) = 0 /\ Len(crc_buf) = 0
          BY <5>1
        <5> QED
          BY <1>1, <1>2, <5>1, <5>2
      <4>2. start + HeaderLen - 1 > Len(s)
        BY <1>1, <1>5, <4>1, Constants
      <4> QED
        BY <1>1, <1>2, <1>5, <4>2, ShortRest
    <3>2. CASE state # "IDLE"
      <4>1. /\ Len(header_buf) = HeaderLen /\ HeaderValid(header_buf)
            /\ Len(payload_buf) <= payload_len(header_buf) /\ Len(crc_buf) < CrcLen
        <5>1. /\ Len(header_buf) = HeaderLen /\ HeaderValid(header_buf)
              /\ state = "PAYLOAD" => Len(payload_buf) <= payload_len(header_buf) /\ crc_buf = <<>>
              /\ state = "CRC" => /\ Len(payload_buf) = payload_len(header_buf)
                                  /\ Len(crc_buf) < CrcLen
          BY <3>2 DEF IInv, BuffersSuffice, PartsInTurn
        <5>2. Len(<<>>) < CrcLen
          BY Constants
        <5> QED
          BY <1>2, <1>12, <3>2, <5>1, <5>2
      <4>2. \A i \in 1..HeaderLen : s[start + i - 1] = header_buf[i]
        <5>1. /\ \A i \in 1..Len(header_buf) : (header_buf \o payload_buf)[i] = header_buf[i]
              /\ header_buf \o payload_buf \in Seq(Byte)
              /\ Len(header_buf \o payload_buf) = Len(header_buf) + Len(payload_buf)
          BY <1>2, TwoParts
        <5>2. \A i \in 1..Len(header_buf \o payload_buf) : part[i] = (header_buf \o payload_buf)[i]
          BY <1>2, <5>1, TwoParts DEF part
        <5>3. /\ 1..HeaderLen \subseteq 1..Len(header_buf \o payload_buf)
              /\ 1..HeaderLen \subseteq 1..Len(part)
          <6>1. HeaderLen <= Len(header_buf \o payload_buf) /\ HeaderLen <= Len(part)
            BY <1>1, <1>2, <4>1, <5>1, SMTT(30)
          <6>2. /\ HeaderLen \in Nat /\ Len(part) \in Nat
                /\ Len(header_buf \o payload_buf) \in Nat
            BY <1>1, <1>2, <5>1, Constants
          <6> QED
            BY <6>1, <6>2
        <5> QED
          BY <1>8, <4>1, <5>1, <5>2, <5>3
      <4>3. start + HeaderLen + payload_len(header_buf) + CrcLen - 1 > Len(s)
        <5>1. payload_len(header_buf) \in Nat
          <6>1. Len(header_buf) = 3 /\ \A k \in 1..Len(header_buf) : header_buf[k] \in Byte
            BY <1>2, <4>1, Constants, LenProperties
          <6>2. header_buf[3] \in Byte
            BY <6>1
          <6> QED
            BY <6>2, Constants DEF payload_len
        <5> QED
          BY <1>1, <1>2, <1>5, <4>1, <5>1, Constants, SMTT(30)
      <4>4. s \in Seq(Byte) /\ start \in Nat \ {0} /\ header_buf \in Seq(Byte)
        BY <1>1, <1>2, <1>5
      <4> QED
        BY <4>1, <4>2, <4>3, <4>4, ShortRest
    <3> QED
      BY <3>1, <3>2
  <2>2. d[1].frames = frames \o <<>> /\ d[1].errors = frames_error + 0
    BY <1>5, <1>11, <2>1
  <2>3. frames \o <<>> = frames /\ frames_error + 0 = frames_error
    BY <1>1, ConcatEmptySeq
  <2>4. Decode(s) = [frames |-> frames, errors |-> frames_error]
    BY <1>1, <1>10, <2>2, <2>3
  <2> QED
    BY <1>12, <2>3, <2>4 DEF FramesAsDecoded, s
<1>13. CASE state = "COMPLETE"
  <2>1. /\ Len(payload_buf) = payload_len(header_buf)
        /\ Len(header_buf) = HeaderLen /\ HeaderValid(header_buf)
    BY <1>13 DEF IInv, BuffersSuffice, PartsInTurn
  <2>2. Len(crc_buf) = CrcLen /\ crc_buf = Crc(header_buf \o payload_buf)
    BY <1>13 DEF DecodingInv, PartsOfStream
  <2>3. n \in Nat /\ Len(part) = n /\ start + n = consumed + 1 /\ start + n - 1 <= Len(s)
    BY <1>1, <1>2, <1>5, <2>1, <2>2, SMTT(30)
  <2>4. \A i \in 1..n : s[start + i - 1] = (header_buf \o payload_buf \o crc_buf)[i]
    BY <1>8, <2>3 DEF part
  <2>5. FrameIn(s, start, header_buf, payload_buf, crc_buf, n)
    BY <1>1, <1>2, <1>5, <2>1, <2>2, <2>3, <2>4 DEF FrameIn
  <2> HIDE DEF n
  <2>6. d[start] = [d[start + n] EXCEPT !.frames = <<one>> \o @]
    BY <1>5, <2>2, <2>5, WholeFrame
  <2>7. d[start + n] = Nothing
    BY <1>2, <1>5, <1>6, <1>9, <2>3, ShortRest
  <2>8. d[start].frames = <<one>> \o <<>> /\ d[start].errors = 0
    BY <2>6, <2>7 DEF Nothing
  <2>9. one \in [type : Byte, payload : Seq(Byte)]
    <3>1. Len(header_buf) = 3 /\ \A k \in 1..Len(header_buf) : header_buf[k] \in Byte
      BY <1>2, <2>1, Constants, LenProperties
    <3>2. header_buf[2] \in Byte
      BY <3>1
    <3> QED
      BY <1>2, <3>2 DEF msg_type
  <2> HIDE DEF one
  <2>10. <<one>> \o <<>> = <<one>> /\ frames \o <<one>> \in Seq([type : Byte, payload : Seq(Byte)])
    <3>1. <<one>> \in Seq([type : Byte, payload : Seq(Byte)])
      BY <2>9
    <3> QED
      BY <1>1, <3>1, ConcatEmptySeq, ConcatProperties
  <2>11. d[1].frames = frames \o <<one>> /\ d[1].errors = frames_error
    BY <1>1, <1>5, <2>8, <2>10
  <2>12. Decode(s) = [frames |-> frames \o <<one>>, errors |-> frames_error]
    BY <1>10, <2>10, <2>11
  <2> QED
    BY <1>13, <2>12 DEF FramesAsDecoded, s, one
<1> QED
  BY <1>12, <1>13

\* eg_proto_parse: however the stream of a connection is cut into arrivals and receives,
\* the frames handed to handle_frame and the errors counted are those of the whole stream.
THEOREM DecodesTheStream == Spec => []FramesAsDecoded
<1>1. Init => DecodingInv
  BY InitDecodes
<1>2. IInv /\ DecodingInv /\ [Next]_vars => DecodingInv'
  BY NextDecodes
<1>3. IInv /\ DecodingInv => FramesAsDecoded
  BY DecodingSuffices
<1>4. Spec => []IInv
  BY Invariance
<1> QED
  BY <1>1, <1>2, <1>3, <1>4, PTL DEF Spec

=============================================================================
