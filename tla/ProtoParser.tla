----------------------------- MODULE ProtoParser -----------------------------
(***************************************************************************)
(* eg_proto_parser_t: frames are taken out of a byte stream that arrives   *)
(* in arbitrary pieces.  An action is one turn of eg_proto_parse's loop:   *)
(* it takes what the current part of the frame still needs, or all there   *)
(* is.  A frame is a header, a payload as long as the header says, and a   *)
(* checksum over both.                                                     *)
(*                                                                         *)
(* The header is shortened to one byte per field the parser looks at       *)
(* (magic, message type, payload length) and the checksum to two bytes;    *)
(* Crc stands for CRC-32.                                                  *)
(***************************************************************************)
EXTENDS Integers, Sequences

CONSTANTS Byte,          \* 0..n: byte values, also lengths and message types
          Magic,         \* EG_PROTO_MAGIC_VALUE
          MaxPayload,    \* EG_PROTO_MAX_PAYLOAD
          Crc(_)         \* the checksum of a sequence of bytes, as two bytes

HeaderLen == 3
CrcLen    == 2

ASSUME ByteAssumption == Byte \subseteq Nat /\ Magic \in Byte
ASSUME MaxPayloadAssumption == MaxPayload \in Nat

VARIABLES data,       \* the bytes the caller has and the parser has not taken
          state,      \* IDLE stands for IDLE and HEADER, which behave alike
          header_buf, payload_buf, crc_buf,   \* what has been taken, in parts
          frames,     \* the frames handed to the caller
          frames_error

frame  == <<state, header_buf, payload_buf, crc_buf>>
parser == <<data, frame, frames, frames_error>>

magic(header)       == header[1]
msg_type(header)    == header[2]
payload_len(header) == header[3]

ParserTypeOK ==
    /\ data \in Seq(Byte)
    /\ state \in {"IDLE", "PAYLOAD", "CRC", "COMPLETE"}
    /\ header_buf \in Seq(Byte) /\ Len(header_buf) <= HeaderLen
    /\ payload_buf \in Seq(Byte) /\ Len(payload_buf) <= MaxPayload
    /\ crc_buf \in Seq(Byte) /\ Len(crc_buf) <= CrcLen
    /\ frames \in Seq([type : Byte, payload : Seq(Byte)]) /\ frames_error \in Nat

ParserInit ==
    /\ data = <<>> /\ frames = <<>> /\ frames_error = 0
    /\ state = "IDLE"
    /\ header_buf = <<>> /\ payload_buf = <<>> /\ crc_buf = <<>>

Reset ==
    /\ state' = "IDLE"
    /\ header_buf' = <<>> /\ payload_buf' = <<>> /\ crc_buf' = <<>>

\* The next part of a frame: what was taken of it before, and enough of data to
\* make it n bytes long if there are that many.
Smaller(a, b) == IF a <= b THEN a ELSE b
Fill(part, n) == part \o SubSeq(data, 1, Smaller(n - Len(part), Len(data)))
Rest(part, n) == SubSeq(data, n - Len(part) + 1, Len(data))

HeaderValid(header) ==
    magic(header) = Magic /\ payload_len(header) <= MaxPayload

\* A complete header that is not valid is dropped, all of it.
ParseHeader ==
    /\ data # <<>> /\ state = "IDLE"
    /\ data' = Rest(header_buf, HeaderLen)
    /\ LET header == Fill(header_buf, HeaderLen)
       IN  CASE Len(header) < HeaderLen ->
                   /\ header_buf' = header
                   /\ UNCHANGED <<state, payload_buf, crc_buf, frames_error>>
             [] Len(header) = HeaderLen /\ HeaderValid(header) ->
                   /\ header_buf' = header
                   /\ state' = "PAYLOAD"
                   /\ UNCHANGED <<payload_buf, crc_buf, frames_error>>
             [] OTHER -> Reset /\ frames_error' = frames_error + 1
    /\ UNCHANGED frames

\* Mutant: the payload is taken to be complete when data is used up.
ParsePayloadCut ==
    /\ data # <<>> /\ state = "PAYLOAD"
    /\ LET n == payload_len(header_buf)
       IN  /\ data' = Rest(payload_buf, n)
           /\ payload_buf' = Fill(payload_buf, n)
           /\ state' = "CRC"
    /\ UNCHANGED <<header_buf, crc_buf, frames, frames_error>>

ParsePayload ==
    /\ data # <<>> /\ state = "PAYLOAD"
    /\ LET n == payload_len(header_buf)
       IN  /\ data' = Rest(payload_buf, n)
           /\ payload_buf' = Fill(payload_buf, n)
           /\ state' = IF Len(payload_buf') = n THEN "CRC" ELSE "PAYLOAD"
    /\ UNCHANGED <<header_buf, crc_buf, frames, frames_error>>

\* A frame whose checksum does not match is dropped.
ParseCrc ==
    /\ data # <<>> /\ state = "CRC"
    /\ data' = Rest(crc_buf, CrcLen)
    /\ LET crc == Fill(crc_buf, CrcLen)
       IN  CASE Len(crc) < CrcLen ->
                   /\ crc_buf' = crc
                   /\ UNCHANGED <<state, header_buf, payload_buf, frames_error>>
             [] Len(crc) = CrcLen /\ crc = Crc(header_buf \o payload_buf) ->
                   /\ crc_buf' = crc
                   /\ state' = "COMPLETE"
                   /\ UNCHANGED <<header_buf, payload_buf, frames_error>>
             [] OTHER -> Reset /\ frames_error' = frames_error + 1
    /\ UNCHANGED frames

\* The caller takes a complete frame and resets the parser.
GetFrame ==
    /\ state = "COMPLETE"
    /\ frames' = Append(frames, [type |-> msg_type(header_buf), payload |-> payload_buf])
    /\ Reset
    /\ UNCHANGED <<data, frames_error>>

-----------------------------------------------------------------------------
(* The functions that look at a whole frame at once *)

BuildFrame(type, payload) ==
    LET body == <<Magic, type, Len(payload)>> \o payload
    IN  body \o Crc(body)

VerifyFrame(bytes) ==
    LET body == SubSeq(bytes, 1, Len(bytes) - CrcLen)
    IN  /\ Len(bytes) >= HeaderLen + CrcLen
        /\ magic(bytes) = Magic
        /\ Len(bytes) = HeaderLen + payload_len(bytes) + CrcLen
        /\ SubSeq(bytes, Len(bytes) - CrcLen + 1, Len(bytes)) = Crc(body)

-----------------------------------------------------------------------------
(* What a stream of bytes means, whatever the pieces it arrives in: frames   *)
(* follow each other; an invalid header is skipped, and so is a whole frame  *)
(* with a wrong checksum.                                                    *)

\* What a stream holds from each of its bytes on.
DecodedFrom(stream) ==
    LET from[i \in 1..(Len(stream) + 1)] ==
            LET header == SubSeq(stream, i, i + HeaderLen - 1)
                n      == HeaderLen + payload_len(header) + CrcLen
                bytes  == SubSeq(stream, i, i + n - 1)
            IN  IF i + HeaderLen - 1 > Len(stream)
                THEN [frames |-> <<>>, errors |-> 0]
                ELSE IF ~HeaderValid(header)
                THEN [from[i + HeaderLen] EXCEPT !.errors = @ + 1]
                ELSE IF i + n - 1 > Len(stream)
                THEN [frames |-> <<>>, errors |-> 0]
                ELSE IF VerifyFrame(bytes)
                THEN [from[i + n] EXCEPT
                         !.frames = <<[type    |-> msg_type(header),
                                       payload |-> SubSeq(bytes, HeaderLen + 1,
                                                          n - CrcLen)]>> \o @]
                ELSE [from[i + n] EXCEPT !.errors = @ + 1]
    IN  from

Decode(stream) == DecodedFrom(stream)[1]
=============================================================================
