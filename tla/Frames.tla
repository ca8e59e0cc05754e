------------------------------- MODULE Frames -------------------------------
(***************************************************************************)
(* The functions of protocol.c that build frames and look at them: a       *)
(* caller fills a buffer with frames one behind the other, and whoever     *)
(* gets the buffer walks through it by the lengths in the headers.  Sizes  *)
(* are the real ones; memory is what was last written where, as far as     *)
(* nothing was written over it: a header, a payload or a checksum, which   *)
(* is known by what it was computed from.                                  *)
(***************************************************************************)
EXTENDS Integers, Sequences, Functions, TLC

CONSTANTS Capacity,     \* sizes of the buffer
          Count,        \* numbers of points passed to eg_proto_build_data
          Payload,      \* lengths passed to eg_proto_build_frame
          MaxFrames     \* bound: frames in a buffer

SizesAssumption ==
    Capacity \subseteq Nat /\ Count \subseteq 0..65535 /\ Payload \subseteq 0..65535

EG_PROTO_HEADER_LEN  == 8
EG_PROTO_CRC_LEN     == 4
EG_PROTO_MIN_FRAME   == EG_PROTO_HEADER_LEN + EG_PROTO_CRC_LEN
EG_PROTO_MAX_PAYLOAD == 4096
PointLen             == 24      \* sizeof(eg_data_point_t)

Flag ==
    {"ACK", "COMPRESS", "ENCRYPT", "FRAGMENT", "LAST_FRAG", "PRIORITY", "HEARTBEAT", "ERROR"}
MsgType ==
    {"HEARTBEAT", "HEARTBEAT_ACK", "CONNECT", "CONNECT_ACK", "DISCONNECT", "ERROR",
     "DATA_SINGLE", "DATA_BATCH", "DATA_ACK", "DATA_RESEND",
     "CMD_REQUEST", "CMD_RESPONSE", "CONFIG_GET", "CONFIG_SET",
     "OTA_START", "OTA_DATA", "OTA_FINISH", "OTA_VERIFY",
     "ALARM", "ALARM_ACK", "ALARM_CLEAR"}

eg_proto_frame_len(payload_len) == EG_PROTO_HEADER_LEN + payload_len + EG_PROTO_CRC_LEN

VARIABLES cap, used,     \* the buffer's size, and how much of it has been filled
          mem,           \* of some offsets, what is there
          built          \* what the caller has built since it began at the front

vars == <<cap, used, mem, built>>

\* eg_proto_header_t
HeaderType ==
    [magic : {"GE"}, version : {1}, flags : SUBSET Flag, msg_type : MsgType,
     payload_len : 0..65535]

TypeOK ==
    /\ cap \in Nat /\ used \in Nat /\ built \in Seq([bytes : Nat] \cup [points : Nat])
    /\ \A at \in DOMAIN mem :
          \/ mem[at] \in HeaderType
          \/ mem[at] \in [bytes : Nat] \cup [points : Nat]
          \/ mem[at].of \in HeaderType

Init == cap \in Capacity /\ used = 0 /\ mem = [at \in {} |-> 0] /\ built = <<>>

-----------------------------------------------------------------------------
(* Building: the last argument is what the payload holds *)

Header(msg_type, flags, payload_len) ==
    [magic |-> "GE", version |-> 1, flags |-> flags, msg_type |-> msg_type,
     payload_len |-> payload_len]

Frame(header, payload) ==
    LET crc_at == used + EG_PROTO_HEADER_LEN + header.payload_len
    IN  crc_at :> [of |-> header, and |-> payload]
          @@ used :> header @@ (used + EG_PROTO_HEADER_LEN) :> payload

\* Mutant: the room for the checksum is forgotten.
FitsWithoutCrc(payload_len) == cap - used >= EG_PROTO_HEADER_LEN + payload_len

Fits(payload_len) == cap - used >= eg_proto_frame_len(payload_len)

\* A frame that does not fit is not built; 0 is returned.
BuildFrame(msg_type, flags, payload_len, payload) ==
    IF Fits(payload_len)
    THEN LET end == used + eg_proto_frame_len(payload_len)
         IN  /\ mem' = Frame(Header(msg_type, flags, payload_len), payload)
                         @@ Restrict(mem, {at \in DOMAIN mem : at < used \/ at >= end})
             /\ used' = end
             /\ built' = Append(built, payload)
             /\ UNCHANGED cap
    ELSE UNCHANGED vars

BuildHeartbeat ==
    BuildFrame("HEARTBEAT", {"HEARTBEAT"}, 0, [bytes |-> 0])

BuildHeartbeatAck ==
    BuildFrame("HEARTBEAT_ACK", {"HEARTBEAT", "ACK"}, 0, [bytes |-> 0])

\* The length of the payload, cut to 16 bits, unless it is too long.
Length(count) == {(count * PointLen) % 65536} \cap 0..EG_PROTO_MAX_PAYLOAD

BuildData(count) ==
    IF count = 0 THEN UNCHANGED vars
    ELSE IF Length(count) = {} THEN UNCHANGED vars
    ELSE \E payload_len \in Length(count) :
             BuildFrame("DATA_BATCH", {}, payload_len, [points |-> count])

\* The caller sends what it has and begins at the front; nothing is cleared.
Again == used > 0 /\ used' = 0 /\ built' = <<>> /\ UNCHANGED <<cap, mem>>

Next ==
    \/ /\ Len(built) < MaxFrames
       /\ \/ BuildHeartbeat \/ BuildHeartbeatAck
          \/ \E count \in Count : BuildData(count)
          \/ \E n \in Payload : BuildFrame("OTA_DATA", {"FRAGMENT"}, n, [bytes |-> n])
    \/ Again

-----------------------------------------------------------------------------
(* Looking at frames *)

IsHeader(at) == at \in DOMAIN mem /\ "magic" \in DOMAIN mem[at]

eg_proto_get_payload_len(at) == mem[at].payload_len

\* The checksum has to be that of the header and the payload that are there.
VerifyFrame(at, len) ==
    /\ len >= EG_PROTO_MIN_FRAME /\ IsHeader(at)
    /\ len = eg_proto_frame_len(mem[at].payload_len)
    /\ LET crc_at == at + len - EG_PROTO_CRC_LEN
       IN  /\ crc_at \in DOMAIN mem
           /\ "of" \in DOMAIN mem[crc_at] /\ mem[crc_at].of = mem[at]
           /\ mem[at].payload_len > 0 =>
                 mem[at + EG_PROTO_HEADER_LEN] = mem[crc_at].and

-----------------------------------------------------------------------------
(* Properties *)

\* Where the frames are that lie one behind the other from the front.
Starts ==
    LET from[at \in Nat] ==
            IF at >= used \/ ~IsHeader(at) THEN <<>>
            ELSE <<at>> \o from[at + eg_proto_frame_len(eg_proto_get_payload_len(at))]
    IN  from[0]

\* The walk through a buffer that holds older frames too meets what was built, in
\* its order, and nothing else; every frame passes eg_proto_verify_frame and fails it
\* when it is cut short or has a byte too many; nothing lies behind the buffer's end.
\* A frame of points is one the parser accepts and, unless its length was cut to 16
\* bits, holds all the points.
FramesWhole ==
    /\ TypeOK /\ used <= cap
    /\ Len(Starts) = Len(built)
    /\ \A i \in DOMAIN Starts :
          LET header == mem[Starts[i]]
              len == eg_proto_frame_len(header.payload_len)
              next == IF i = Len(Starts) THEN used ELSE Starts[i + 1]
          IN  /\ next = Starts[i] + len
              /\ {n \in (len - 1)..(len + 1) : VerifyFrame(Starts[i], n)} = {len}
              /\ mem[next - EG_PROTO_CRC_LEN].and = built[i]
              /\ "points" \in DOMAIN built[i] =>
                    /\ header.payload_len <= EG_PROTO_MAX_PAYLOAD
                    /\ built[i].points * PointLen < 65536 =>
                          header.payload_len = built[i].points * PointLen
=============================================================================
