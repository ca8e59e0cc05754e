----------------------------- MODULE Connection -----------------------------
(***************************************************************************)
(* One connection of the epoll server, from handle_accept to conn_free:    *)
(* its worker waits for edge-triggered events, receives until the socket   *)
(* is empty, parses, answers heartbeats through the send buffer and sends  *)
(* until the socket is full.  The peer and the kernel's socket are         *)
(* external: bytes arrive in any pieces, and the peer reads when it likes, *)
(* ends its stream or breaks the connection.                               *)
(***************************************************************************)
EXTENDS ProtoParser, FiniteSets

CONSTANTS Streams,      \* the byte streams a peer may send
          Allocations,  \* which of a connection's three buffers malloc provides
          Heartbeat,    \* EG_MSG_HEARTBEAT
          AckLen,       \* the length of a heartbeat acknowledgement
          RecvCap, SendCap,   \* RECV_BUFFER_SIZE, SEND_BUFFER_SIZE
          Room          \* the size of the kernel's send buffer

\* Without its payload buffer the parser writes through NULL: not modelled.
ASSUME AllocationsAssumption ==
    \A buffers \in Allocations : "payload" \in buffers /\ buffers \subseteq
                                  {"recv", "send", "payload"}
ASSUME StreamsAssumption == Streams \subseteq Seq(Byte)
ASSUME SizesAssumption ==
    /\ AckLen \in Nat \ {0} /\ RecvCap \in Nat \ {0}
    /\ SendCap \in Nat \ {0} /\ Room \in Nat \ {0}

VARIABLES pc,          \* where the worker is with this connection
          events,      \* what epoll_wait reported
          have,        \* the buffers the connection has
          send_len, send_pos,
          closing,     \* CONN_STATE_CLOSING
          interest, ready,     \* epoll: what is asked for; whether an edge waits
          wire, arrived, taken,   \* the peer's stream; how much arrived and was received
          room,        \* free bytes of the kernel's send buffer
          gone,        \* "no", or how the peer left: "fin" or "rst"
          acks, sent   \* acknowledgements built, bytes the kernel took

worker == <<pc, events>>
conn   == <<have, send_len, send_pos, closing>>
epoll  == <<interest, ready>>
peer   == <<wire, arrived, room, gone>>
vars   == <<parser, worker, conn, epoll, peer, taken, acks, sent>>

TypeOK ==
    /\ ParserTypeOK
    /\ Len(data) <= RecvCap
    /\ pc \in {"free", "wait", "recv", "parse", "frame", "arm", "send", "done"}
    /\ have \subseteq {"recv", "send", "payload"}
    /\ events \subseteq {"in", "out"} /\ interest \subseteq {"in", "out"}
    /\ ready \in BOOLEAN
    /\ send_pos \in 0..send_len /\ send_len \in 0..SendCap
    /\ closing \in BOOLEAN
    /\ wire \in Seq(Byte) /\ arrived \in 0..Len(wire) /\ taken \in 0..arrived
    /\ room \in 0..Room /\ gone \in {"no", "fin", "rst"}
    /\ acks \in Nat /\ sent \in Nat

Init ==
    /\ ParserInit
    /\ pc = "free" /\ events = {} /\ have = {}
    /\ send_len = 0 /\ send_pos = 0 /\ closing = FALSE
    /\ interest = {} /\ ready = FALSE
    /\ wire = <<>> /\ arrived = 0 /\ taken = 0 /\ room = Room /\ gone = "no"
    /\ acks = 0 /\ sent = 0

\* What epoll finds ready at this moment.
Level == (IF arrived > taken \/ gone # "no" THEN {"in"} ELSE {})
         \cup (IF room > 0 THEN {"out"} ELSE {})

\* EPOLL_CTL_ADD and EPOLL_CTL_MOD report what is ready already.
Watch(set) == interest' = set /\ ready' = (Level \cap set # {})

-----------------------------------------------------------------------------
(* The peer and the kernel *)

Arrive(n) ==
    /\ pc # "free" /\ gone = "no"
    /\ arrived + n <= Len(wire)
    /\ arrived' = arrived + n
    /\ ready' = TRUE
    /\ UNCHANGED <<parser, worker, conn, interest, wire, taken, room, gone, acks, sent>>

\* The peer has sent everything, or its connection breaks.
Leave(how) ==
    /\ pc # "free" /\ gone = "no"
    /\ how = "fin" => arrived = Len(wire)
    /\ gone' = how
    /\ ready' = TRUE
    /\ UNCHANGED <<parser, worker, conn, interest, wire, arrived, taken, room, acks, sent>>

\* The edge is raised when a full socket has room again.
PeerReads ==
    /\ pc # "free" /\ room < Room
    /\ room' = Room
    /\ ready' = (ready \/ (room = 0 /\ "out" \in interest))
    /\ UNCHANGED <<parser, worker, conn, interest, wire, arrived, taken, gone, acks, sent>>

-----------------------------------------------------------------------------
(* The worker *)

\* handle_accept and conn_alloc; nobody looks whether the buffers are there.
Accept(stream, buffers) ==
    /\ pc = "free"
    /\ pc' = "wait" /\ events' = {}
    /\ have' = buffers
    /\ wire' = stream /\ arrived' = 0 /\ taken' = 0 /\ room' = Room /\ gone' = "no"
    /\ interest' = {"in"} /\ ready' = FALSE
    /\ UNCHANGED <<parser, send_len, send_pos, closing, acks, sent>>

\* An edge is reported once, with everything that is ready by then and asked
\* for; an error is reported without being asked for.
EpollWait ==
    /\ pc = "wait" /\ ready
    /\ ready' = FALSE
    /\ events' = Level \cap interest
    /\ closing' = (gone = "rst")
    /\ pc' = IF gone = "rst" THEN "done"
             ELSE CASE "in" \in events'  -> "recv"
                    [] events' = {"out"} -> "send"
                    [] OTHER             -> "wait"
    /\ UNCHANGED <<parser, have, send_len, send_pos, interest, peer, taken, acks, sent>>

\* Mutant: nothing to receive is taken for the end of the stream.
RecvEmptyCloses ==
    /\ pc = "recv"
    /\ LET n == Smaller(arrived - taken, RecvCap - Len(data))
       IN  IF n > 0 /\ gone # "rst" /\ "recv" \in have
           THEN /\ data' = data \o SubSeq(wire, taken + 1, taken + n)
                /\ taken' = taken + n
                /\ pc' = "parse"
                /\ UNCHANGED closing
           ELSE /\ closing' = TRUE
                /\ pc' = "arm"
                /\ UNCHANGED <<data, taken>>
    /\ UNCHANGED <<frame, frames, frames_error, events, have, send_len, send_pos,
                   epoll, peer, acks, sent>>

\* recv fails on a broken connection and on a buffer that is not there; it
\* returns 0 at the end of the stream, and when it is given no space.
Recv ==
    /\ pc = "recv"
    /\ LET space == RecvCap - Len(data)
           n     == Smaller(arrived - taken, space)
       IN  IF n > 0 /\ gone # "rst" /\ "recv" \in have
           THEN /\ data' = data \o SubSeq(wire, taken + 1, taken + n)
                /\ taken' = taken + n
                /\ pc' = "parse"
                /\ UNCHANGED closing
           ELSE /\ closing' = (arrived > taken \/ gone # "no" \/ space = 0)
                /\ pc' = "arm"
                /\ UNCHANGED <<data, taken>>
    /\ UNCHANGED <<frame, frames, frames_error, events, have, send_len, send_pos,
                   epoll, peer, acks, sent>>

\* handle_read calls eg_proto_parse until everything received is taken.
Parse ==
    /\ pc = "parse"
    /\ ParseHeader \/ ParsePayload \/ ParseCrc
    /\ pc' = IF state' = "COMPLETE" THEN "frame"
             ELSE IF data' = <<>> THEN "recv" ELSE "parse"
    /\ UNCHANGED <<events, conn, epoll, peer, taken, acks, sent>>

\* Mutant: one frame for each recv.
HandleFrameThenRecv ==
    /\ pc = "frame"
    /\ GetFrame
    /\ IF /\ msg_type(header_buf) = Heartbeat
          /\ "send" \in have /\ SendCap - send_len >= AckLen
       THEN send_len' = send_len + AckLen /\ acks' = acks + 1
       ELSE UNCHANGED <<send_len, acks>>
    /\ pc' = "recv"
    /\ UNCHANGED <<events, have, send_pos, closing, epoll, peer, taken, sent>>

\* A heartbeat is acknowledged if the acknowledgement fits the send buffer.
HandleFrame ==
    /\ pc = "frame"
    /\ GetFrame
    /\ IF /\ msg_type(header_buf) = Heartbeat
          /\ "send" \in have /\ SendCap - send_len >= AckLen
       THEN send_len' = send_len + AckLen /\ acks' = acks + 1
       ELSE UNCHANGED <<send_len, acks>>
    /\ pc' = IF data = <<>> THEN "recv" ELSE "parse"
    /\ UNCHANGED <<events, have, send_pos, closing, epoll, peer, taken, sent>>

\* Mutant: the events asked for stay what they are.
ArmNothing ==
    /\ pc = "arm"
    /\ pc' = IF "out" \in events THEN "send" ELSE "done"
    /\ UNCHANGED <<parser, events, conn, epoll, peer, taken, acks, sent>>

\* The end of handle_read: ask for EPOLLOUT while there is something to send.
Arm ==
    /\ pc = "arm"
    /\ IF send_len > 0 /\ ~closing THEN Watch({"in", "out"}) ELSE UNCHANGED epoll
    /\ pc' = IF "out" \in events THEN "send" ELSE "done"
    /\ UNCHANGED <<parser, events, conn, peer, taken, acks, sent>>

Send ==
    /\ pc = "send" /\ send_pos < send_len /\ gone # "rst" /\ room > 0
    /\ LET n == Smaller(send_len - send_pos, room)
       IN  /\ send_pos' = send_pos + n
           /\ sent' = sent + n
           /\ room' = room - n
    /\ UNCHANGED <<parser, worker, have, send_len, closing, epoll,
                   wire, arrived, gone, taken, acks>>

\* Sending fails on a broken connection and stops when the socket is full.
SendStops ==
    /\ pc = "send" /\ send_pos < send_len
    /\ gone = "rst" \/ room = 0
    /\ closing' = (closing \/ gone = "rst")
    /\ pc' = "done"
    /\ UNCHANGED <<parser, events, have, send_len, send_pos, epoll, peer, taken, acks, sent>>

\* Mutant: the length is kept.
SentAllKeepsLength ==
    /\ pc = "send" /\ send_pos = send_len
    /\ send_pos' = 0
    /\ Watch({"in"})
    /\ pc' = "done"
    /\ UNCHANGED <<parser, events, have, send_len, closing, peer, taken, acks, sent>>

SentAll ==
    /\ pc = "send" /\ send_pos = send_len
    /\ send_pos' = 0 /\ send_len' = 0
    /\ Watch({"in"})
    /\ pc' = "done"
    /\ UNCHANGED <<parser, events, have, closing, peer, taken, acks, sent>>

\* The end of the event; conn_free leaves a connection as conn_alloc wants it.
Done ==
    /\ pc = "done" /\ ~closing
    /\ pc' = "wait" /\ events' = {}
    /\ UNCHANGED <<parser, conn, epoll, peer, taken, acks, sent>>

Close ==
    /\ pc = "done" /\ closing
    /\ pc' = "free" /\ events' = {} /\ have' = {}
    /\ send_len' = 0 /\ send_pos' = 0 /\ closing' = FALSE
    /\ interest' = {} /\ ready' = FALSE
    /\ data' = <<>> /\ frames' = <<>> /\ frames_error' = 0 /\ Reset
    /\ wire' = <<>> /\ arrived' = 0 /\ taken' = 0 /\ room' = Room /\ gone' = "no"
    /\ acks' = 0 /\ sent' = 0

-----------------------------------------------------------------------------
WorkerStep ==
    \/ EpollWait \/ Recv \/ Parse \/ HandleFrame \/ Arm
    \/ Send \/ SendStops \/ SentAll \/ Done \/ Close

Next ==
    \/ \E n \in 1..(Len(wire) - arrived) : Arrive(n)
    \/ \E how \in {"fin", "rst"} : Leave(how)
    \/ PeerReads
    \/ \E stream \in Streams, buffers \in Allocations : Accept(stream, buffers)
    \/ WorkerStep

Spec == Init /\ [][Next]_vars

\* The worker keeps running, and the peer goes on reading what it is sent.
Fairness == WF_vars(WorkerStep) /\ WF_vars(PeerReads)

-----------------------------------------------------------------------------
(* Properties *)

consumed == taken - Len(data)

\* However the stream is cut into arrivals and receives, the frames handed out
\* and the errors counted are those of the stream taken as a whole.
FramesAsDecoded ==
    pc # "free" =>
        LET complete == IF state = "COMPLETE"
                        THEN <<[type |-> msg_type(header_buf), payload |-> payload_buf]>>
                        ELSE <<>>
        IN  Decode(SubSeq(wire, 1, consumed)) =
                [frames |-> frames \o complete, errors |-> frames_error]

\* eg_proto_parse: what has been taken of a frame is what its state says.
PartsInTurn ==
    /\ state = "IDLE" => Len(header_buf) < HeaderLen /\ payload_buf = <<>>
    /\ state # "IDLE" => Len(header_buf) = HeaderLen /\ HeaderValid(header_buf)
    /\ state = "PAYLOAD" => Len(payload_buf) <= payload_len(header_buf)
    /\ state \in {"CRC", "COMPLETE"} => Len(payload_buf) = payload_len(header_buf)
    /\ state \in {"IDLE", "PAYLOAD"} => crc_buf = <<>>
    /\ state = "CRC" => Len(crc_buf) < CrcLen
    /\ state = "COMPLETE" <=> pc = "frame"

\* Every call of recv has the whole buffer: it is never asked for 0 bytes, which
\* would look like the end of the stream.
NothingLeftBehind ==
    /\ pc \notin {"parse", "frame"} => data = <<>>
    /\ pc = "parse" => data # <<>>

\* handle_read and the parser between any two steps: no buffer is written past its
\* end, and none is full of bytes already dealt with when recv is called.
BuffersSuffice == TypeOK /\ PartsInTurn /\ NothingLeftBehind

\* What the peer has got and what waits in the send buffer is a whole number of
\* acknowledgements, at most one for each heartbeat, also across partial sends.
Heartbeats == {i \in DOMAIN frames : frames[i].type = Heartbeat}
AcksWhole ==
    /\ sent + (send_len - send_pos) = AckLen * acks
    /\ acks <= Cardinality(Heartbeats)

\* The server gives up a connection only when the peer left or the connection
\* has no buffer to receive into.
ClosedForCause ==
    [][closing' /\ ~closing => gone # "no" \/ "recv" \notin have]_vars

\* No edge is lost: what has arrived is taken, or the connection ends.
ArrivedIsTaken == consumed < arrived ~> (consumed = arrived \/ pc = "free")

\* No acknowledgement stays behind in the send buffer while the peer reads.
AcksAreSent == sent < AckLen * acks ~> (sent = AckLen * acks \/ pc = "free")

\* Edge-triggered epoll, both ways: whoever stops receiving or sending is woken again.
NoEdgeLost == ArrivedIsTaken /\ AcksAreSent
=============================================================================
