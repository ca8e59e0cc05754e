-------------------------------- MODULE Crc32 --------------------------------
(***************************************************************************)
(* The threads that compute CRCs.  The tables are filled by whichever      *)
(* calls find the flag unset, without any synchronisation; a CRC may be    *)
(* computed in pieces.                                                     *)
(***************************************************************************)
EXTENDS Checksums

CONSTANTS Thread,
          Chunk,      \* the pieces of data the threads pass
          MaxLen      \* bound: bytes passed by all threads together

ChunkAssumption == \A chunk \in Chunk : chunk \in Seq(Byte) /\ chunk # <<>>

-----------------------------------------------------------------------------
(* The tables and the threads that use them *)

Table == <<"crc32", "crc32c", "modbus">>   \* in the order they are generated
Poly == [crc32 |-> EG_CRC32_POLY_IEEE, crc32c |-> EG_CRC32_POLY_CASTAGNOLI]

VARIABLES initialized,    \* s_tables_initialized
          filled,         \* the tables that are complete
          stage,          \* of each thread: idle, flag, use or the table it generates
          piece,          \* what it was called with
          kind,           \* which CRC its stream has
          data, crc       \* the bytes of its stream, and the running value

tables == <<initialized, filled>>
vars   == <<tables, stage, piece, kind, data, crc>>

Init ==
    /\ initialized = FALSE /\ filled = {}
    /\ stage = [t \in Thread |-> 0] /\ piece = [t \in Thread |-> <<>>]
    /\ kind \in [Thread -> DOMAIN Poly]
    /\ data = [t \in Thread |-> <<>>] /\ crc = [t \in Thread |-> EG_CRC32_INIT]

Use == Len(Table) + 2

Call(t, chunk) ==
    /\ stage[t] = 0
    /\ Len(chunk) + MapThenSumSet(LAMBDA u : Len(data[u]) + Len(piece[u]), Thread) <= MaxLen
    /\ piece' = [piece EXCEPT ![t] = chunk]
    /\ stage' = [stage EXCEPT ![t] = IF initialized THEN Use ELSE 1]
    /\ UNCHANGED <<tables, kind, data, crc>>

\* Mutant: the flag is set before the tables are generated.
GenerateFlagFirst(t) ==
    /\ stage[t] \in DOMAIN Table
    /\ filled' = filled \cup {Table[stage[t]]}
    /\ initialized' = TRUE
    /\ stage' = [stage EXCEPT ![t] = @ + 1]
    /\ UNCHANGED <<piece, kind, data, crc>>

\* A table another thread has already filled is overwritten with the same.
Generate(t) ==
    /\ stage[t] \in DOMAIN Table
    /\ filled' = filled \cup {Table[stage[t]]}
    /\ stage' = [stage EXCEPT ![t] = @ + 1]
    /\ UNCHANGED <<initialized, piece, kind, data, crc>>

SetFlag(t) ==
    /\ stage[t] = Len(Table) + 1
    /\ initialized' = TRUE
    /\ stage' = [stage EXCEPT ![t] = Use]
    /\ UNCHANGED <<filled, piece, kind, data, crc>>

\* A table that nobody has filled is all zero, as generated from no polynomial.
Filled(table) == IF table \in filled THEN Poly[table] ELSE {}

Compute(t) ==
    /\ stage[t] = Use
    /\ crc' = [crc EXCEPT ![t] = Update(Filled(kind[t]), @, piece[t])]
    /\ data' = [data EXCEPT ![t] = @ \o piece[t]]
    /\ piece' = [piece EXCEPT ![t] = <<>>]
    /\ stage' = [stage EXCEPT ![t] = 0]
    /\ UNCHANGED <<tables, kind>>

Next ==
    \E t \in Thread :
        \/ \E chunk \in Chunk : Call(t, chunk)
        \/ Generate(t) \/ SetFlag(t) \/ Compute(t)

-----------------------------------------------------------------------------
(* Properties *)

Computed(t) == data'[t] # data[t]

\* The generators of the standards the two CRCs are named after in crc32.h.
Standard == [crc32 |-> IEEE, crc32c |-> CASTAGNOLI]

\* eg_crc32_update and eg_crc32c_update: a CRC computed in pieces, cut anywhere, is
\* the remainder of the whole by the standard's generator, although several threads
\* may be filling the tables; stores are taken to be seen in their order.
StreamIsWhole ==
    [][\A t \in Thread : Computed(t) =>
          crc'[t] = Reference(32, Standard[kind[t]], data'[t], TRUE)]_vars

\* eg_crc16_modbus by its table and eg_crc16_ccitt by its shifts are remainders.
Crc16Divides ==
    [][\A t \in Thread : Computed(t) =>
          /\ Modbus(data'[t]) = Reference(16, MODBUS, data'[t], TRUE)
          /\ Ccitt(data'[t]) = Reference(16, CCITT, data'[t], FALSE)]_vars

\* eg_crc32_verify accepts data with its checksum behind it and refuses it with any
\* one bit changed, or without its last byte.
VerifyDetects ==
    [][\A t \in Thread : Computed(t) =>
          /\ Verify(Checked(data'[t]))
          /\ \A bytes \in Damaged(Checked(data'[t])) \cup {Front(Checked(data'[t]))} :
                 ~Verify(bytes)]_vars

\* eg_internet_checksum: data of whole words with its checksum behind it sums to
\* all ones, so the checksum of both is zero.
InternetSumsUp ==
    [][\A t \in Thread : Computed(t) /\ Len(data'[t]) % 2 = 0 =>
          LET sum == BitsOf(InternetChecksum(data'[t]), 16)
          IN  InternetChecksum(data'[t] \o <<Shr(sum, 8), Low(sum, 8)>>) = 0]_vars

\* eg_checksum8 and eg_checksum16: the sum of a stream is that of its pieces, as long
\* as no 16-bit word is cut.
PiecesSumUp ==
    [][\A t \in Thread : Computed(t) =>
          /\ Checksum8(data'[t]) = (Checksum8(data[t]) + Checksum8(piece[t])) % 256
          /\ Len(data[t]) % 2 = 0 =>
                Checksum16(data'[t]) = (Checksum16(data[t]) + Checksum16(piece[t])) % 65536]_vars
=============================================================================
