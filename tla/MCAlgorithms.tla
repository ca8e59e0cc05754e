---------------------------- MODULE MCAlgorithms ----------------------------
(* The work-stealing queue, the threads that compute checksums, and the     *)
(* functions on words, on small instances.  They share nothing: a behaviour *)
(* is one of one of them.                                                   *)
EXTENDS WsQueue, Bitwise, TLC

CONSTANTS Thread, MaxLen, MaxKey

VARIABLES subject,
          initialized, filled, stage, piece, kind, data, crc,
          bytes

crc32 == <<initialized, filled, stage, piece, kind, data, crc>>

\* One byte, one that needs every bit of the polynomials, and an odd cut.
Chunks == {<<{0}>>, <<{7, 5, 2, 0}>>, <<0..7, {}>>}

C == INSTANCE Crc32 WITH Chunk <- Chunks

\* Single bytes move the rest over the words' borders.
Pieces == {<<{0}>>, <<{7, 5, 2, 0}, {}, 0..7, {1, 6}, {3}, 0..7, 0..7>>}

\* No bytes with seed 1, and the texts "test" and "aaa".
Vectors ==
    LET Word(upper, lower) ==
            {k + 16 : k \in {j \in 0..15 : (upper \div 2^j) % 2 = 1}}
              \cup {j \in 0..15 : (lower \div 2^j) % 2 = 1}
        Letter(n) == Word(0, n)
    IN  {[key |-> <<>>, seed |-> {0}, hash |-> Word(20814, 10423)],
         [key |-> <<Letter(116), Letter(101), Letter(115), Letter(116)>>, seed |-> {},
          hash |-> Word(47723, 53779)],
         [key |-> <<Letter(97), Letter(97), Letter(97)>>, seed |-> Word(38727, 45708),
          hash |-> Word(10302, 304)]}

H == INSTANCE Hashes WITH Piece <- Pieces, Published <- Vectors

ASSUME NoItemAssumption /\ RequestsAssumption
ASSUME BoundsAssumption /\ ThreadsAssumption
ASSUME C!ChunkAssumption /\ H!KeyAssumption

AlgorithmsInit ==
    /\ subject \in {"wsqueue", "crc32", "hashes"}
    /\ Init /\ C!Init /\ H!Init
    /\ subject = "crc32" \/ kind = [t \in Thread |-> "crc32"]

AlgorithmsNext ==
    /\ UNCHANGED subject
    /\ \/ subject = "wsqueue" /\ Next /\ UNCHANGED <<crc32, bytes>>
       \/ subject = "crc32" /\ C!Next /\ UNCHANGED <<vars, bytes>>
       \/ subject = "hashes" /\ H!Next /\ UNCHANGED <<vars, crc32>>

AlgorithmsSpec == AlgorithmsInit /\ [][AlgorithmsNext]_<<subject, vars, crc32, bytes>>

Symmetry == Permutations(Thread) \cup Permutations(Thief) \cup Permutations(Item)

\* The checksums, see Crc32: CRCs in pieces are the remainders of the whole, though
\* threads race for the tables, and sums add up; damage is noticed.
RemaindersExact == C!StreamIsWhole /\ C!Crc16Divides /\ C!PiecesSumUp
ChecksumsDetect == C!VerifyDetects /\ C!InternetSumsUp

\* The queues index with position & mask, the specifications with the remainder of
\* position by capacity: they agree because create rounds up to a power of two, which
\* it does from the number of leading zeros of the request.
MaskIsModulo ==
    \A request \in 1..17, position \in 0..40 :
        LET rounded == RoundedCapacity(request)
        IN  /\ request <= rounded /\ rounded < 2 * request
            /\ position & (rounded - 1) = Slot(position, rounded)

\* The hash and the other ways to compute with words, see Hashes, and the masks.
HashesExact ==
    subject = "hashes" =>
        H!MurmurMixes /\ H!HardwareAgrees /\ H!WordsInOrder /\ MaskIsModulo
=============================================================================
