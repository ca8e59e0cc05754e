-------------------------------- MODULE Hashes --------------------------------
(***************************************************************************)
(* murmur3_32, the hash of the Bloom filters, and the other ways to        *)
(* compute with the words of crc32.c and types.h: a stream grows piece by  *)
(* piece, and every function is a function of the whole stream.            *)
(***************************************************************************)
EXTENDS Checksums

CONSTANTS Piece,       \* what a stream grows by
          MaxKey,      \* bound: bytes of a stream
          Published    \* [key, seed, hash]: values of MurmurHash3_x86_32

KeyAssumption ==
    /\ Piece \subseteq Seq(Byte) /\ MaxKey \in Nat
    /\ \A row \in Published : row.key \in Seq(Byte)

Hex(upper, lower) == BitsOf(lower, 16) \cup Shl(BitsOf(upper, 16), 16, 32)

c1 == Hex(52382, 11601)      \* 0xcc9e2d51
c2 == Hex(7047, 13715)       \* 0x1b873593

Rotl(x, r) == Shl(x, r, 32) \cup Shr(x, 32 - r)
Times(x, y) == TimesPlus(x, y, {}, 32)

Scramble(k) == Times(Rotl(Times(k, c1), 15), c2)

\* m = 5, n = 0xe6546b64
Mix(hash, k) ==
    TimesPlus(Rotl(hash ^^ Scramble(k), 13), BitsOf(5, 16), Hex(58964, 27492), 32)

\* 0x85ebca6b, 0xc2b2ae35
Finish(hash) ==
    LET h1 == Times(hash ^^ Shr(hash, 16), Hex(34283, 51819))
        h2 == Times(h1 ^^ Shr(h1, 13), Hex(49842, 44597))
    IN  h2 ^^ Shr(h2, 16)

murmur3_32(key, seed) ==
    LET nblocks == Len(key) \div 4
        after[i \in 0..nblocks] ==
            IF i = 0 THEN seed
            ELSE Mix(after[i - 1], WordAt(SubSeq(key, 4 * i - 3, 4 * i)))
        tail == WordAt(SubSeq(key, 4 * nblocks + 1, Len(key)))
    IN  Finish((after[nblocks] ^^ Scramble(tail)) ^^ BitsOf(Len(key), 16))

-----------------------------------------------------------------------------
(* The stream *)

VARIABLE bytes

Init == bytes = <<>>

Next ==
    \E piece \in Piece :
        Len(bytes) + Len(piece) <= MaxKey /\ bytes' = bytes \o piece

Spec == Init /\ [][Next]_bytes

-----------------------------------------------------------------------------
(* Properties *)

\* murmur3_32 is MurmurHash3: it gives the published values, and keys that differ in
\* one block or in the tail only never collide.
MurmurMixes ==
    /\ \A row \in Published : murmur3_32(row.key, row.seed) = row.hash
    /\ LET hash == murmur3_32(bytes, {})
       IN  \A i \in DOMAIN bytes : murmur3_32([bytes EXCEPT ![i] = @ ^^ {7}], {}) # hash

\* eg_crc32c gives with SSE4.2 what it gives with the table wherever the data begins,
\* and the STM32's CRC unit gives what eg_crc32 gives once it has been set up: at the
\* first call, at one before, or after an attempt that failed.
HardwareAgrees ==
    /\ \A address \in 0..7 :
           UpdateSse(EG_CRC32_INIT, bytes, address) ^^ EG_CRC32_INIT = eg_crc32c(bytes)
    /\ \A unit \in {s_hcrc} \cup {eg_hw_crc_init(s_hcrc, succeeds) : succeeds \in BOOLEAN} :
           eg_hw_crc32(unit, TRUE, bytes) = eg_crc32(bytes)

\* types.h: eg_hton16, 32 and 64 put the upper byte of a word first in the memory of
\* either kind of machine; EG_ALIGN_UP and
\* EG_ALIGN_DOWN give the multiples of a power of two on either side, the upper one
\* modulo 2^64.
WordsInOrder ==
    /\ Len(bytes) \in {2, 4, 8} =>
           \A EG_LITTLE_ENDIAN \in BOOLEAN :
               LET word == eg_hton(WordAt(bytes), Len(bytes), EG_LITTLE_ENDIAN)
                   lower_first == BytesOf(word, Len(bytes))
               IN  Reverse(bytes) = IF EG_LITTLE_ENDIAN THEN lower_first
                                                       ELSE Reverse(lower_first)
    /\ Len(bytes) <= 8 =>
           \A word \in {WordAt(bytes), Ones(64) \ WordAt(bytes)}, align \in {{0}, {3}, {16}} :
               LET up == EG_ALIGN_UP(word, align)
                   down == EG_ALIGN_DOWN(word, align)
               IN  /\ EG_IS_POWER_OF_2(word) <=> Cardinality(word) = 1
                   /\ EG_IS_ALIGNED(up, align) /\ EG_IS_ALIGNED(down, align)
                   /\ word = down \cup (word \cap (0..(Max(align) - 1)))
                   /\ up = IF down = word THEN word ELSE Plus(down, align, 64)
=============================================================================
