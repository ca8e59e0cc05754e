------------------------------ MODULE Checksums ------------------------------
(***************************************************************************)
(* The checksums of crc32.c as functions of a sequence of bytes.           *)
(***************************************************************************)
EXTENDS Words

EG_CRC32_POLY_IEEE       == {31, 30, 29, 27, 26, 24, 23, 21, 20, 19, 15, 9, 8, 5}
EG_CRC32_POLY_CASTAGNOLI == {31, 25, 23, 22, 21, 20, 18, 17, 13, 12, 11, 9, 8, 6, 5, 4, 3}
EG_CRC16_POLY_MODBUS     == {15, 13, 0}
EG_CRC32_INIT            == Ones(32)

-----------------------------------------------------------------------------
(* The computations *)

\* An entry of a table: eight steps of the shift register.
TableEntry(poly, byte) ==
    LET Step(reg) == IF 0 \in reg THEN Shr(reg, 1) ^^ poly ELSE Shr(reg, 1)
        after[reg \in SUBSET Ones(32), j \in 0..8] ==
            IF j = 0 THEN reg ELSE after[Step(reg), j - 1]
    IN  after[byte, 8]

NextCrc(poly, reg, byte) == TableEntry(poly, Low(reg ^^ byte, 8)) ^^ Shr(reg, 8)

\* Four bytes at a time and then one by one is byte by byte.
Update(poly, reg, bytes) ==
    LET after[i \in 0..Len(bytes)] ==
            IF i = 0 THEN reg ELSE NextCrc(poly, after[i - 1], bytes[i])
    IN  after[Len(bytes)]

eg_crc32_final(reg) == reg ^^ EG_CRC32_INIT

eg_crc32(bytes) == eg_crc32_final(Update(EG_CRC32_POLY_IEEE, EG_CRC32_INIT, bytes))

\* Mutant: the stored checksum is taken for big-endian.
StoredBigEndian(bytes) == WordAt(Reverse(SubSeq(bytes, Len(bytes) - 3, Len(bytes))))

Stored(bytes) == WordAt(SubSeq(bytes, Len(bytes) - 3, Len(bytes)))

Verify(bytes) ==
    Len(bytes) >= 4 /\ eg_crc32(SubSeq(bytes, 1, Len(bytes) - 4)) = Stored(bytes)

\* Without SSE4.2.
eg_crc32c(bytes) == Update(EG_CRC32_POLY_CASTAGNOLI, EG_CRC32_INIT, bytes) ^^ EG_CRC32_INIT

Modbus(bytes) == Update(EG_CRC16_POLY_MODBUS, Ones(16), bytes)

CcittStep(reg, byte) ==
    LET y == Shr(reg, 8) ^^ byte
        x == y ^^ Shr(y, 4)
    IN  (Shl(reg, 8, 16) ^^ Shl(x, 12, 16)) ^^ (Shl(x, 5, 16) ^^ x)

Ccitt(bytes) ==
    LET after[i \in 0..Len(bytes)] ==
            IF i = 0 THEN Ones(16) ELSE CcittStep(after[i - 1], bytes[i])
    IN  after[Len(bytes)]

\* The byte at an index, 0 behind the end.
At(bytes, i) == IF i <= Len(bytes) THEN Value(bytes[i]) ELSE 0

Checksum8(bytes) ==
    MapThenSumSet(LAMBDA i : Value(bytes[i]), DOMAIN bytes) % 256

\* Words of two bytes, the first the lower one; an odd byte is a word.
Checksum16(bytes) ==
    MapThenSumSet(LAMBDA i : At(bytes, 2 * i - 1) + 256 * At(bytes, 2 * i),
                  1..((Len(bytes) + 1) \div 2)) % 65536

\* Carries are added back until there are none.
Fold(sum) ==
    LET fold[n \in 0..sum] == IF n < 65536 THEN n ELSE fold[(n % 65536) + (n \div 65536)]
    IN  fold[sum]

\* The first byte of a word is the upper one.
InternetChecksum(bytes) ==
    65535 - Fold(MapThenSumSet(LAMBDA i : 256 * At(bytes, 2 * i - 1) + At(bytes, 2 * i),
                               1..((Len(bytes) + 1) \div 2)))

-----------------------------------------------------------------------------
(* What the checksums are *)

\* The generators as the standards write them, without their leading terms: CRC-32 of
\* IEEE 802.3, CRC-32C of RFC 3720, CRC-16 of Modbus and of the CCITT.
IEEE       == {26, 23, 22, 16, 12, 11, 10, 8, 7, 5, 4, 2, 1, 0}
CASTAGNOLI == {28, 27, 26, 25, 23, 22, 20, 19, 18, 14, 13, 11, 10, 9, 8, 6, 0}
MODBUS     == {15, 2, 0}
CCITT      == {12, 5, 0}

\* What a CRC is: the remainder of the message, as a polynomial over GF(2) whose
\* first width coefficients are inverted, times x^width, divided by the
\* generator x^width + terms.  Polynomials are the sets of their exponents.
Remainder(dividend, generator) ==
    LET degree == Max(generator)
        high == Max(dividend \cup {degree})
        Less(S) == IF S # {} /\ Max(S) >= degree
                   THEN S ^^ {e + Max(S) - degree : e \in generator} ELSE S
        left[S \in SUBSET (0..high), steps \in 0..high] ==
            CASE steps = 0 -> S
              [] steps = 1 -> Less(S)
              [] OTHER     -> left[left[S, steps \div 2], steps - steps \div 2]
    IN  left[dividend, high]

\* Reflected CRCs send the low bit of each byte first.
Reference(width, terms, bytes, reflected) ==
    LET n == 8 * Len(bytes)
        Place(i, k) == n + width - 1 - (8 * (i - 1) + (IF reflected THEN k ELSE 7 - k))
        message == UNION {{Place(i, k) : k \in bytes[i]} : i \in DOMAIN bytes}
        rem == Remainder(message ^^ (n..(n + width - 1)), {width} \cup terms)
    IN  IF reflected THEN {width - 1 - e : e \in rem} ELSE rem

Checked(bytes) == bytes \o BytesOf(eg_crc32(bytes), 4)
Damaged(bytes) == {[bytes EXCEPT ![i] = @ ^^ {k}] : i \in DOMAIN bytes, k \in 0..7}

-----------------------------------------------------------------------------
(* The hardware that computes CRCs *)

\* _mm_crc32_u8 and _mm_crc32_u64 divide by the processor's own polynomial, whatever
\* crc32.h says; the bytes of a word follow each other from the lowest on.
MmCrc32(reg, bytes) ==
    LET n == 8 * Len(bytes)
        Place(k) == n + 31 - k
        message == UNION {{Place(8 * (i - 1) + k) : k \in bytes[i]} : i \in DOMAIN bytes}
    IN  {31 - e : e \in Remainder(message ^^ {Place(k) : k \in reg}, {32} \cup CASTAGNOLI)}

\* Mutant: the bytes in front of the first aligned word are left out.
UpdateSseSkipsHead(reg, bytes, address) ==
    LET head == Min({Len(bytes), (8 - (address % 8)) % 8})
        words == (Len(bytes) - head) \div 8
        after[w \in 0..words] ==
            IF w = 0 THEN reg
            ELSE MmCrc32(after[w - 1], SubSeq(bytes, head + 8 * w - 7, head + 8 * w))
    IN  MmCrc32(after[words], SubSeq(bytes, head + 8 * words + 1, Len(bytes)))

\* Single bytes until the address is aligned, words, and the bytes that are left.
UpdateSse(reg, bytes, address) ==
    LET head == Min({Len(bytes), (8 - (address % 8)) % 8})
        words == (Len(bytes) - head) \div 8
        after[w \in 0..words] ==
            IF w = 0 THEN MmCrc32(reg, SubSeq(bytes, 1, head))
            ELSE MmCrc32(after[w - 1], SubSeq(bytes, head + 8 * w - 7, head + 8 * w))
    IN  MmCrc32(after[words], SubSeq(bytes, head + 8 * words + 1, Len(bytes)))

Reversed(word, width) == {width - 1 - k : k \in word}

\* The STM32 CRC unit with its default polynomial and initial value: the upper bit
\* of a byte comes first unless the unit is told to reverse its input or output.
HalCrcCalculate(unit, bytes) ==
    LET Fed(byte) == IF unit.InputDataInversion THEN Reversed(byte, 8) ELSE byte
        n == 8 * Len(bytes)
        message == UNION {{n + 32 - 8 * i + k : k \in Fed(bytes[i])} : i \in DOMAIN bytes}
        sum == Remainder(message ^^ (n..(n + 31)), {32} \cup IEEE)
    IN  IF unit.OutputDataInversion THEN Reversed(sum, 32) ELSE sum

\* The unit after a reset of the processor, with the flag of crc32.c about it.
s_hcrc == [initialized |-> FALSE, InputDataInversion |-> FALSE, OutputDataInversion |-> FALSE]

\* HAL_CRC_Init sets the unit up, or fails and leaves it alone; then the next call of
\* eg_hw_crc32 tries again.
eg_hw_crc_init(unit, succeeds) ==
    IF unit.initialized THEN unit
    ELSE [initialized |-> succeeds, InputDataInversion |-> succeeds,
          OutputDataInversion |-> succeeds]

\* That it may have failed is not looked at.
eg_hw_crc32(unit, succeeds, bytes) ==
    HalCrcCalculate(eg_hw_crc_init(unit, succeeds), bytes) ^^ EG_CRC32_INIT
=============================================================================
