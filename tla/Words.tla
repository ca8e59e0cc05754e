-------------------------------- MODULE Words --------------------------------
(***************************************************************************)
(* Machine words, and the macros of types.h that compute with them.  A     *)
(* word is the set of the positions of its one bits: exclusive or, ^^, is  *)
(* the symmetric difference, & is \cap, and | is \cup.                     *)
(***************************************************************************)
EXTENDS Integers, Sequences, SequencesExt, FiniteSets, FiniteSetsExt

x ^^ y == SymDiff(x, y)

Byte == SUBSET (0..7)
Ones(width) == 0..(width - 1)
Low(word, width) == word \cap Ones(width)
Shr(word, n) == {k - n : k \in {j \in word : j >= n}}
Shl(word, n, width) == Low({k + n : k \in word}, width)
BitsOf(n, width) == {k \in Ones(width) : (n \div 2^k) % 2 = 1}
Value(word) == MapThenSumSet(LAMBDA k : 2^k, word)

\* The word in memory at bytes, the lower one first, and the other way round.
WordAt(bytes) == UNION {{8 * (i - 1) + k : k \in bytes[i]} : i \in DOMAIN bytes}
BytesOf(word, n) == [i \in 1..n |-> Low(Shr(word, 8 * (i - 1)), 8)]

\* x * y + z, by columns from the lowest with the carry of the one before.
TimesPlus(x, y, z, width) ==
    LET Column(n, carry) ==
            Cardinality({k \in x : n - k \in y}) + Cardinality({n} \cap z) + carry
        from[n \in 0..width, carry \in Nat] ==
            IF n = width THEN {}
            ELSE LET sum == Column(n, carry)
                 IN  (IF sum % 2 = 1 THEN {n} ELSE {}) \cup from[n + 1, sum \div 2]
    IN  from[0, 0]

\* There is a carry into a column from the last column on that gave or stopped one.
Plus(x, y, width) ==
    LET Carry(n) == \E j \in x \cap y : j < n /\ (j + 1)..(n - 1) \subseteq x \cup y
    IN  {n \in Ones(width) : Carry(n) <=> (n \in x <=> n \in y)}
Minus1(x, width)  == Plus(x, Ones(width), width)

-----------------------------------------------------------------------------
(* The macros, for words of 64 bits where they do not say *)

EG_SWAP16(x) == Low(Shr(x, 8) \cup Shl(x, 8, 16), 16)

EG_SWAP32(x) ==
    UNION {Shr(x, 24), Shr(x, 8) \cap (8..15), Shl(x, 8, 32) \cap (16..23), Shl(x, 24, 32)}

EG_SWAP64(x) ==
    UNION {Shr(x, 56), Shr(x, 40) \cap (8..15), Shr(x, 24) \cap (16..23),
           Shr(x, 8) \cap (24..31), Shl(x, 8, 64) \cap (32..39),
           Shl(x, 24, 64) \cap (40..47), Shl(x, 40, 64) \cap (48..55), Shl(x, 56, 64)}

eg_hton(x, bytes, EG_LITTLE_ENDIAN) ==
    CASE ~EG_LITTLE_ENDIAN -> x
      [] EG_LITTLE_ENDIAN /\ bytes = 2 -> EG_SWAP16(x)
      [] EG_LITTLE_ENDIAN /\ bytes = 4 -> EG_SWAP32(x)
      [] EG_LITTLE_ENDIAN /\ bytes = 8 -> EG_SWAP64(x)

EG_ALIGN_UP(x, align) == Plus(x, Minus1(align, 64), 64) \ Minus1(align, 64)
EG_ALIGN_DOWN(x, align) == x \ Minus1(align, 64)
EG_IS_ALIGNED(x, align) == x \cap Minus1(align, 64) = {}
EG_IS_POWER_OF_2(x) == x # {} /\ x \cap Minus1(x, 64) = {}
=============================================================================
