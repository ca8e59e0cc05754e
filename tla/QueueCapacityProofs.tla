------------------------- MODULE QueueCapacityProofs -------------------------
(* Facts about the slot arithmetic that every queue of the library rests on. *)
EXTENDS Integers, QueueCapacity, TLAPS

\* Division with remainder, for Slot.
LEMMA SlotDivision ==
    ASSUME NEW c \in Nat \ {0}, NEW p \in Nat
    PROVE  /\ Slot(p, c) \in 0..(c - 1)
           /\ p \div c \in Int
           /\ p = c * (p \div c) + Slot(p, c)
BY SMT DEF Slot

\* A position is mapped to a slot of the ring.
LEMMA SlotInRange ==
    ASSUME NEW c \in Nat \ {0}, NEW p \in Nat
    PROVE  Slot(p, c) \in 0..(c - 1)
BY SlotDivision

\* Multiples of c are at least c apart.
LEMMA MultiplesApart ==
    ASSUME NEW c \in Nat \ {0}, NEW k \in Int, NEW m \in Int, k < m
    PROVE  c * k + c <= c * m
<1>1. PICK d \in Nat : m = k + 1 + d
  <2>1. m - k - 1 \in Nat
    OBVIOUS
  <2> QED
    BY <2>1
<1>2. c * m = c * k + c + c * d
  BY <1>1
<1>3. c * d \in Nat
  OBVIOUS
<1> QED
  BY <1>2, <1>3

\* Two different positions less than a lap apart have different slots: this is
\* why a queue that never holds more than capacity items overwrites none.
LEMMA SlotInjective ==
    ASSUME NEW c \in Nat \ {0}, NEW a \in Nat, NEW b \in Nat,
           a < b, b < a + c
    PROVE  Slot(a, c) # Slot(b, c)
<1> SUFFICES ASSUME Slot(a, c) = Slot(b, c)
             PROVE  FALSE
  OBVIOUS
<1> DEFINE k == a \div c
           m == b \div c
           r == Slot(a, c)
<1>1. /\ k \in Int /\ m \in Int /\ r \in Int
      /\ a = c * k + r /\ b = c * m + r
  <2>1. r \in 0..(c - 1) /\ k \in Int /\ a = c * k + r
    BY SlotDivision
  <2>2. m \in Int /\ b = c * m + r
    BY SlotDivision
  <2> QED
    BY <2>1, <2>2
<1> HIDE DEF k, m, r
<1>2. c * k \in Int /\ c * m \in Int
  BY <1>1
<1>3. CASE k < m
  BY <1>1, <1>2, <1>3, MultiplesApart
<1>4. CASE k = m
  BY <1>1, <1>2, <1>4
<1>5. CASE m < k
  <2>1. c * m + c <= c * k
    BY <1>1, <1>5, MultiplesApart
  <2> QED
    BY <2>1, <1>1, <1>2
<1> QED
  BY <1>1, <1>3, <1>4, <1>5

\* Positions that share a slot are at least a lap apart.
LEMMA SameSlotApart ==
    ASSUME NEW c \in Nat \ {0}, NEW a \in Nat, NEW b \in Nat,
           a < b, Slot(a, c) = Slot(b, c)
    PROVE  a + c <= b
<1>1. ~(b < a + c)
  BY SlotInjective
<1> QED
  BY <1>1

\* A position is a number of laps and a slot, in one way only.
LEMMA SlotUnique ==
    ASSUME NEW c \in Nat \ {0}, NEW a \in Nat, NEW laps \in Int, NEW r \in 0..(c - 1),
           a = c * laps + r
    PROVE  Slot(a, c) = r
<1> DEFINE k == a \div c
           s == Slot(a, c)
<1>1. s \in 0..(c - 1) /\ k \in Int /\ a = c * k + s
  BY SlotDivision
<1> HIDE DEF k, s
<1>2. c * k \in Int /\ c * laps \in Int
  BY <1>1
<1>3. CASE k < laps
  <2>1. c * k + c <= c * laps
    BY <1>1, <1>3, MultiplesApart
  <2> QED
    BY <2>1, <1>1, <1>2
<1>4. CASE laps < k
  <2>1. c * laps + c <= c * k
    BY <1>1, <1>4, MultiplesApart
  <2> QED
    BY <2>1, <1>1, <1>2
<1>5. CASE k = laps
  BY <1>1, <1>2, <1>5 DEF s
<1> QED
  BY <1>1, <1>3, <1>4, <1>5

\* In the first lap a position is its own slot.
LEMMA SlotOfFirstLap ==
    ASSUME NEW c \in Nat \ {0}, NEW a \in Nat, a < c
    PROVE  Slot(a, c) = a
<1>1. a \in 0..(c - 1) /\ a = c * 0 + a
  OBVIOUS
<1> QED
  BY <1>1, SlotUnique

\* Positions any number of laps apart have the same slot.
LEMMA SlotLapsLater ==
    ASSUME NEW c \in Nat \ {0}, NEW a \in Nat, NEW laps \in Nat
    PROVE  Slot(a + c * laps, c) = Slot(a, c)
<1> DEFINE k == a \div c
           r == Slot(a, c)
<1>1. r \in 0..(c - 1) /\ k \in Int /\ a = c * k + r
  BY SlotDivision
<1> HIDE DEF k, r
<1>2. c * (k + laps) = c * k + c * laps /\ k + laps \in Int /\ c * laps \in Nat /\ c * k \in Int
  BY <1>1
<1>3. a + c * laps \in Nat /\ a + c * laps = c * (k + laps) + r
  BY <1>1, <1>2
<1>4. Slot(a + c * laps, c) = r
  BY <1>1, <1>2, <1>3, SlotUnique
<1> QED
  BY <1>4 DEF r

\* The slot of a position is used again a lap later.
LEMMA SlotNextLap ==
    ASSUME NEW c \in Nat \ {0}, NEW a \in Nat
    PROVE  Slot(a + c, c) = Slot(a, c)
<1>1. c * 1 = c
  OBVIOUS
<1> QED
  BY <1>1, SlotLapsLater

\* Up to the end of the buffer the slots of consecutive positions are consecutive.
LEMMA SlotsInARow ==
    ASSUME NEW c \in Nat \ {0}, NEW a \in Nat, NEW i \in Nat, Slot(a, c) + i < c
    PROVE  Slot(a + i, c) = Slot(a, c) + i
<1> DEFINE k == a \div c
           r == Slot(a, c)
<1>1. r \in 0..(c - 1) /\ k \in Int /\ a = c * k + r
  BY SlotDivision
<1>2. r + i < c
  OBVIOUS
<1> HIDE DEF k, r
<1>3. r + i \in 0..(c - 1) /\ a + i \in Nat /\ c * k \in Int
  BY <1>1, <1>2
<1>4. a + i = c * k + (r + i)
  BY <1>1, <1>3
<1>5. Slot(a + i, c) = r + i
  BY <1>1, <1>3, <1>4, SlotUnique
<1> QED
  BY <1>5 DEF r

\* A position that wraps at a multiple of the capacity keeps its slot.
LEMMA SlotOfWrapped ==
    ASSUME NEW c \in Nat \ {0}, NEW w \in Nat \ {0}, Slot(w, c) = 0, NEW a \in Nat
    PROVE  Slot(a + w, c) = Slot(a, c)
<1> DEFINE k == w \div c
<1>1. Slot(w, c) = 0 /\ k \in Int /\ w = c * k + Slot(w, c)
  BY SlotDivision
<1> HIDE DEF k
<1>2. w = c * k /\ c * k \in Int
  BY <1>1
<1>3. k \in Nat
  <2>1. CASE k < 0
    <3>1. c * k + c <= c * 0
      BY <1>1, <2>1, MultiplesApart
    <3> QED
      BY <1>2, <3>1
  <2> QED
    BY <1>1, <2>1
<1> QED
  BY <1>2, <1>3, SlotLapsLater

\* The difference of two positions that wrap at w, as the code computes it, is how
\* far the one is behind the other.
LEMMA WrappedDifference ==
    ASSUME NEW w \in Nat \ {0}, NEW a \in 0..(w - 1), NEW b \in 0..(w - 1)
    PROVE  LET n == (b - a) % w
           IN  n \in 0..(w - 1) /\ (a + n = b \/ a + n = b + w)
<1> DEFINE n == (b - a) % w
           k == (b - a) \div w
<1>1. n \in 0..(w - 1) /\ k \in Int /\ b - a = w * k + n
  BY SMT
<1> HIDE DEF n, k
<1>2. w * k \in Int /\ w * 0 = 0 /\ w * (-1) = -w
  BY <1>1
<1>3. CASE k = 0
  BY <1>1, <1>2, <1>3
<1>4. CASE k = -1
  BY <1>1, <1>2, <1>4
<1>5. CASE 0 < k
  <2>1. w * 0 + w <= w * k
    BY <1>1, <1>5, MultiplesApart
  <2> QED
    BY <1>1, <1>2, <2>1
<1>6. CASE k < -1
  <2>1. w * k + w <= w * (-1)
    BY <1>1, <1>6, MultiplesApart
  <2> QED
    BY <1>1, <1>2, <2>1
<1>7. n \in 0..(w - 1) /\ (a + n = b \/ a + n = b + w)
  BY <1>1, <1>3, <1>4, <1>5, <1>6
<1> QED
  BY <1>7 DEF n

\* A position below the width is what it wraps to; one less than a width above it loses
\* one width.
LEMMA WrappedSum ==
    ASSUME NEW w \in Nat \ {0}, NEW a \in 0..(w - 1), NEW n \in 0..(w - 1)
    PROVE  /\ (a + n) % w \in 0..(w - 1)
           /\ (a + n) % w = a + n \/ ((a + n) % w) + w = a + n
<1>1. a + n \in Nat
  OBVIOUS
<1>2. (a + n) % w \in 0..(w - 1)
  BY <1>1, SlotInRange DEF Slot
<1>3. CASE a + n < w
  BY <1>1, <1>2, <1>3, SlotOfFirstLap DEF Slot
<1>4. CASE w <= a + n
  <2>1. PICK b \in Nat : a + n = b + w /\ b < w
    <3>1. a + n - w \in Nat /\ a + n = (a + n - w) + w /\ a + n - w < w
      BY <1>4
    <3> QED
      BY <3>1
  <2>2. Slot(b + w, w) = b
    BY <2>1, SlotNextLap, SlotOfFirstLap
  <2>3. (a + n) % w = b
    BY <2>1, <2>2 DEF Slot
  <2> QED
    BY <1>2, <2>1, <2>3
<1> QED
  BY <1>1, <1>2, <1>3, <1>4

\* Advancing the position ahead adds to the difference, as long as it fits the width.
LEMMA WrappedAdvance ==
    ASSUME NEW w \in Nat \ {0}, NEW a \in 0..(w - 1), NEW b \in 0..(w - 1),
           NEW n \in 0..(w - 1), ((b - a) % w) + n < w
    PROVE  (((b + n) % w) - a) % w = ((b - a) % w) + n
<1> DEFINE bb == (b + n) % w
           d == (b - a) % w
           dd == (bb - a) % w
<1>1. bb \in 0..(w - 1) /\ (bb = b + n \/ bb + w = b + n)
  BY WrappedSum
<1>2. d \in 0..(w - 1) /\ (a + d = b \/ a + d = b + w)
  BY WrappedDifference
<1> HIDE DEF bb
<1>3. dd \in 0..(w - 1) /\ (a + dd = bb \/ a + dd = bb + w)
  BY <1>1, WrappedDifference
<1>4. d + n < w
  OBVIOUS
<1> HIDE DEF d, dd
<1>5. dd = d + n
  BY <1>1, <1>2, <1>3, <1>4
<1> QED
  BY <1>5 DEF d, dd, bb

\* Advancing the position behind, up to the one ahead, takes from the difference.
LEMMA WrappedCatchUp ==
    ASSUME NEW w \in Nat \ {0}, NEW a \in 0..(w - 1), NEW b \in 0..(w - 1),
           NEW n \in 0..((b - a) % w)
    PROVE  (b - ((a + n) % w)) % w = ((b - a) % w) - n
<1> DEFINE aa == (a + n) % w
           d == (b - a) % w
           dd == (b - aa) % w
<1>1. d \in 0..(w - 1) /\ (a + d = b \/ a + d = b + w)
  BY WrappedDifference
<1>2. n \in 0..d /\ n \in 0..(w - 1)
  BY <1>1
<1>3. aa \in 0..(w - 1) /\ (aa = a + n \/ aa + w = a + n)
  BY <1>2, WrappedSum
<1> HIDE DEF aa
<1>4. dd \in 0..(w - 1) /\ (aa + dd = b \/ aa + dd = b + w)
  BY <1>3, WrappedDifference
<1> HIDE DEF d, dd
<1>5. dd = d - n
  BY <1>1, <1>2, <1>3, <1>4
<1> QED
  BY <1>5 DEF d, dd, aa

=============================================================================
