-------------------------- MODULE MemoryPoolProofs --------------------------
(***************************************************************************)
(* The safety of MemoryPool, and of its check in CheckedPool, for all      *)
(* tables of size classes, all buffers and any number of threads.          *)
(*                                                                         *)
(* A free list is a chain of links through the blocks.  IInv says that it  *)
(* is the chain of some sequence of blocks without repetitions; the facts  *)
(* about Link that the properties are stated with follow from that.        *)
(***************************************************************************)
EXTENDS CheckedPool, FiniteSetTheorems, SequenceTheorems, WellFoundedInduction, TLAPS

Small == UNION {Blocks(c) : c \in Classes}

\* The n blocks L, in this order, are what is on the list of class c.
IsList(c, n, L) ==
    /\ \A i, j \in 1..n : L[i] = L[j] => i = j
    /\ free_list[c] = IF n = 0 THEN Nil ELSE L[1]
    /\ \A i \in 1..n : header[L[i]].next = IF i = n THEN Nil ELSE L[i + 1]

\* Blocks that are on no list and that somebody can reach.
Used == {h.block : h \in Owned} \cup Passing

\* What the thread in its critical section has yet to add to free_count[c].
Pending(c) ==
    IF lock = Nil \/ block[lock] = Nil THEN 0
    ELSE IF header[block[lock]].class # c THEN 0
    ELSE IF pc[lock] = "count" THEN 1
    ELSE IF pc[lock] = "uncount" THEN -1
    ELSE 0

ListOK(c) ==
    \E n \in 0..BlockCount[c] : \E L \in [1..n -> Blocks(c)] :
        /\ IsList(c, n, L)
        /\ {L[i] : i \in 1..n} = Blocks(c) \ Used
        /\ free_count[c] = n + Pending(c)

ListsOK == \A c \in Classes : ListOK(c)

LockOK ==
    /\ lock \in Thread \cup {Nil}
    /\ \A t \in Thread : pc[t] \in {"take", "count", "push", "uncount"} <=> lock = t

\* A block large enough for n bytes behind its header.
Fits(b, n) ==
    IF header[b].class = Large THEN n + Header <= header[b].next
    ELSE n <= UserSize(header[b].class)

IsOwner(h) ==
    /\ h = [block |-> h.block, size |-> h.size]
    /\ h.block \in DOMAIN header /\ h.size \in Nat /\ Fits(h.block, h.size)

LocalsOK ==
    /\ pc \in [Thread -> {"idle", "take", "count", "refree", "push", "uncount",
                          "head", "walk"}]
    /\ size \in [Thread -> Nat]
    /\ DOMAIN block = Thread /\ DOMAIN old = Thread
    /\ cls \in [Thread -> Classes]
    /\ verdict \in [Thread -> {"none", "ok", "mismatch", "overflow"}]
    /\ \A t \in Thread :
          /\ pc[t] \in {"take", "count"} => size[t] \in Sizes
          /\ pc[t] = "refree" => old[t] # Nil
          /\ pc[t] = "count" /\ block[t] # Nil =>
                 /\ block[t] \in DOMAIN header
                 /\ header[block[t]].class = SizeClass(size[t])
                 /\ Fits(block[t], size[t])
          /\ pc[t] \in {"push", "uncount"} => block[t] \in DOMAIN header

\* The threads with a block that realloc has taken from its caller.
Holding == {t \in Thread : pc[t] \in {"take", "count", "refree"} /\ old[t] # Nil}

OwnersOK ==
    /\ \A h \in Owned : IsOwner(h)
    /\ \A h, g \in Owned : h.block = g.block => h = g
    /\ \A t \in Holding : old[t] \notin held
    /\ \A t, u \in Holding : old[t] = old[u] => t = u
    /\ \A h \in Owned : h.block \notin Passing
    /\ \A t \in Thread : pc[t] = "uncount" => block[t] \notin Used

\* The pool between create and destroy.
Created ==
    /\ \E buffer \in Buffers : pool_size = buffer.size /\ HoldsClasses(buffer)
    /\ Small \subseteq DOMAIN header
    /\ \A b \in DOMAIN header : header[b] = [class |-> header[b].class, next |-> header[b].next]
    /\ \A c \in Classes : \A b \in Blocks(c) : header[b].class = c
    /\ \A b \in DOMAIN header \ Small :
          /\ header[b].class = Large /\ header[b].next \in Nat \ {0}
          /\ b \in Nat /\ buddy_start <= b /\ b + header[b].next <= pool_size
    /\ ListsOK

\* The pool before create and after destroy: nobody is inside a call.
NotCreated ==
    /\ pool_size \in Nat /\ current_usage = 0
    /\ DOMAIN header = {} /\ held = {} /\ lock = Nil
    /\ \A t \in Thread : pc[t] = "idle"
    /\ free_list = [c \in Classes |-> Nil] /\ free_count = [c \in Classes |-> 0]

\* Large blocks in use have nothing in common.
LargeApart ==
    \A a, b \in Used : header[a].class = Large /\ header[b].class = Large /\ a # b =>
        a + header[a].next <= b \/ b + header[b].next <= a

IInv ==
    /\ initialized \in BOOLEAN /\ current_usage \in 0..(Word - 1)
    /\ from \in {"mmap", "caller"}
    /\ free_list \in [Classes -> 0..(Word - 1) \cup {Nil}] /\ DOMAIN free_count = Classes
    /\ LockOK /\ LocalsOK /\ OwnersOK /\ LargeApart
    /\ IF initialized THEN Created ELSE NotCreated

\* check, alone with the pool since it began: it has followed the first links of the
\* list of its class, and found no fault.
CheckInv ==
    /\ alone \subseteq Thread
    /\ lock # Nil => alone = {}
    /\ \A t \in alone :
          /\ pc[t] \in {"idle", "head", "walk"}
          /\ verdict[t] \notin {"mismatch", "overflow"}
          /\ pc[t] = "walk" =>
                 /\ size[t] \in 0..Cardinality(FreeBlocks(cls[t]))
                 /\ block[t] = Link(cls[t])[size[t]]

-----------------------------------------------------------------------------
(* Induction: a set of natural numbers, or of subsets of a finite set, that is *)
(* not empty has a smallest element.                                           *)

\* A set of natural numbers that is not empty has a least element.
LEMMA LeastNatural ==
    ASSUME NEW S \in SUBSET Nat, S # {}
    PROVE  \E n \in S : \A m \in S : n <= m
<1> DEFINE R == OpToRel(<, Nat)
<1>1. PICK n \in S : \A m \in S : ~(<<m, n>> \in R)
  <2> HIDE DEF R
  <2>1. IsWellFoundedOn(R, Nat)
    BY NatLessThanWellFounded DEF R
  <2> QED
    BY <2>1, WFMin
<1>2. ASSUME NEW m \in S
      PROVE  n <= m
  <2>1. m < n => <<m, n>> \in R
    BY DEF OpToRel
  <2> HIDE DEF R
  <2>2. ~(m < n)
    BY <2>1, <1>1
  <2>3. m \in Nat /\ n \in Nat
    OBVIOUS
  <2> QED
    BY <2>2, <2>3
<1> QED
  BY <1>2

\* A set of subsets of a finite set that is not empty has one that contains no other.
LEMMA LeastSubset ==
    ASSUME NEW U, IsFiniteSet(U), NEW P \in SUBSET SUBSET U, P # {}
    PROVE  \E s \in P : \A r \in P : ~(r \subseteq s /\ r # s)
<1>1. P \subseteq FiniteSubsetsOf(U)
  BY FS_Subset DEF FiniteSubsetsOf
<1>2. PICK s \in P : \A r \in P : ~(<<r, s>> \in StrictSubsetOrdering(U))
  BY <1>1, FS_StrictSubsetOrderingWellFounded, WFMin
<1> QED
  BY <1>1, <1>2 DEF StrictSubsetOrdering, FiniteSubsetsOf

-----------------------------------------------------------------------------
(* The layout *)

\* s_size_classes and s_block_counts: how many classes there are, and what is in an entry.
LEMMA Tables ==
    /\ Len(BlockSize) \in Nat \ {0} /\ Classes = 1..Len(BlockSize) /\ Large \notin Classes
    /\ \A c \in Classes : /\ BlockSize[c] \in Nat \ {0} /\ BlockCount[c] \in Nat \ {0}
                          /\ BlockSize[c] * BlockCount[c] \in Nat
<1>0. Len(BlockSize) \in 1..(Large - 1) /\ Len(BlockCount) = Len(BlockSize)
  BY TablesAssumption
<1>1. /\ Len(BlockSize) \in Nat /\ 1 <= Len(BlockSize) /\ Len(BlockSize) < Large
      /\ Large \in Nat
  <2>1. \A n \in 1..(Large - 1) : n \in Nat /\ 1 <= n /\ n < Large /\ Large \in Nat
    BY DEF Large
  <2> HIDE DEF Large
  <2> QED
    BY <1>0, <2>1
<1>2. BlockSize \in Seq(Nat \ {0}) /\ BlockCount \in Seq(Nat \ {0})
  BY TablesAssumption
<1>3. ASSUME NEW c \in Classes
      PROVE  /\ BlockSize[c] \in Nat \ {0} /\ BlockCount[c] \in Nat \ {0}
             /\ BlockSize[c] * BlockCount[c] \in Nat
  <2>1. c \in 1..Len(BlockSize)
    BY DEF Classes
  <2>2. BlockSize[c] \in Nat \ {0} /\ BlockCount[c] \in Nat \ {0}
    BY <1>0, <1>2, <2>1, ElementOfSeq
  <2> QED
    BY <2>2
<1> QED
  BY <1>1, <1>3 DEF Classes

\* The ends of the first classes can be computed one after the other.
LEMMA PartialBase ==
    ASSUME NEW m \in 1..(Len(BlockSize) + 1)
    PROVE  \E f \in [1..m -> Nat] :
               /\ f[1] = 0
               /\ \A c \in 1..m : c # 1 =>
                      f[c] = f[c - 1] + BlockSize[c - 1] * BlockCount[c - 1]
<1> DEFINE Good(k) == \E f \in [1..k -> Nat] :
                          /\ f[1] = 0
                          /\ \A c \in 1..k : c # 1 =>
                                 f[c] = f[c - 1] + BlockSize[c - 1] * BlockCount[c - 1]
           Bad == {k \in 1..(Len(BlockSize) + 1) : ~Good(k)}
<1>0. Len(BlockSize) \in Nat \ {0}
  BY Tables
<1> SUFFICES ASSUME m \in Bad
             PROVE  FALSE
  OBVIOUS
<1>1. PICK k \in Bad : \A j \in Bad : k <= j
  <2>1. Bad \in SUBSET Nat /\ Bad # {}
    BY <1>0
  <2> HIDE DEF Bad
  <2> QED
    BY <2>1, LeastNatural
<1>2. CASE k = 1
  <2>1. [c \in 1..1 |-> 0] \in [1..1 -> Nat]
    OBVIOUS
  <2> DEFINE f == [c \in 1..1 |-> 0]
  <2>2. f[1] = 0 /\ \A c \in 1..1 : c = 1
    OBVIOUS
  <2> HIDE DEF f
  <2>3. Good(1)
    BY <2>1, <2>2 DEF f
  <2> QED
    BY <1>2, <2>3
<1>3. CASE k # 1
  <2>1. k - 1 \in 1..(Len(BlockSize) + 1) /\ ~(k <= k - 1) /\ k - 1 \in Classes /\ k \in Nat
    BY <1>0, <1>3 DEF Classes
  <2>2. Good(k - 1)
    BY <1>1, <2>1
  <2>3. PICK f \in [1..(k - 1) -> Nat] :
            /\ f[1] = 0
            /\ \A c \in 1..(k - 1) : c # 1 =>
                   f[c] = f[c - 1] + BlockSize[c - 1] * BlockCount[c - 1]
    BY <2>2
  <2> DEFINE last == f[k - 1] + BlockSize[k - 1] * BlockCount[k - 1]
             g == [c \in 1..k |-> IF c = k THEN last ELSE f[c]]
  <2>4. last \in Nat
    <3>1. f[k - 1] \in Nat
      BY <2>1
    <3> QED
      BY <3>1, <2>1, Tables
  <2>5. g \in [1..k -> Nat]
    <3> HIDE DEF last
    <3>1. \A c \in 1..k : c # k => c \in 1..(k - 1)
      BY <2>1
    <3> QED
      BY <2>4, <3>1
  <2>6. g[1] = 0
    BY <1>3, <2>1, <2>3
  <2>7. ASSUME NEW c \in 1..k, c # 1
        PROVE  g[c] = g[c - 1] + BlockSize[c - 1] * BlockCount[c - 1]
    <3>1. c - 1 \in 1..(k - 1) /\ c - 1 # k /\ c - 1 \in 1..k
      BY <2>1, <2>7
    <3>2. g[c - 1] = f[c - 1]
      BY <3>1
    <3>3. CASE c = k
      BY <3>2, <3>3
    <3>4. CASE c # k
      <4>1. c \in 1..(k - 1)
        BY <2>1, <3>4
      <4> QED
        BY <3>2, <4>1, <2>3, <2>7, <3>4
    <3> QED
      BY <3>3, <3>4
  <2>8. Good(k)
    <3> HIDE DEF g
    <3> QED
      BY <2>5, <2>6, <2>7
  <2> QED
    BY <2>8
<1> QED
  BY <1>2, <1>3

\* The recursive definition of Base is one.
LEMMA BaseDef ==
    /\ Base[1] = 0
    /\ \A c \in Classes : /\ Base[c] \in Nat /\ Base[c + 1] \in Nat
                          /\ Base[c + 1] = Base[c] + BlockSize[c] * BlockCount[c]
    /\ buddy_start \in Nat
<1> DEFINE N == Len(BlockSize) + 1
<1>0. N \in Nat \ {0} /\ N \in 1..N /\ Classes = 1..(N - 1) /\ 1 \in 1..N
  BY Tables
<1>1. PICK f \in [1..N -> Nat] :
          /\ f[1] = 0
          /\ \A c \in 1..N : c # 1 => f[c] = f[c - 1] + BlockSize[c - 1] * BlockCount[c - 1]
  BY <1>0, PartialBase
<1>2. f = [c \in 1..N |-> IF c = 1 THEN 0
                          ELSE f[c - 1] + BlockSize[c - 1] * BlockCount[c - 1]]
  <2> HIDE DEF N
  <2> QED
    BY <1>0, <1>1
<1>3. Base = [c \in 1..N |-> IF c = 1 THEN 0
                             ELSE Base[c - 1] + BlockSize[c - 1] * BlockCount[c - 1]]
  BY <1>2 DEF Base
<1> HIDE DEF N
<1>4. Base[1] = 0
  BY <1>0, <1>3
<1>5. ASSUME NEW c \in 1..N, c # 1
      PROVE  Base[c] = Base[c - 1] + BlockSize[c - 1] * BlockCount[c - 1]
  BY <1>5, <1>3
<1>6. ASSUME NEW c \in Classes
      PROVE  c \in Nat /\ c \in 1..N /\ c + 1 \in 1..N /\ c + 1 # 1 /\ (c + 1) - 1 = c
  BY <1>0
<1>7. \A c \in Classes : Base[c + 1] = Base[c] + BlockSize[c] * BlockCount[c]
  <2> TAKE c \in Classes
  <2>1. Base[c + 1] = Base[(c + 1) - 1] + BlockSize[(c + 1) - 1] * BlockCount[(c + 1) - 1]
    BY <1>5, <1>6
  <2> QED
    BY <2>1, <1>6
<1>8. \A c \in 1..N : Base[c] \in Nat
  <2> DEFINE Bad == {c \in 1..N : Base[c] \notin Nat}
  <2> SUFFICES ASSUME Bad # {}
               PROVE  FALSE
    OBVIOUS
  <2>1. PICK c \in Bad : \A d \in Bad : c <= d
    <3>1. Bad \in SUBSET Nat
      BY <1>0
    <3> HIDE DEF Bad
    <3> QED
      BY <3>1, LeastNatural
  <2>2. c # 1
    BY <1>4
  <2>3. c - 1 \in 1..N /\ ~(c <= c - 1) /\ c - 1 \in Classes
    BY <1>0, <2>2
  <2>4. Base[c - 1] \in Nat
    BY <2>1, <2>3
  <2>5. BlockSize[c - 1] * BlockCount[c - 1] \in Nat
    BY <2>3, Tables
  <2>6. Base[c] = Base[c - 1] + BlockSize[c - 1] * BlockCount[c - 1]
    BY <2>2, <1>5
  <2>7. Base[c] \in Nat
    BY <2>4, <2>5, <2>6
  <2> QED
    BY <2>7
<1>9. buddy_start \in Nat
  BY <1>0, <1>8 DEF buddy_start, N
<1> QED
  BY <1>4, <1>6, <1>7, <1>8, <1>9

\* The classes follow each other.
LEMMA BaseOrdered ==
    ASSUME NEW c \in Classes, NEW d \in (c + 1)..(Len(BlockSize) + 1)
    PROVE  Base[c + 1] <= Base[d]
<1> DEFINE N == Len(BlockSize) + 1
           Bad == {e \in (c + 1)..N : ~(Base[c + 1] <= Base[e])}
<1>0. N \in Nat /\ c \in Nat /\ Classes = 1..(N - 1)
  BY Tables
<1> SUFFICES ASSUME d \in Bad
             PROVE  FALSE
  OBVIOUS
<1>1. PICK e \in Bad : \A k \in Bad : e <= k
  <2>1. Bad \in SUBSET Nat /\ Bad # {}
    BY <1>0
  <2> HIDE DEF Bad
  <2> QED
    BY <2>1, LeastNatural
<1>2. e # c + 1
  BY BaseDef
<1>3. e - 1 \in (c + 1)..N /\ ~(e <= e - 1) /\ e - 1 \in Classes /\ (e - 1) + 1 = e
  BY <1>0, <1>2
<1>4. Base[c + 1] <= Base[e - 1]
  BY <1>1, <1>3
<1>5. Base[e] = Base[e - 1] + BlockSize[e - 1] * BlockCount[e - 1] /\ Base[e - 1] \in Nat
  BY <1>3, BaseDef
<1>6. BlockSize[e - 1] * BlockCount[e - 1] \in Nat
  BY <1>3, Tables
<1>7. Base[c + 1] \in Nat
  BY BaseDef
<1> QED
  BY <1>4, <1>5, <1>6, <1>7

\* i blocks of size s end where the next one begins, and no later than n of them.
LEMMA BlocksInARow ==
    ASSUME NEW s \in Nat, NEW i \in Nat, NEW n \in Nat, i < n
    PROVE  /\ i * s \in Nat /\ n * s \in Nat
           /\ i * s + s <= n * s
<1>1. PICK d \in Nat : n = i + 1 + d
  <2>1. n - i - 1 \in Nat /\ n = i + 1 + (n - i - 1)
    OBVIOUS
  <2> QED
    BY <2>1
<1>2. n * s = i * s + s + d * s /\ d * s \in Nat /\ i * s \in Nat
  BY <1>1
<1> QED
  BY <1>2

\* A block lies within its class.
LEMMA BlockInClass ==
    ASSUME NEW c \in Classes, NEW b \in Blocks(c)
    PROVE  /\ b \in Nat /\ Base[c] \in Nat /\ Base[c + 1] \in Nat
           /\ Base[c] <= b /\ b + BlockSize[c] <= Base[c + 1]
           /\ Base[c + 1] <= buddy_start
<1>1. PICK j \in 1..BlockCount[c] : b = Base[c] + (j - 1) * BlockSize[c]
  BY DEF Blocks, BlockAt
<1>2. BlockSize[c] \in Nat \ {0} /\ BlockCount[c] \in Nat \ {0}
  BY Tables
<1>3. j - 1 \in Nat /\ j - 1 < BlockCount[c]
  BY <1>2
<1>4. /\ (j - 1) * BlockSize[c] \in Nat
      /\ (j - 1) * BlockSize[c] + BlockSize[c] <= BlockCount[c] * BlockSize[c]
      /\ BlockCount[c] * BlockSize[c] \in Nat
  BY <1>2, <1>3, BlocksInARow
<1>5. /\ Base[c] \in Nat /\ Base[c + 1] \in Nat
      /\ Base[c + 1] = Base[c] + BlockCount[c] * BlockSize[c]
  <2>1. BlockSize[c] * BlockCount[c] = BlockCount[c] * BlockSize[c]
    BY <1>2
  <2> QED
    BY <2>1, BaseDef
<1>6. Base[c + 1] <= buddy_start
  <2>1. Len(BlockSize) + 1 \in (c + 1)..(Len(BlockSize) + 1)
    BY Tables
  <2> QED
    BY <2>1, BaseOrdered DEF buddy_start
<1> DEFINE x == (j - 1) * BlockSize[c]
           y == BlockCount[c] * BlockSize[c]
<1>7. x \in Nat /\ x + BlockSize[c] <= y /\ y \in Nat /\ b = Base[c] + x
      /\ Base[c + 1] = Base[c] + y
  BY <1>1, <1>4, <1>5
<1> HIDE DEF x, y
<1> QED
  BY <1>2, <1>5, <1>6, <1>7

\* Two blocks of one class share no byte.
LEMMA BlocksApart ==
    ASSUME NEW c \in Classes, NEW a \in Blocks(c), NEW b \in Blocks(c), a # b
    PROVE  a + BlockSize[c] <= b \/ b + BlockSize[c] <= a
<1>1. PICK i \in 1..BlockCount[c] : a = Base[c] + (i - 1) * BlockSize[c]
  BY DEF Blocks, BlockAt
<1>2. PICK j \in 1..BlockCount[c] : b = Base[c] + (j - 1) * BlockSize[c]
  BY DEF Blocks, BlockAt
<1>3. BlockSize[c] \in Nat \ {0} /\ BlockCount[c] \in Nat \ {0} /\ Base[c] \in Nat
  BY Tables, BaseDef
<1>4. i - 1 \in Nat /\ j - 1 \in Nat /\ (i - 1 < j - 1 \/ j - 1 < i - 1)
  BY <1>1, <1>2, <1>3
<1>5. CASE i - 1 < j - 1
  <2>1. /\ (i - 1) * BlockSize[c] \in Nat /\ (j - 1) * BlockSize[c] \in Nat
        /\ (i - 1) * BlockSize[c] + BlockSize[c] <= (j - 1) * BlockSize[c]
    BY <1>3, <1>4, <1>5, BlocksInARow
  <2> DEFINE x == (i - 1) * BlockSize[c]
             y == (j - 1) * BlockSize[c]
  <2>2. x \in Nat /\ y \in Nat /\ x + BlockSize[c] <= y /\ a = Base[c] + x /\ b = Base[c] + y
    BY <2>1, <1>1, <1>2
  <2> HIDE DEF x, y
  <2> QED
    BY <2>2, <1>3
<1>6. CASE j - 1 < i - 1
  <2>1. /\ (i - 1) * BlockSize[c] \in Nat /\ (j - 1) * BlockSize[c] \in Nat
        /\ (j - 1) * BlockSize[c] + BlockSize[c] <= (i - 1) * BlockSize[c]
    BY <1>3, <1>4, <1>6, BlocksInARow
  <2> DEFINE x == (i - 1) * BlockSize[c]
             y == (j - 1) * BlockSize[c]
  <2>2. x \in Nat /\ y \in Nat /\ y + BlockSize[c] <= x /\ a = Base[c] + x /\ b = Base[c] + y
    BY <2>1, <1>1, <1>2
  <2> HIDE DEF x, y
  <2> QED
    BY <2>2, <1>3
<1> QED
  BY <1>4, <1>5, <1>6

\* Nor do blocks of two classes.
LEMMA ClassesApart ==
    ASSUME NEW c \in Classes, NEW d \in Classes, c < d, NEW a \in Blocks(c), NEW b \in Blocks(d)
    PROVE  a + BlockSize[c] <= b
<1>1. d \in (c + 1)..(Len(BlockSize) + 1)
  BY Tables
<1>2. Base[c + 1] <= Base[d]
  BY <1>1, BaseOrdered
<1>3. BlockSize[c] \in Nat
  BY Tables
<1> QED
  BY <1>2, <1>3, BlockInClass

\* A block has one class.
LEMMA OneClass ==
    ASSUME NEW c \in Classes, NEW d \in Classes, NEW b \in Blocks(c), b \in Blocks(d)
    PROVE  c = d
<1>1. c \in Int /\ d \in Int /\ BlockSize[c] \in Nat \ {0} /\ BlockSize[d] \in Nat \ {0} /\ b \in Nat
  BY Tables, BlockInClass
<1>2. CASE c < d
  BY <1>1, <1>2, ClassesApart
<1>3. CASE d < c
  BY <1>1, <1>3, ClassesApart
<1> QED
  BY <1>1, <1>2, <1>3

\* A class has as many blocks as its table entry says.
LEMMA BlocksCounted ==
    ASSUME NEW c \in Classes
    PROVE  IsFiniteSet(Blocks(c)) /\ Cardinality(Blocks(c)) = BlockCount[c]
<1>1. BlockCount[c] \in Nat \ {0} /\ BlockSize[c] \in Nat \ {0} /\ Base[c] \in Nat
  BY Tables, BaseDef
<1> DEFINE f == [j \in 1..BlockCount[c] |-> BlockAt(c, j)]
<1>2. ASSUME NEW i \in 1..BlockCount[c], NEW j \in 1..BlockCount[c], i < j
      PROVE  BlockAt(c, i) # BlockAt(c, j)
  <2>1. i - 1 \in Nat /\ j - 1 \in Nat /\ i - 1 < j - 1
    BY <1>1, <1>2
  <2>2. /\ (i - 1) * BlockSize[c] \in Nat /\ (j - 1) * BlockSize[c] \in Nat
        /\ (i - 1) * BlockSize[c] + BlockSize[c] <= (j - 1) * BlockSize[c]
    BY <1>1, <2>1, BlocksInARow
  <2> DEFINE x == (i - 1) * BlockSize[c]
             y == (j - 1) * BlockSize[c]
  <2>3. /\ x \in Nat /\ y \in Nat /\ x + BlockSize[c] <= y
        /\ BlockAt(c, i) = Base[c] + x /\ BlockAt(c, j) = Base[c] + y
    BY <2>2 DEF BlockAt
  <2> HIDE DEF x, y
  <2> QED
    BY <2>3, <1>1
<1>3. \A i, j \in 1..BlockCount[c] : BlockAt(c, i) = BlockAt(c, j) => i = j
  <2> TAKE i, j \in 1..BlockCount[c]
  <2>1. i < j \/ j < i \/ i = j
    BY <1>1
  <2> QED
    BY <2>1, <1>2
<1>4. f \in Bijection(1..BlockCount[c], Blocks(c))
  <2>1. f \in [1..BlockCount[c] -> Blocks(c)]
    BY DEF Blocks
  <2>2. \A i, j \in 1..BlockCount[c] : f[i] = f[j] => i = j
    BY <1>3
  <2>3. \A b \in Blocks(c) : \E j \in 1..BlockCount[c] : f[j] = b
    BY DEF Blocks
  <2> HIDE DEF f
  <2> QED
    BY <2>1, <2>2, <2>3 DEF Bijection, Injection, Surjection, IsInjective
<1>5. IsFiniteSet(1..BlockCount[c]) /\ Cardinality(1..BlockCount[c]) = BlockCount[c]
  <2>1. 1 \in Int /\ BlockCount[c] \in Int /\ ~(1 > BlockCount[c])
    BY <1>1
  <2>2. BlockCount[c] - 1 + 1 = BlockCount[c]
    BY <1>1
  <2> QED
    BY <2>1, <2>2, FS_Interval
<1> HIDE DEF f
<1> QED
  BY <1>4, <1>5, FS_Bijection DEF ExistsBijection

-----------------------------------------------------------------------------
(* The links of a free list *)

\* A block is an offset, never NULL.
LEMMA BlocksAreNumbers ==
    ASSUME NEW c \in Classes
    PROVE  Blocks(c) \subseteq Nat /\ Nil \notin Blocks(c)
BY BlockInClass, NilAssumption

\* Following the links of a list gives its blocks in their order, and then Nil.
LEMMA LinksOfList ==
    ASSUME NEW c \in Classes, NEW n \in 0..BlockCount[c], NEW L \in [1..n -> Blocks(c)],
           IsList(c, n, L)
    PROVE  Link(c) = [k \in 0..BlockCount[c] |-> IF k < n THEN L[k + 1] ELSE Nil]
<1> DEFINE m == BlockCount[c]
           W == [k \in 0..m |-> IF k < n THEN L[k + 1] ELSE Nil]
           K == Link(c)
<1>0. m \in Nat /\ n \in Nat /\ n <= m
  BY Tables
<1>1. \A i \in 1..n : L[i] # Nil
  BY BlocksAreNumbers
<1>2. W = [k \in 0..m |-> IF k = 0 THEN free_list[c]
                          ELSE IF W[k - 1] = Nil THEN Nil ELSE header[W[k - 1]].next]
  <2> DEFINE V == [k \in 0..m |-> IF k = 0 THEN free_list[c]
                                  ELSE IF W[k - 1] = Nil THEN Nil ELSE header[W[k - 1]].next]
  <2>1. ASSUME NEW k \in 0..m
        PROVE  W[k] = V[k]
    <3>1. CASE k = 0
      BY <1>0, <3>1 DEF IsList
    <3>2. CASE k # 0
      <4>1. k - 1 \in 0..m /\ k - 1 \in Nat /\ (k - 1) + 1 = k /\ k \in Nat
        BY <1>0, <3>2
      <4>2. CASE k - 1 < n
        <5>1. W[k - 1] = L[k] /\ k \in 1..n
          BY <1>0, <4>1, <4>2
        <5>2. header[L[k]].next = IF k = n THEN Nil ELSE L[k + 1]
          BY <5>1 DEF IsList
        <5>3. V[k] = IF k = n THEN Nil ELSE L[k + 1]
          BY <3>2, <5>1, <5>2, <1>1
        <5>4. k < n <=> k # n
          BY <5>1, <1>0
        <5> QED
          BY <5>3, <5>4
      <4>3. CASE ~(k - 1 < n)
        BY <1>0, <3>2, <4>1, <4>3
      <4> QED
        BY <4>2, <4>3
    <3> QED
      BY <3>1, <3>2
  <2>2. W = V
    <3>1. W = [k \in 0..m |-> W[k]]
      BY Zenon
    <3>2. V = [k \in 0..m |-> V[k]]
      <4> HIDE DEF W
      <4> QED
        BY Zenon
    <3> HIDE DEF W, V
    <3> QED
      BY <2>1, <3>1, <3>2
  <2> QED
    BY <2>2
<1>3. K = [k \in 0..m |-> IF k = 0 THEN free_list[c]
                          ELSE IF K[k - 1] = Nil THEN Nil ELSE header[K[k - 1]].next]
  <2> HIDE DEF W
  <2> QED
    BY <1>2 DEF Link
<1>4. ASSUME NEW k \in 0..m
      PROVE  K[k] = W[k]
  <2> DEFINE Bad == {j \in 0..m : K[j] # W[j]}
  <2> SUFFICES ASSUME Bad # {}
               PROVE  FALSE
    OBVIOUS
  <2>1. PICK j \in Bad : \A i \in Bad : j <= i
    <3>1. Bad \in SUBSET Nat
      BY <1>0
    <3> HIDE DEF Bad
    <3> QED
      BY <3>1, LeastNatural
  <2> HIDE DEF K, W
  <2>2. j # 0
    BY <1>2, <1>3
  <2>3. j - 1 \in 0..m /\ ~(j <= j - 1)
    BY <1>0, <2>2
  <2>4. K[j - 1] = W[j - 1]
    BY <2>1, <2>3
  <2>5. K[j] = W[j]
    BY <1>2, <1>3, <2>2, <2>4
  <2> QED
    BY <2>5
<1>5. K = [k \in 0..m |-> K[k]] /\ W = [k \in 0..m |-> W[k]]
  <2>1. W = [k \in 0..m |-> W[k]]
    BY Zenon
  <2> HIDE DEF K, W
  <2> QED
    BY <1>3, <2>1
<1>6. K = W
  <2> HIDE DEF K, W
  <2> QED
    BY <1>4, <1>5
<1> QED
  BY <1>6

\* So the links end in time, and lead to the blocks of the list and to no other.
LEMMA FreeOfList ==
    ASSUME NEW c \in Classes, NEW n \in 0..BlockCount[c], NEW L \in [1..n -> Blocks(c)],
           IsList(c, n, L)
    PROVE  /\ Link(c)[BlockCount[c]] = Nil
           /\ FreeBlocks(c) = {L[i] : i \in 1..n}
           /\ IsFiniteSet(FreeBlocks(c)) /\ Cardinality(FreeBlocks(c)) = n
           /\ \A k \in 0..n : Link(c)[k] = IF k < n THEN L[k + 1] ELSE Nil
<1> DEFINE m == BlockCount[c]
<1>0. m \in Nat /\ n \in Nat /\ n <= m
  BY Tables
<1>1. \A k \in 0..m : Link(c)[k] = IF k < n THEN L[k + 1] ELSE Nil
  BY LinksOfList
<1>2. \A i \in 1..n : L[i] # Nil
  BY BlocksAreNumbers
<1>3. Link(c)[m] = Nil
  BY <1>0, <1>1
<1>4. FreeBlocks(c) = {L[i] : i \in 1..n}
  <2>1. ASSUME NEW b \in FreeBlocks(c)
        PROVE  b \in {L[i] : i \in 1..n}
    <3>1. PICK k \in 0..m : b = Link(c)[k] /\ b # Nil
      BY DEF FreeBlocks
    <3>2. k < n /\ b = L[k + 1]
      BY <1>1, <3>1
    <3>3. k + 1 \in 1..n
      BY <1>0, <3>2
    <3> QED
      BY <3>2, <3>3
  <2>2. ASSUME NEW i \in 1..n
        PROVE  L[i] \in FreeBlocks(c)
    <3>1. i - 1 \in 0..m /\ i - 1 < n /\ (i - 1) + 1 = i
      BY <1>0
    <3>2. Link(c)[i - 1] = L[i]
      BY <1>1, <3>1
    <3> QED
      BY <1>2, <3>1, <3>2 DEF FreeBlocks
  <2> QED
    BY <2>1, <2>2
<1>5. IsFiniteSet(FreeBlocks(c)) /\ Cardinality(FreeBlocks(c)) = n
  <2>1. L \in Bijection(1..n, FreeBlocks(c))
    <3>1. L \in [1..n -> FreeBlocks(c)]
      BY <1>4
    <3>2. IsInjective(L)
      BY DEF IsList, IsInjective
    <3> QED
      BY <1>4, <3>1, <3>2 DEF Bijection, Injection, Surjection
  <2>2. IsFiniteSet(1..n) /\ Cardinality(1..n) = n
    <3>1. 1 \in Int /\ n \in Int /\ (1 > n <=> n = 0) /\ n - 1 + 1 = n
      BY <1>0
    <3> QED
      BY <3>1, FS_Interval
  <2> QED
    BY <2>1, <2>2, FS_Bijection DEF ExistsBijection
<1>6. \A k \in 0..n : Link(c)[k] = IF k < n THEN L[k + 1] ELSE Nil
  BY <1>0, <1>1
<1> QED
  BY <1>3, <1>4, <1>5, <1>6

-----------------------------------------------------------------------------
(* Who has which block *)

\* Only the thread with the lock can be passing a block on.
LEMMA PassingIs ==
    LockOK => Passing = IF lock # Nil /\ pc[lock] \in {"count", "push"}
                        THEN {block[lock]} \ {Nil} ELSE {}
<1> SUFFICES ASSUME LockOK
             PROVE  Passing = IF lock # Nil /\ pc[lock] \in {"count", "push"}
                              THEN {block[lock]} \ {Nil} ELSE {}
  OBVIOUS
<1>1. Nil \notin Thread
  BY NilAssumption
<1> QED
  BY <1>1 DEF LockOK, Passing

\* The same after a step.
LEMMA PassingIsNext ==
    LockOK' => Passing' = IF lock' # Nil /\ pc'[lock'] \in {"count", "push"}
                          THEN {block'[lock']} \ {Nil} ELSE {}
<1>1. LockOK' => (Passing = IF lock # Nil /\ pc[lock] \in {"count", "push"}
                        THEN {block[lock]} \ {Nil} ELSE {})'
  BY PassingIs, PTL
<1> QED
  BY <1>1

\* Callers own what they hold and what they have given to a realloc under way.
LEMMA OwnedIs ==
    Owned = held \cup {old[t] : t \in Holding}
BY DEF Owned, Holding

\* The same after a step.
LEMMA OwnedIsNext ==
    Owned' = held' \cup {old'[t] : t \in Holding'}
BY DEF Owned, Holding

-----------------------------------------------------------------------------
(* What the steps leave alone *)

\* The header of block b still says what a caller of free or realloc needs to know.
Kept(b) ==
    /\ b \in DOMAIN header'
    /\ header'[b].class = header[b].class
    /\ header[b].class = Large => header'[b].next = header[b].next

\* Blocks in use have a header.
LEMMA UsedHaveHeaders ==
    ASSUME LockOK, LocalsOK, OwnersOK
    PROVE  Used \subseteq DOMAIN header
<1>1. \A h \in Owned : h.block \in DOMAIN header
  BY DEF OwnersOK, IsOwner
<1>2. Passing \subseteq DOMAIN header
  BY PassingIs DEF LockOK, LocalsOK
<1> QED
  BY <1>1, <1>2 DEF Used

\* An owner whose block keeps its header remains one.
LEMMA OwnerKept ==
    ASSUME NEW h, IsOwner(h), Kept(h.block)
    PROVE  IsOwner(h)'
<1>1. h = [block |-> h.block, size |-> h.size] /\ h.size \in Nat
  BY DEF IsOwner
<1>2. h.block \in DOMAIN header'
  BY DEF Kept
<1>3. Fits(h.block, h.size)'
  BY DEF IsOwner, Fits, Kept
<1> QED
  BY <1>1, <1>2, <1>3 DEF IsOwner

\* Nothing changes hands.
LEMMA OwnersKept ==
    ASSUME OwnersOK, held' = held, Holding' = Holding, \A t \in Holding : old'[t] = old[t],
           \A h \in Owned : Kept(h.block) /\ h.block \notin Passing'
    PROVE  /\ Owned' = Owned
           /\ (\A t \in Thread : pc'[t] = "uncount" => block'[t] \notin Used') => OwnersOK'
<1>1. Owned' = Owned
  BY OwnedIs, OwnedIsNext
<1>2. \A h \in Owned' : IsOwner(h)'
  BY <1>1, OwnerKept DEF OwnersOK
<1>3. \A h, g \in Owned' : h.block = g.block => h = g
  BY <1>1 DEF OwnersOK
<1>4. \A t \in Holding' : old'[t] \notin held'
  BY DEF OwnersOK
<1>5. \A t, u \in Holding' : old'[t] = old'[u] => t = u
  BY DEF OwnersOK
<1>6. \A h \in Owned' : h.block \notin Passing'
  BY <1>1
<1> QED
  BY <1>1, <1>2, <1>3, <1>4, <1>5, <1>6 DEF OwnersOK

\* Large blocks in use stay apart while nobody gets another one.
LEMMA LargeKept ==
    ASSUME LargeApart, Used' \subseteq Used, \A b \in Used : Kept(b)
    PROVE  LargeApart'
BY DEF LargeApart, Kept

\* A list is as it was, and the blocks that are missing from it too.
LEMMA ListKept ==
    ASSUME NEW c \in Classes, ListOK(c), free_list'[c] = free_list[c],
           \A b \in Blocks(c) : header'[b] = header[b] /\ (b \in Used' <=> b \in Used),
           free_count'[c] \in Int, free_count'[c] - Pending(c)' = free_count[c] - Pending(c)
    PROVE  ListOK(c)'
<1>1. PICK n \in 0..BlockCount[c] : \E L \in [1..n -> Blocks(c)] :
               /\ IsList(c, n, L)
               /\ {L[i] : i \in 1..n} = Blocks(c) \ Used
               /\ free_count[c] = n + Pending(c)
  BY DEF ListOK
<1>2. PICK L \in [1..n -> Blocks(c)] :
               /\ IsList(c, n, L)
               /\ {L[i] : i \in 1..n} = Blocks(c) \ Used
               /\ free_count[c] = n + Pending(c)
  BY <1>1
<1>3. IsList(c, n, L)'
  BY <1>2 DEF IsList
<1>4. Blocks(c) \ Used' = Blocks(c) \ Used
  OBVIOUS
<1>5. free_count'[c] = n + Pending(c)'
  <2>1. Pending(c) \in Int /\ Pending(c)' \in Int /\ n \in Int
    BY DEF Pending
  <2>2. free_count'[c] - Pending(c)' = free_count[c] - Pending(c) /\ free_count'[c] \in Int
    OBVIOUS
  <2>3. free_count[c] = n + Pending(c)
    BY <1>2
  <2> QED
    BY <2>1, <2>2, <2>3
<1> QED
  BY <1>2, <1>3, <1>4, <1>5 DEF ListOK

\* So it is for the lists of all classes.
LEMMA ListsKept ==
    ASSUME ListsOK, free_list' = free_list, \A b \in Small : header'[b] = header[b],
           \A b \in Small : b \in Used' <=> b \in Used,
           \A c \in Classes : free_count'[c] - Pending(c)' = free_count[c] - Pending(c),
           \A c \in Classes : free_count'[c] \in Int
    PROVE  ListsOK'
<1>1. \A c \in Classes : Blocks(c) \subseteq Small
  BY DEF Small
<1> QED
  BY <1>1, ListKept DEF ListsOK

\* A list without its first block.
LEMMA ListPopped ==
    ASSUME NEW c \in Classes, NEW n \in 1..BlockCount[c], NEW L \in [1..n -> Blocks(c)],
           IsList(c, n, L), header' = header, free_list'[c] = header[L[1]].next
    PROVE  \E M \in [1..(n - 1) -> Blocks(c)] :
               /\ IsList(c, n - 1, M)'
               /\ {M[i] : i \in 1..(n - 1)} = {L[i] : i \in 1..n} \ {L[1]}
<1>0. n \in Nat \ {0} /\ 1 \in 1..n
  BY Tables
<1> DEFINE M == [i \in 1..(n - 1) |-> L[i + 1]]
<1>1. \A i \in 1..(n - 1) : /\ i + 1 \in 1..n /\ i \in 1..n /\ i + 1 # 1 /\ M[i] = L[i + 1]
                            /\ (i + 1 = n <=> i = n - 1)
                            /\ i # n - 1 => i + 1 \in 1..(n - 1)
  BY <1>0
<1>2. M \in [1..(n - 1) -> Blocks(c)]
  BY <1>1
<1>3. \A i \in 2..n : i - 1 \in 1..(n - 1) /\ (i - 1) + 1 = i
  BY <1>0
<1> HIDE DEF M
<1>4. \A i, j \in 1..(n - 1) : M[i] = M[j] => i = j
  <2> TAKE i, j \in 1..(n - 1)
  <2>1. L[i + 1] = L[j + 1] => i + 1 = j + 1
    BY <1>1 DEF IsList
  <2> QED
    BY <1>1, <2>1
<1>5. free_list'[c] = IF n - 1 = 0 THEN Nil ELSE M[1]
  <2>1. header[L[1]].next = IF n = 1 THEN Nil ELSE L[2]
    BY <1>0 DEF IsList
  <2>2. n # 1 => 1 \in 1..(n - 1) /\ 1 + 1 = 2
    BY <1>0
  <2>3. n - 1 = 0 <=> n = 1
    BY <1>0
  <2>4. n # 1 => M[1] = L[2]
    BY <1>1, <2>2
  <2> QED
    BY <2>1, <2>3, <2>4
<1>6. \A i \in 1..(n - 1) : header'[M[i]].next = IF i = n - 1 THEN Nil ELSE M[i + 1]
  <2> TAKE i \in 1..(n - 1)
  <2>1. header[L[i + 1]].next = IF i + 1 = n THEN Nil ELSE L[(i + 1) + 1]
    BY <1>1 DEF IsList
  <2> QED
    BY <1>1, <2>1
<1>7. {M[i] : i \in 1..(n - 1)} = {L[i] : i \in 1..n} \ {L[1]}
  <2>1. ASSUME NEW i \in 1..(n - 1)
        PROVE  M[i] \in {L[k] : k \in 1..n} \ {L[1]}
    BY <1>0, <1>1 DEF IsList
  <2>2. ASSUME NEW i \in 1..n, L[i] # L[1]
        PROVE  L[i] \in {M[k] : k \in 1..(n - 1)}
    <3>1. i \in 2..n
      BY <1>0, <2>2
    <3> QED
      BY <1>1, <1>3, <3>1
  <2> QED
    BY <2>1, <2>2
<1> QED
  BY <1>2, <1>4, <1>5, <1>6, <1>7 DEF IsList

\* A list with block b in front.
Pushes(c, n, L, b) ==
    /\ b \in Blocks(c) /\ \A i \in 1..n : L[i] # b
    /\ free_list'[c] = b /\ header'[b].next = free_list[c]
    /\ \A x \in Blocks(c) \ {b} : header'[x] = header[x]

LongerList(c, n, L, b) ==
    \E M \in [1..(n + 1) -> Blocks(c)] :
        /\ IsList(c, n + 1, M)'
        /\ {M[i] : i \in 1..(n + 1)} = {L[i] : i \in 1..n} \cup {b}

\* A list with a block in front of it.
LEMMA ListPushed ==
    ASSUME NEW c \in Classes, NEW n \in 0..(BlockCount[c] - 1), NEW L \in [1..n -> Blocks(c)],
           NEW b, IsList(c, n, L), Pushes(c, n, L, b)
    PROVE  LongerList(c, n, L, b)
<1>0. n \in Nat
  BY Tables
<1> USE DEF Pushes
<1> DEFINE M == [i \in 1..(n + 1) |-> IF i = 1 THEN b ELSE L[i - 1]]
<1>1. \A i \in 1..(n + 1) : /\ i # 1 => i - 1 \in 1..n
                            /\ i \in Nat
                            /\ M[i] = IF i = 1 THEN b ELSE L[i - 1]
  BY <1>0
<1>2. M \in [1..(n + 1) -> Blocks(c)]
  BY <1>1
<1>3. 1 \in 1..(n + 1) /\ \A i \in 1..n : i + 1 \in 1..(n + 1) /\ i + 1 # 1 /\ (i + 1) - 1 = i
  BY <1>0
<1> HIDE DEF M
<1>4. M[1] = b /\ \A i \in 1..n : M[i + 1] = L[i]
  BY <1>1, <1>3
<1>5. \A i, j \in 1..(n + 1) : M[i] = M[j] => i = j
  <2> TAKE i, j \in 1..(n + 1)
  <2>1. i # 1 /\ j # 1 => (L[i - 1] = L[j - 1] => i - 1 = j - 1)
    BY <1>1 DEF IsList
  <2>2. i \in Nat /\ j \in Nat /\ (i - 1 = j - 1 => i = j)
    BY <1>1
  <2> QED
    BY <1>1, <2>1, <2>2
<1>6. free_list'[c] = IF n + 1 = 0 THEN Nil ELSE M[1]
  BY <1>0, <1>4
<1>7. \A i \in 1..(n + 1) : header'[M[i]].next = IF i = n + 1 THEN Nil ELSE M[i + 1]
  <2> TAKE i \in 1..(n + 1)
  <2>1. CASE i = 1
    <3>1. header'[M[i]].next = IF n = 0 THEN Nil ELSE L[1]
      BY <1>4, <2>1 DEF IsList
    <3>2. (1 = n + 1 <=> n = 0) /\ (n # 0 => 1 \in 1..n)
      BY <1>0
    <3>3. n # 0 => M[1 + 1] = L[1]
      BY <1>4, <3>2
    <3> QED
      BY <2>1, <3>1, <3>2, <3>3
  <2>2. CASE i # 1
    <3>1. i - 1 \in 1..n /\ M[i] = L[i - 1]
      BY <1>1, <2>2
    <3>2. header'[M[i]].next = IF i - 1 = n THEN Nil ELSE L[(i - 1) + 1]
      BY <3>1 DEF IsList
    <3>3. (i - 1 = n <=> i = n + 1) /\ (i - 1) + 1 = i /\ (i - 1 # n => i \in 1..n)
      BY <1>0, <1>1, <2>2
    <3>4. i - 1 # n => M[i + 1] = L[i]
      BY <1>4, <3>3
    <3> QED
      BY <3>2, <3>3, <3>4
  <2> QED
    BY <2>1, <2>2
<1>8. {M[i] : i \in 1..(n + 1)} = {L[i] : i \in 1..n} \cup {b}
  <2>1. ASSUME NEW i \in 1..(n + 1)
        PROVE  M[i] \in {L[k] : k \in 1..n} \cup {b}
    BY <1>1
  <2>2. b \in {M[i] : i \in 1..(n + 1)}
    BY <1>3, <1>4
  <2>3. ASSUME NEW i \in 1..n
        PROVE  L[i] \in {M[k] : k \in 1..(n + 1)}
    BY <1>3, <1>4
  <2> QED
    BY <2>1, <2>2, <2>3
<1>9. IsList(c, n + 1, M)'
  BY <1>5, <1>6, <1>7 DEF IsList
<1> QED
  BY <1>2, <1>8, <1>9 DEF LongerList

\* The pool stays created while its blocks and lists are in order.
LEMMA CreatedKept ==
    ASSUME Created, UNCHANGED <<create, header>>, ListsOK'
    PROVE  Created'
BY DEF Created, create

\* The counters are integers.
LEMMA CountsAreNumbers ==
    ASSUME ListsOK
    PROVE  \A c \in Classes : free_count[c] \in Int
<1> TAKE c \in Classes
<1>1. PICK n \in 0..BlockCount[c] : free_count[c] = n + Pending(c)
  BY DEF ListsOK, ListOK
<1>2. Pending(c) \in Int /\ n \in Int
  BY DEF Pending
<1> QED
  BY <1>1, <1>2

\* Most steps leave the blocks and the lists alone.
LEMMA SameHeaders ==
    ASSUME IInv, initialized, UNCHANGED <<create, header, free_list>>,
           current_usage' \in 0..(Word - 1), DOMAIN free_count' = Classes,
           LockOK', LocalsOK', OwnersOK', Used' = Used,
           \A c \in Classes : free_count'[c] - Pending(c)' = free_count[c] - Pending(c),
           \A c \in Classes : free_count'[c] \in Int
    PROVE  IInv'
<1>1. LargeApart'
  <2>1. \A b \in Used : Kept(b)
    BY UsedHaveHeaders DEF IInv, Kept
  <2> QED
    BY <2>1, LargeKept DEF IInv
<1>2. Created
  BY DEF IInv
<1>3. ListsOK'
  BY <1>2, ListsKept DEF Created
<1>4. Created'
  BY <1>2, <1>3, CreatedKept
<1> QED
  BY <1>1, <1>4 DEF IInv, create

\* Nobody is inside the pool before it is created.
LEMMA InsideCreated ==
    ASSUME IInv, NEW t \in Thread, pc[t] # "idle"
    PROVE  initialized
BY DEF IInv, NotCreated

\* The lock is taken, kept, and given back; and a step of a thread without it.
LEMMA LockTaken ==
    ASSUME LockOK, DOMAIN pc = Thread, NEW t \in Thread, NEW where \in {"take", "push"},
           lock = Nil, lock' = t, pc' = [pc EXCEPT ![t] = where]
    PROVE  LockOK'
<1>1. t # Nil /\ \A u \in Thread : u # Nil
  BY NilAssumption
<1>2. \A u \in Thread : pc'[u] = IF u = t THEN where ELSE pc[u]
  OBVIOUS
<1>3. \A u \in Thread : pc[u] \notin {"take", "count", "push", "uncount"}
  BY <1>1 DEF LockOK
<1>4. \A u \in Thread : pc'[u] \in {"take", "count", "push", "uncount"} <=> u = t
  BY <1>2, <1>3
<1> QED
  BY <1>4 DEF LockOK

\* A thread stays inside its critical section, or outside of it.
LEMMA LockStays ==
    ASSUME LockOK, DOMAIN pc = Thread, NEW t \in Thread, NEW where, lock' = lock,
           pc' = [pc EXCEPT ![t] = where],
           where \in {"take", "count", "push", "uncount"} <=>
               pc[t] \in {"take", "count", "push", "uncount"}
    PROVE  LockOK'
<1>1. \A u \in Thread : pc'[u] = IF u = t THEN where ELSE pc[u]
  OBVIOUS
<1>2. \A u \in Thread : pc'[u] \in {"take", "count", "push", "uncount"} <=> lock = u
  BY <1>1 DEF LockOK
<1> QED
  BY <1>2 DEF LockOK

\* A thread leaves its critical section.
LEMMA LockReleased ==
    ASSUME LockOK, DOMAIN pc = Thread, NEW t \in Thread, NEW where \in {"idle", "refree"},
           lock = t, lock' = Nil, pc' = [pc EXCEPT ![t] = where]
    PROVE  LockOK'
<1>1. \A u \in Thread : u # Nil
  BY NilAssumption
<1>2. \A u \in Thread : pc'[u] = IF u = t THEN where ELSE pc[u]
  OBVIOUS
<1>3. \A u \in Thread : pc'[u] \notin {"take", "count", "push", "uncount"}
  BY <1>2 DEF LockOK
<1> QED
  BY <1>1, <1>3 DEF LockOK

\* A call of eg_mempool_alloc takes the lock and keeps IInv.
LEMMA AllocStep ==
    ASSUME IInv, NEW t \in Thread, NEW n \in Sizes, Alloc(t, n)
    PROVE  IInv'
<1>0. /\ initialized /\ pc[t] = "idle" /\ lock = Nil /\ lock' = t /\ t # Nil
      /\ size' = [size EXCEPT ![t] = n] /\ old' = [old EXCEPT ![t] = Nil]
      /\ pc' = [pc EXCEPT ![t] = "take"]
      /\ UNCHANGED <<create, lists, block, checker, held>>
      /\ LockOK /\ LocalsOK /\ OwnersOK
  BY NilAssumption DEF IInv, Alloc, LOCK_ACQUIRE
<1>1. LockOK'
  <2>1. DOMAIN pc = Thread
    BY <1>0 DEF LocalsOK
  <2> QED
    BY <1>0, <2>1, LockTaken
<1>2. LocalsOK'
  <2>1. n \in Nat
    BY SizesAssumption
  <2> QED
    BY <1>0, <2>1 DEF LocalsOK, lists, checker, Fits
<1>3. Passing' = {} /\ Passing = {}
  <2>1. pc'[lock'] = "take"
    BY <1>0 DEF LocalsOK
  <2> QED
    BY <1>0, <1>1, <2>1, PassingIs, PassingIsNext
<1>4. Holding' = Holding /\ \A u \in Holding : old'[u] = old[u]
  BY <1>0 DEF Holding, LocalsOK
<1>5. OwnersOK' /\ Owned' = Owned
  <2>1. \A h \in Owned : Kept(h.block) /\ h.block \notin Passing'
    BY <1>0, <1>3 DEF Kept, OwnersOK, IsOwner, lists
  <2>2. \A u \in Thread : pc'[u] # "uncount"
    BY <1>0, <1>1 DEF LockOK, LocalsOK
  <2> QED
    BY <1>0, <1>4, <2>1, <2>2, OwnersKept
<1>6. Used' = Used
  BY <1>3, <1>5 DEF Used
<1>7. \A c \in Classes : Pending(c) = 0 /\ Pending(c)' = 0
  BY <1>0 DEF Pending, LocalsOK
<1>8. /\ \A c \in Classes : free_count'[c] \in Int /\ free_count'[c] = free_count[c]
      /\ \A c \in Classes : free_count[c] \in Int
  BY <1>0, CountsAreNumbers DEF IInv, Created, lists
<1> QED
  BY <1>0, <1>1, <1>2, <1>5, <1>6, <1>7, <1>8, SameHeaders DEF IInv, lists

\* check changes nothing but its own variables.
LEMMA CheckStep ==
    ASSUME IInv, initialized, NEW t \in Thread, NEW where \in {"idle", "head", "walk"},
           pc[t] \in {"idle", "head", "walk"}, pc' = [pc EXCEPT ![t] = where],
           UNCHANGED <<create, lists, lock, old, held>>,
           DOMAIN block' = Thread, \A u \in Thread \ {t} : block'[u] = block[u],
           size' \in [Thread -> Nat], \A u \in Thread \ {t} : size'[u] = size[u],
           cls' \in [Thread -> Classes],
           verdict' \in [Thread -> {"none", "ok", "mismatch", "overflow"}]
    PROVE  IInv'
<1>0. LockOK /\ LocalsOK /\ OwnersOK /\ DOMAIN pc = Thread /\ DOMAIN old = Thread
  BY DEF IInv, LocalsOK
<1>1. LockOK'
  BY <1>0, LockStays
<1>2. \A u \in Thread : pc'[u] = IF u = t THEN where ELSE pc[u]
  BY <1>0
<1>3. LocalsOK'
  <2>1. pc' \in [Thread -> {"idle", "take", "count", "refree", "push", "uncount",
                            "head", "walk"}]
    BY <1>0 DEF LocalsOK
  <2> QED
    BY <1>0, <1>2, <2>1 DEF LocalsOK, lists, Fits
<1>4. lock # Nil => lock \in Thread \ {t}
  BY <1>0 DEF LockOK
<1>5. Passing' = Passing
  BY <1>0, <1>1, <1>2, <1>4, PassingIs, PassingIsNext
<1>6. Holding' = Holding /\ \A u \in Holding : old'[u] = old[u]
  BY <1>0, <1>2 DEF Holding
<1>7. OwnersOK' /\ Owned' = Owned /\ Used' = Used
  <2>1. \A h \in Owned : Kept(h.block) /\ h.block \notin Passing'
    BY <1>0, <1>5 DEF Kept, OwnersOK, IsOwner, lists
  <2>2. Owned' = Owned
    BY <1>0, <1>6, <2>1, OwnersKept
  <2>3. Used' = Used
    BY <1>5, <2>2 DEF Used
  <2>4. \A u \in Thread : pc'[u] = "uncount" => block'[u] \notin Used'
    BY <1>0, <1>2, <2>3 DEF OwnersOK
  <2> QED
    BY <1>0, <1>6, <2>1, <2>2, <2>3, <2>4, OwnersKept
<1>8. \A c \in Classes : Pending(c)' = Pending(c)
  BY <1>2, <1>4 DEF Pending, lists
<1>9. /\ \A c \in Classes : free_count'[c] \in Int /\ free_count'[c] = free_count[c]
  BY CountsAreNumbers DEF IInv, Created, lists
<1> QED
  BY <1>0, <1>1, <1>3, <1>7, <1>8, <1>9, SameHeaders DEF IInv, lists

\* No step of eg_mempool_check disturbs IInv.
LEMMA CheckSteps ==
    ASSUME IInv, NEW t \in Thread,
           Check(t) \/ CheckHead(t) \/ CheckWalk(t) \/ CheckCompare(t)
    PROVE  IInv'
<1>0. /\ LocalsOK /\ pc \in [Thread -> {"idle", "take", "count", "refree", "push", "uncount",
                                        "head", "walk"}]
      /\ size \in [Thread -> Nat] /\ cls \in [Thread -> Classes] /\ DOMAIN block = Thread
      /\ verdict \in [Thread -> {"none", "ok", "mismatch", "overflow"}]
  BY DEF IInv, LocalsOK
<1>1. 1 \in Classes
  BY Tables
<1>2. CASE Check(t)
  <2>1. /\ initialized /\ pc[t] = "idle" /\ pc' = [pc EXCEPT ![t] = "head"]
        /\ UNCHANGED <<create, lists, lock, old, held>> /\ block' = block /\ size' = size
        /\ cls' \in [Thread -> Classes]
        /\ verdict' \in [Thread -> {"none", "ok", "mismatch", "overflow"}]
    BY <1>0, <1>1, <1>2 DEF Check, locals
  <2> QED
    BY <1>0, <2>1, CheckStep
<1>3. CASE CheckHead(t)
  <2>1. /\ pc[t] = "head" /\ pc' = [pc EXCEPT ![t] = "walk"]
        /\ UNCHANGED <<create, lists, lock, old, held>> /\ cls' = cls /\ verdict' = verdict
        /\ DOMAIN block' = Thread /\ \A u \in Thread \ {t} : block'[u] = block[u]
        /\ size' \in [Thread -> Nat] /\ \A u \in Thread \ {t} : size'[u] = size[u]
    BY <1>0, <1>3 DEF CheckHead, checker
  <2> QED
    BY <1>0, <2>1, InsideCreated, CheckStep
<1>4. CASE CheckWalk(t)
  <2>1. /\ pc[t] = "walk" /\ pc'[t] \in {"idle", "walk"} /\ pc' = [pc EXCEPT ![t] = pc'[t]]
        /\ UNCHANGED <<create, lists, lock, old, held>> /\ cls' = cls
        /\ DOMAIN block' = Thread /\ \A u \in Thread \ {t} : block'[u] = block[u]
        /\ size' \in [Thread -> Nat] /\ \A u \in Thread \ {t} : size'[u] = size[u]
        /\ verdict' \in [Thread -> {"none", "ok", "mismatch", "overflow"}]
    BY <1>0, <1>4 DEF CheckWalk
  <2> QED
    BY <1>0, <2>1, InsideCreated, CheckStep
<1>5. CASE CheckCompare(t)
  <2>1. /\ pc[t] = "walk" /\ pc'[t] \in {"idle", "head"} /\ pc' = [pc EXCEPT ![t] = pc'[t]]
        /\ UNCHANGED <<create, lists, lock, old, held>>
        /\ block' = block /\ size' = size
        /\ verdict' \in [Thread -> {"none", "ok", "mismatch", "overflow"}]
    BY <1>0, <1>5 DEF CheckCompare, locals
  <2>2. cls' \in [Thread -> Classes]
    <3>1. cls' = cls \/ cls' = [cls EXCEPT ![t] = IF cls[t] = Len(BlockSize) THEN 1
                                                  ELSE cls[t] + 1]
      BY <1>5 DEF CheckCompare
    <3>2. (IF cls[t] = Len(BlockSize) THEN 1 ELSE cls[t] + 1) \in Classes
      BY <1>0, <1>1, Tables
    <3> QED
      BY <1>0, <3>1, <3>2
  <2> QED
    BY <1>0, <2>1, <2>2, InsideCreated, CheckStep
<1> QED
  BY <1>2, <1>3, <1>4, <1>5

\* Whatever has a header is an offset, never NULL.
LEMMA HeadersAreNumbers ==
    ASSUME Created
    PROVE  DOMAIN header \subseteq Nat /\ Nil \notin DOMAIN header
<1>1. Small \subseteq Nat
  BY BlocksAreNumbers DEF Small
<1>2. DOMAIN header \ Small \subseteq Nat
  BY DEF Created
<1> QED
  BY <1>1, <1>2, NilAssumption

\* The classes lie in the buffer, and its size is far below the word.
LEMMA PoolBelowWord ==
    ASSUME Created
    PROVE  /\ pool_size \in Nat /\ 2 * pool_size < Word /\ Word \in Nat \ {0}
           /\ buddy_start \in Nat /\ buddy_start <= pool_size
<1>1. PICK buffer \in Buffers : pool_size = buffer.size /\ HoldsClasses(buffer)
  BY DEF Created
<1> QED
  BY <1>1, WordAssumption, BaseDef DEF HoldsClasses

\* The offset of a block of a class is a word.
LEMMA BlocksBelowWord ==
    ASSUME Created, NEW c \in Classes
    PROVE  Blocks(c) \subseteq 0..(Word - 1)
<1>1. /\ pool_size \in Nat /\ 2 * pool_size < Word /\ Word \in Nat
      /\ buddy_start \in Nat /\ buddy_start <= pool_size
  BY PoolBelowWord
<1>2. ASSUME NEW b \in Blocks(c)
      PROVE  b \in 0..(Word - 1)
  <2>1. b \in Nat /\ b + BlockSize[c] <= Base[c + 1] /\ Base[c + 1] <= buddy_start
        /\ BlockSize[c] \in Nat /\ Base[c + 1] \in Nat
    BY BlockInClass, Tables
  <2> QED
    BY <1>1, <2>1
<1> QED
  BY <1>2

\* An owner gives block h to the thread that has just taken the lock.
LEMMA HandedBack ==
    ASSUME IInv, initialized, NEW t \in Thread, NEW h \in Owned, lock = Nil, lock' = t,
           pc' = [pc EXCEPT ![t] = "push"], block' = [block EXCEPT ![t] = h.block],
           UNCHANGED <<create, lists, size, old, checker>>,
           held' \subseteq held, Holding' \subseteq Holding, Owned' = Owned \ {h}
    PROVE  IInv'
<1>0. /\ LockOK /\ LocalsOK /\ OwnersOK /\ t # Nil
      /\ DOMAIN pc = Thread /\ DOMAIN block = Thread
  BY NilAssumption DEF IInv, LocalsOK
<1>1. LockOK'
  BY <1>0, LockTaken
<1>2. h.block \in DOMAIN header /\ h.block # Nil
  BY <1>0, HeadersAreNumbers DEF IInv, OwnersOK, IsOwner
<1>3. \A u \in Thread : /\ pc'[u] = IF u = t THEN "push" ELSE pc[u]
                        /\ block'[u] = IF u = t THEN h.block ELSE block[u]
  BY <1>0
<1>4. LocalsOK'
  <2>1. pc' \in [Thread -> {"idle", "take", "count", "refree", "push", "uncount",
                            "head", "walk"}]
    BY <1>0 DEF LocalsOK
  <2> QED
    BY <1>0, <1>2, <1>3, <2>1 DEF LocalsOK, lists, checker, Fits
<1>5. Passing = {} /\ Passing' = {h.block}
  BY <1>0, <1>1, <1>2, <1>3, PassingIs, PassingIsNext
<1>6. OwnersOK' /\ Used' = Used
  <2>1. \A g \in Owned' : IsOwner(g)'
    <3>1. \A g \in Owned : Kept(g.block)
      BY <1>0 DEF Kept, OwnersOK, IsOwner, lists
    <3> QED
      BY <1>0, <3>1, OwnerKept DEF OwnersOK
  <2>2. \A g, k \in Owned' : g.block = k.block => g = k
    BY <1>0 DEF OwnersOK
  <2>3. \A u \in Holding' : old'[u] \notin held'
    BY <1>0 DEF OwnersOK
  <2>4. \A u, v \in Holding' : old'[u] = old'[v] => u = v
    BY <1>0 DEF OwnersOK
  <2>5. \A g \in Owned' : g.block \notin Passing'
    BY <1>0, <1>5 DEF OwnersOK
  <2>6. \A u \in Thread : pc'[u] # "uncount"
    BY <1>0, <1>1, <1>3 DEF LockOK
  <2>7. Used' = Used
    BY <1>5 DEF Used
  <2> QED
    BY <2>1, <2>2, <2>3, <2>4, <2>5, <2>6, <2>7 DEF OwnersOK
<1>7. \A c \in Classes : Pending(c) = 0 /\ Pending(c)' = 0
  BY <1>0, <1>3 DEF Pending
<1>8. \A c \in Classes : free_count'[c] = free_count[c] /\ free_count[c] \in Int
  BY CountsAreNumbers DEF IInv, Created, lists
<1> QED
  BY <1>0, <1>1, <1>4, <1>6, <1>7, <1>8, SameHeaders DEF IInv, lists

\* A call of eg_mempool_free takes the lock and keeps IInv.
LEMMA FreeStep ==
    ASSUME IInv, NEW t \in Thread, NEW h \in held, Free(t, h)
    PROVE  IInv'
<1>0. /\ initialized /\ pc[t] = "idle" /\ lock = Nil /\ lock' = t
      /\ pc' = [pc EXCEPT ![t] = "push"] /\ block' = [block EXCEPT ![t] = h.block]
      /\ UNCHANGED <<create, lists, size, old, checker>> /\ held' = held \ {h}
      /\ DOMAIN pc = Thread /\ OwnersOK
  BY DEF Free, LOCK_ACQUIRE, IInv, LocalsOK
<1>1. Holding' = Holding
  BY <1>0 DEF Holding
<1>2. h \in Owned /\ Owned' = Owned \ {h}
  <2>1. \A u \in Holding : old[u] # h
    BY <1>0 DEF OwnersOK
  <2> QED
    BY <1>0, <1>1, <2>1, OwnedIs, OwnedIsNext
<1> QED
  BY <1>0, <1>1, <1>2, HandedBack

\* So does eg_mempool_realloc when it frees the block it has copied.
LEMMA ReallocFreeStep ==
    ASSUME IInv, NEW t \in Thread, ReallocFree(t)
    PROVE  IInv'
<1>0. /\ pc[t] = "refree" /\ lock = Nil /\ lock' = t
      /\ pc' = [pc EXCEPT ![t] = "push"] /\ block' = [block EXCEPT ![t] = old[t].block]
      /\ UNCHANGED <<create, lists, size, old, checker>> /\ held' = held
      /\ DOMAIN pc = Thread /\ OwnersOK /\ old[t] # Nil
  BY DEF ReallocFree, LOCK_ACQUIRE, IInv, LocalsOK
<1>1. t \in Holding /\ Holding' = Holding \ {t}
  BY <1>0 DEF Holding
<1>2. old[t] \in Owned /\ Owned' = Owned \ {old[t]}
  <2>1. \A u \in Holding \ {t} : old[u] # old[t]
    BY <1>0, <1>1 DEF OwnersOK
  <2>2. old[t] \notin held
    BY <1>0, <1>1 DEF OwnersOK
  <2> QED
    BY <1>0, <1>1, <2>1, <2>2, OwnedIs, OwnedIsNext
<1>3. initialized
  BY <1>0, InsideCreated
<1> QED
  BY <1>0, <1>1, <1>2, <1>3, HandedBack

-----------------------------------------------------------------------------
(* Sizes *)

\* What a block offers is a word.
LEMMA UserSizes ==
    \A c \in Classes : UserSize(c) \in 0..(Word - 1)
<1> TAKE c \in Classes
<1>1. BlockSize[c] - Header \in Int /\ Word \in Nat \ {0}
  BY Tables, SizesAssumption, WordAssumption
<1> QED
  BY <1>1 DEF UserSize

\* The class of a request has blocks of its size; a request without a class is large.
LEMMA SizeClassFits ==
    ASSUME NEW n \in Nat
    PROVE  \/ SizeClass(n) \in Classes /\ n <= UserSize(SizeClass(n))
           \/ SizeClass(n) = Large
<1>1. CASE \E c \in Classes : n <= UserSize(c)
  <2> DEFINE S == {c \in Classes : n <= UserSize(c)}
  <2>1. PICK c \in S : \A d \in S : c <= d
    <3>1. S \in SUBSET Nat /\ S # {}
      <4>1. Classes \subseteq Nat
        BY Tables
      <4> QED
        BY <1>1, <4>1
    <3> HIDE DEF S
    <3> QED
      BY <3>1, LeastNatural
  <2>2. \A d \in 1..(c - 1) : n > UserSize(d)
    <3> TAKE d \in 1..(c - 1)
    <3>1. d \in Classes /\ ~(c <= d)
      BY Tables
    <3>2. ~(n <= UserSize(d)) /\ UserSize(d) \in Int
      BY <2>1, <3>1, UserSizes
    <3> QED
      BY <3>2
  <2>3. SizeClass(n) = CHOOSE e \in Classes : n <= UserSize(e) /\ \A d \in 1..(e - 1) : n > UserSize(d)
    BY <1>1 DEF SizeClass
  <2>4. SizeClass(n) \in Classes /\ n <= UserSize(SizeClass(n))
    BY <2>1, <2>2, <2>3
  <2> QED
    BY <2>4
<1>2. CASE ~\E c \in Classes : n <= UserSize(c)
  BY <1>2 DEF SizeClass
<1> QED
  BY <1>1, <1>2

-----------------------------------------------------------------------------
(* The steps that give the lock back *)

\* The end of eg_mempool_free: the counter catches up with the list.
LEMMA FreeReturnStep ==
    ASSUME IInv, NEW t \in Thread, FreeReturn(t)
    PROVE  IInv'
<1>0. /\ pc[t] = "uncount" /\ lock' = Nil /\ pc' = [pc EXCEPT ![t] = "idle"]
      /\ size' = [size EXCEPT ![t] = 0] /\ block' = [block EXCEPT ![t] = Nil]
      /\ old' = [old EXCEPT ![t] = Nil]
      /\ UNCHANGED <<create, header, free_list, checker, held>>
      /\ LockOK /\ LocalsOK /\ OwnersOK /\ DOMAIN pc = Thread /\ t # Nil
  BY NilAssumption DEF FreeReturn, LOCK_RELEASE, Return, IInv, LocalsOK
<1>1. initialized /\ lock = t
  BY <1>0, InsideCreated DEF LockOK
<1>2. LockOK'
  BY <1>0, <1>1, LockReleased
<1>3. \A u \in Thread : /\ pc'[u] = IF u = t THEN "idle" ELSE pc[u]
                        /\ block'[u] = IF u = t THEN Nil ELSE block[u]
                        /\ old'[u] = IF u = t THEN Nil ELSE old[u]
  BY <1>0 DEF LocalsOK
<1>4. LocalsOK'
  <2>1. pc' \in [Thread -> {"idle", "take", "count", "refree", "push", "uncount",
                            "head", "walk"}]
    BY <1>0 DEF LocalsOK
  <2> QED
    BY <1>0, <1>3, <2>1 DEF LocalsOK, checker, Fits
<1>5. Passing = {} /\ Passing' = {}
  BY <1>0, <1>1, <1>2, PassingIs, PassingIsNext
<1>6. Holding' = Holding /\ \A u \in Holding : old'[u] = old[u]
  BY <1>0, <1>3 DEF Holding
<1>7. OwnersOK' /\ Used' = Used
  <2>1. \A h \in Owned : Kept(h.block) /\ h.block \notin Passing'
    BY <1>0, <1>5 DEF Kept, OwnersOK, IsOwner
  <2>2. \A u \in Thread : pc'[u] # "uncount"
    BY <1>0, <1>1, <1>2, <1>3, NilAssumption DEF LockOK
  <2>3. OwnersOK' /\ Owned' = Owned
    BY <1>0, <1>6, <2>1, <2>2, OwnersKept
  <2> QED
    BY <1>5, <2>3 DEF Used
<1> DEFINE c == header[block[t]].class
<1>8. block[t] # Nil
  BY <1>0, <1>1, HeadersAreNumbers DEF LocalsOK, IInv
<1>9. ASSUME NEW d \in Classes
      PROVE  free_count'[d] = free_count[d] - Pending(d) /\ Pending(d)' = 0 /\ free_count[d] \in Int
  <2>1. Pending(d) = IF c = d THEN -1 ELSE 0
    BY <1>0, <1>1, <1>8 DEF Pending
  <2>2. Pending(d)' = 0
    BY <1>0 DEF Pending
  <2>3. free_count[d] \in Int
    BY <1>1, CountsAreNumbers DEF IInv, Created
  <2>4. free_count'[d] = IF c = d THEN free_count[d] + 1 ELSE free_count[d]
    BY DEF FreeReturn, IInv
  <2> QED
    BY <2>1, <2>2, <2>3, <2>4
<1>10. current_usage' \in 0..(Word - 1) /\ DOMAIN free_count' = Classes
  <2>1. ASSUME NEW d \in Classes
        PROVE  (current_usage - UserSize(d)) % Word \in 0..(Word - 1)
    <3>1. current_usage \in Int /\ UserSize(d) \in Int /\ Word \in Nat \ {0}
      BY UserSizes, WordAssumption DEF IInv
    <3>2. current_usage - UserSize(d) \in Int
      BY <3>1
    <3> QED
      BY <3>1, <3>2
  <2> QED
    BY <2>1 DEF FreeReturn, IInv
<1>11. ASSUME NEW d \in Classes
       PROVE  free_count'[d] \in Int /\ free_count'[d] - Pending(d)' = free_count[d] - Pending(d)
  <2>1. Pending(d) \in Int
    BY DEF Pending
  <2> QED
    BY <1>9, <2>1
<1> QED
  BY <1>0, <1>1, <1>2, <1>4, <1>7, <1>10, <1>11, SameHeaders

\* A thread leaves alloc with a block or without one.
LEMMA AllocReturnStep ==
    ASSUME IInv, NEW t \in Thread, AllocReturn(t)
    PROVE  IInv'
<1> DEFINE n   == size[t]
           c   == SizeClass(n)
           ok  == block[t] # Nil
           going == ok /\ old[t] # Nil
<1> PICK new : new = [block |-> block[t], size |-> n]
  OBVIOUS
<1>0. /\ pc[t] = "count" /\ lock' = Nil
      /\ UNCHANGED <<create, header, free_list, checker>>
      /\ LockOK /\ LocalsOK /\ OwnersOK /\ DOMAIN pc = Thread /\ t # Nil
  BY NilAssumption DEF AllocReturn, LOCK_RELEASE, IInv, LocalsOK
<1>1. initialized /\ lock = t
  BY <1>0, InsideCreated DEF LockOK
<1>2. /\ pc' = [pc EXCEPT ![t] = IF going THEN "refree" ELSE "idle"]
      /\ \A u \in Thread :
            /\ pc'[u] = IF u = t THEN (IF going THEN "refree" ELSE "idle") ELSE pc[u]
            /\ u # t => size'[u] = size[u] /\ block'[u] = block[u] /\ old'[u] = old[u]
      /\ size' \in [Thread -> Nat] /\ DOMAIN block' = Thread /\ DOMAIN old' = Thread
      /\ going => old'[t] = old[t]
      /\ ~going => old'[t] = Nil
  <2>1. CASE going
    BY <1>0, <2>1 DEF AllocReturn, locals, LocalsOK
  <2>2. CASE ~going
    BY <1>0, <2>2 DEF AllocReturn, Return, LocalsOK
  <2> QED
    BY <2>1, <2>2
<1>3. LockOK'
  BY <1>0, <1>1, <1>2, LockReleased
<1>4. LocalsOK'
  <2>1. pc' \in [Thread -> {"idle", "take", "count", "refree", "push", "uncount",
                            "head", "walk"}]
    BY <1>0, <1>2 DEF LocalsOK
  <2> QED
    BY <1>0, <1>2, <2>1 DEF LocalsOK, checker, Fits
<1>5. Passing = {block[t]} \ {Nil} /\ Passing' = {}
  BY <1>0, <1>1, <1>3, PassingIs, PassingIsNext
<1>6. Holding' = IF going THEN Holding ELSE Holding \ {t}
  BY <1>0, <1>2 DEF Holding
<1>7. \A u \in Holding' : old'[u] = old[u] /\ u \in Holding
  BY <1>2, <1>6 DEF Holding
<1>8. t \in Holding <=> old[t] # Nil
  BY <1>0 DEF Holding
<1>9. held' = held \cup IF ok THEN {new} ELSE {old[t]} \ {Nil}
  BY DEF AllocReturn
<1>10. Owned' = IF ok THEN Owned \cup {new} ELSE Owned
  <2>1. CASE ok
    <3>1. Holding' = Holding
      BY <1>6, <1>8, <2>1
    <3> QED
      BY <1>7, <1>9, <2>1, <3>1, OwnedIs, OwnedIsNext
  <2>2. CASE ~ok
    <3>1. {old[u] : u \in Holding} = {old[u] : u \in Holding'} \cup ({old[t]} \ {Nil})
      BY <1>6, <1>8, <2>2 DEF Holding
    <3>2. {old'[u] : u \in Holding'} = {old[u] : u \in Holding'}
      BY <1>7
    <3> QED
      BY <1>9, <2>2, <3>1, <3>2, OwnedIs, OwnedIsNext
  <2> QED
    BY <2>1, <2>2
<1>11. ok => IsOwner(new)' /\ \A h \in Owned : h.block # block[t]
  <2> SUFFICES ASSUME ok
               PROVE  IsOwner(new)' /\ \A h \in Owned : h.block # block[t]
    OBVIOUS
  <2>1. block[t] \in DOMAIN header /\ Fits(block[t], n) /\ n \in Nat
    BY <1>0 DEF LocalsOK
  <2>2. new.block = block[t] /\ new.size = n /\ Kept(new.block)
    BY <1>0, <2>1 DEF Kept
  <2>3. IsOwner(new)
    BY <2>1, <2>2 DEF IsOwner
  <2> QED
    BY <1>0, <1>5, <2>2, <2>3, OwnerKept DEF OwnersOK
<1>12. OwnersOK' /\ Used' = Used
  <2>1. \A h \in Owned : IsOwner(h)'
    <3>1. \A h \in Owned : Kept(h.block)
      BY <1>0 DEF Kept, OwnersOK, IsOwner
    <3> QED
      BY <1>0, <3>1, OwnerKept DEF OwnersOK
  <2>2. \A h \in Owned' : IsOwner(h)'
    BY <1>10, <1>11, <2>1
  <2>3. \A g, h \in Owned' : g.block = h.block => g = h
    BY <1>0, <1>10, <1>11 DEF OwnersOK
  <2>4. \A u \in Holding' : old'[u] \notin held'
    <3> TAKE u \in Holding'
    <3>1. old'[u] = old[u] /\ old[u] \notin held /\ old[u] \in Owned
      BY <1>0, <1>7, OwnedIs DEF OwnersOK
    <3>2. CASE ok
      BY <1>9, <1>11, <3>1, <3>2
    <3>3. CASE ~ok
      <4>1. old[u] # old[t] \/ old[t] = Nil
        BY <1>0, <1>6, <1>7, <1>8, <3>3 DEF OwnersOK
      <4> QED
        BY <1>9, <3>1, <3>3, <4>1
    <3> QED
      BY <3>2, <3>3
  <2>5. \A u, v \in Holding' : old'[u] = old'[v] => u = v
    BY <1>0, <1>7 DEF OwnersOK
  <2>6. \A u \in Thread : pc'[u] # "uncount"
    BY <1>0, <1>1, <1>2 DEF LockOK
  <2>7. Used' = Used
    <3>1. {h.block : h \in Owned'} = {h.block : h \in Owned} \cup ({block[t]} \ {Nil})
      BY <1>10
    <3> QED
      BY <1>5, <3>1 DEF Used
  <2> QED
    BY <1>5, <2>2, <2>3, <2>4, <2>5, <2>6, <2>7 DEF OwnersOK
<1>13. n \in Nat /\ (c \in Classes \/ c = Large)
  <2>1. n \in Nat
    BY <1>0 DEF LocalsOK
  <2> QED
    BY <2>1, SizeClassFits
<1>14. ASSUME NEW d \in Classes
       PROVE  free_count'[d] \in Int /\ free_count'[d] - Pending(d)' = free_count[d] - Pending(d)
  <2>1. Pending(d) = IF ok /\ d = c THEN 1 ELSE 0
    BY <1>0, <1>1 DEF Pending, LocalsOK
  <2>2. Pending(d)' = 0
    BY <1>0 DEF Pending
  <2>3. free_count[d] \in Int
    BY <1>1, CountsAreNumbers DEF IInv, Created
  <2>4. d # Large
    BY Tables
  <2>5. free_count'[d] = IF ok /\ d = c THEN free_count[d] - 1 ELSE free_count[d]
    BY <2>4 DEF AllocReturn, IInv
  <2> QED
    BY <2>1, <2>2, <2>3, <2>5
<1>15. current_usage' \in 0..(Word - 1) /\ DOMAIN free_count' = Classes
  <2>1. (current_usage + n) % Word \in 0..(Word - 1)
    <3>1. current_usage \in Int /\ Word \in Nat \ {0}
      BY WordAssumption DEF IInv
    <3> QED
      BY <1>13, <3>1
  <2> QED
    BY <2>1 DEF AllocReturn, IInv
<1> QED
  BY <1>0, <1>1, <1>3, <1>4, <1>12, <1>14, <1>15, SameHeaders

\* realloc of block h takes it from its caller until it returns.
LEMMA ReallocTakes ==
    ASSUME IInv, NEW t \in Thread, NEW h \in held, NEW n \in Sizes,
           initialized, pc[t] = "idle", lock = Nil, lock' = t,
           size' = [size EXCEPT ![t] = n], old' = [old EXCEPT ![t] = h],
           pc' = [pc EXCEPT ![t] = "take"], held' = held \ {h},
           UNCHANGED <<create, lists, block, checker>>
    PROVE  IInv'
<1>0. LockOK /\ LocalsOK /\ OwnersOK /\ DOMAIN pc = Thread /\ DOMAIN old = Thread
  BY DEF IInv, LocalsOK
<1>1. LockOK'
  BY <1>0, LockTaken
<1>2. \A u \in Thread : /\ pc'[u] = IF u = t THEN "take" ELSE pc[u]
                        /\ old'[u] = IF u = t THEN h ELSE old[u]
  BY <1>0
<1>3. LocalsOK'
  <2>1. n \in Nat
    BY SizesAssumption
  <2>2. pc' \in [Thread -> {"idle", "take", "count", "refree", "push", "uncount",
                            "head", "walk"}]
    BY <1>0 DEF LocalsOK
  <2> QED
    BY <1>0, <1>2, <2>1, <2>2 DEF LocalsOK, lists, checker, Fits
<1>4. Passing' = {} /\ Passing = {}
  BY <1>1, <1>2, <1>0, PassingIs, PassingIsNext
<1>5. h # Nil
  <2>1. IsOwner(h)
    BY <1>0, OwnedIs DEF OwnersOK
  <2>2. h.block \in Nat /\ h.size \in Nat /\ h = [block |-> h.block, size |-> h.size]
    BY <2>1, HeadersAreNumbers DEF IsOwner, IInv
  <2>3. h \in [block : Nat, size : Nat]
    BY <2>2
  <2> QED
    BY <2>3, NilAssumption
<1>6. t \notin Holding /\ Holding' = Holding \cup {t}
  BY <1>2, <1>5 DEF Holding
<1>7. Owned' = Owned
  <2>1. {old'[u] : u \in Holding'} = {old[u] : u \in Holding} \cup {h}
    <3>1. \A u \in Holding : old'[u] = old[u]
      BY <1>2, <1>6 DEF Holding
    <3>2. old'[t] = h
      BY <1>2
    <3> QED
      BY <1>6, <3>1, <3>2
  <2> QED
    BY <2>1, OwnedIs, OwnedIsNext
<1>8. OwnersOK' /\ Used' = Used
  <2>1. \A g \in Owned' : IsOwner(g)'
    <3>1. \A g \in Owned : Kept(g.block)
      BY <1>0 DEF Kept, OwnersOK, IsOwner, lists
    <3> QED
      BY <1>0, <1>7, <3>1, OwnerKept DEF OwnersOK
  <2>2. \A g, k \in Owned' : g.block = k.block => g = k
    BY <1>0, <1>7 DEF OwnersOK
  <2>3. \A u \in Holding' : old'[u] \notin held'
    BY <1>0, <1>2, <1>6 DEF OwnersOK, Holding
  <2>4. \A u, v \in Holding' : old'[u] = old'[v] => u = v
    BY <1>0, <1>2, <1>6 DEF OwnersOK, Holding
  <2>5. \A u \in Thread : pc'[u] # "uncount"
    BY <1>0, <1>1, <1>2 DEF LockOK
  <2>6. Used' = Used
    BY <1>4, <1>7 DEF Used
  <2> QED
    BY <1>4, <2>1, <2>2, <2>3, <2>4, <2>5, <2>6 DEF OwnersOK
<1>9. \A c \in Classes : Pending(c) = 0 /\ Pending(c)' = 0
  BY <1>2 DEF Pending
<1>10. \A c \in Classes : free_count'[c] = free_count[c] /\ free_count[c] \in Int
  BY CountsAreNumbers DEF IInv, Created, lists
<1> QED
  BY <1>0, <1>1, <1>3, <1>8, <1>9, <1>10, SameHeaders DEF IInv, lists

\* realloc finds that block h has room for the new size.
LEMMA ReallocStays ==
    ASSUME IInv, NEW h \in held, NEW n \in Nat, Fits(h.block, n), initialized,
           held' = (held \ {h}) \cup {[h EXCEPT !.size = n]},
           UNCHANGED <<create, lists, lock, pc, locals, checker>>
    PROVE  IInv'
<1>0. LockOK /\ LocalsOK /\ OwnersOK
  BY DEF IInv
<1>1. LockOK' /\ LocalsOK' /\ Passing' = Passing
  <2>1. LockOK'
    BY <1>0 DEF LockOK
  <2>2. LocalsOK'
    BY <1>0 DEF LocalsOK, locals, checker, lists, Fits
  <2> QED
    BY <2>1, <2>2 DEF Passing, locals
<1>2. IsOwner(h) /\ h \in Owned
  BY <1>0, OwnedIs DEF OwnersOK
<1>3. PICK new : new = [block |-> h.block, size |-> n]
  OBVIOUS
<1>4. held' = (held \ {h}) \cup {new}
  BY <1>2, <1>3 DEF IsOwner
<1>5. Holding' = Holding /\ \A u \in Holding : old'[u] = old[u] /\ old[u] # h /\ old[u] \in Owned
  BY <1>0, OwnedIs DEF Holding, locals, OwnersOK
<1>6. Owned' = (Owned \ {h}) \cup {new}
  <2>1. {old'[u] : u \in Holding'} = {old[u] : u \in Holding} /\ h \notin {old[u] : u \in Holding}
    BY <1>5
  <2> QED
    BY <1>4, <2>1, OwnedIs, OwnedIsNext
<1>7. new.block = h.block /\ new.size = n
  BY <1>3
<1>8. OwnersOK' /\ Used' = Used
  <2>1. \A g \in Owned' : IsOwner(g)'
    <3>1. \A g \in Owned : Kept(g.block)
      BY <1>0 DEF Kept, OwnersOK, IsOwner, lists
    <3>2. IsOwner(new)
      BY <1>2, <1>3, <1>7 DEF IsOwner
    <3> QED
      BY <1>0, <1>2, <1>6, <1>7, <3>1, <3>2, OwnerKept DEF OwnersOK
  <2>2. \A g, k \in Owned' : g.block = k.block => g = k
    BY <1>0, <1>2, <1>6, <1>7 DEF OwnersOK
  <2>3. \A u \in Holding' : old'[u] \notin held'
    <3> TAKE u \in Holding'
    <3>1. old'[u] = old[u] /\ old[u] \in Owned /\ old[u] # h /\ old[u] \notin held
      BY <1>0, <1>5 DEF OwnersOK
    <3>2. old[u].block # h.block
      BY <1>0, <1>2, <3>1 DEF OwnersOK
    <3> QED
      BY <1>4, <1>7, <3>1, <3>2
  <2>4. \A u, v \in Holding' : old'[u] = old'[v] => u = v
    BY <1>0, <1>5 DEF OwnersOK
  <2>5. \A g \in Owned' : g.block \notin Passing'
    BY <1>0, <1>1, <1>2, <1>6, <1>7 DEF OwnersOK
  <2>6. Used' = Used
    <3>1. {g.block : g \in Owned'} = {g.block : g \in Owned}
      BY <1>2, <1>6, <1>7
    <3> QED
      BY <1>1, <3>1 DEF Used
  <2>7. \A u \in Thread : pc'[u] = "uncount" => block'[u] \notin Used'
    BY <1>0, <2>6 DEF OwnersOK, locals
  <2> QED
    BY <2>1, <2>2, <2>3, <2>4, <2>5, <2>6, <2>7 DEF OwnersOK
<1>9. \A c \in Classes : Pending(c)' = Pending(c)
  BY DEF Pending, lists, locals
<1>10. \A c \in Classes : free_count'[c] = free_count[c] /\ free_count[c] \in Int
  BY CountsAreNumbers DEF IInv, Created, lists
<1> QED
  BY <1>0, <1>1, <1>8, <1>9, <1>10, SameHeaders DEF IInv, lists

\* eg_mempool_realloc keeps IInv, whether the block has room or not.
LEMMA ReallocStep ==
    ASSUME IInv, NEW t \in Thread, NEW h \in held, NEW n \in Sizes, Realloc(t, h, n)
    PROVE  IInv'
<1> DEFINE head == header[h.block]
           room == IF head.class \in Classes THEN UserSize(head.class) ELSE head.next - Header
<1>0. initialized /\ pc[t] = "idle" /\ UNCHANGED <<create, lists, block, checker>>
  BY DEF Realloc
<1>1. n \in Nat
  BY SizesAssumption
<1>2. CASE n <= room
  <2>1. h.block \in DOMAIN header
    BY OwnedIs DEF IInv, OwnersOK, IsOwner
  <2>2. head.class \in Classes \/ (head.class = Large /\ head.next \in Nat)
    BY <1>0, <2>1 DEF IInv, Created, Small
  <2>3. Fits(h.block, n)
    <3>1. CASE head.class \in Classes
      BY <1>2, <3>1, Tables DEF Fits
    <3>2. CASE head.class = Large /\ head.next \in Nat
      <4>1. n <= head.next - Header /\ Header \in Nat
        BY <1>2, <3>2, Tables, SizesAssumption
      <4>2. n + Header <= head.next
        BY <1>1, <3>2, <4>1
      <4> QED
        BY <3>2, <4>2 DEF Fits
    <3> QED
      BY <2>2, <3>1, <3>2
  <2>4. /\ held' = (held \ {h}) \cup {[h EXCEPT !.size = n]}
        /\ UNCHANGED <<create, lists, lock, pc, locals, checker>>
    BY <1>0, <1>2 DEF Realloc, locals
  <2> QED
    BY <1>0, <1>1, <2>3, <2>4, ReallocStays
<1>3. CASE ~(n <= room)
  <2>1. /\ lock = Nil /\ lock' = t /\ size' = [size EXCEPT ![t] = n]
        /\ old' = [old EXCEPT ![t] = h] /\ pc' = [pc EXCEPT ![t] = "take"]
        /\ held' = held \ {h}
    BY <1>3 DEF Realloc, LOCK_ACQUIRE
  <2> QED
    BY <1>0, <2>1, ReallocTakes
<1> QED
  BY <1>2, <1>3

-----------------------------------------------------------------------------
(* The steps that take a block from a list and put one back *)

\* An allocated block, or NULL, is at hand.
LEMMA TakenLocals ==
    ASSUME LockOK, LocalsOK, NEW t \in Thread, lock = t, lock' = lock,
           pc' = [pc EXCEPT ![t] = "count"], UNCHANGED <<size, old, checker>>,
           DOMAIN block' = Thread, \A u \in Thread \ {t} : block'[u] = block[u],
           NEW b, block'[t] = b, NEW k, size[t] = k,
           b # Nil => b \in DOMAIN header' /\ header'[b].class = SizeClass(k) /\ Fits(b, k)',
           pc[t] = "take"
    PROVE  LockOK' /\ LocalsOK' /\ Holding' = Holding
<1>0. DOMAIN pc = Thread
  BY DEF LocalsOK
<1>1. LockOK'
  BY <1>0, LockStays
<1>2. \A u \in Thread : pc'[u] = IF u = t THEN "count" ELSE pc[u]
  BY <1>0
<1>3. \A u \in Thread \ {t} : pc[u] \notin {"take", "count", "push", "uncount"}
  BY DEF LockOK
<1>4. pc' \in [Thread -> {"idle", "take", "count", "refree", "push", "uncount",
                          "head", "walk"}]
  BY DEF LocalsOK
<1>5. /\ size' \in [Thread -> Nat] /\ DOMAIN old' = Thread /\ cls' \in [Thread -> Classes]
      /\ verdict' \in [Thread -> {"none", "ok", "mismatch", "overflow"}]
  BY DEF LocalsOK, checker
<1>6. ASSUME NEW u \in Thread
      PROVE  (/\ pc[u] \in {"take", "count"} => size[u] \in Sizes
              /\ pc[u] = "refree" => old[u] # Nil
              /\ pc[u] = "count" /\ block[u] # Nil =>
                     /\ block[u] \in DOMAIN header
                     /\ header[block[u]].class = SizeClass(size[u])
                     /\ Fits(block[u], size[u])
              /\ pc[u] \in {"push", "uncount"} => block[u] \in DOMAIN header)'
  <2>1. CASE u = t
    <3>1. pc'[t] = "count" /\ size'[t] = k /\ k \in Sizes /\ block'[t] = b
      BY <1>2 DEF LocalsOK
    <3> QED
      BY <2>1, <3>1
  <2>2. CASE u # t
    BY <1>2, <1>3, <2>2 DEF LocalsOK
  <2> QED
    BY <2>1, <2>2
<1>7. LocalsOK'
  BY <1>4, <1>5, <1>6 DEF LocalsOK
<1>8. Holding' = Holding
  BY <1>2 DEF Holding
<1> QED
  BY <1>1, <1>7, <1>8

\* Taking the first block of a list keeps IInv; the counter is then one behind.
LEMMA TakeSmallStep ==
    ASSUME IInv, NEW t \in Thread, NEW c \in Classes, c = SizeClass(size[t]),
           pc[t] = "take", TakeSmall(t, c), pc' = [pc EXCEPT ![t] = "count"],
           UNCHANGED <<create, free_count, lock, size, old, checker, held>>
    PROVE  IInv'
<1>0. /\ LockOK /\ LocalsOK /\ OwnersOK /\ DOMAIN pc = Thread
      /\ t # Nil /\ c # Large /\ DOMAIN block = Thread /\ DOMAIN free_list = Classes
  BY NilAssumption, Tables DEF IInv, LocalsOK
<1>1. initialized /\ lock = t /\ Created
  BY <1>0, InsideCreated DEF LockOK, IInv
<1>2. PICK b : b = free_list[c]
  OBVIOUS
<1>3. /\ block' = [block EXCEPT ![t] = b] /\ UNCHANGED <<header, current_usage>>
      /\ block'[t] = b /\ DOMAIN block' = Thread /\ \A u \in Thread \ {t} : block'[u] = block[u]
  BY <1>0, <1>2 DEF TakeSmall
<1>4. PICK n \in 0..BlockCount[c] : \E L \in [1..n -> Blocks(c)] :
               /\ IsList(c, n, L)
               /\ {L[i] : i \in 1..n} = Blocks(c) \ Used
               /\ free_count[c] = n + Pending(c)
  BY <1>1 DEF Created, ListsOK, ListOK
<1>5. PICK L \in [1..n -> Blocks(c)] :
               /\ IsList(c, n, L)
               /\ {L[i] : i \in 1..n} = Blocks(c) \ Used
               /\ free_count[c] = n + Pending(c)
  BY <1>4
<1>6. n \in Nat
  BY Tables
<1>6a. \A d \in Classes : Pending(d) = 0
  BY <1>0, <1>1 DEF Pending
<1>7. b = Nil \/ (n # 0 /\ b = L[1] /\ b \in Blocks(c) \ Used)
  <2>1. b = IF n = 0 THEN Nil ELSE L[1]
    BY <1>2, <1>5 DEF IsList
  <2>2. n # 0 => 1 \in 1..n
    BY <1>6
  <2> QED
    BY <1>5, <2>1, <2>2
<1> PICK k : k = size[t]
  OBVIOUS
<1>8. b # Nil => b \in DOMAIN header /\ header[b].class = c /\ Fits(b, k)
  <2> SUFFICES ASSUME b # Nil
               PROVE  b \in DOMAIN header /\ header[b].class = c /\ Fits(b, k)
    OBVIOUS
  <2>1. b \in DOMAIN header /\ header[b].class = c
    BY <1>1, <1>7 DEF Created, Small
  <2>2. k \in Nat
    BY <1>0 DEF LocalsOK
  <2>3. k <= UserSize(c)
    BY <1>0, <2>2, SizeClassFits
  <2> QED
    BY <1>0, <2>1, <2>3 DEF Fits
<1>9. LockOK' /\ LocalsOK' /\ Holding' = Holding
  <2>1. b # Nil => b \in DOMAIN header' /\ header'[b].class = SizeClass(k) /\ Fits(b, k)'
    BY <1>3, <1>8 DEF Fits
  <2> QED
    BY <1>0, <1>1, <1>3, <2>1, TakenLocals
<1>10. Passing = {} /\ Passing' = {b} \ {Nil}
  <2>1. pc'[t] = "count"
    BY <1>0
  <2> QED
    BY <1>0, <1>1, <1>3, <1>9, <2>1, PassingIs, PassingIsNext
<1>11. OwnersOK' /\ Used' = Used \cup ({b} \ {Nil})
  <2>1. \A h \in Owned : Kept(h.block) /\ h.block \notin Passing'
    BY <1>0, <1>3, <1>7, <1>10 DEF Kept, OwnersOK, IsOwner, Used
  <2>2. \A u \in Thread : pc'[u] # "uncount"
    BY <1>0, <1>1, <1>9 DEF LockOK
  <2>3. OwnersOK' /\ Owned' = Owned
    BY <1>0, <1>9, <2>1, <2>2, OwnersKept
  <2> QED
    BY <1>10, <2>3 DEF Used
<1>12. \A d \in Classes : free_count'[d] = free_count[d] /\ free_count[d] \in Int
  BY <1>1, CountsAreNumbers DEF Created
<1>13. ASSUME NEW d \in Classes, d # c \/ b = Nil
       PROVE  ListOK(d)'
  <2>1. Pending(d)' = 0
    BY <1>0, <1>1, <1>3, <1>8, <1>13 DEF Pending
  <2>2. free_list'[d] = free_list[d]
    BY <1>0, <1>2, <1>13 DEF TakeSmall
  <2>3. \A x \in Blocks(d) : header'[x] = header[x] /\ (x \in Used' <=> x \in Used)
    BY <1>3, <1>7, <1>11, <1>13, OneClass
  <2> QED
    BY <1>1, <1>6a, <1>12, <2>1, <2>2, <2>3, ListKept DEF Created, ListsOK
<1>14. b # Nil => ListOK(c)'
  <2> SUFFICES ASSUME b # Nil
               PROVE  ListOK(c)'
    OBVIOUS
  <2>1. n \in 1..BlockCount[c] /\ n - 1 \in 0..BlockCount[c]
    BY <1>6, <1>7, Tables
  <2>2. free_list'[c] = header[L[1]].next
    BY <1>0, <1>2, <1>7 DEF TakeSmall
  <2>3. PICK M \in [1..(n - 1) -> Blocks(c)] :
               /\ IsList(c, n - 1, M)'
               /\ {M[i] : i \in 1..(n - 1)} = {L[i] : i \in 1..n} \ {L[1]}
    <3>1. IsList(c, n, L) /\ header' = header
      BY <1>3, <1>5
    <3> QED
      BY <3>1, <2>1, <2>2, ListPopped, Zenon
  <2>4. {M[i] : i \in 1..(n - 1)} = Blocks(c) \ Used'
    BY <1>5, <1>7, <1>11, <2>3
  <2>5. free_count'[c] = (n - 1) + Pending(c)'
    <3>1. Pending(c)' = 1
      BY <1>0, <1>1, <1>3, <1>8 DEF Pending
    <3> QED
      BY <1>5, <1>6, <1>6a, <1>12, <3>1
  <2> QED
    BY <2>1, <2>3, <2>4, <2>5 DEF ListOK
<1>15. free_list' \in [Classes -> 0..(Word - 1) \cup {Nil}]
  <2>1. CASE b = Nil
    BY <1>2, <2>1 DEF TakeSmall, IInv
  <2>2. CASE b # Nil
    <3>1. header[b].next = Nil \/ header[b].next \in Blocks(c)
      <4>1. header[L[1]].next = IF n = 1 THEN Nil ELSE L[2]
        BY <1>5, <1>6, <1>7, <2>2 DEF IsList
      <4>2. n # 1 => 2 \in 1..n
        <5>1. n # 0
          BY <1>7, <2>2
        <5> QED
          BY <1>6, <5>1
      <4> QED
        BY <1>7, <2>2, <4>1, <4>2
    <3>2. Blocks(c) \subseteq 0..(Word - 1)
      BY <1>1, BlocksBelowWord
    <3>3. free_list' = [free_list EXCEPT ![c] = header[b].next]
      BY <1>2, <2>2 DEF TakeSmall
    <3> QED
      BY <3>1, <3>2, <3>3 DEF IInv
  <2> QED
    BY <2>1, <2>2
<1>16. LargeApart'
  BY <1>3, <1>8, <1>11, <1>0 DEF IInv, LargeApart
<1>17. Created'
  <2>1. ListsOK'
    BY <1>13, <1>14 DEF ListsOK
  <2> QED
    BY <1>1, <1>3, <2>1, CreatedKept
<1> QED
  BY <1>1, <1>3, <1>9, <1>11, <1>15, <1>16, <1>17 DEF IInv, create

\* A block that is not of a class is large.
LEMMA BlockOfClass ==
    ASSUME Created, NEW b \in DOMAIN header
    PROVE  IF header[b].class \in Classes THEN b \in Blocks(header[b].class)
           ELSE header[b].class = Large /\ b \notin Small
<1>1. CASE b \in Small
  BY <1>1 DEF Created, Small
<1>2. CASE b \notin Small
  BY <1>2, Tables DEF Created
<1> QED
  BY <1>1, <1>2

\* A list that lacks a block has room for it.
LEMMA RoomForBlock ==
    ASSUME NEW c \in Classes, NEW n \in 0..BlockCount[c], NEW L \in [1..n -> Blocks(c)],
           IsList(c, n, L), NEW b \in Blocks(c), b \notin {L[i] : i \in 1..n}
    PROVE  n \in 0..(BlockCount[c] - 1)
<1>1. IsFiniteSet(Blocks(c)) /\ Cardinality(Blocks(c)) = BlockCount[c] /\ BlockCount[c] \in Nat
      /\ n \in Nat /\ n <= BlockCount[c]
  BY BlocksCounted, Tables
<1>2. FreeBlocks(c) = {L[i] : i \in 1..n} /\ Cardinality(FreeBlocks(c)) = n
  BY FreeOfList
<1>3. FreeBlocks(c) \subseteq Blocks(c) /\ FreeBlocks(c) # Blocks(c)
  BY <1>2
<1>4. n # BlockCount[c]
  <2>1. FreeBlocks(c) \in SUBSET Blocks(c)
    BY <1>3
  <2>2. Cardinality(FreeBlocks(c)) = Cardinality(Blocks(c)) => FreeBlocks(c) = Blocks(c)
    BY <1>1, <2>1, FS_Subset
  <2> QED
    BY <1>1, <1>2, <1>3, <2>2
<1> QED
  BY <1>1, <1>4

\* Putting a block in front of its list keeps IInv; the counter is then one behind.
LEMMA FreePushStep ==
    ASSUME IInv, NEW t \in Thread, FreePush(t)
    PROVE  IInv'
<1>0. /\ pc[t] = "push" /\ pc' = [pc EXCEPT ![t] = "uncount"]
      /\ UNCHANGED <<create, free_count, current_usage, lock, size, block, old, checker, held>>
      /\ LockOK /\ LocalsOK /\ OwnersOK /\ DOMAIN pc = Thread
      /\ DOMAIN free_list = Classes /\ t # Nil
  BY NilAssumption DEF FreePush, locals, IInv, LocalsOK
<1>1. initialized /\ lock = t /\ Created
  BY <1>0, InsideCreated DEF LockOK, IInv
<1> PICK b : b = block[t]
  OBVIOUS
<1> PICK c : c = header[b].class
  OBVIOUS
<1>2. b \in DOMAIN header /\ b # Nil
  BY <1>0, <1>1, HeadersAreNumbers DEF LocalsOK
<1>3. IF c \in Classes THEN b \in Blocks(c) ELSE c = Large /\ b \notin Small
  BY <1>1, <1>2, BlockOfClass
<1>4. /\ c \in Classes => /\ header' = [header EXCEPT ![b].next = free_list[c]]
                          /\ free_list' = [free_list EXCEPT ![c] = b]
      /\ c \notin Classes => header' = header /\ free_list' = free_list
  BY DEF FreePush
<1>5. /\ DOMAIN header' = DOMAIN header
      /\ \A x \in DOMAIN header : /\ x # b => header'[x] = header[x]
                                  /\ header'[x].class = header[x].class
                                  /\ header'[x] = [class |-> header'[x].class,
                                                   next |-> header'[x].next]
      /\ c \in Classes => header'[b].next = free_list[c]
  <2>1. \A x \in DOMAIN header : header[x] = [class |-> header[x].class, next |-> header[x].next]
    BY <1>1 DEF Created
  <2>2. CASE c \in Classes
    <3>1. /\ DOMAIN header' = DOMAIN header
          /\ \A x \in DOMAIN header : x # b => header'[x] = header[x]
          /\ header'[b] = [header[b] EXCEPT !.next = free_list[c]]
      BY <1>2, <1>4, <2>2
    <3>2. header'[b] = [class |-> header[b].class, next |-> free_list[c]]
      BY <1>2, <2>1, <3>1
    <3> QED
      BY <2>1, <3>1, <3>2
  <2>3. CASE c \notin Classes
    BY <1>4, <2>1, <2>3
  <2> QED
    BY <2>2, <2>3
<1>6. LockOK'
  BY <1>0, <1>1, LockStays
<1>7. \A u \in Thread : pc'[u] = IF u = t THEN "uncount" ELSE pc[u]
  BY <1>0
<1>8. ASSUME NEW x \in DOMAIN header
      PROVE  Kept(x)
  <2>1. x = b /\ header[x].class = Large => header' = header
    BY <1>4, Tables
  <2> QED
    BY <1>5, <2>1 DEF Kept
<1>9. LocalsOK'
  <2>1. pc' \in [Thread -> {"idle", "take", "count", "refree", "push", "uncount",
                            "head", "walk"}]
    BY <1>0 DEF LocalsOK
  <2>2. \A u \in Thread : pc'[u] # "count"
    BY <1>0, <1>1, <1>6, <1>7 DEF LockOK
  <2> QED
    BY <1>0, <1>2, <1>5, <1>7, <2>1, <2>2 DEF LocalsOK, checker
<1>10. Passing = {b} /\ Passing' = {}
  BY <1>0, <1>1, <1>2, <1>6, <1>7, PassingIs, PassingIsNext
<1>11. Holding' = Holding /\ \A u \in Holding : old'[u] = old[u]
  BY <1>0, <1>7 DEF Holding
<1>12. OwnersOK' /\ Used' = Used \ {b} /\ b \in Used
  <2>1. \A h \in Owned : Kept(h.block) /\ h.block \notin Passing' /\ h.block # b
    BY <1>0, <1>8, <1>10 DEF OwnersOK, IsOwner
  <2>2. Owned' = Owned
    BY <1>0, <1>11, <2>1, OwnersKept
  <2>3. Used' = Used \ {b}
    BY <1>10, <2>1, <2>2 DEF Used
  <2>4. \A u \in Thread : pc'[u] = "uncount" => block'[u] \notin Used'
    BY <1>0, <1>1, <1>6, <1>7, <2>3 DEF LockOK
  <2> QED
    BY <1>0, <1>10, <1>11, <2>1, <2>3, <2>4, OwnersKept DEF Used
<1>13. LargeApart'
  <2>1. \A x \in Used : Kept(x)
    BY <1>0, <1>8, UsedHaveHeaders
  <2> QED
    BY <1>12, <2>1, LargeKept DEF IInv
<1>14. \A d \in Classes : Pending(d) = 0 /\ Pending(d)' = IF d = c THEN -1 ELSE 0
  <2>1. header'[b].class = c
    BY <1>2, <1>5
  <2> QED
    BY <1>0, <1>1, <1>2, <1>7, <2>1 DEF Pending
<1>15. \A d \in Classes : free_count'[d] = free_count[d] /\ free_count[d] \in Int
  BY <1>0, <1>1, CountsAreNumbers DEF Created
<1>16. ASSUME NEW d \in Classes, d # c
       PROVE  ListOK(d)'
  <2>1. free_list'[d] = free_list[d]
    BY <1>0, <1>4, <1>16
  <2>2. \A x \in Blocks(d) : x # b /\ x \in DOMAIN header
    BY <1>1, <1>3, <1>16, OneClass DEF Small, Created
  <2>3. \A x \in Blocks(d) : header'[x] = header[x] /\ (x \in Used' <=> x \in Used)
    BY <1>5, <1>12, <2>2
  <2>4. Pending(d) = 0 /\ Pending(d)' = 0
    BY <1>14, <1>16
  <2> QED
    BY <1>1, <1>15, <2>1, <2>3, <2>4, ListKept DEF Created, ListsOK
<1>17. c \in Classes => ListOK(c)'
  <2> SUFFICES ASSUME c \in Classes
               PROVE  ListOK(c)'
    OBVIOUS
  <2>1. PICK n \in 0..BlockCount[c] : \E L \in [1..n -> Blocks(c)] :
                 /\ IsList(c, n, L)
                 /\ {L[i] : i \in 1..n} = Blocks(c) \ Used
                 /\ free_count[c] = n + Pending(c)
    BY <1>1 DEF Created, ListsOK, ListOK
  <2>2. PICK L \in [1..n -> Blocks(c)] :
                 /\ IsList(c, n, L)
                 /\ {L[i] : i \in 1..n} = Blocks(c) \ Used
                 /\ free_count[c] = n + Pending(c)
    BY <2>1
  <2>3. b \in Blocks(c) /\ b \notin {L[i] : i \in 1..n}
    BY <1>3, <1>12, <2>2
  <2>4. n \in 0..(BlockCount[c] - 1)
    BY <2>2, <2>3, RoomForBlock
  <2>5. /\ free_list'[c] = b /\ header'[b].next = free_list[c]
        /\ \A x \in Blocks(c) \ {b} : header'[x] = header[x]
    BY <1>0, <1>1, <1>4, <1>5 DEF Created, Small
  <2>6. PICK M \in [1..(n + 1) -> Blocks(c)] :
               /\ IsList(c, n + 1, M)'
               /\ {M[i] : i \in 1..(n + 1)} = {L[i] : i \in 1..n} \cup {b}
    <3>1. IsList(c, n, L)
      BY <2>2
    <3>2. Pushes(c, n, L, b)
      BY <2>3, <2>5 DEF Pushes
    <3>3. LongerList(c, n, L, b)
      BY <3>1, <3>2, <2>4, ListPushed
    <3> QED
      BY <3>3, Zenon DEF LongerList
  <2>7. {M[i] : i \in 1..(n + 1)} = Blocks(c) \ Used'
    BY <1>12, <2>2, <2>3, <2>6
  <2>8. n + 1 \in 0..BlockCount[c] /\ n \in Nat
    BY <2>4, Tables
  <2>9. free_count'[c] = (n + 1) + Pending(c)'
    <3>1. Pending(c) = 0 /\ Pending(c)' = -1 /\ free_count'[c] = free_count[c]
      BY <1>14, <1>15
    <3>2. free_count[c] = n + 0
      BY <2>2, <3>1
    <3> QED
      BY <2>8, <3>1, <3>2
  <2> QED
    BY <2>6, <2>7, <2>8, <2>9 DEF ListOK
<1>18. ListsOK'
  BY <1>16, <1>17 DEF ListsOK
<1>19. Created'
  <2>1. \E buffer \in Buffers : pool_size' = buffer.size /\ HoldsClasses(buffer)
    BY <1>0, <1>1 DEF Created, create
  <2>2. Small \subseteq DOMAIN header'
    BY <1>1, <1>5 DEF Created
  <2>3. \A d \in Classes : \A x \in Blocks(d) : header'[x].class = d
    BY <1>1, <1>5 DEF Created, Small
  <2>4. \A x \in DOMAIN header' : header'[x] = [class |-> header'[x].class, next |-> header'[x].next]
    BY <1>5
  <2>5. \A x \in DOMAIN header' \ Small :
            /\ header'[x].class = Large /\ header'[x].next \in Nat \ {0}
            /\ x \in Nat /\ buddy_start <= x /\ x + header'[x].next <= pool_size'
    <3>1. \A x \in DOMAIN header' \ Small : header'[x] = header[x]
      <4>1. c \in Classes => b \in Small
        BY <1>3 DEF Small
      <4> QED
        BY <1>4, <1>5, <4>1
    <3> QED
      BY <1>0, <1>1, <1>5, <3>1 DEF Created, create
  <2> QED
    BY <1>18, <2>1, <2>2, <2>3, <2>4, <2>5 DEF Created
<1>20. free_list' \in [Classes -> 0..(Word - 1) \cup {Nil}]
  <2>1. c \in Classes => b \in 0..(Word - 1)
    BY <1>1, <1>3, BlocksBelowWord
  <2> QED
    BY <1>4, <2>1 DEF IInv
<1> QED
  BY <1>0, <1>1, <1>6, <1>9, <1>12, <1>13, <1>19, <1>20 DEF IInv, create

-----------------------------------------------------------------------------
(* The step that cuts a block from the large region *)

\* No request is so large that adding it to the pool's bookkeeping would wrap.
RequestsBelowWord ==
    \A n \in Sizes, buffer \in Buffers :
        SizeClass(n) = Large => 2 * buffer.size + AlignUp(n + Header) < Word

\* A number below the modulus is its own remainder.
LEMMA SmallModulo ==
    ASSUME NEW a \in Nat, NEW m \in Nat \ {0}, a < m
    PROVE  a % m = a
OBVIOUS

\* AlignUp rounds up by less than Align.
LEMMA RoundedUp ==
    ASSUME NEW n \in Nat
    PROVE  AlignUp(n) \in Nat /\ n <= AlignUp(n) /\ AlignUp(n) < n + Align
<1>1. Align \in Nat \ {0}
  BY SizesAssumption
<1> DEFINE x == n + Align - 1
           q == x \div Align
           r == x % Align
<1>2. x \in Nat
  BY <1>1
<1> HIDE DEF x
<1>3. q \in Nat /\ r \in 0..(Align - 1) /\ x = Align * q + r
  BY <1>1, <1>2
<1>4. q * Align = Align * q /\ q * Align \in Nat
  BY <1>1, <1>3
<1>5. AlignUp(n) = q * Align
  BY DEF AlignUp, x
<1> HIDE DEF q, r
<1> DEFINE y == q * Align
<1>6. y \in Nat /\ x = y + r /\ AlignUp(n) = y
  BY <1>3, <1>4, <1>5
<1> HIDE DEF y
<1>7. r \in Nat /\ r < Align /\ x = n + Align - 1
  BY <1>1, <1>3 DEF x
<1> QED
  BY <1>1, <1>6, <1>7

\* The new block lies behind the large blocks in use and inside the pool.
LEMMA LargeBlockNew ==
    ASSUME IInv, CursorAhead, RequestsBelowWord, NEW t \in Thread, pc[t] = "take",
           SizeClass(size[t]) = Large,
           NEW need, need = AlignUp(size[t] + Header),
           NEW start, start = (buddy_start + current_usage) % Word,
           (current_usage + need) % Word <= buddy_size
    PROVE  /\ need \in Nat \ {0} /\ size[t] + Header <= need
           /\ start \in Nat /\ buddy_start <= start /\ start + need <= pool_size
           /\ (current_usage + need) % Word \in 0..(Word - 1)
           /\ start \notin Small
           /\ start = buddy_start + current_usage
           /\ (current_usage + need) % Word = current_usage + need
           /\ \A b \in Used : header[b].class = Large => b + header[b].next <= start
<1>0. /\ LockOK /\ LocalsOK /\ OwnersOK /\ Created /\ size[t] \in Sizes
      /\ size[t] \in Nat \ {0} /\ Header \in Nat /\ lock = t /\ t # Nil
      /\ current_usage \in Nat
  BY InsideCreated, SizesAssumption, NilAssumption, WordAssumption DEF IInv, LocalsOK, LockOK
<1>1. /\ pool_size \in Nat /\ 2 * pool_size < Word /\ Word \in Nat \ {0}
      /\ buddy_start \in Nat /\ buddy_start <= pool_size
  BY <1>0, PoolBelowWord
<1>2. need \in Nat /\ size[t] + Header <= need
  <2>1. size[t] + Header \in Nat
    BY <1>0
  <2> QED
    BY <2>1, RoundedUp
<1>3. need # 0
  <2>1. size[t] \in Nat /\ size[t] # 0 /\ Header \in Nat
    BY <1>0
  <2> QED
    BY <1>2, <2>1
<1>4. 2 * pool_size + need < Word
  <2>1. PICK buffer \in Buffers : pool_size = buffer.size
    BY <1>0 DEF Created
  <2> QED
    BY <1>0, <2>1 DEF RequestsBelowWord
<1>5. current_usage <= 2 * pool_size
  BY <1>0 DEF CursorAhead
<1>6. (current_usage + need) % Word = current_usage + need
  <2>1. current_usage + need \in Nat /\ current_usage + need < Word
    BY <1>0, <1>1, <1>2, <1>4, <1>5
  <2> QED
    BY <1>1, <2>1, SmallModulo
<1>7. buddy_start + current_usage + need <= pool_size
  BY <1>0, <1>1, <1>2, <1>6 DEF buddy_size
<1>8. start = buddy_start + current_usage
  <2>1. buddy_start + current_usage \in Nat /\ buddy_start + current_usage < Word
    BY <1>0, <1>1, <1>2, <1>7
  <2> QED
    BY <1>1, <2>1, SmallModulo
<1>9. start \in Nat /\ buddy_start <= start /\ start + need <= pool_size
  BY <1>0, <1>1, <1>2, <1>7, <1>8
<1>10. (current_usage + need) % Word \in 0..(Word - 1)
  BY <1>0, <1>1, <1>2, <1>6, <1>4, <1>5
<1>11. start \notin Small
  <2>1. ASSUME NEW c \in Classes, start \in Blocks(c)
        PROVE  FALSE
    <3>1. /\ start + BlockSize[c] <= Base[c + 1] /\ Base[c + 1] <= buddy_start
          /\ BlockSize[c] \in Nat \ {0} /\ Base[c + 1] \in Nat
      BY <2>1, BlockInClass, Tables
    <3> QED
      BY <1>1, <1>9, <3>1
  <2> QED
    BY <2>1 DEF Small
<1>12. \A b \in Used : header[b].class = Large => b + header[b].next <= start
  <2>1. Passing = {}
    BY <1>0, PassingIs
  <2>2. \A h \in Owned : header[h.block].class = Large =>
             h.block + header[h.block].next <= buddy_start + current_usage
    BY <1>0 DEF CursorAhead
  <2> QED
    BY <1>8, <2>1, <2>2 DEF Used
<1> QED
  BY <1>2, <1>3, <1>6, <1>8, <1>9, <1>10, <1>11, <1>12

\* Cutting a block from the large region keeps IInv while current_usage is ahead.
LEMMA TakeLargeStep ==
    ASSUME IInv, CursorAhead, RequestsBelowWord, NEW t \in Thread,
           SizeClass(size[t]) = Large,
           pc[t] = "take", TakeLarge(t), pc' = [pc EXCEPT ![t] = "count"],
           UNCHANGED <<create, free_count, lock, size, old, checker, held>>
    PROVE  IInv'
<1> PICK k : k = size[t]
  OBVIOUS
<1> PICK need : need = AlignUp(size[t] + Header)
  OBVIOUS
<1> PICK start : start = (buddy_start + current_usage) % Word
  OBVIOUS
<1>0. /\ LockOK /\ LocalsOK /\ OwnersOK /\ DOMAIN pc = Thread
      /\ t # Nil /\ DOMAIN block = Thread
      /\ free_list' = free_list /\ free_count' = free_count
  BY NilAssumption DEF IInv, LocalsOK, TakeLarge
<1>1. initialized /\ lock = t /\ Created
  BY <1>0, InsideCreated DEF LockOK, IInv
<1>2. \A c \in Classes : free_count'[c] = free_count[c] /\ free_count[c] \in Int /\ Pending(c) = 0
  <2>1. \A c \in Classes : Pending(c) = 0
    BY <1>0, <1>1 DEF Pending
  <2> QED
    BY <1>0, <1>1, <2>1, CountsAreNumbers DEF Created
<1>3. \A u \in Thread : pc'[u] = "uncount" => FALSE
  BY <1>0, <1>1 DEF LockOK
<1>4. CASE ~((current_usage + need) % Word <= buddy_size)
  <2>1. /\ block' = [block EXCEPT ![t] = Nil] /\ UNCHANGED <<header, current_usage>>
        /\ DOMAIN block' = Thread /\ block'[t] = Nil
        /\ \A u \in Thread \ {t} : block'[u] = block[u]
    BY <1>0, <1>4 DEF TakeLarge
  <2>2. LockOK' /\ LocalsOK' /\ Holding' = Holding
    BY <1>0, <1>1, <2>1, TakenLocals
  <2>3. Passing = {} /\ Passing' = {}
    BY <1>0, <1>1, <2>1, <2>2, PassingIs, PassingIsNext
  <2>4. OwnersOK' /\ Used' = Used
    <3>1. \A h \in Owned : Kept(h.block) /\ h.block \notin Passing'
      BY <1>0, <2>1, <2>3 DEF Kept, OwnersOK, IsOwner
    <3>2. OwnersOK' /\ Owned' = Owned
      BY <1>0, <1>3, <2>2, <3>1, OwnersKept
    <3> QED
      BY <2>3, <3>2 DEF Used
  <2>5. \A c \in Classes : Pending(c)' = 0
    BY <1>0, <1>1, <2>1 DEF Pending
  <2> QED
    BY <1>0, <1>1, <1>2, <2>1, <2>2, <2>4, <2>5, SameHeaders DEF IInv
<1>5. CASE (current_usage + need) % Word <= buddy_size
  <2>1. /\ block' = [block EXCEPT ![t] = start]
        /\ DOMAIN block' = Thread /\ block'[t] = start
        /\ \A u \in Thread \ {t} : block'[u] = block[u]
        /\ current_usage' = (current_usage + need) % Word
        /\ header' = [b \in DOMAIN header \cup {start} |->
                         IF b = start THEN [class |-> Large, next |-> need] ELSE header[b]]
    BY <1>0, <1>5 DEF TakeLarge
  <2>2. /\ need \in Nat \ {0} /\ size[t] + Header <= need
        /\ start \in Nat /\ buddy_start <= start /\ start + need <= pool_size
        /\ (current_usage + need) % Word \in 0..(Word - 1)
        /\ start \notin Small
        /\ \A b \in Used : header[b].class = Large => b + header[b].next <= start
    BY <1>5, LargeBlockNew
  <2>3. /\ DOMAIN header' = DOMAIN header \cup {start}
        /\ header'[start] = [class |-> Large, next |-> need]
        /\ header'[start].class = Large /\ header'[start].next = need
        /\ \A b \in DOMAIN header : b # start => header'[b] = header[b]
    BY <2>1
  <2>4. Fits(start, k)'
    BY <2>2, <2>3 DEF Fits
  <2>5. LockOK' /\ LocalsOK' /\ Holding' = Holding
    BY <1>0, <1>1, <2>1, <2>3, <2>4, TakenLocals
  <2>6. start # Nil
    BY <2>2, NilAssumption
  <2>7. Passing = {} /\ Passing' = {start}
    <3>1. pc'[t] = "count"
      BY <1>0
    <3> QED
      BY <1>0, <1>1, <2>1, <2>5, <2>6, <3>1, PassingIs, PassingIsNext
  <2>8. \A b \in Used : b # start /\ b \in DOMAIN header
    <3> TAKE b \in Used
    <3>1. b \in DOMAIN header
      BY <1>0, UsedHaveHeaders
    <3>2. b \in Small \/ (header[b].class = Large /\ header[b].next \in Nat \ {0} /\ b \in Nat)
      BY <1>1, <3>1 DEF Created
    <3>3. CASE b \in Small
      BY <2>2, <3>1, <3>3
    <3>4. CASE header[b].class = Large /\ header[b].next \in Nat \ {0} /\ b \in Nat
      <4>1. b + header[b].next <= start
        BY <2>2, <3>4
      <4> QED
        BY <3>1, <3>4, <4>1
    <3> QED
      BY <3>2, <3>3, <3>4
  <2>9. \A b \in Used : header'[b] = header[b] /\ Kept(b)
    BY <2>3, <2>8 DEF Kept
  <2>10. OwnersOK' /\ Used' = Used \cup {start}
    <3>1. \A h \in Owned : Kept(h.block) /\ h.block \notin Passing'
      BY <2>7, <2>8, <2>9 DEF Used
    <3>2. OwnersOK' /\ Owned' = Owned
      BY <1>0, <1>3, <2>5, <3>1, OwnersKept
    <3> QED
      BY <2>7, <3>2 DEF Used
  <2>11. LargeApart'
    <3>1. \A a, b \in Used : header[a].class = Large /\ header[b].class = Large /\ a # b =>
              a + header[a].next <= b \/ b + header[b].next <= a
      BY DEF IInv, LargeApart
    <3> QED
      BY <2>2, <2>9, <2>10, <3>1 DEF LargeApart
  <2>12. \A c \in Classes : Pending(c)' = 0
    BY <1>0, <1>1, <2>1, <2>3, Tables DEF Pending
  <2>13. \A b \in Small : header'[b] = header[b] /\ b \in DOMAIN header
    BY <1>1, <2>2, <2>3 DEF Created
  <2>14. ListsOK'
    <3>1. \A b \in Small : b \in Used' <=> b \in Used
      BY <2>2, <2>10
    <3> QED
      BY <1>0, <1>1, <1>2, <2>12, <2>13, <3>1, ListsKept DEF Created
  <2>15. Created'
    <3>1. \E buffer \in Buffers : pool_size' = buffer.size /\ HoldsClasses(buffer)
      BY <1>1 DEF Created, create
    <3>2. Small \subseteq DOMAIN header'
      BY <2>3, <2>13
    <3>3. \A c \in Classes : \A b \in Blocks(c) : header'[b].class = c
      BY <1>1, <2>13 DEF Created, Small
    <3>4. \A b \in DOMAIN header' : header'[b] = [class |-> header'[b].class, next |-> header'[b].next]
      BY <1>1, <2>3 DEF Created
    <3>5. \A b \in DOMAIN header' \ Small :
              /\ header'[b].class = Large /\ header'[b].next \in Nat \ {0}
              /\ b \in Nat /\ buddy_start <= b /\ b + header'[b].next <= pool_size'
      <4> TAKE b \in DOMAIN header' \ Small
      <4>1. pool_size' = pool_size
        BY DEF create
      <4>2. CASE b = start
        BY <2>2, <2>3, <4>1, <4>2
      <4>3. CASE b # start
        BY <1>1, <2>3, <4>1, <4>3 DEF Created
      <4> QED
        BY <4>2, <4>3
    <3> QED
      BY <2>14, <3>1, <3>2, <3>3, <3>4, <3>5 DEF Created
  <2> QED
    BY <1>0, <1>1, <2>1, <2>2, <2>5, <2>10, <2>11, <2>15 DEF IInv, create
<1> QED
  BY <1>4, <1>5

-----------------------------------------------------------------------------
(* Creating and destroying the pool *)

\* Where nobody holds anything or is in a call, no block is in use.
LEMMA NobodyInside ==
    ASSUME held' = {}, \A t \in Thread : pc'[t] = "idle"
    PROVE  Used' = {} /\ OwnersOK' /\ LargeApart'
<1>1. Owned' = {} /\ Passing' = {} /\ Holding' = {}
  BY DEF Owned, Passing, Holding
<1>2. Used' = {}
  BY <1>1 DEF Used
<1> QED
  BY <1>1, <1>2 DEF OwnersOK, LargeApart

\* Each block of a fresh pool is in one class and leads to the one before it.
LEMMA FreshBlocks ==
    /\ DOMAIN FreshHeader = Small
    /\ \A c \in Classes : \A b \in Blocks(c) :
           FreshHeader[b] = [class |-> c, next |-> IF b = Base[c] THEN Nil ELSE b - BlockSize[c]]
<1> DEFINE class(b) == CHOOSE c \in Classes : b \in Base[c]..(Base[c + 1] - 1)
<1>1. FreshHeader = [b \in Small |->
          [class |-> class(b),
           next  |-> IF b = Base[class(b)] THEN Nil ELSE b - BlockSize[class(b)]]]
  BY DEF FreshHeader, Small
<1>2. ASSUME NEW c \in Classes, NEW b \in Blocks(c)
      PROVE  class(b) = c
  <2>1. /\ b \in Nat /\ Base[c] \in Nat /\ Base[c + 1] \in Nat
        /\ Base[c] <= b /\ b + BlockSize[c] <= Base[c + 1] /\ BlockSize[c] \in Nat \ {0}
        /\ c \in Nat
    BY BlockInClass, Tables
  <2>2. b \in Base[c]..(Base[c + 1] - 1)
    BY <2>1
  <2>3. ASSUME NEW d \in Classes, b \in Base[d]..(Base[d + 1] - 1)
        PROVE  d = c
    <3>1. /\ Base[d] \in Nat /\ Base[d + 1] \in Nat /\ Base[d] <= b /\ b < Base[d + 1]
          /\ d \in Nat /\ Len(BlockSize) \in Nat
          /\ d <= Len(BlockSize) /\ c <= Len(BlockSize)
      BY <2>1, <2>3, BaseDef, Tables
    <3>2. CASE c < d
      <4>1. d \in (c + 1)..(Len(BlockSize) + 1)
        BY <2>1, <3>1, <3>2
      <4>2. Base[c + 1] <= Base[d]
        BY <4>1, BaseOrdered
      <4> QED
        BY <2>1, <3>1, <4>2
    <3>3. CASE d < c
      <4>1. c \in (d + 1)..(Len(BlockSize) + 1)
        BY <2>1, <3>1, <3>3
      <4>2. Base[d + 1] <= Base[c]
        BY <4>1, BaseOrdered
      <4> QED
        BY <2>1, <3>1, <4>2
    <3> QED
      BY <2>1, <3>1, <3>2, <3>3
  <2> QED
    BY <2>2, <2>3
<1> HIDE DEF class
<1>3. DOMAIN FreshHeader = Small
  BY <1>1
<1>4. ASSUME NEW c \in Classes, NEW b \in Blocks(c)
      PROVE  FreshHeader[b] = [class |-> c, next |-> IF b = Base[c] THEN Nil ELSE b - BlockSize[c]]
  <2>1. b \in Small
    BY DEF Small
  <2>2. class(b) = c
    BY <1>2
  <2> QED
    BY <1>1, <2>1, <2>2
<1> QED
  BY <1>3, <1>4

\* The blocks of a class follow each other at its block size.
LEMMA BlockAtSteps ==
    ASSUME NEW c \in Classes, NEW j \in 1..BlockCount[c]
    PROVE  /\ BlockAt(c, j) \in Blocks(c)
           /\ BlockAt(c, j) = Base[c] <=> j = 1
           /\ j # 1 => j - 1 \in 1..BlockCount[c] /\ BlockAt(c, j) - BlockSize[c] = BlockAt(c, j - 1)
           /\ \A i \in 1..BlockCount[c] : BlockAt(c, i) = BlockAt(c, j) => i = j
<1>1. BlockCount[c] \in Nat \ {0} /\ BlockSize[c] \in Nat \ {0} /\ Base[c] \in Nat /\ j \in Nat \ {0}
  BY Tables, BaseDef
<1>2. BlockAt(c, j) \in Blocks(c)
  BY DEF Blocks
<1>3. ASSUME NEW i \in 1..BlockCount[c], NEW k \in 1..BlockCount[c], i < k
      PROVE  BlockAt(c, i) < BlockAt(c, k)
  <2>1. i - 1 \in Nat /\ k - 1 \in Nat /\ i - 1 < k - 1
    BY <1>1, <1>3
  <2>2. /\ (i - 1) * BlockSize[c] \in Nat /\ (k - 1) * BlockSize[c] \in Nat
        /\ (i - 1) * BlockSize[c] + BlockSize[c] <= (k - 1) * BlockSize[c]
    BY <1>1, <2>1, BlocksInARow
  <2> DEFINE x == (i - 1) * BlockSize[c]
             y == (k - 1) * BlockSize[c]
  <2>3. /\ x \in Nat /\ y \in Nat /\ x + BlockSize[c] <= y
        /\ BlockAt(c, i) = Base[c] + x /\ BlockAt(c, k) = Base[c] + y
    BY <2>2 DEF BlockAt
  <2> HIDE DEF x, y
  <2> QED
    BY <2>3, <1>1
<1>4. \A i \in 1..BlockCount[c] : BlockAt(c, i) \in Nat
  BY BlocksAreNumbers DEF Blocks
<1>5. \A i \in 1..BlockCount[c] : BlockAt(c, i) = BlockAt(c, j) => i = j
  <2> TAKE i \in 1..BlockCount[c]
  <2>1. i < j \/ j < i \/ i = j
    BY <1>1
  <2>2. i < j => BlockAt(c, i) < BlockAt(c, j)
    BY <1>3
  <2>3. j < i => BlockAt(c, j) < BlockAt(c, i)
    BY <1>3
  <2>4. BlockAt(c, i) \in Nat /\ BlockAt(c, j) \in Nat
    BY <1>4
  <2> QED
    BY <2>1, <2>2, <2>3, <2>4
<1>6. BlockAt(c, 1) = Base[c] /\ 1 \in 1..BlockCount[c]
  <2>1. (1 - 1) * BlockSize[c] = 0
    BY <1>1
  <2> QED
    BY <1>1, <2>1 DEF BlockAt
<1>7. BlockAt(c, j) = Base[c] <=> j = 1
  BY <1>5, <1>6
<1>8. j # 1 => j - 1 \in 1..BlockCount[c] /\ BlockAt(c, j) - BlockSize[c] = BlockAt(c, j - 1)
  <2> SUFFICES ASSUME j # 1
               PROVE  j - 1 \in 1..BlockCount[c] /\ BlockAt(c, j) - BlockSize[c] = BlockAt(c, j - 1)
    OBVIOUS
  <2>1. j - 1 \in 1..BlockCount[c]
    BY <1>1
  <2>2. (j - 1) * BlockSize[c] = ((j - 1) - 1) * BlockSize[c] + BlockSize[c]
        /\ ((j - 1) - 1) * BlockSize[c] \in Int
    BY <1>1
  <2> DEFINE x == (j - 1) * BlockSize[c]
             y == ((j - 1) - 1) * BlockSize[c]
  <2>3. x = y + BlockSize[c] /\ y \in Int /\ BlockAt(c, j) = Base[c] + x
        /\ BlockAt(c, j - 1) = Base[c] + y
    BY <2>2 DEF BlockAt
  <2> HIDE DEF x, y
  <2> QED
    BY <1>1, <2>1, <2>3
<1> QED
  BY <1>2, <1>5, <1>7, <1>8

\* A fresh list has the blocks of its class, the last one first.
LEMMA FreshList ==
    ASSUME header' = FreshHeader, free_count' = BlockCount, lock' = Nil, Used' = {},
           NEW c \in Classes, free_list'[c] = BlockAt(c, BlockCount[c])
    PROVE  ListOK(c)'
<1>1. PICK n : n = BlockCount[c]
  OBVIOUS
<1>2. n \in Nat \ {0} /\ n \in 0..BlockCount[c] /\ 1 \in 1..n /\ n \in 1..BlockCount[c]
  BY <1>1, Tables
<1> DEFINE L == [i \in 1..n |-> BlockAt(c, n - i + 1)]
<1>3. \A i \in 1..n : /\ n - i + 1 \in 1..n /\ i \in Nat
                      /\ (n - i + 1 = 1 <=> i = n)
                      /\ i # n => i + 1 \in 1..n /\ n - (i + 1) + 1 = (n - i + 1) - 1
                      /\ n - (n - i + 1) + 1 = i
  BY <1>2
<1>4. L \in [1..n -> Blocks(c)]
  <2>1. \A j \in 1..n : BlockAt(c, j) \in Blocks(c)
    BY <1>1, BlockAtSteps
  <2> QED
    BY <1>3, <2>1
<1>5. \A i \in 1..n : L[i] = BlockAt(c, n - i + 1)
  OBVIOUS
<1> HIDE DEF L
<1>6. \A i, j \in 1..n : L[i] = L[j] => i = j
  <2> TAKE i, j \in 1..n
  <2>1. L[i] = L[j] => n - i + 1 = n - j + 1
    BY <1>1, <1>3, <1>5, BlockAtSteps
  <2>2. i \in Nat /\ j \in Nat /\ n \in Nat
    BY <1>2, <1>3
  <2> QED
    BY <2>1, <2>2
<1>7. free_list'[c] = IF n = 0 THEN Nil ELSE L[1]
  <2>1. n - 1 + 1 = n /\ n # 0
    BY <1>2
  <2> QED
    BY <1>1, <1>2, <1>5, <2>1
<1>8. \A i \in 1..n : header'[L[i]].next = IF i = n THEN Nil ELSE L[i + 1]
  <2> TAKE i \in 1..n
  <2> PICK j : j = n - i + 1
    OBVIOUS
  <2>1. j \in 1..BlockCount[c] /\ L[i] = BlockAt(c, j) /\ (j = 1 <=> i = n)
    BY <1>1, <1>3, <1>5
  <2>2. header'[L[i]].next = IF L[i] = Base[c] THEN Nil ELSE L[i] - BlockSize[c]
    <3>1. L[i] \in Blocks(c)
      BY <1>4
    <3>2. header'[L[i]] = [class |-> c,
                           next  |-> IF L[i] = Base[c] THEN Nil ELSE L[i] - BlockSize[c]]
      BY <3>1, FreshBlocks
    <3> QED
      BY <3>2
  <2>3. L[i] = Base[c] <=> i = n
    BY <2>1, BlockAtSteps
  <2>4. i # n => L[i] - BlockSize[c] = L[i + 1]
    <3> SUFFICES ASSUME i # n
                 PROVE  L[i] - BlockSize[c] = L[i + 1]
      OBVIOUS
    <3>1. L[i] - BlockSize[c] = BlockAt(c, j - 1)
      BY <2>1, BlockAtSteps
    <3>2. L[i + 1] = BlockAt(c, n - (i + 1) + 1)
      BY <1>3, <1>5
    <3> QED
      BY <1>3, <3>1, <3>2
  <2> QED
    BY <2>2, <2>3, <2>4
<1>9. {L[i] : i \in 1..n} = Blocks(c) \ Used'
  <2>1. ASSUME NEW b \in Blocks(c)
        PROVE  \E i \in 1..n : L[i] = b
    <3>1. PICK j \in 1..n : b = BlockAt(c, j)
      BY <1>1 DEF Blocks
    <3>2. n - j + 1 \in 1..n /\ n - (n - j + 1) + 1 = j
      BY <1>3
    <3> QED
      BY <1>5, <3>1, <3>2
  <2> QED
    BY <1>4, <2>1
<1>10. free_count'[c] = n + Pending(c)'
  <2>1. Pending(c)' = 0
    BY DEF Pending
  <2> QED
    BY <1>1, <1>2, <2>1
<1>11. IsList(c, n, L)'
  BY <1>6, <1>7, <1>8 DEF IsList
<1> QED
  BY <1>2, <1>4, <1>9, <1>10, <1>11 DEF ListOK

\* eg_mempool_create establishes the invariant of a created pool.
LEMMA CreateStep ==
    ASSUME IInv, NEW buffer \in Buffers, Create(buffer)
    PROVE  IInv'
<1>0. /\ NotCreated /\ LockOK /\ LocalsOK
      /\ pool_size' = buffer.size /\ from' = buffer.from /\ current_usage' = 0
      /\ UNCHANGED <<lock, pc, locals, checker, held>>
      /\ initialized' = HoldsClasses(buffer)
  BY DEF IInv, Create
<1>1. /\ buffer.size \in Nat /\ buffer.from \in {"mmap", "caller"} /\ 2 * buffer.size < Word
      /\ Word \in Nat \ {0}
  BY WordAssumption
<1>2. lock' = Nil /\ held' = {} /\ \A t \in Thread : pc'[t] = "idle"
  BY <1>0 DEF NotCreated
<1>3. Used' = {} /\ OwnersOK' /\ LargeApart'
  BY <1>2, NobodyInside
<1>4. LockOK'
  BY <1>0 DEF LockOK
<1>5. LocalsOK'
  BY <1>0, <1>2 DEF LocalsOK, locals, checker
<1>6. from' \in {"mmap", "caller"} /\ current_usage' \in 0..(Word - 1) /\ initialized' \in BOOLEAN
  <2>1. initialized' \in BOOLEAN
    BY <1>0 DEF HoldsClasses
  <2> QED
    BY <1>0, <1>1, <2>1
<1>7. CASE ~HoldsClasses(buffer)
  <2>1. UNCHANGED <<header, free_list, free_count>> /\ ~initialized'
    BY <1>0, <1>7 DEF Create
  <2>2. NotCreated'
    BY <1>0, <1>1, <1>2, <2>1 DEF NotCreated
  <2> QED
    BY <1>3, <1>4, <1>5, <1>6, <2>1, <2>2 DEF IInv
<1>8. CASE HoldsClasses(buffer)
  <2>1. /\ initialized' /\ header' = FreshHeader
        /\ free_list' = [c \in Classes |-> BlockAt(c, BlockCount[c])]
        /\ free_count' = BlockCount
    BY <1>0, <1>8 DEF Create
  <2>2. DOMAIN free_count' = Classes
    BY <2>1, TablesAssumption DEF Classes
  <2>3. ListsOK'
    <3>1. ASSUME NEW c \in Classes
          PROVE  ListOK(c)'
      BY <1>2, <1>3, <2>1, FreshList
    <3> QED
      BY <3>1 DEF ListsOK
  <2>4. Created'
    <3>1. \E b \in Buffers : pool_size' = b.size /\ HoldsClasses(b)
      BY <1>0, <1>8
    <3>2. DOMAIN header' = Small
      BY <2>1, FreshBlocks
    <3>3. \A c \in Classes : \A b \in Blocks(c) :
              header'[b].class = c /\ header'[b] = [class |-> header'[b].class, next |-> header'[b].next]
      <4> TAKE c \in Classes
      <4> TAKE b \in Blocks(c)
      <4>1. header'[b] = [class |-> c, next |-> IF b = Base[c] THEN Nil ELSE b - BlockSize[c]]
        BY <2>1, FreshBlocks
      <4> QED
        BY <4>1
    <3>4. \A b \in DOMAIN header' : header'[b] = [class |-> header'[b].class, next |-> header'[b].next]
      BY <3>2, <3>3 DEF Small
    <3> QED
      BY <2>3, <3>1, <3>2, <3>3, <3>4 DEF Created
  <2>5. free_list' \in [Classes -> 0..(Word - 1) \cup {Nil}]
    <3>1. ASSUME NEW c \in Classes
          PROVE  BlockAt(c, BlockCount[c]) \in 0..(Word - 1)
      <4>1. BlockCount[c] \in 1..BlockCount[c]
        BY Tables
      <4>2. BlockAt(c, BlockCount[c]) \in Blocks(c)
        BY <4>1, BlockAtSteps
      <4> PICK b : b = BlockAt(c, BlockCount[c])
        OBVIOUS
      <4>3. /\ b \in Nat /\ b + BlockSize[c] <= Base[c + 1] /\ Base[c + 1] <= buddy_start
            /\ Base[c + 1] \in Nat /\ BlockSize[c] \in Nat /\ buddy_start \in Nat
        BY <4>2, BlockInClass, Tables, BaseDef
      <4>4. buddy_start <= buffer.size
        BY <1>8 DEF HoldsClasses
      <4>5. b \in 0..(Word - 1)
        BY <1>1, <4>3, <4>4
      <4> QED
        BY <4>5
    <3> QED
      BY <2>1, <3>1
  <2> QED
    BY <1>3, <1>4, <1>5, <1>6, <2>1, <2>2, <2>4, <2>5 DEF IInv
<1> QED
  BY <1>7, <1>8

\* eg_mempool_destroy leaves the pool as it was before create.
LEMMA DestroyStep ==
    ASSUME IInv, Destroy
    PROVE  IInv'
<1>0. /\ initialized /\ ~initialized' /\ held' = {}
      /\ \A t \in Thread : pc[t] = "idle"
      /\ pool_size' = 0 /\ current_usage' = 0 /\ header' = [b \in {} |-> Nil]
      /\ free_list' = [c \in Classes |-> Nil] /\ free_count' = [c \in Classes |-> 0]
      /\ UNCHANGED <<from, lock, pc, locals, checker>>
      /\ LockOK /\ LocalsOK /\ initialized' = FALSE
  BY DEF IInv, Destroy, Clear
<1>1. lock' = Nil /\ \A t \in Thread : pc'[t] = "idle"
  BY <1>0 DEF LockOK
<1>2. Used' = {} /\ OwnersOK' /\ LargeApart'
  BY <1>0, <1>1, NobodyInside
<1>3. LockOK' /\ LocalsOK'
  BY <1>0, <1>1 DEF LockOK, LocalsOK, locals, checker
<1>4. NotCreated'
  <2>1. DOMAIN header' = {}
    BY <1>0
  <2> QED
    BY <1>0, <1>1, <2>1 DEF NotCreated
<1>5. free_list' \in [Classes -> 0..(Word - 1) \cup {Nil}] /\ DOMAIN free_count' = Classes
  BY <1>0
<1>6. current_usage' \in 0..(Word - 1) /\ from' \in {"mmap", "caller"}
  BY <1>0, WordAssumption DEF IInv
<1> QED
  BY <1>0, <1>2, <1>3, <1>4, <1>5, <1>6 DEF IInv

-----------------------------------------------------------------------------
(* The invariant *)

\* IInv holds initially.
LEMMA IInvInit ==
    ASSUME Init
    PROVE  IInv
<1>0. /\ initialized = FALSE /\ pool_size = 0 /\ from = "mmap" /\ header = [b \in {} |-> Nil]
      /\ free_list = [c \in Classes |-> Nil] /\ free_count = [c \in Classes |-> 0]
      /\ current_usage = 0 /\ lock = Nil /\ held = {}
      /\ pc = [t \in Thread |-> "idle"]
      /\ size = [t \in Thread |-> 0] /\ block = [t \in Thread |-> Nil]
      /\ old = [t \in Thread |-> Nil]
      /\ cls = [t \in Thread |-> 1] /\ verdict = [t \in Thread |-> "none"]
  BY DEF Init
<1>1. Owned = {} /\ Passing = {} /\ Holding = {}
  BY <1>0 DEF Owned, Passing, Holding
<1>2. OwnersOK /\ LargeApart
  <2>1. Used = {}
    BY <1>1 DEF Used
  <2> QED
    BY <1>0, <1>1, <2>1 DEF OwnersOK, LargeApart
<1>3. LockOK
  BY <1>0, NilAssumption DEF LockOK
<1>4. LocalsOK
  <2>1. 1 \in Classes
    BY Tables
  <2> QED
    BY <1>0, <2>1 DEF LocalsOK
<1>5. NotCreated
  <2>1. DOMAIN header = {}
    BY <1>0
  <2> QED
    BY <1>0, <2>1 DEF NotCreated
<1>6. /\ free_list \in [Classes -> 0..(Word - 1) \cup {Nil}] /\ DOMAIN free_count = Classes
      /\ current_usage \in 0..(Word - 1)
  BY <1>0, WordAssumption
<1> QED
  BY <1>0, <1>2, <1>3, <1>4, <1>5, <1>6 DEF IInv

\* IInv survives a step that changes nothing.
LEMMA IInvStutter ==
    ASSUME IInv, UNCHANGED vars
    PROVE  IInv'
<1> USE DEF vars, create, lists, locals, checker
<1>1. Owned' = Owned /\ Passing' = Passing /\ Holding' = Holding
  BY DEF Owned, Passing, Holding
<1>2. Used' = Used
  BY <1>1 DEF Used
<1>3. LockOK' /\ LocalsOK'
  BY DEF IInv, LockOK, LocalsOK, Fits
<1>4. OwnersOK' /\ LargeApart'
  <2>1. \A h : IsOwner(h)' <=> IsOwner(h)
    BY DEF IsOwner, Fits
  <2> QED
    BY <1>1, <1>2, <2>1 DEF IInv, OwnersOK, LargeApart
<1>5. initialized => Created'
  <2> SUFFICES ASSUME initialized
               PROVE  Created'
    OBVIOUS
  <2>1. ListsOK'
    <3>1. \A c \in Classes : Pending(c)' = Pending(c)
      BY DEF Pending
    <3>2. \A c \in Classes : free_count'[c] \in Int
      BY CountsAreNumbers DEF IInv, Created
    <3> QED
      BY <1>2, <3>1, <3>2, ListsKept DEF IInv, Created
  <2> QED
    BY <2>1, CreatedKept DEF IInv
<1>6. ~initialized => NotCreated'
  BY DEF IInv, NotCreated
<1> QED
  BY <1>3, <1>4, <1>5, <1>6 DEF IInv

\* Every step of every thread keeps IInv while current_usage is ahead.
LEMMA IInvNext ==
    ASSUME IInv, CursorAhead, RequestsBelowWord, [Next]_vars
    PROVE  IInv'
<1>1. CASE UNCHANGED vars
  BY <1>1, IInvStutter
<1>2. ASSUME NEW buffer \in Buffers, Create(buffer)
      PROVE  IInv'
  BY <1>2, CreateStep
<1>3. CASE Destroy
  BY <1>3, DestroyStep
<1>4. ASSUME NEW t \in Thread, NEW n \in Sizes, Alloc(t, n)
      PROVE  IInv'
  BY <1>4, AllocStep
<1>5. ASSUME NEW t \in Thread, NEW n \in Sizes, NEW h \in held, Realloc(t, h, n)
      PROVE  IInv'
  BY <1>5, ReallocStep
<1>6. ASSUME NEW t \in Thread, NEW count \in Sizes, NEW n \in Sizes, Calloc(t, count, n)
      PROVE  IInv'
  BY <1>6, AllocStep DEF Calloc
<1>7. ASSUME NEW t \in Thread, NEW n \in Sizes, NEW alignment \in Alignment,
             AlignedAlloc(t, n, alignment)
      PROVE  IInv'
  BY <1>7, AllocStep DEF AlignedAlloc
<1>8. ASSUME NEW t \in Thread, NEW h \in held, Free(t, h)
      PROVE  IInv'
  BY <1>8, FreeStep
<1>9. ASSUME NEW t \in Thread, AllocTake(t)
      PROVE  IInv'
  <2>1. /\ pc[t] = "take" /\ pc' = [pc EXCEPT ![t] = "count"]
        /\ UNCHANGED <<create, free_count, lock, size, old, checker, held>>
    BY <1>9 DEF AllocTake
  <2>2. ASSUME NEW c \in Classes, c = SizeClass(size[t]), TakeSmall(t, c)
        PROVE  IInv'
    BY <2>1, <2>2, TakeSmallStep
  <2>3. CASE SizeClass(size[t]) = Large /\ TakeLarge(t)
    BY <2>1, <2>3, TakeLargeStep
  <2> QED
    BY <1>9, <2>2, <2>3 DEF AllocTake
<1>10. ASSUME NEW t \in Thread, AllocReturn(t) \/ ReallocFree(t) \/ FreePush(t) \/ FreeReturn(t)
       PROVE  IInv'
  BY <1>10, AllocReturnStep, ReallocFreeStep, FreePushStep, FreeReturnStep
<1>11. ASSUME NEW t \in Thread, Check(t) \/ CheckHead(t) \/ CheckWalk(t) \/ CheckCompare(t)
       PROVE  IInv'
  BY <1>11, CheckSteps
<1> QED
  BY <1>1, <1>2, <1>3, <1>4, <1>5, <1>6, <1>7, <1>8, <1>9, <1>10, <1>11 DEF Next

-----------------------------------------------------------------------------
(* No block is lost *)

\* Only the thread with the lock has changed a list without changing its counter.
LEMMA UncountedIs ==
    ASSUME IInv, NEW c \in Classes
    PROVE  Uncounted(c) = Pending(c)
<1> DEFINE at(where) == {t \in Thread : /\ pc[t] = where /\ block[t] # Nil
                                        /\ header[block[t]].class = c}
<1>1. \A t \in Thread : pc[t] \in {"count", "uncount"} => t = lock
  BY DEF IInv, LockOK
<1>2. lock # Nil => lock \in Thread
  BY DEF IInv, LockOK
<1>3. \A t \in Thread : t # Nil
  BY NilAssumption
<1> DEFINE here(where) == lock # Nil /\ pc[lock] = where /\ block[lock] # Nil
                          /\ header[block[lock]].class = c
<1>4. ASSUME NEW where \in {"count", "uncount"}
      PROVE  Cardinality(at(where)) = IF here(where) THEN 1 ELSE 0
  <2>1. CASE here(where)
    <3>1. at(where) = {lock}
      BY <1>1, <1>2, <2>1
    <3> HIDE DEF at
    <3> QED
      BY <2>1, <3>1, FS_Singleton
  <2>2. CASE ~here(where)
    <3>1. at(where) = {}
      BY <1>1, <1>3, <2>2
    <3> HIDE DEF at, here
    <3> QED
      BY <2>2, <3>1, FS_EmptySet
  <2> QED
    BY <2>1, <2>2
<1>5. Uncounted(c) = Cardinality(at("count")) - Cardinality(at("uncount"))
  BY DEF Uncounted
<1>6. /\ Cardinality(at("count")) = IF here("count") THEN 1 ELSE 0
      /\ Cardinality(at("uncount")) = IF here("uncount") THEN 1 ELSE 0
  BY <1>4
<1> HIDE DEF at
<1> QED
  BY <1>5, <1>6 DEF Pending

\* What the invariant says of a list, in the terms of the properties.
LEMMA ListFacts ==
    ASSUME IInv, NEW c \in Classes
    PROVE  /\ Link(c)[BlockCount[c]] = Nil
           /\ FreeBlocks(c) = IF initialized THEN Blocks(c) \ Used ELSE {}
           /\ IsFiniteSet(FreeBlocks(c)) /\ Cardinality(FreeBlocks(c)) \in 0..BlockCount[c]
           /\ free_count[c] = Cardinality(FreeBlocks(c)) + Pending(c)
           /\ \A k \in 0..Cardinality(FreeBlocks(c)) :
                  Link(c)[k] = Nil <=> k = Cardinality(FreeBlocks(c))
           /\ \A k \in 0..Cardinality(FreeBlocks(c)) :
                  k # Cardinality(FreeBlocks(c)) =>
                      header[Link(c)[k]].next = Link(c)[k + 1]
           /\ Link(c)[0] = free_list[c]
<1>1. PICK n \in 0..BlockCount[c] : \E L \in [1..n -> Blocks(c)] :
               /\ IsList(c, n, L)
               /\ {L[i] : i \in 1..n} = IF initialized THEN Blocks(c) \ Used ELSE {}
               /\ free_count[c] = n + Pending(c)
  <2>1. CASE initialized
    BY <2>1 DEF IInv, Created, ListsOK, ListOK
  <2>2. CASE ~initialized
    <3>1. free_list[c] = Nil /\ free_count[c] = 0 /\ Pending(c) = 0
      BY <2>2 DEF IInv, NotCreated, Pending
    <3> DEFINE L == [i \in 1..0 |-> 0]
    <3>2. 1..0 = {} /\ 0 \in 0..BlockCount[c]
      BY Tables
    <3>3. L \in [1..0 -> Blocks(c)] /\ {L[i] : i \in 1..0} = {}
      BY <3>2
    <3>4. IsList(c, 0, L)
      BY <3>1, <3>2 DEF IsList
    <3>5. free_count[c] = 0 + Pending(c)
      BY <3>1
    <3> HIDE DEF L
    <3> QED
      BY <2>2, <3>2, <3>3, <3>4, <3>5
  <2> QED
    BY <2>1, <2>2
<1>2. PICK L \in [1..n -> Blocks(c)] :
               /\ IsList(c, n, L)
               /\ {L[i] : i \in 1..n} = IF initialized THEN Blocks(c) \ Used ELSE {}
               /\ free_count[c] = n + Pending(c)
  BY <1>1
<1>3. /\ Link(c)[BlockCount[c]] = Nil
      /\ FreeBlocks(c) = {L[i] : i \in 1..n}
      /\ IsFiniteSet(FreeBlocks(c)) /\ Cardinality(FreeBlocks(c)) = n
      /\ \A k \in 0..n : Link(c)[k] = IF k < n THEN L[k + 1] ELSE Nil
  <2>1. IsList(c, n, L)
    BY <1>2
  <2> QED
    BY <2>1, FreeOfList
<1>4. n \in Nat
  BY Tables
<1>5. \A k \in 0..n : (k < n <=> k # n) /\ (k # n => k + 1 \in 1..n /\ k + 1 \in 0..n)
  BY <1>4
<1>6. \A i \in 1..n : L[i] # Nil
  BY BlocksAreNumbers
<1>7. \A k \in 0..n : Link(c)[k] = Nil <=> k = n
  BY <1>3, <1>5, <1>6
<1>8. \A k \in 0..n : k # n => header[Link(c)[k]].next = Link(c)[k + 1]
  <2> TAKE k \in 0..n
  <2> SUFFICES ASSUME k # n
               PROVE  header[Link(c)[k]].next = Link(c)[k + 1]
    OBVIOUS
  <2>1. header[L[k + 1]].next = IF k + 1 = n THEN Nil ELSE L[(k + 1) + 1]
    BY <1>2, <1>5 DEF IsList
  <2>2. Link(c)[k] = L[k + 1]
    BY <1>3, <1>5
  <2>3. Link(c)[k + 1] = IF k + 1 < n THEN L[(k + 1) + 1] ELSE Nil
    BY <1>3, <1>5
  <2>4. k + 1 < n <=> k + 1 # n
    BY <1>5
  <2> QED
    BY <2>1, <2>2, <2>3, <2>4
<1>9. Link(c)[0] = free_list[c]
  <2>1. 0 \in 0..n /\ (0 < n <=> n # 0) /\ 0 + 1 = 1
    BY <1>4
  <2>2. free_list[c] = IF n = 0 THEN Nil ELSE L[1]
    BY <1>2 DEF IsList
  <2> QED
    BY <1>3, <2>1, <2>2
<1> QED
  BY <1>2, <1>3, <1>7, <1>8, <1>9

\* BlocksConserved follows from the invariant.
LEMMA BlocksConservedHolds ==
    ASSUME IInv
    PROVE  BlocksConserved
<1> SUFFICES ASSUME initialized, NEW c \in Classes
             PROVE  LET used == {b \in Blocks(c) : b \in Passing \/ \E h \in Owned : h.block = b}
                    IN  /\ Link(c)[BlockCount[c]] = Nil
                        /\ FreeBlocks(c) = Blocks(c) \ used
                        /\ free_count[c] = Cardinality(FreeBlocks(c)) + Uncounted(c)
  BY DEF BlocksConserved
<1>1. Blocks(c) \ Used = Blocks(c) \ {b \in Blocks(c) : b \in Passing \/ \E h \in Owned : h.block = b}
  BY DEF Used
<1>2. /\ Link(c)[BlockCount[c]] = Nil /\ FreeBlocks(c) = Blocks(c) \ Used
      /\ free_count[c] = Cardinality(FreeBlocks(c)) + Pending(c)
  BY ListFacts
<1> QED
  BY <1>1, <1>2, UncountedIs

-----------------------------------------------------------------------------
(* A check that has the pool to itself *)

\* A list is the same while the headers and its head are.
LEMMA SameLinks ==
    ASSUME UNCHANGED <<header, free_list>>, NEW c
    PROVE  Link(c)' = Link(c) /\ FreeBlocks(c)' = FreeBlocks(c)
<1>1. Link(c)' = Link(c)
  BY DEF Link
<1> QED
  BY <1>1 DEF FreeBlocks

\* Whatever the other threads do, a check that is alone with the pool is on its way
\* through a sound list.
LEMMA CheckInvNext ==
    ASSUME IInv, CheckInv, CheckedNext
    PROVE  CheckInv'
<1>0. /\ alone \subseteq Thread /\ (lock # Nil => alone = {}) /\ LockOK
      /\ alone' = IF lock' # Nil THEN {}
                  ELSE alone \cup {t \in Thread : pc[t] = "idle" /\ pc'[t] = "head"}
      /\ pc \in [Thread -> {"idle", "take", "count", "refree", "push", "uncount",
                            "head", "walk"}]
      /\ cls \in [Thread -> Classes] /\ size \in [Thread -> Nat]
      /\ verdict \in [Thread -> {"none", "ok", "mismatch", "overflow"}]
      /\ DOMAIN block = Thread
  BY DEF IInv, CheckInv, CheckedNext, LocalsOK
<1>1. ASSUME alone' = {}
      PROVE  CheckInv'
  BY <1>1 DEF CheckInv
<1>2. CASE lock' # Nil
  BY <1>0, <1>1, <1>2
<1>3. ASSUME lock' = Nil, \A t \in Thread : pc'[t] = "idle", verdict' = verdict
      PROVE  CheckInv'
  <2>1. alone' = alone
    BY <1>0, <1>3
  <2> QED
    BY <1>0, <1>3, <2>1 DEF CheckInv
<1>4. ASSUME NEW buffer \in Buffers, Create(buffer), lock' = Nil
      PROVE  CheckInv'
  <2>1. (\A t \in Thread : pc'[t] = "idle") /\ verdict' = verdict
    BY <1>4 DEF IInv, NotCreated, Create, checker
  <2> QED
    BY <1>3, <1>4, <2>1
<1>5. CASE Destroy /\ lock' = Nil
  BY <1>3, <1>5 DEF Destroy, checker
<1>6. ASSUME NEW t \in Thread, AllocReturn(t) \/ FreeReturn(t), lock' = Nil
      PROVE  CheckInv'
  <2>1. lock = t /\ t # Nil
    BY <1>0, <1>6, NilAssumption DEF AllocReturn, FreeReturn, LockOK
  <2>2. pc'[t] \in {"idle", "refree"} /\ \A u \in Thread \ {t} : pc'[u] = pc[u]
    BY <1>0, <1>6 DEF AllocReturn, FreeReturn, Return
  <2>3. alone' = {}
    <3>1. \A u \in Thread : ~(pc[u] = "idle" /\ pc'[u] = "head")
      BY <2>2
    <3> QED
      BY <1>0, <1>6, <2>1, <3>1
  <2> QED
    BY <1>1, <2>3
<1>7. ASSUME NEW t \in Thread, NEW n \in Sizes, NEW h \in held, Realloc(t, h, n), lock' = Nil
      PROVE  CheckInv'
  <2>1. UNCHANGED <<pc, size, block, cls, verdict, header, free_list>>
    BY <1>7, NilAssumption DEF Realloc, LOCK_ACQUIRE, lists, checker
  <2>2. alone' = alone
    BY <1>0, <1>7, <2>1
  <2>3. \A c : Link(c)' = Link(c) /\ FreeBlocks(c)' = FreeBlocks(c)
    BY <2>1, SameLinks
  <2> QED
    BY <1>0, <1>7, <2>1, <2>2, <2>3 DEF CheckInv
  \* A step of check that leaves its thread's part of CheckInv true.
<1>8. ASSUME NEW t \in Thread, lock' = Nil,
             Check(t) \/ CheckHead(t) \/ CheckWalk(t) \/ CheckCompare(t),
             t \in alone' =>
                 /\ pc'[t] \in {"idle", "head", "walk"}
                 /\ verdict'[t] \notin {"mismatch", "overflow"}
                 /\ pc'[t] = "walk" =>
                        /\ size'[t] \in 0..Cardinality(FreeBlocks(cls'[t]))
                        /\ block'[t] = Link(cls'[t])[size'[t]]
      PROVE  CheckInv'
  <2>1. /\ UNCHANGED <<header, free_list>>
        /\ \A u \in Thread \ {t} : /\ pc'[u] = pc[u] /\ verdict'[u] = verdict[u]
                                   /\ size'[u] = size[u] /\ block'[u] = block[u]
                                   /\ cls'[u] = cls[u]
    <3>1. CASE Check(t)
      BY <1>0, <3>1 DEF Check, lists, locals
    <3>2. CASE CheckHead(t)
      BY <1>0, <3>2 DEF CheckHead, lists, checker
    <3>3. CASE CheckWalk(t)
      BY <1>0, <3>3 DEF CheckWalk, lists
    <3>4. CASE CheckCompare(t)
      BY <1>0, <3>4 DEF CheckCompare, lists, locals
    <3> QED
      BY <1>8, <3>1, <3>2, <3>3, <3>4
  <2>2. \A c : Link(c)' = Link(c) /\ FreeBlocks(c)' = FreeBlocks(c)
    BY <2>1, SameLinks
  <2>3. \A u \in alone' \ {t} : u \in alone /\ u \in Thread \ {t}
    BY <1>0, <2>1
  <2>4. alone' \subseteq Thread
    BY <1>0
  <2>5. ASSUME NEW u \in alone'
        PROVE  (/\ pc[u] \in {"idle", "head", "walk"}
                /\ verdict[u] \notin {"mismatch", "overflow"}
                /\ pc[u] = "walk" =>
                       /\ size[u] \in 0..Cardinality(FreeBlocks(cls[u]))
                       /\ block[u] = Link(cls[u])[size[u]])'
    <3>1. \A c : (Link(c) = Link(c)') /\ (FreeBlocks(c) = FreeBlocks(c)')
      BY <2>2
    <3>2. CASE u = t
      BY <1>8, <2>2, <3>2
    <3>3. CASE u # t
      <4>1. u \in alone /\ u \in Thread \ {t}
        BY <2>3, <3>3
      <4>2. /\ pc[u] \in {"idle", "head", "walk"}
            /\ verdict[u] \notin {"mismatch", "overflow"}
            /\ pc[u] = "walk" =>
                   /\ size[u] \in 0..Cardinality(FreeBlocks(cls[u]))
                   /\ block[u] = Link(cls[u])[size[u]]
        BY <4>1 DEF CheckInv
      <4> QED
        BY <2>1, <2>2, <4>1, <4>2
    <3> QED
      BY <3>2, <3>3
  <2> QED
    BY <1>8, <2>4, <2>5 DEF CheckInv
<1>9. ASSUME NEW t \in Thread, Check(t), lock' = Nil
      PROVE  CheckInv'
  <2>1. pc'[t] = "head" /\ verdict'[t] = "none"
    BY <1>0, <1>9 DEF Check
  <2> QED
    BY <1>8, <1>9, <2>1
<1>10. ASSUME NEW t \in Thread, CheckHead(t), lock' = Nil
       PROVE  CheckInv'
  <2>1. /\ pc[t] = "head" /\ pc'[t] = "walk" /\ size'[t] = 0
        /\ block'[t] = free_list[cls[t]] /\ cls' = cls /\ verdict' = verdict
    BY <1>0, <1>10 DEF CheckHead, checker
  <2>2. PICK c \in Classes : c = cls[t]
    BY <1>0
  <2>3. Link(c)[0] = free_list[c] /\ Cardinality(FreeBlocks(c)) \in 0..BlockCount[c]
    BY ListFacts
  <2>4. 0 \in 0..Cardinality(FreeBlocks(c))
    BY <2>3, Tables
  <2>5. t \in alone' => t \in alone
    BY <1>0, <2>1, <1>10
  <2>6. t \in alone => verdict[t] \notin {"mismatch", "overflow"}
    BY DEF CheckInv
  <2> QED
    BY <1>8, <1>10, <2>1, <2>2, <2>3, <2>4, <2>5, <2>6
<1>11. ASSUME NEW t \in Thread, CheckWalk(t), lock' = Nil
       PROVE  CheckInv'
  <2>1. pc[t] = "walk" /\ block[t] # Nil /\ size'[t] = size[t] + 1 /\ cls' = cls
    BY <1>0, <1>11 DEF CheckWalk
  <2>2. t \in alone' => t \in alone
    BY <1>0, <2>1, <1>11
  <2>3. CASE t \notin alone
    BY <1>8, <1>11, <2>2, <2>3
  <2>4. CASE t \in alone
    <3>1. PICK c \in Classes : c = cls[t]
      BY <1>0
    <3>2. PICK m \in 0..BlockCount[c] : m = Cardinality(FreeBlocks(c))
      BY ListFacts
    <3>3. PICK k \in 0..m : k = size[t]
      BY <2>1, <2>4, <3>1, <3>2 DEF CheckInv
    <3>4. block[t] = Link(c)[k] /\ verdict[t] \notin {"mismatch", "overflow"}
      BY <2>1, <2>4, <3>1, <3>3 DEF CheckInv
    <3>5. k # m /\ header[block[t]].next = Link(c)[k + 1]
      <4>1. /\ Link(c)[k] = Nil <=> k = m
            /\ k # m => header[Link(c)[k]].next = Link(c)[k + 1]
        BY <3>2, ListFacts
      <4> QED
        BY <2>1, <3>4, <4>1
    <3>6. k + 1 \in 0..m /\ ~(k + 1 > BlockCount[c])
      BY <3>5, Tables
    <3>7. /\ block' = [block EXCEPT ![t] = header[block[t]].next]
          /\ UNCHANGED <<pc, verdict>>
      BY <1>11, <2>1, <3>1, <3>3, <3>6 DEF CheckWalk
    <3>8. block'[t] = Link(c)[k + 1]
      BY <1>0, <3>5, <3>7
    <3> QED
      BY <1>8, <1>11, <2>1, <3>1, <3>2, <3>3, <3>4, <3>6, <3>7, <3>8
  <2> QED
    BY <2>3, <2>4
<1>12. ASSUME NEW t \in Thread, CheckCompare(t), lock' = Nil
       PROVE  CheckInv'
  <2>1. /\ pc[t] = "walk" /\ block[t] = Nil /\ lock = Nil
        /\ pc'[t] \in {"idle", "head"}
    BY <1>0, <1>12 DEF CheckCompare
  <2>2. t \in alone' => t \in alone
    BY <1>0, <2>1, <1>12
  <2>3. CASE t \notin alone
    BY <1>8, <1>12, <2>2, <2>3
  <2>4. CASE t \in alone
    <3>1. PICK c \in Classes : c = cls[t]
      BY <1>0
    <3>2. PICK m \in 0..BlockCount[c] : m = Cardinality(FreeBlocks(c))
      BY ListFacts
    <3>3. size[t] \in 0..m /\ block[t] = Link(c)[size[t]] /\ verdict[t] \notin {"mismatch", "overflow"}
      BY <2>1, <2>4, <3>1, <3>2 DEF CheckInv
    <3>4. size[t] = m
      BY <2>1, <3>2, <3>3, ListFacts
    <3>5. free_count[c] = m
      <4>1. Pending(c) = 0
        BY <2>1 DEF Pending
      <4>2. free_count[c] = m + 0 /\ m \in Nat
        BY <3>2, <4>1, ListFacts, Tables
      <4> QED
        BY <4>2
    <3>6. verdict'[t] \notin {"mismatch", "overflow"}
      BY <1>0, <1>12, <3>1, <3>3, <3>4, <3>5 DEF CheckCompare
    <3> QED
      BY <1>8, <1>12, <2>1, <3>6
  <2> QED
    BY <2>3, <2>4
<1>13. ASSUME NEW t \in Thread, lock' = Nil,
              \/ \E n \in Sizes : Alloc(t, n)
              \/ \E h \in held : Free(t, h)
              \/ \E count, n \in Sizes : Calloc(t, count, n)
              \/ \E n \in Sizes, alignment \in Alignment : AlignedAlloc(t, n, alignment)
              \/ ReallocFree(t)
       PROVE  FALSE
  <2>1. lock' = t
    BY <1>13 DEF Alloc, Free, Calloc, AlignedAlloc, ReallocFree, LOCK_ACQUIRE
  <2> QED
    BY <1>13, <2>1, NilAssumption
<1>14. ASSUME NEW t \in Thread, lock' = Nil, AllocTake(t) \/ FreePush(t)
       PROVE  FALSE
  <2>1. lock = t /\ lock' = lock
    BY <1>0, <1>14 DEF AllocTake, FreePush, LockOK
  <2> QED
    BY <1>14, <2>1, NilAssumption
<1>15. CASE lock' = Nil
  <2>1. Next
    BY DEF CheckedNext
  <2>2. CASE \E buffer \in Buffers : Create(buffer)
    BY <1>4, <1>15, <2>2
  <2>3. CASE Destroy
    BY <1>5, <1>15, <2>3
  <2>4. ASSUME NEW t \in Thread, \E n \in Sizes, h \in held : Realloc(t, h, n)
        PROVE  CheckInv'
    BY <1>7, <1>15, <2>4
  <2>5. ASSUME NEW t \in Thread,
               \/ AllocReturn(t) \/ FreeReturn(t)
               \/ Check(t) \/ CheckHead(t) \/ CheckWalk(t) \/ CheckCompare(t)
        PROVE  CheckInv'
    BY <1>6, <1>9, <1>10, <1>11, <1>12, <1>15, <2>5
  <2>6. ASSUME NEW t \in Thread, AllocTake(t) \/ FreePush(t)
        PROVE  CheckInv'
    BY <1>14, <1>15, <2>6
  <2>7. ASSUME NEW t \in Thread,
               \/ \E n \in Sizes : Alloc(t, n)
               \/ \E h \in held : Free(t, h)
               \/ \E count, n \in Sizes : Calloc(t, count, n)
               \/ \E n \in Sizes, alignment \in Alignment : AlignedAlloc(t, n, alignment)
               \/ ReallocFree(t)
        PROVE  CheckInv'
    BY <1>13, <1>15, <2>7
  <2> QED
    BY <2>1, <2>2, <2>3, <2>4, <2>5, <2>6, <2>7 DEF Next
<1> QED
  BY <1>2, <1>15

-----------------------------------------------------------------------------
(* No two blocks in use share a byte *)

\* A header fits into every block, as it does in the tables of the code.
HeaderFits == \A c \in Classes : Header <= BlockSize[c]

\* The bytes of block b, its header included.
Room(b)  == IF header[b].class = Large THEN header[b].next ELSE BlockSize[header[b].class]
Bytes(b) == b..(b + Room(b) - 1)

\* A block has room and lies in the pool.
LEMMA BlockInPool ==
    ASSUME Created, NEW b \in DOMAIN header
    PROVE  /\ b \in Nat /\ Room(b) \in Nat \ {0} /\ b + Room(b) <= pool_size
           /\ header[b].class # Large =>
                  /\ header[b].class \in Classes /\ b \in Blocks(header[b].class)
                  /\ Room(b) = BlockSize[header[b].class] /\ b + Room(b) <= buddy_start
           /\ header[b].class = Large => buddy_start <= b
<1>0. IF header[b].class \in Classes THEN b \in Blocks(header[b].class)
      ELSE header[b].class = Large /\ b \notin Small
  BY BlockOfClass
<1>1. Large \notin Classes
  BY Tables
<1>2. pool_size \in Nat /\ buddy_start \in Nat /\ buddy_start <= pool_size
  BY PoolBelowWord
<1>3. CASE header[b].class \in Classes
  <2> PICK c \in Classes : c = header[b].class
    BY <1>3
  <2>1. b \in Blocks(c) /\ Room(b) = BlockSize[c]
    BY <1>0, <1>1 DEF Room
  <2>2. /\ b \in Nat /\ Base[c + 1] \in Nat /\ b + BlockSize[c] <= Base[c + 1]
        /\ Base[c + 1] <= buddy_start /\ BlockSize[c] \in Nat \ {0}
    BY <2>1, BlockInClass, Tables
  <2>3. b + BlockSize[c] <= buddy_start /\ b + BlockSize[c] <= pool_size
    BY <1>2, <2>2
  <2> QED
    BY <1>1, <2>1, <2>2, <2>3
<1>4. CASE header[b].class = Large /\ b \notin Small
  BY <1>4 DEF Created, Room
<1> QED
  BY <1>0, <1>3, <1>4

\* Two blocks that are not both large share no byte.
LEMMA BytesApart ==
    ASSUME Created, NEW a \in DOMAIN header, NEW b \in DOMAIN header, a # b,
           header[a].class # Large
    PROVE  a + Room(a) <= b \/ b + Room(b) <= a
<1> PICK c : c = header[a].class
  OBVIOUS
<1>1. /\ c \in Classes /\ a \in Blocks(c) /\ Room(a) = BlockSize[c]
      /\ a \in Nat /\ Room(a) \in Nat \ {0} /\ a + Room(a) <= buddy_start
  BY BlockInPool
<1>2. CASE header[b].class = Large
  <2>1. b \in Nat /\ buddy_start <= b /\ buddy_start \in Nat
    BY <1>2, BlockInPool, BaseDef
  <2> QED
    BY <1>1, <2>1
<1>3. CASE header[b].class # Large
  <2> PICK d : d = header[b].class
    OBVIOUS
  <2>1. d \in Classes /\ b \in Blocks(d) /\ Room(b) = BlockSize[d]
    BY <1>3, BlockInPool
  <2>2. c \in Int /\ d \in Int
    BY <1>1, <2>1, Tables
  <2>3. CASE c = d
    BY <1>1, <2>1, <2>3, BlocksApart
  <2>4. CASE c < d
    BY <1>1, <2>1, <2>4, ClassesApart
  <2>5. CASE d < c
    BY <1>1, <2>1, <2>5, ClassesApart
  <2> QED
    BY <2>2, <2>3, <2>4, <2>5
<1> QED
  BY <1>2, <1>3

\* A block in use shares no byte with another one, nor with a free block.
LEMMA UsedApart ==
    ASSUME IInv, initialized, NEW a \in Used, NEW b \in DOMAIN header, a # b,
           b \in Used \/ header[b].class # Large
    PROVE  a + Room(a) <= b \/ b + Room(b) <= a
<1>1. Created /\ a \in DOMAIN header
  BY UsedHaveHeaders DEF IInv
<1>2. CASE header[a].class = Large /\ header[b].class = Large
  BY <1>2 DEF IInv, LargeApart, Room
<1>3. CASE header[a].class # Large
  BY <1>1, <1>3, BytesApart
<1>4. CASE header[b].class # Large
  BY <1>1, <1>4, BytesApart
<1> QED
  BY <1>2, <1>3, <1>4

\* A remainder is no more than the number.
LEMMA ModuloBelow ==
    ASSUME NEW a \in Nat, NEW m \in Nat \ {0}
    PROVE  a % m \in Nat /\ a % m <= a
<1>1. CASE a < m
  BY <1>1
<1>2. CASE ~(a < m)
  <2>1. a % m \in 0..(m - 1)
    OBVIOUS
  <2> QED
    BY <1>2, <2>1
<1> QED
  BY <1>1, <1>2

\* What is left of a block behind its header is what the code takes it to be, or less.
LEMMA UserSizeFits ==
    ASSUME HeaderFits, NEW c \in Classes
    PROVE  UserSize(c) \in Nat /\ UserSize(c) + Header <= BlockSize[c]
<1>1. BlockSize[c] - Header \in Nat /\ Word \in Nat \ {0} /\ Header \in Nat /\ BlockSize[c] \in Nat
  BY Tables, SizesAssumption, WordAssumption DEF HeaderFits
<1> PICK x : x = BlockSize[c] - Header
  OBVIOUS
<1>2. x % Word \in Nat /\ x % Word <= x /\ UserSize(c) = x % Word
  BY <1>1, ModuloBelow DEF UserSize
<1> QED
  BY <1>1, <1>2

\* A caller's memory ends where its block ends.
LEMMA OwnerInBlock ==
    ASSUME IInv, initialized, HeaderFits, NEW h \in Owned
    PROVE  /\ h.block \in Used /\ h.block \in DOMAIN header
           /\ h.block \in Nat /\ h.size \in Nat /\ Header \in Nat
           /\ Header + h.size <= Room(h.block)
           /\ Extent(h) \subseteq Bytes(h.block)
<1> PICK b : b = h.block
  OBVIOUS
<1> PICK n : n = h.size
  OBVIOUS
<1>1. /\ b \in Used /\ b \in DOMAIN header /\ n \in Nat /\ Fits(b, n) /\ Header \in Nat
      /\ Created
  BY SizesAssumption DEF IInv, OwnersOK, IsOwner, Used
<1>2. /\ b \in Nat /\ Room(b) \in Nat
      /\ header[b].class # Large => /\ header[b].class \in Classes
                                    /\ Room(b) = BlockSize[header[b].class]
  BY <1>1, BlockInPool
<1>3. Header + n <= Room(b)
  <2>1. CASE header[b].class = Large
    <3>1. n + Header <= header[b].next /\ Room(b) = header[b].next
      BY <1>1, <2>1 DEF Fits, Room
    <3> QED
      BY <1>1, <1>2, <3>1
  <2>2. CASE header[b].class # Large
    <3> PICK c \in Classes : c = header[b].class
      BY <1>2, <2>2
    <3>1. n <= UserSize(c) /\ Room(b) = BlockSize[c]
      BY <1>1, <1>2, <2>2 DEF Fits
    <3>2. UserSize(c) \in Nat /\ UserSize(c) + Header <= BlockSize[c]
      BY UserSizeFits
    <3> QED
      BY <1>1, <1>2, <3>1, <3>2
  <2> QED
    BY <2>1, <2>2
<1>4. b..(b + Header + n - 1) \subseteq b..(b + Room(b) - 1)
  BY <1>1, <1>2, <1>3
<1> QED
  BY <1>1, <1>2, <1>3, <1>4 DEF Extent, Bytes

\* Intervals that follow each other have nothing in common.
LEMMA IntervalsApart ==
    ASSUME NEW a \in Nat, NEW b \in Nat, NEW m \in Nat, NEW n \in Nat, a + m <= b \/ b + n <= a
    PROVE  (a..(a + m - 1)) \cap (b..(b + n - 1)) = {}
OBVIOUS

\* NoOverlap follows from the invariant.
LEMMA NoOverlapHolds ==
    ASSUME IInv, HeaderFits
    PROVE  NoOverlap
<1>1. CASE ~initialized
  <2>1. Owned = {}
    BY <1>1 DEF IInv, NotCreated, Owned
  <2> QED
    BY <2>1 DEF NoOverlap
<1>2. CASE initialized
  <2>0. Created
    BY <1>2 DEF IInv
  <2>1. ASSUME NEW h \in Owned, NEW g \in Owned, h # g
        PROVE  Extent(h) \cap Extent(g) = {}
    <3> PICK a : a = h.block
      OBVIOUS
    <3> PICK b : b = g.block
      OBVIOUS
    <3>1. /\ a \in Used /\ b \in Used /\ a \in DOMAIN header /\ b \in DOMAIN header
          /\ Extent(h) \subseteq Bytes(a) /\ Extent(g) \subseteq Bytes(b)
      BY <1>2, OwnerInBlock
    <3>2. a # b
      BY <2>1 DEF IInv, OwnersOK
    <3>3. a + Room(a) <= b \/ b + Room(b) <= a
      BY <1>2, <3>1, <3>2, UsedApart
    <3>4. a \in Nat /\ b \in Nat /\ Room(a) \in Nat /\ Room(b) \in Nat
      BY <2>0, <3>1, BlockInPool
    <3>5. Bytes(a) \cap Bytes(b) = {}
      BY <3>3, <3>4, IntervalsApart DEF Bytes
    <3> QED
      BY <3>1, <3>5
  <2>2. ASSUME NEW h \in Owned
        PROVE  Extent(h) \subseteq 0..(pool_size - 1)
    <3> PICK a : a = h.block
      OBVIOUS
    <3>1. a \in DOMAIN header /\ Extent(h) \subseteq Bytes(a)
      BY <1>2, OwnerInBlock
    <3>2. a \in Nat /\ Room(a) \in Nat /\ a + Room(a) <= pool_size /\ pool_size \in Nat
      BY <2>0, <3>1, BlockInPool, PoolBelowWord
    <3>3. Bytes(a) \subseteq 0..(pool_size - 1)
      BY <3>2 DEF Bytes
    <3> QED
      BY <3>1, <3>3
  <2>3. ASSUME NEW h \in Owned, NEW c \in Classes, NEW b \in FreeBlocks(c)
        PROVE  Extent(h) \cap (b..(b + BlockSize[c] - 1)) = {}
    <3> PICK a : a = h.block
      OBVIOUS
    <3>1. a \in Used /\ a \in DOMAIN header /\ Extent(h) \subseteq Bytes(a)
      BY <1>2, OwnerInBlock
    <3>2. b \in Blocks(c) /\ b \notin Used
      BY <1>2, ListFacts
    <3>3. b \in DOMAIN header /\ header[b].class = c /\ c # Large /\ Room(b) = BlockSize[c]
      BY <2>0, <3>2, Tables DEF Created, Small, Room
    <3>4. a + Room(a) <= b \/ b + BlockSize[c] <= a
      BY <1>2, <3>1, <3>2, <3>3, UsedApart
    <3>5. a \in Nat /\ b \in Nat /\ Room(a) \in Nat /\ BlockSize[c] \in Nat
      BY <2>0, <3>1, <3>3, BlockInPool, Tables
    <3>6. Bytes(a) \cap (b..(b + BlockSize[c] - 1)) = {}
      BY <3>4, <3>5, IntervalsApart DEF Bytes
    <3> QED
      BY <3>1, <3>6
  <2> QED
    BY <2>1, <2>2, <2>3 DEF NoOverlap
<1> QED
  BY <1>1, <1>2

-----------------------------------------------------------------------------
(* Sums.  SumOver(f) adds the values of f one after the other; it counts the *)
(* units that f says each element has.                                       *)

\* The units that f counts at the elements of s.
Units(f, s) == UNION {{x} \X (1..f[x]) : x \in s}

\* The recursive definition behind SumOver is one as soon as some function satisfies it.
LEMMA SumUnfolds ==
    ASSUME NEW f,
           \E g : g = [s \in SUBSET DOMAIN f |->
                          IF s = {} THEN 0
                          ELSE f[CHOOSE x \in s : TRUE] + g[s \ {CHOOSE x \in s : TRUE}]]
    PROVE  \E h : /\ h = [s \in SUBSET DOMAIN f |->
                             IF s = {} THEN 0
                             ELSE f[CHOOSE x \in s : TRUE] + h[s \ {CHOOSE x \in s : TRUE}]]
                  /\ SumOver(f) = h[DOMAIN f]
BY DEF SumOver, MapThenSumSet, MapThenFoldSet

\* One element more counts for as much as f says.
LEMMA UnitsOfOneMore ==
    ASSUME NEW S, NEW f \in [S -> Nat], NEW s \in SUBSET S, NEW x \in s,
           IsFiniteSet(Units(f, s \ {x}))
    PROVE  /\ IsFiniteSet(Units(f, s))
           /\ Cardinality(Units(f, s)) = f[x] + Cardinality(Units(f, s \ {x}))
<1> DEFINE A == {x} \X (1..f[x])
           B == Units(f, s \ {x})
<1>1. IsFiniteSet(A) /\ Cardinality(A) = f[x]
  <2> PICK n \in Nat : n = f[x]
    OBVIOUS
  <2>1. IsFiniteSet(1..n) /\ Cardinality(1..n) = n
    <3>1. 1 \in Int /\ n \in Int /\ IF 1 > n THEN n = 0 ELSE n = n - 1 + 1
      OBVIOUS
    <3> QED
      BY <3>1, FS_Interval
  <2>2. IsFiniteSet({x}) /\ Cardinality({x}) = 1
    BY FS_Singleton
  <2>3. IsFiniteSet({x} \X (1..n)) /\ Cardinality({x} \X (1..n)) = 1 * n
    BY <2>1, <2>2, FS_Product
  <2> QED
    BY <2>3
<1>2. Units(f, s) = A \cup B
  BY DEF Units
<1>3. A \cap B = {}
  BY DEF Units
<1> HIDE DEF A, B
<1>4. Cardinality(A \cap B) = 0
  BY <1>3, FS_EmptySet
<1>5. /\ IsFiniteSet(A \cup B)
      /\ Cardinality(A \cup B) = Cardinality(A) + Cardinality(B) - Cardinality(A \cap B)
  BY <1>1, FS_Union DEF B
<1>6. Cardinality(B) \in Nat
  BY FS_CardinalityType DEF B
<1> QED
  BY <1>1, <1>2, <1>4, <1>5, <1>6 DEF B

\* Finitely many elements count for finitely many units.
LEMMA UnitsFinite ==
    ASSUME NEW S, IsFiniteSet(S), NEW f \in [S -> Nat], NEW s \in SUBSET S
    PROVE  IsFiniteSet(Units(f, s))
<1> DEFINE Bad == {r \in SUBSET S : ~IsFiniteSet(Units(f, r))}
<1> SUFFICES ASSUME Bad # {}
             PROVE  FALSE
  OBVIOUS
<1>1. PICK r \in Bad : \A q \in Bad : ~(q \subseteq r /\ q # r)
  <2>1. Bad \in SUBSET SUBSET S
    OBVIOUS
  <2> HIDE DEF Bad
  <2> QED
    BY <2>1, LeastSubset
<1>2. r # {}
  <2>1. Units(f, {}) = {}
    BY DEF Units
  <2> QED
    BY <2>1, FS_EmptySet
<1>3. PICK x \in r : TRUE
  BY <1>2
<1>4. IsFiniteSet(Units(f, r \ {x}))
  BY <1>1
<1>5. IsFiniteSet(Units(f, r))
  BY <1>4, UnitsOfOneMore
<1> QED
  BY <1>5

\* A sum counts the units.
LEMMA SumIsCount ==
    ASSUME NEW S, IsFiniteSet(S), NEW f \in [S -> Nat]
    PROVE  /\ IsFiniteSet(Units(f, S))
           /\ SumOver(f) = Cardinality(Units(f, S)) /\ SumOver(f) \in Nat
<1> DEFINE ch(s) == CHOOSE x \in s : TRUE
           g == [s \in SUBSET S |-> Cardinality(Units(f, s))]
<1>0. DOMAIN f = S
  OBVIOUS
<1>1. ASSUME NEW s \in SUBSET S, s # {}
      PROVE  /\ ch(s) \in s
             /\ Cardinality(Units(f, s)) = f[ch(s)] + Cardinality(Units(f, s \ {ch(s)}))
  <2>1. ch(s) \in s
    BY <1>1
  <2> HIDE DEF ch
  <2>2. IsFiniteSet(Units(f, s \ {ch(s)}))
    BY UnitsFinite
  <2> QED
    BY <2>1, <2>2, UnitsOfOneMore
<1>2. Cardinality(Units(f, {})) = 0
  <2>1. Units(f, {}) = {}
    BY DEF Units
  <2> QED
    BY <2>1, FS_EmptySet
<1>3. g = [s \in SUBSET DOMAIN f |->
              IF s = {} THEN 0 ELSE f[ch(s)] + g[s \ {ch(s)}]]
  <2>1. \A s \in SUBSET S : s \ {ch(s)} \in SUBSET S
    OBVIOUS
  <2> HIDE DEF ch
  <2>2. \A s \in SUBSET S : g[s] = IF s = {} THEN 0 ELSE f[ch(s)] + g[s \ {ch(s)}]
    BY <1>1, <1>2, <2>1
  <2> QED
    BY <1>0, <2>2
<1>4. PICK h : /\ h = [s \in SUBSET DOMAIN f |->
                          IF s = {} THEN 0 ELSE f[ch(s)] + h[s \ {ch(s)}]]
               /\ SumOver(f) = h[DOMAIN f]
  <2>1. \E k : k = [s \in SUBSET DOMAIN f |->
                       IF s = {} THEN 0 ELSE f[ch(s)] + k[s \ {ch(s)}]]
    <3> HIDE DEF g, ch
    <3> QED
      BY <1>3
  <2> HIDE DEF g
  <2> QED
    BY <2>1, SumUnfolds, Zenon
<1>5. \A s \in SUBSET S : h[s] = Cardinality(Units(f, s))
  <2> DEFINE Bad == {s \in SUBSET S : h[s] # Cardinality(Units(f, s))}
  <2> SUFFICES ASSUME Bad # {}
               PROVE  FALSE
    OBVIOUS
  <2>1. PICK r \in Bad : \A q \in Bad : ~(q \subseteq r /\ q # r)
    <3>1. Bad \in SUBSET SUBSET S
      OBVIOUS
    <3> HIDE DEF Bad
    <3> QED
      BY <3>1, LeastSubset
  <2>2. CASE r = {}
    BY <2>2, <1>0, <1>2, <1>4
  <2>3. CASE r # {}
    <3>1. h[r] = f[ch(r)] + h[r \ {ch(r)}]
      BY <1>0, <1>4, <2>3
    <3>2. ch(r) \in r
      BY <1>1, <2>3
    <3>3. h[r \ {ch(r)}] = Cardinality(Units(f, r \ {ch(r)}))
      <4> HIDE DEF ch
      <4> QED
        BY <2>1, <3>2
    <3> QED
      BY <1>1, <2>3, <3>1, <3>3
  <2> QED
    BY <2>2, <2>3
<1>6. IsFiniteSet(Units(f, S))
  BY UnitsFinite
<1>7. SumOver(f) = Cardinality(Units(f, S))
  BY <1>0, <1>4, <1>5
<1> QED
  BY <1>6, <1>7, FS_CardinalityType

\* Larger values have a larger sum.
LEMMA SumGrows ==
    ASSUME NEW S, IsFiniteSet(S), NEW f \in [S -> Nat], NEW g \in [S -> Nat],
           \A x \in S : f[x] <= g[x]
    PROVE  SumOver(f) <= SumOver(g)
<1>1. Units(f, S) \subseteq Units(g, S)
  <2>1. \A x \in S : 1..f[x] \subseteq 1..g[x]
    <3> TAKE x \in S
    <3> PICK m \in Nat : m = f[x]
      OBVIOUS
    <3> PICK n \in Nat : n = g[x]
      OBVIOUS
    <3>1. 1..m \subseteq 1..n
      OBVIOUS
    <3> QED
      BY <3>1
  <2> QED
    BY <2>1 DEF Units
<1>2. /\ IsFiniteSet(Units(g, S))
      /\ SumOver(f) = Cardinality(Units(f, S)) /\ SumOver(g) = Cardinality(Units(g, S))
  BY SumIsCount
<1> QED
  BY <1>1, <1>2, FS_Subset

\* Two sums that differ in one value differ by as much.
LEMMA SumDiffers ==
    ASSUME NEW S, IsFiniteSet(S), NEW f \in [S -> Nat], NEW g \in [S -> Nat], NEW x \in S,
           \A y \in S \ {x} : g[y] = f[y]
    PROVE  SumOver(g) + f[x] = SumOver(f) + g[x]
<1>1. Units(g, S \ {x}) = Units(f, S \ {x})
  BY DEF Units
<1>2. IsFiniteSet(Units(f, S \ {x})) /\ Cardinality(Units(f, S \ {x})) \in Nat
  BY UnitsFinite, FS_CardinalityType
<1>3. Cardinality(Units(f, S)) = f[x] + Cardinality(Units(f, S \ {x}))
  BY <1>2, UnitsOfOneMore
<1>4. Cardinality(Units(g, S)) = g[x] + Cardinality(Units(f, S \ {x}))
  BY <1>1, <1>2, UnitsOfOneMore
<1>5. SumOver(f) = Cardinality(Units(f, S)) /\ SumOver(g) = Cardinality(Units(g, S))
  BY SumIsCount
<1>6. f[x] \in Nat /\ g[x] \in Nat
  OBVIOUS
<1> QED
  BY <1>2, <1>3, <1>4, <1>5, <1>6

\* As many elements of a finite set can be numbered as it has.
LEMMA Numbered ==
    ASSUME NEW E, IsFiniteSet(E), NEW n \in Nat, n <= Cardinality(E)
    PROVE  Injection(1..n, E) # {}
<1>1. Cardinality(E) \in Nat /\ ExistsBijection(1..Cardinality(E), E)
  BY FS_CardinalityType
<1> PICK m \in Nat : m = Cardinality(E)
  BY <1>1
<1>2. PICK b \in [1..m -> E] : \A i, j \in 1..m : b[i] = b[j] => i = j
  BY <1>1 DEF ExistsBijection, Bijection, Injection, IsInjective
<1>3. 1..n \subseteq 1..m
  OBVIOUS
<1>4. [i \in 1..n |-> b[i]] \in Injection(1..n, E)
  BY <1>2, <1>3 DEF Injection, IsInjective
<1> QED
  BY <1>4

\* Numbers of elements that lie in disjoint parts of a set add up to no more than it has.
LEMMA SumOfParts ==
    ASSUME NEW S, IsFiniteSet(S), NEW f \in [S -> Nat], NEW U, IsFiniteSet(U),
           NEW E \in [S -> SUBSET U],
           \A x \in S : f[x] <= Cardinality(E[x]),
           \A x, y \in S : x # y => E[x] \cap E[y] = {}
    PROVE  SumOver(f) <= Cardinality(U)
<1> DEFINE num == [x \in S |-> CHOOSE k \in Injection(1..f[x], E[x]) : TRUE]
           g == [u \in Units(f, S) |-> num[u[1]][u[2]]]
<1>1. ASSUME NEW x \in S
      PROVE  num[x] \in Injection(1..f[x], E[x])
  <2>1. IsFiniteSet(E[x])
    BY FS_Subset
  <2>2. Injection(1..f[x], E[x]) # {}
    <3> PICK n \in Nat : n = f[x]
      OBVIOUS
    <3>1. Injection(1..n, E[x]) # {}
      BY <2>1, Numbered
    <3> QED
      BY <3>1
  <2> QED
    BY <2>2
<1> HIDE DEF num
<1>2. \A u \in Units(f, S) : u[1] \in S /\ u[2] \in 1..f[u[1]] /\ u = <<u[1], u[2]>>
  BY DEF Units
<1>3. \A x \in S : \A i \in 1..f[x] : num[x][i] \in E[x] /\ num[x][i] \in U
  BY <1>1 DEF Injection
<1>4. \A x \in S : \A i, j \in 1..f[x] : num[x][i] = num[x][j] => i = j
  BY <1>1 DEF Injection, IsInjective
<1>5. ASSUME NEW u \in Units(f, S), NEW v \in Units(f, S), num[u[1]][u[2]] = num[v[1]][v[2]]
      PROVE  u = v
  <2>1. num[u[1]][u[2]] \in E[u[1]] \cap E[v[1]]
    BY <1>2, <1>3, <1>5
  <2>2. u[1] = v[1]
    BY <1>2, <2>1
  <2>3. u[2] = v[2]
    BY <1>2, <1>4, <1>5, <2>2
  <2> QED
    BY <1>2, <2>2, <2>3
<1>6. g \in Injection(Units(f, S), U)
  <2>1. g \in [Units(f, S) -> U]
    BY <1>2, <1>3
  <2>2. \A u, v \in Units(f, S) : g[u] = g[v] => u = v
    BY <1>5
  <2> HIDE DEF g
  <2> QED
    BY <2>1, <2>2 DEF Injection, IsInjective
<1> HIDE DEF g
<1>7. Cardinality(Units(f, S)) <= Cardinality(U)
  BY <1>6, FS_Injection
<1> QED
  BY <1>7, SumIsCount

\* Blocks of w bytes that have no byte in common.
LEMMA BytesOfBlocks ==
    ASSUME NEW T \in SUBSET Nat, IsFiniteSet(T), NEW w \in Nat, NEW U, IsFiniteSet(U),
           \A b \in T : b..(b + w - 1) \subseteq U,
           \A a, b \in T : a # b => (a..(a + w - 1)) \cap (b..(b + w - 1)) = {}
    PROVE  Cardinality(T) * w <= Cardinality(U)
<1> DEFINE P == T \X (1..w)
           g == [u \in P |-> u[1] + u[2] - 1]
<1>1. IsFiniteSet(1..w) /\ Cardinality(1..w) = w
  <2>1. 1 \in Int /\ w \in Int /\ IF 1 > w THEN w = 0 ELSE w = w - 1 + 1
    OBVIOUS
  <2> QED
    BY <2>1, FS_Interval
<1>2. Cardinality(P) = Cardinality(T) * w
  BY <1>1, FS_Product
<1>3. \A u \in P : /\ u[1] \in T /\ u[1] \in Nat /\ u[2] \in 1..w /\ u = <<u[1], u[2]>>
                   /\ u[1] + u[2] - 1 \in u[1]..(u[1] + w - 1)
  <2>1. \A b \in Nat : \A j \in 1..w : b + j - 1 \in b..(b + w - 1)
    OBVIOUS
  <2>2. \A u \in P : u[1] \in T /\ u[1] \in Nat /\ u[2] \in 1..w /\ u = <<u[1], u[2]>>
    <3>1. \A A, B : \A u \in A \X B : u[1] \in A /\ u[2] \in B /\ u = <<u[1], u[2]>>
      OBVIOUS
    <3>2. \A u \in P : u[1] \in T /\ u[2] \in 1..w /\ u = <<u[1], u[2]>>
      BY <3>1
    <3> HIDE DEF P
    <3> QED
      BY <3>2
  <2> HIDE DEF P
  <2> QED
    BY <2>1, <2>2
<1>4. ASSUME NEW u \in P, NEW v \in P, u[1] + u[2] - 1 = v[1] + v[2] - 1
      PROVE  u = v
  <2>1. u[1] = v[1]
    BY <1>3, <1>4
  <2>2. u[2] = v[2]
    BY <1>3, <1>4, <2>1
  <2> QED
    BY <1>3, <2>1, <2>2
<1>5. g \in Injection(P, U)
  <2>1. g \in [P -> U]
    BY <1>3
  <2>2. \A u, v \in P : g[u] = g[v] => u = v
    BY <1>4
  <2> HIDE DEF g, P
  <2> QED
    BY <2>1, <2>2 DEF Injection, IsInjective
<1> HIDE DEF g, P
<1>6. Cardinality(P) <= Cardinality(U)
  BY <1>5, FS_Injection
<1> QED
  BY <1>2, <1>6


-----------------------------------------------------------------------------
(* The other parts of PoolSound *)

\* Every buffer is one the pool maps itself, and large enough for its classes.
MapsItsOwn == \A buffer \in Buffers : buffer.from = "mmap" /\ HoldsClasses(buffer)

\* The pool owns one mapping while it is initialized, and none otherwise.
MappedInv ==
    /\ mapped = (IF initialized THEN 1 ELSE 0) /\ mapped <= MaxMapped
    /\ from = "mmap"

\* MappedInv is inductive where the pool maps its own buffers.
LEMMA MappedNext ==
    ASSUME MapsItsOwn, MappedInv, [Next]_vars
    PROVE  MappedInv'
<1>1. ASSUME UNCHANGED create
      PROVE  MappedInv'
  BY <1>1 DEF MappedInv, create
<1>2. CASE UNCHANGED vars
  BY <1>1, <1>2 DEF vars
<1>3. ASSUME NEW buffer \in Buffers, Create(buffer)
      PROVE  MappedInv'
  <2>1. buffer.from = "mmap" /\ HoldsClasses(buffer)
    BY DEF MapsItsOwn
  <2>2. ~initialized /\ mapped < MaxMapped /\ mapped' = mapped + 1 /\ from' = "mmap"
        /\ initialized' = HoldsClasses(buffer)
    BY <1>3, <2>1 DEF Create
  <2>3. mapped = 0 /\ MaxMapped \in Nat
    BY <2>2, WordAssumption DEF MappedInv
  <2>4. initialized' /\ mapped' = 1 /\ mapped' <= MaxMapped
    BY <2>1, <2>2, <2>3
  <2> QED
    BY <2>2, <2>4 DEF MappedInv
<1>4. CASE Destroy
  <2>1. initialized' = FALSE /\ mapped' = mapped - 1 /\ from' = from /\ mapped = 1
    BY <1>4 DEF Destroy, MappedInv
  <2>2. mapped' = 0 /\ 0 <= MaxMapped
    BY <2>1, WordAssumption
  <2> QED
    BY <2>1, <2>2 DEF MappedInv
<1>5. ASSUME NEW t \in Thread,
             \/ \E n \in Sizes : Alloc(t, n) \/ \E h \in held : Realloc(t, h, n)
             \/ \E count, n \in Sizes : Calloc(t, count, n)
             \/ \E n \in Sizes, alignment \in Alignment : AlignedAlloc(t, n, alignment)
             \/ \E h \in held : Free(t, h)
             \/ AllocTake(t) \/ AllocReturn(t)
             \/ ReallocFree(t) \/ FreePush(t) \/ FreeReturn(t)
             \/ Check(t) \/ CheckHead(t) \/ CheckWalk(t) \/ CheckCompare(t)
      PROVE  UNCHANGED create
  BY <1>5 DEF Alloc, Realloc, Calloc, AlignedAlloc, Free, AllocTake, AllocReturn, ReallocFree,
              FreePush, FreeReturn, Check, CheckHead, CheckWalk, CheckCompare
<1> QED
  BY <1>1, <1>2, <1>3, <1>4, <1>5 DEF Next

\* Each counter stays within the number of blocks of its class.
LEMMA CountsBounded ==
    ASSUME IInv, NEW c \in Classes
    PROVE  free_count[c] \in 0..BlockCount[c]
<1>0. BlockCount[c] \in Nat
  BY Tables
<1>1. /\ FreeBlocks(c) = IF initialized THEN Blocks(c) \ Used ELSE {}
      /\ IsFiniteSet(FreeBlocks(c)) /\ Cardinality(FreeBlocks(c)) \in 0..BlockCount[c]
      /\ free_count[c] = Cardinality(FreeBlocks(c)) + Pending(c)
  BY ListFacts
<1> PICK n \in 0..BlockCount[c] : n = Cardinality(FreeBlocks(c))
  BY <1>1
<1>2. CASE Pending(c) = 0
  BY <1>0, <1>1, <1>2
<1>3. CASE Pending(c) # 0
  <2>1. /\ lock # Nil /\ block[lock] # Nil /\ header[block[lock]].class = c
        /\ \/ pc[lock] = "count" /\ Pending(c) = 1
           \/ pc[lock] = "uncount" /\ Pending(c) = -1
    BY <1>3 DEF Pending
  <2>2. initialized /\ Created /\ lock \in Thread
    BY <2>1 DEF IInv, NotCreated, LockOK
  <2>3. block[lock] \in DOMAIN header
    BY <2>1, <2>2 DEF IInv, LocalsOK
  <2>4. block[lock] \in Blocks(c)
    BY <2>1, <2>2, <2>3, BlockOfClass
  <2>5. CASE pc[lock] = "count"
    <3>1. block[lock] \in Used
      BY <2>1, <2>2, <2>5 DEF Used, Passing
    <3>2. FreeBlocks(c) \in SUBSET Blocks(c) /\ FreeBlocks(c) # Blocks(c)
      BY <1>1, <2>2, <2>4, <3>1
    <3>3. IsFiniteSet(Blocks(c)) /\ Cardinality(Blocks(c)) = BlockCount[c]
      BY BlocksCounted
    <3>4. n # BlockCount[c]
      BY <3>2, <3>3, FS_Subset
    <3> QED
      BY <1>0, <1>1, <2>1, <2>5, <3>4
  <2>6. CASE pc[lock] = "uncount"
    <3>1. block[lock] \notin Used
      BY <2>2, <2>6 DEF IInv, OwnersOK
    <3>2. FreeBlocks(c) # {}
      BY <1>1, <2>2, <2>4, <3>1
    <3>3. n # 0
      BY <1>1, <3>2, FS_EmptySet
    <3> QED
      BY <1>0, <1>1, <2>1, <2>6, <3>3
  <2> QED
    BY <2>1, <2>5, <2>6
<1> QED
  BY <1>2, <1>3

\* The type invariant follows from the two inductive ones.
LEMMA TypeOKHolds ==
    ASSUME IInv, MappedInv
    PROVE  TypeOK
<1>1. pool_size \in Nat
  BY PoolBelowWord DEF IInv, NotCreated
<1>2. mapped \in -1..MaxMapped
  <2>1. MaxMapped \in Nat
    BY WordAssumption
  <2> QED
    BY <2>1 DEF MappedInv
<1>3. \A b \in DOMAIN header : b \in 0..(Word - 1)
  <2> TAKE b \in DOMAIN header
  <2>1. Created
    BY DEF IInv, NotCreated
  <2>2. b \in Nat /\ Room(b) \in Nat \ {0} /\ b + Room(b) <= pool_size
    BY <2>1, BlockInPool
  <2>3. pool_size \in Nat /\ 2 * pool_size < Word /\ Word \in Nat
    BY <2>1, PoolBelowWord
  <2> QED
    BY <2>2, <2>3
<1>4. \A c \in Classes : free_count[c] \in 0..BlockCount[c]
  BY CountsBounded
<1> QED
  BY <1>1, <1>2, <1>3, <1>4 DEF IInv, LockOK, LocalsOK, TypeOK

\* Rounding up to a multiple of a adds less than a.
LEMMA NextMultiple ==
    ASSUME NEW x \in Nat, NEW a \in Nat \ {0}
    PROVE  LET y == ((x + a - 1) \div a) * a
           IN  y \in Nat /\ y % a = 0 /\ x <= y /\ y <= x + a - 1
<1> DEFINE z == x + a - 1
           q == z \div a
           r == z % a
<1>1. z \in Nat
  OBVIOUS
<1> HIDE DEF z
<1>2. q \in Nat /\ r \in 0..(a - 1) /\ z = a * q + r
  BY <1>1
<1> HIDE DEF q, r
<1>3. q * a = a * q /\ q * a \in Nat /\ (q * a) % a = 0
  BY <1>2
<1> DEFINE y == q * a
<1>4. y \in Nat /\ y % a = 0 /\ z = y + r
  BY <1>2, <1>3
<1> HIDE DEF y
<1>5. x <= y /\ y <= x + a - 1
  <2>1. r \in Nat /\ r < a /\ z = x + a - 1
    BY <1>2 DEF z
  <2> QED
    BY <1>4, <2>1
<1> QED
  BY <1>4, <1>5 DEF y, q, z

\* What eg_mempool_aligned_alloc returns lies inside the block it asked for.
LEMMA AlignedInsideHolds ==
    ASSUME IInv
    PROVE  AlignedInside
<1> SUFFICES ASSUME NEW h \in held, NEW n \in Sizes, NEW alignment \in Alignment,
                    AlignedTotal(n, alignment) = h.size
             PROVE  LET raw == h.block + Header
                        aligned == Aligned(raw, alignment)
                    IN  /\ aligned % alignment = 0
                        /\ (aligned - Pointer)..(aligned + n - 1) \subseteq raw..(raw + h.size - 1)
  BY DEF AlignedInside
<1> DEFINE raw == h.block + Header
           aligned == Aligned(raw, alignment)
<1>1. alignment \in Nat \ {0} /\ n \in Nat \ {0} /\ Header \in Nat /\ Pointer \in Nat
  BY SizesAssumption
<1>2. h.block \in Nat
  <2>1. h \in Owned /\ initialized /\ Created
    BY DEF Owned, IInv, NotCreated
  <2>2. h.block \in DOMAIN header
    BY <2>1 DEF IInv, OwnersOK, IsOwner
  <2> QED
    BY <2>1, <2>2, HeadersAreNumbers
<1>3. raw \in Nat /\ raw + Pointer \in Nat
  BY <1>1, <1>2
<1> HIDE DEF raw
<1>4. /\ aligned \in Nat /\ aligned % alignment = 0
      /\ raw + Pointer <= aligned /\ aligned <= raw + Pointer + alignment - 1
  BY <1>1, <1>3, NextMultiple DEF Aligned
<1> HIDE DEF aligned
<1>5. h.size = n + alignment - 1 + Pointer
  BY DEF AlignedTotal
<1>6. (aligned - Pointer)..(aligned + n - 1) \subseteq raw..(raw + h.size - 1)
  <2>1. raw <= aligned - Pointer /\ aligned + n - 1 <= raw + h.size - 1 /\ h.size \in Nat
    BY <1>1, <1>3, <1>4, <1>5
  <2> QED
    BY <1>1, <1>3, <1>4, <2>1
<1> QED
  BY <1>4, <1>6 DEF aligned, raw

-----------------------------------------------------------------------------
(* The statistics: bytes are counted twice, once as what the sums of           *)
(* eg_mempool_get_stats add up and once as bytes of the pool.                  *)

\* The bytes a caller may use, and those it could get of class c.
Memory(h) == (h.block + Header)..(h.block + Header + h.size - 1)
FreeMemory(c) == UNION {b..(b + UserSize(c) - 1) : b \in FreeBlocks(c)}

\* An interval has as many numbers as its length says.
LEMMA IntervalCounted ==
    ASSUME NEW a \in Nat, NEW n \in Nat
    PROVE  IsFiniteSet(a..(a + n - 1)) /\ Cardinality(a..(a + n - 1)) = n
<1>1. a \in Int /\ a + n - 1 \in Int /\ IF a > a + n - 1 THEN n = 0 ELSE n = (a + n - 1) - a + 1
  OBVIOUS
<1> PICK b \in Int : b = a + n - 1
  BY <1>1
<1>2. IsFiniteSet(a..b) /\ Cardinality(a..b) = IF a > b THEN 0 ELSE b - a + 1
  BY <1>1, FS_Interval
<1> QED
  BY <1>1, <1>2

\* What callers hold lies in the pool and has no byte twice.
LEMMA MemoryApart ==
    ASSUME IInv, HeaderFits
    PROVE  /\ IsFiniteSet(held)
           /\ \A h \in held : /\ h.size \in Nat /\ IsFiniteSet(Memory(h))
                              /\ Cardinality(Memory(h)) = h.size
                              /\ Memory(h) \subseteq Extent(h)
           /\ \A h, g \in held : h # g => Memory(h) \cap Memory(g) = {}
<1>1. \A h \in held : h \in Owned
  BY DEF Owned
<1>2. ASSUME NEW h \in held
      PROVE  /\ h.size \in Nat /\ IsFiniteSet(Memory(h)) /\ Cardinality(Memory(h)) = h.size
             /\ Memory(h) \subseteq Extent(h) /\ h.block \in 0..(pool_size - 1)
  <2>1. initialized /\ Created
    BY DEF IInv, NotCreated
  <2> PICK b : b = h.block
    OBVIOUS
  <2> PICK n : n = h.size
    OBVIOUS
  <2>2. b \in DOMAIN header /\ b \in Nat /\ n \in Nat /\ Header \in Nat
    BY <1>1, <2>1, OwnerInBlock
  <2>3. Room(b) \in Nat \ {0} /\ b + Room(b) <= pool_size /\ pool_size \in Nat
    BY <2>1, <2>2, BlockInPool, PoolBelowWord
  <2>4. b \in 0..(pool_size - 1)
    BY <2>2, <2>3
  <2> PICK a \in Nat : a = b + Header
    BY <2>2
  <2>5. IsFiniteSet(a..(a + n - 1)) /\ Cardinality(a..(a + n - 1)) = n
    BY <2>2, IntervalCounted
  <2>6. a..(a + n - 1) \subseteq b..(b + Header + n - 1)
    BY <2>2
  <2> QED
    BY <2>2, <2>4, <2>5, <2>6 DEF Memory, Extent
<1>3. IsFiniteSet(held)
  <2> DEFINE g == [h \in held |-> h.block]
  <2>1. g \in [held -> 0..(pool_size - 1)]
    BY <1>2
  <2>2. \A h, k \in held : g[h] = g[k] => h = k
    BY <1>1 DEF IInv, OwnersOK
  <2> HIDE DEF g
  <2>3. g \in Injection(held, 0..(pool_size - 1))
    BY <2>1, <2>2 DEF Injection, IsInjective
  <2>4. IsFiniteSet(0..(pool_size - 1))
    <3>1. pool_size - 1 \in Int /\ 0 \in Int
      BY PoolBelowWord DEF IInv, NotCreated
    <3> QED
      BY <3>1, FS_Interval
  <2> QED
    BY <2>3, <2>4, FS_Injection
<1>4. ASSUME NEW h \in held, NEW g \in held, h # g
      PROVE  Memory(h) \cap Memory(g) = {}
  <2>1. Extent(h) \cap Extent(g) = {}
    BY <1>1, <1>4, NoOverlapHolds DEF NoOverlap
  <2> QED
    BY <1>2, <2>1
<1> QED
  BY <1>2, <1>3, <1>4

\* What callers could get lies in the pool, outside of what they hold, and has no
\* byte twice; the bytes of a class are at least as many as its free blocks offer.
LEMMA FreeMemoryApart ==
    ASSUME IInv, HeaderFits
    PROVE  /\ \A c \in Classes :
                  /\ FreeMemory(c) \subseteq 0..(pool_size - 1)
                  /\ Cardinality(FreeBlocks(c)) * UserSize(c) \in Nat
                  /\ Cardinality(FreeBlocks(c)) * UserSize(c) <= Cardinality(FreeMemory(c))
                  /\ \A h \in held : Memory(h) \cap FreeMemory(c) = {}
           /\ \A c, d \in Classes : c # d => FreeMemory(c) \cap FreeMemory(d) = {}
<1>0. pool_size \in Nat
  BY PoolBelowWord DEF IInv, NotCreated
<1>1. ASSUME NEW c \in Classes, NEW b \in FreeBlocks(c)
      PROVE  /\ initialized /\ Created /\ b \in DOMAIN header /\ header[b].class = c
             /\ header[b].class # Large /\ Room(b) = BlockSize[c] /\ b \in Nat
             /\ Room(b) \in Nat /\ b + Room(b) <= pool_size
             /\ b..(b + UserSize(c) - 1) \subseteq Bytes(b)
  <2>1. initialized /\ Created /\ b \in Blocks(c)
    BY ListFacts DEF IInv
  <2>2. b \in DOMAIN header /\ header[b].class = c /\ c # Large
    BY <2>1, Tables DEF Created, Small
  <2>3. b \in Nat /\ Room(b) \in Nat /\ b + Room(b) <= pool_size /\ Room(b) = BlockSize[c]
    BY <2>1, <2>2, BlockInPool
  <2>4. UserSize(c) \in Nat /\ UserSize(c) <= Room(b)
    <3>1. UserSize(c) \in Nat /\ UserSize(c) + Header <= BlockSize[c] /\ Header \in Nat
          /\ BlockSize[c] \in Nat
      BY UserSizeFits, Tables, SizesAssumption
    <3> QED
      BY <2>3, <3>1
  <2>5. b..(b + UserSize(c) - 1) \subseteq b..(b + Room(b) - 1)
    BY <2>3, <2>4
  <2> QED
    BY <2>1, <2>2, <2>3, <2>5 DEF Bytes
<1>2. ASSUME NEW c \in Classes, NEW d \in Classes,
             NEW a \in FreeBlocks(c), NEW b \in FreeBlocks(d), a # b
      PROVE  (a..(a + UserSize(c) - 1)) \cap (b..(b + UserSize(d) - 1)) = {}
  <2>1. a + Room(a) <= b \/ b + Room(b) <= a
    BY <1>1, <1>2, BytesApart
  <2>2. a \in Nat /\ b \in Nat /\ Room(a) \in Nat /\ Room(b) \in Nat
    BY <1>1
  <2>3. Bytes(a) \cap Bytes(b) = {}
    BY <2>1, <2>2, IntervalsApart DEF Bytes
  <2>4. a..(a + UserSize(c) - 1) \subseteq Bytes(a) /\ b..(b + UserSize(d) - 1) \subseteq Bytes(b)
    BY <1>1
  <2> QED
    BY <2>3, <2>4
<1>3. ASSUME NEW c \in Classes
      PROVE  FreeMemory(c) \subseteq 0..(pool_size - 1)
  <2>1. ASSUME NEW b \in FreeBlocks(c)
        PROVE  Bytes(b) \subseteq 0..(pool_size - 1)
    <3>1. b \in Nat /\ Room(b) \in Nat /\ b + Room(b) <= pool_size
      BY <1>1
    <3> QED
      BY <1>0, <3>1 DEF Bytes
  <2> QED
    BY <1>1, <2>1 DEF FreeMemory
<1>4. ASSUME NEW c \in Classes
      PROVE  /\ Cardinality(FreeBlocks(c)) * UserSize(c) \in Nat
             /\ Cardinality(FreeBlocks(c)) * UserSize(c) <= Cardinality(FreeMemory(c))
  <2> DEFINE T == FreeBlocks(c)
             U == FreeMemory(c)
  <2> PICK w \in Nat : w = UserSize(c)
    BY UserSizeFits
  <2>1. T \in SUBSET Nat /\ IsFiniteSet(T) /\ Cardinality(T) \in Nat
    BY <1>1, ListFacts, FS_CardinalityType
  <2>2. IsFiniteSet(U)
    <3>1. IsFiniteSet(0..(pool_size - 1))
      <4>1. pool_size - 1 \in Int /\ 0 \in Int
        BY <1>0
      <4> QED
        BY <4>1, FS_Interval
    <3>2. U \in SUBSET (0..(pool_size - 1))
      BY <1>3
    <3> HIDE DEF U
    <3> QED
      BY <3>1, <3>2, FS_Subset
  <2>3. \A b \in T : b..(b + w - 1) \subseteq U
    BY DEF FreeMemory
  <2>4. \A a, b \in T : a # b => (a..(a + w - 1)) \cap (b..(b + w - 1)) = {}
    BY <1>2
  <2> HIDE DEF T, U
  <2>5. Cardinality(T) * w <= Cardinality(U)
    BY <2>1, <2>2, <2>3, <2>4, BytesOfBlocks
  <2>6. Cardinality(T) * w \in Nat
    BY <2>1
  <2> QED
    BY <2>5, <2>6 DEF T, U
<1>5. ASSUME NEW c \in Classes, NEW h \in held
      PROVE  Memory(h) \cap FreeMemory(c) = {}
  <2>1. h \in Owned /\ Memory(h) \subseteq Extent(h)
    BY MemoryApart DEF Owned
  <2>2. ASSUME NEW b \in FreeBlocks(c)
        PROVE  Memory(h) \cap (b..(b + UserSize(c) - 1)) = {}
    <3>1. Extent(h) \cap (b..(b + BlockSize[c] - 1)) = {}
      BY <2>1, NoOverlapHolds DEF NoOverlap
    <3>2. b..(b + UserSize(c) - 1) \subseteq b..(b + BlockSize[c] - 1)
      BY <1>1 DEF Bytes
    <3> QED
      BY <2>1, <3>1, <3>2
  <2> QED
    BY <2>2 DEF FreeMemory
<1>6. ASSUME NEW c \in Classes, NEW d \in Classes, c # d
      PROVE  FreeMemory(c) \cap FreeMemory(d) = {}
  <2>1. ASSUME NEW a \in FreeBlocks(c), NEW b \in FreeBlocks(d)
        PROVE  (a..(a + UserSize(c) - 1)) \cap (b..(b + UserSize(d) - 1)) = {}
    <3>1. a # b
      BY <1>1, <1>6
    <3> QED
      BY <1>2, <3>1
  <2> QED
    BY <2>1 DEF FreeMemory
<1> QED
  BY <1>3, <1>4, <1>5, <1>6

\* StatsHonest follows from the inductive invariant.
LEMMA StatsHonestHolds ==
    ASSUME IInv, HeaderFits
    PROVE  StatsHonest
<1> SUFFICES ASSUME \A t \in Thread : pc[t] = "idle"
             PROVE  /\ free_size = SumOver([c \in Classes |->
                                                Cardinality(FreeBlocks(c)) * UserSize(c)])
                    /\ pool_size - free_size >= SumOver([h \in held |-> h.size])
  BY DEF StatsHonest, eg_mempool_stats, used_size
<1> DEFINE got == [h \in held |-> h.size]
           free == [c \in Classes |-> Cardinality(FreeBlocks(c)) * UserSize(c)]
           U == UNION {Memory(h) : h \in held}
           V == UNION {FreeMemory(c) : c \in Classes}
           W == 0..(pool_size - 1)
<1>0. pool_size \in Nat
  BY PoolBelowWord DEF IInv, NotCreated
<1>1. \A c \in Classes : free_count[c] = Cardinality(FreeBlocks(c))
  <2>1. lock = Nil
    BY DEF IInv, LockOK
  <2> TAKE c \in Classes
  <2>2. Pending(c) = 0
    BY <2>1 DEF Pending
  <2>3. Cardinality(FreeBlocks(c)) \in Nat /\ free_count[c] = Cardinality(FreeBlocks(c)) + Pending(c)
    BY ListFacts, FS_CardinalityType
  <2> QED
    BY <2>2, <2>3
<1>2. free_size = SumOver(free)
  <2>1. [c \in Classes |-> free_count[c] * UserSize(c)] = free
    BY <1>1
  <2> HIDE DEF free
  <2> QED
    BY <2>1 DEF free_size
<1>3. IsFiniteSet(W) /\ Cardinality(W) = pool_size
  <2>1. 0 \in Nat /\ 0 + pool_size - 1 = pool_size - 1
    BY <1>0
  <2>2. IsFiniteSet(0..(0 + pool_size - 1)) /\ Cardinality(0..(0 + pool_size - 1)) = pool_size
    BY <1>0, <2>1, IntervalCounted
  <2> QED
    BY <2>1, <2>2
<1>4. U \in SUBSET W /\ V \in SUBSET W /\ U \cap V = {}
  <2>1. \A h \in held : Memory(h) \subseteq W
    <3> TAKE h \in held
    <3>1. h \in Owned
      BY DEF Owned
    <3>2. Extent(h) \subseteq W
      BY <3>1, NoOverlapHolds DEF NoOverlap
    <3> QED
      BY <3>2, MemoryApart
  <2>2. \A c \in Classes : FreeMemory(c) \subseteq W
    BY FreeMemoryApart
  <2>3. \A c \in Classes, h \in held : Memory(h) \cap FreeMemory(c) = {}
    BY FreeMemoryApart
  <2> QED
    BY <2>1, <2>2, <2>3
<1>5. IsFiniteSet(U) /\ IsFiniteSet(V) /\ Cardinality(U) \in Nat /\ Cardinality(V) \in Nat
  <2> HIDE DEF U, V, W
  <2> QED
    BY <1>3, <1>4, FS_Subset, FS_CardinalityType
<1>6. SumOver(got) \in Nat /\ SumOver(got) <= Cardinality(U)
  <2> DEFINE E == [h \in held |-> Memory(h)]
  <2>1. got \in [held -> Nat] /\ E \in [held -> SUBSET U]
    BY MemoryApart
  <2>2. \A h \in held : got[h] <= Cardinality(E[h])
    BY MemoryApart
  <2>3. \A h, g \in held : h # g => E[h] \cap E[g] = {}
    BY MemoryApart
  <2>4. IsFiniteSet(held)
    BY MemoryApart
  <2> HIDE DEF got, E, U
  <2> QED
    BY <1>5, <2>1, <2>2, <2>3, <2>4, SumOfParts, SumIsCount
<1>7. SumOver(free) \in Nat /\ SumOver(free) <= Cardinality(V)
  <2> DEFINE E == [c \in Classes |-> FreeMemory(c)]
  <2>1. free \in [Classes -> Nat] /\ E \in [Classes -> SUBSET V]
    BY FreeMemoryApart
  <2>2. \A c \in Classes : free[c] <= Cardinality(E[c])
    BY FreeMemoryApart
  <2>3. \A c, d \in Classes : c # d => E[c] \cap E[d] = {}
    BY FreeMemoryApart
  <2>4. IsFiniteSet(Classes)
    <3>1. Classes = 1..Len(BlockSize) /\ 1 \in Int /\ Len(BlockSize) \in Int
      BY Tables
    <3> QED
      BY <3>1, FS_Interval
  <2> HIDE DEF free, E, V
  <2> QED
    BY <1>5, <2>1, <2>2, <2>3, <2>4, SumOfParts, SumIsCount
<1>8. Cardinality(U) + Cardinality(V) <= pool_size
  <2> HIDE DEF U, V, W
  <2>1. Cardinality(U \cap V) = 0
    BY <1>4, FS_EmptySet
  <2>2. /\ IsFiniteSet(U \cup V)
        /\ Cardinality(U \cup V) = Cardinality(U) + Cardinality(V) - Cardinality(U \cap V)
    BY <1>5, FS_Union
  <2>3. U \cup V \in SUBSET W
    BY <1>4
  <2>4. Cardinality(U \cup V) <= Cardinality(W)
    BY <1>3, <2>3, FS_Subset
  <2> QED
    BY <1>3, <1>5, <2>1, <2>2, <2>4
<1> HIDE DEF got, free, U, V, W
<1>9. pool_size - SumOver(free) >= SumOver(got)
  BY <1>0, <1>5, <1>6, <1>7, <1>8
<1> QED
  BY <1>2, <1>9 DEF got, free

-----------------------------------------------------------------------------
(* The cursor.  current_usage counts the large blocks that were cut and what   *)
(* callers have of the classes.  An allocation adds what was asked for, and a  *)
(* free subtracts what the block offers, so the part that counts the classes   *)
(* returns to nothing only where requests ask for all a block offers.          *)

\* The classes the requests fall into, and what the blocks of these classes offer.
Asked    == {SizeClass(n) : n \in Sizes} \ {Large}
Offer    == [c \in Classes |-> IF c \in Asked THEN BlockCount[c] * UserSize(c) ELSE 0]
Capacity == SumOver(Offer)

\* No request is larger than the blocks of the last class offer.
NoneLarge == \A n \in Sizes : SizeClass(n) # Large

\* A request asks for all that a block of its class offers, or for at least as much
\* as all classes in use offer together.  Requests that are all large do.
WholeBlocks ==
    /\ HeaderFits /\ RequestsBelowWord
    /\ \A n \in Sizes : IF SizeClass(n) = Large THEN n >= Capacity
                                                ELSE n = UserSize(SizeClass(n))

\* The requests with which current_usage can serve as the end of the large blocks.
RequestsKeepCursor == NoneLarge \/ WholeBlocks

\* What callers have of each class, of all classes, and the rest of current_usage.
TakenBytes == [c \in Classes |-> (BlockCount[c] - free_count[c]) * UserSize(c)]
Out        == SumOver(TakenBytes)
Cursor     == current_usage - Out

\* The blocks alloc has handed out and free has not finished with.
Given == {h.block : h \in Owned}
             \cup {block[t] : t \in {u \in Thread : pc[u] \in {"push", "uncount"}}}

\* The large blocks end before the cursor.  Between cutting one and counting it, alloc
\* has yet to add the size asked for.
CursorInv ==
    initialized =>
        /\ \A c \in Classes \ Asked : free_count[c] = BlockCount[c]
        /\ Cursor \in 0..(2 * buddy_size)
        /\ \A b \in Given : IF header[b].class = Large
                            THEN b + header[b].next <= buddy_start + Cursor
                            ELSE header[b].class \in Asked
        /\ \A t \in Thread : pc[t] = "count" /\ block[t] # Nil /\ SizeClass(size[t]) = Large =>
               /\ Cursor <= buddy_size /\ size[t] <= buddy_size
               /\ block[t] + header[block[t]].next <= buddy_start + Cursor + size[t]

\* More blocks offer more.
LEMMA ProductGrows ==
    ASSUME NEW a \in Nat, NEW b \in Nat, NEW n \in Nat, a <= b
    PROVE  a * n \in Nat /\ b * n \in Nat /\ a * n <= b * n
<1>1. PICK d \in Nat : b = a + d
  <2>1. b - a \in Nat /\ b = a + (b - a)
    OBVIOUS
  <2> QED
    BY <2>1
<1>2. b * n = a * n + d * n /\ d * n \in Nat /\ a * n \in Nat
  BY <1>1
<1> QED
  BY <1>2

\* There are finitely many classes.
LEMMA ClassesFinite == IsFiniteSet(Classes)
<1>1. Classes = 1..Len(BlockSize) /\ 1 \in Int /\ Len(BlockSize) \in Int
  BY Tables
<1> QED
  BY <1>1, FS_Interval

\* What the blocks of each class offer.
LEMMA OfferType ==
    /\ Offer \in [Classes -> Nat] /\ Capacity \in Nat
    /\ \A c \in Classes : UserSize(c) \in Nat /\ BlockCount[c] * UserSize(c) \in Nat
<1>1. \A c \in Classes : UserSize(c) \in Nat /\ BlockCount[c] * UserSize(c) \in Nat
  <2> TAKE c \in Classes
  <2>1. UserSize(c) \in Nat /\ BlockCount[c] \in Nat
    <3>1. UserSize(c) \in 0..(Word - 1)
      BY UserSizes
    <3> QED
      BY <3>1, Tables
  <2> PICK n \in Nat : n = UserSize(c)
    BY <2>1
  <2> PICK k \in Nat : k = BlockCount[c]
    BY <2>1
  <2>2. k * n \in Nat
    OBVIOUS
  <2> QED
    BY <2>2
<1>2. Offer \in [Classes -> Nat]
  BY <1>1 DEF Offer
<1> QED
  BY <1>1, <1>2, ClassesFinite, SumIsCount DEF Capacity

\* The classes offer no more bytes than they have.
LEMMA CapacityFits ==
    ASSUME HeaderFits
    PROVE  Capacity <= buddy_start
<1> DEFINE E == [c \in Classes |-> Base[c]..(Base[c + 1] - 1)]
           U == 0..(buddy_start - 1)
<1>1. IsFiniteSet(U) /\ Cardinality(U) = buddy_start
  <2>1. buddy_start \in Nat /\ 0 + buddy_start - 1 = buddy_start - 1
    BY BaseDef
  <2>2. IsFiniteSet(0..(0 + buddy_start - 1)) /\ Cardinality(0..(0 + buddy_start - 1)) = buddy_start
    BY <2>1, IntervalCounted
  <2> QED
    BY <2>1, <2>2
<1>2. ASSUME NEW c \in Classes
      PROVE  /\ Base[c] \in Nat /\ Base[c + 1] \in Nat /\ Base[c + 1] <= buddy_start
             /\ Offer[c] <= Cardinality(E[c])
  <2>1. /\ Base[c] \in Nat /\ Base[c + 1] \in Nat
        /\ Base[c + 1] = Base[c] + BlockSize[c] * BlockCount[c]
    BY BaseDef
  <2>2. Base[c + 1] <= buddy_start
    <3>1. Len(BlockSize) + 1 \in (c + 1)..(Len(BlockSize) + 1)
      BY Tables
    <3> QED
      BY <3>1, BaseOrdered DEF buddy_start
  <2>3. UserSize(c) \in Nat /\ UserSize(c) <= BlockSize[c] /\ BlockSize[c] \in Nat /\ BlockCount[c] \in Nat
    <3>1. /\ UserSize(c) \in Nat /\ UserSize(c) + Header <= BlockSize[c] /\ Header \in Nat
          /\ BlockSize[c] \in Nat /\ BlockCount[c] \in Nat
      BY UserSizeFits, SizesAssumption, Tables
    <3> PICK u : u = UserSize(c)
      OBVIOUS
    <3> QED
      BY <3>1
  <2> PICK u \in Nat : u = UserSize(c)
    BY <2>3
  <2> PICK s \in Nat : s = BlockSize[c]
    BY <2>3
  <2> PICK k \in Nat : k = BlockCount[c]
    BY <2>3
  <2>4. u * k \in Nat /\ s * k \in Nat /\ u * k <= s * k /\ k * u = u * k
    BY <2>3, ProductGrows
  <2> PICK n \in Nat : n = s * k
    BY <2>4
  <2> PICK a \in Nat : a = Base[c]
    BY <2>1
  <2>5. Cardinality(E[c]) = n
    <3>1. Base[c + 1] - 1 = a + n - 1
      BY <2>1
    <3> QED
      BY <3>1, IntervalCounted
  <2>6. Offer[c] = k * u \/ Offer[c] = 0
    BY DEF Offer
  <2>7. Offer[c] <= n
    BY <2>4, <2>6
  <2> QED
    BY <2>1, <2>2, <2>5, <2>7
<1>3. ASSUME NEW c \in Classes, NEW d \in Classes, c # d
      PROVE  E[c] \cap E[d] = {}
  <2>1. ASSUME NEW x \in Classes, NEW y \in Classes, x < y
        PROVE  E[x] \cap E[y] = {}
    <3>1. y \in (x + 1)..(Len(BlockSize) + 1)
      BY <2>1, Tables
    <3>2. Base[x + 1] <= Base[y]
      BY <3>1, BaseOrdered
    <3> QED
      BY <1>2, <3>2
  <2>2. c < d \/ d < c
    BY <1>3, Tables
  <2> QED
    BY <2>1, <2>2
<1>4. E \in [Classes -> SUBSET U]
  <2>1. \A c \in Classes : Base[c]..(Base[c + 1] - 1) \subseteq 0..(buddy_start - 1)
    <3> TAKE c \in Classes
    <3>1. buddy_start \in Nat
      BY BaseDef
    <3> QED
      BY <1>2, <3>1
  <2> QED
    BY <2>1
<1>5. /\ \A c \in Classes : Offer[c] <= Cardinality(E[c])
      /\ \A c, d \in Classes : c # d => E[c] \cap E[d] = {}
  BY <1>2, <1>3
<1> HIDE DEF E, U
<1>6. SumOver(Offer) <= Cardinality(U)
  BY <1>1, <1>4, <1>5, ClassesFinite, OfferType, SumOfParts
<1> QED
  BY <1>1, <1>6 DEF Capacity

\* What callers have of the classes is a number, and no more than these offer.
LEMMA OutBounded ==
    ASSUME IInv, \A c \in Classes \ Asked : free_count[c] = BlockCount[c]
    PROVE  /\ TakenBytes \in [Classes -> Nat]
           /\ Out \in Nat /\ Out <= Capacity
<1>1. ASSUME NEW c \in Classes
      PROVE  TakenBytes[c] \in Nat /\ TakenBytes[c] <= Offer[c]
  <2>1. free_count[c] \in 0..BlockCount[c] /\ BlockCount[c] \in Nat /\ UserSize(c) \in Nat
    BY CountsBounded, Tables, OfferType
  <2> PICK n \in Nat : n = UserSize(c)
    BY <2>1
  <2> PICK k \in Nat : k = BlockCount[c]
    BY <2>1
  <2> PICK m \in 0..k : m = free_count[c]
    BY <2>1
  <2>2. k - m \in Nat /\ k - m <= k
    OBVIOUS
  <2>3. (k - m) * n \in Nat /\ (k - m) * n <= k * n
    BY <2>2, ProductGrows
  <2>4. TakenBytes[c] = (k - m) * n
    BY DEF TakenBytes
  <2>5. CASE c \in Asked
    <3>1. Offer[c] = k * n
      BY <2>5 DEF Offer
    <3> QED
      BY <2>3, <2>4, <3>1
  <2>6. CASE c \notin Asked
    <3>1. Offer[c] = 0
      BY <2>6 DEF Offer
    <3>2. k - m = 0
      BY <2>6
    <3>3. (k - m) * n = 0
      BY <3>2
    <3> QED
      BY <2>4, <3>1, <3>3
  <2> QED
    BY <2>5, <2>6
<1>2. TakenBytes \in [Classes -> Nat]
  <2>1. TakenBytes = [c \in Classes |-> TakenBytes[c]]
    BY DEF TakenBytes
  <2> QED
    BY <1>1, <2>1
<1>3. Out \in Nat
  BY <1>2, ClassesFinite, SumIsCount DEF Out
<1>4. Out <= Capacity
  BY <1>1, <1>2, ClassesFinite, OfferType, SumGrows DEF Out, Capacity
<1> QED
  BY <1>2, <1>3, <1>4

\* The same after a step.
LEMMA OutBoundedNext ==
    IInv' /\ (\A c \in Classes \ Asked : free_count'[c] = BlockCount[c]) =>
        Out' \in Nat /\ Out' <= Capacity
<1>1. IInv /\ (\A c \in Classes \ Asked : free_count[c] = BlockCount[c]) =>
          Out \in Nat /\ Out <= Capacity
  BY OutBounded
<1>2. IInv' /\ (\A c \in Classes \ Asked : free_count[c] = BlockCount[c])' =>
          (Out \in Nat /\ Out <= Capacity)'
  BY <1>1, PTL
<1> QED
  BY <1>2

\* The counters stay within their classes after a step, too.
LEMMA CountsBoundedNext ==
    IInv' => \A c \in Classes : free_count'[c] \in 0..BlockCount[c]
<1>1. IInv => \A c \in Classes : free_count[c] \in 0..BlockCount[c]
  BY CountsBounded
<1>2. IInv' => (\A c \in Classes : free_count[c] \in 0..BlockCount[c])'
  BY <1>1, PTL
<1> QED
  BY <1>2

\* One block of class c more, or less, is taken.
LEMMA OneMoreTaken ==
    ASSUME IInv, NEW c \in Classes, IInv',
           \/ free_count' = [free_count EXCEPT ![c] = @ - 1]
           \/ free_count' = [free_count EXCEPT ![c] = @ + 1]
    PROVE  Out' = IF free_count'[c] = free_count[c] - 1 THEN Out + UserSize(c)
                                                        ELSE Out - UserSize(c)
<1> DEFINE f == [d \in Classes |-> (BlockCount[d] - free_count[d]) * UserSize(d)]
           g == [d \in Classes |-> (BlockCount[d] - free_count'[d]) * UserSize(d)]
<1>1. \A d \in Classes : /\ free_count[d] \in 0..BlockCount[d] /\ BlockCount[d] \in Nat
                         /\ free_count'[d] \in 0..BlockCount[d] /\ UserSize(d) \in Nat
  BY CountsBounded, CountsBoundedNext, Tables, OfferType
<1>2. f \in [Classes -> Nat] /\ g \in [Classes -> Nat]
  <2>1. ASSUME NEW k \in Nat, NEW m \in 0..k, NEW n \in Nat
        PROVE  (k - m) * n \in Nat
    <3>1. k - m \in Nat
      OBVIOUS
    <3> QED
      BY <3>1
  <2> QED
    BY <1>1, <2>1
<1>3. \A d \in Classes \ {c} : g[d] = f[d]
  BY DEF IInv
<1>4. /\ Out = SumOver(f) /\ Out' = SumOver(g)
      /\ SumOver(f) \in Nat /\ SumOver(g) \in Nat
  <2>1. Out = SumOver(f) /\ Out' = SumOver(g)
    BY DEF Out, TakenBytes
  <2> HIDE DEF f, g
  <2> QED
    BY <1>2, <2>1, ClassesFinite, SumIsCount
<1>5. SumOver(g) + f[c] = SumOver(f) + g[c]
  <2> HIDE DEF f, g
  <2> QED
    BY <1>2, <1>3, ClassesFinite, SumDiffers
<1> PICK n \in Nat : n = UserSize(c)
  BY <1>1
<1> PICK k \in Nat : k = BlockCount[c]
  BY <1>1
<1> PICK m \in 0..k : m = free_count[c]
  BY <1>1
<1> PICK j \in Nat : j = k - m
  OBVIOUS
<1>6. f[c] = j * n /\ g[c] = (k - free_count'[c]) * n
  BY DEF IInv
<1> PICK x : x = f[c]
  OBVIOUS
<1> PICK y : y = g[c]
  OBVIOUS
<1> PICK a : a = SumOver(f)
  OBVIOUS
<1> PICK b : b = SumOver(g)
  OBVIOUS
<1>7. /\ x \in Nat /\ y \in Nat /\ a \in Nat /\ b \in Nat
      /\ Out = a /\ Out' = b /\ b + x = a + y
      /\ x = j * n /\ y = (k - free_count'[c]) * n
  BY <1>2, <1>4, <1>5, <1>6
<1> HIDE DEF f, g
<1>8. CASE free_count' = [free_count EXCEPT ![c] = @ - 1]
  <2>1. free_count'[c] = m - 1 /\ free_count'[c] = free_count[c] - 1
    BY <1>8 DEF IInv
  <2>2. k - (m - 1) = j + 1 /\ (j + 1) * n = j * n + n
    OBVIOUS
  <2>3. y = x + n
    BY <1>7, <2>1, <2>2
  <2>4. b = a + n
    BY <1>7, <2>3
  <2> QED
    BY <1>7, <2>1, <2>4
<1>9. CASE free_count' = [free_count EXCEPT ![c] = @ + 1]
  <2>1. free_count'[c] = m + 1 /\ free_count'[c] # free_count[c] - 1
    BY <1>9 DEF IInv
  <2>2. k - (m + 1) = j - 1 /\ (j - 1) * n + n = j * n
    OBVIOUS
  <2>3. y + n = x
    BY <1>7, <2>1, <2>2
  <2>4. b = a - n
    BY <1>7, <2>3
  <2> QED
    BY <1>7, <2>1, <2>4
<1> QED
  BY <1>8, <1>9

\* While the large blocks end before the cursor, current_usage is ahead of them.
LEMMA CursorLeads ==
    ASSUME HeaderFits, IInv, CursorInv
    PROVE  CursorAhead
<1>1. CASE ~initialized
  <2>1. current_usage = 0 /\ pool_size \in Nat /\ Owned = {}
    BY <1>1 DEF IInv, NotCreated, Owned
  <2> QED
    BY <2>1 DEF CursorAhead
<1>2. CASE initialized
  <2>1. /\ pool_size \in Nat /\ buddy_start \in Nat /\ buddy_start <= pool_size
        /\ buddy_size = pool_size - buddy_start
    BY <1>2, PoolBelowWord DEF IInv, buddy_size
  <2>2. Out \in Nat /\ Out <= buddy_start /\ Capacity \in Nat
    BY <1>2, <2>1, OutBounded, CapacityFits, OfferType DEF CursorInv
  <2>3. /\ current_usage \in Nat /\ Cursor = current_usage - Out
        /\ Cursor \in 0..(2 * buddy_size)
    BY <1>2, WordAssumption DEF CursorInv, Cursor, IInv
  <2>4. current_usage <= 2 * pool_size
    BY <2>1, <2>2, <2>3
  <2>5. ASSUME NEW h \in Owned, header[h.block].class = Large
        PROVE  h.block + header[h.block].next <= buddy_start + current_usage
    <3>1. h.block \in Given
      BY DEF Given
    <3>2. h.block + header[h.block].next <= buddy_start + Cursor
      BY <1>2, <2>5, <3>1 DEF CursorInv
    <3>3. h.block \in Nat /\ header[h.block].next \in Nat
      <4>1. h.block \in DOMAIN header
        BY DEF IInv, OwnersOK, IsOwner
      <4>2. Created
        BY <1>2 DEF IInv
      <4> QED
        BY <2>5, <4>1, <4>2, BlockInPool DEF Room
    <3> QED
      BY <2>1, <2>2, <2>3, <3>2, <3>3
  <2> QED
    BY <2>4, <2>5 DEF CursorAhead
<1> QED
  BY <1>1, <1>2

\* A step that only moves blocks within what is given, or takes none of the large
\* region, leaves the cursor where it is.
LEMMA CursorKept ==
    ASSUME CursorInv, initialized, Given' \subseteq Given,
           UNCHANGED <<current_usage, free_count, pool_size>>, \A b \in Given : Kept(b),
           \A t \in Thread : pc'[t] = "count" /\ block'[t] # Nil /\ SizeClass(size'[t]) = Large =>
               /\ pc[t] = "count" /\ block'[t] = block[t] /\ size'[t] = size[t]
               /\ header'[block[t]].next = header[block[t]].next
    PROVE  CursorInv'
<1>1. Out' = Out /\ Cursor' = Cursor /\ buddy_size' = buddy_size
  BY DEF Out, TakenBytes, Cursor, buddy_size
<1>2. /\ \A c \in Classes \ Asked : free_count'[c] = BlockCount[c]
      /\ Cursor' \in 0..(2 * buddy_size')
  BY <1>1 DEF CursorInv
<1>3. \A b \in Given' : IF header'[b].class = Large
                        THEN b + header'[b].next <= buddy_start + Cursor'
                        ELSE header'[b].class \in Asked
  BY <1>1 DEF CursorInv, Kept
<1>4. \A t \in Thread : pc'[t] = "count" /\ block'[t] # Nil /\ SizeClass(size'[t]) = Large =>
          /\ Cursor' <= buddy_size' /\ size'[t] <= buddy_size'
          /\ block'[t] + header'[block'[t]].next <= buddy_start + Cursor' + size'[t]
  BY <1>1 DEF CursorInv
<1> QED
  BY <1>2, <1>3, <1>4 DEF CursorInv

\* A block is given when a caller holds it, when realloc is about to copy it, or when
\* free is about to put it back.
LEMMA GivenIs ==
    \A b : b \in Given <=>
        \/ \E h \in held : b = h.block
        \/ \E t \in Thread : pc[t] \in {"take", "count", "refree"} /\ old[t] # Nil /\ b = old[t].block
        \/ \E t \in Thread : pc[t] \in {"push", "uncount"} /\ b = block[t]
BY DEF Given, Owned

\* The same after a step.
LEMMA GivenIsNext ==
    \A b : b \in Given' <=>
        \/ \E h \in held' : b = h.block
        \/ \E t \in Thread :
               pc'[t] \in {"take", "count", "refree"} /\ old'[t] # Nil /\ b = old'[t].block
        \/ \E t \in Thread : pc'[t] \in {"push", "uncount"} /\ b = block'[t]
BY DEF Given, Owned

\* Blocks that are given have a header.
LEMMA GivenHaveHeaders ==
    ASSUME IInv
    PROVE  Given \subseteq DOMAIN header
<1>1. \A h \in Owned : h.block \in DOMAIN header
  BY DEF IInv, OwnersOK, IsOwner
<1>2. \A t \in Thread : pc[t] \in {"push", "uncount"} => block[t] \in DOMAIN header
  BY DEF IInv, LocalsOK
<1> QED
  BY <1>1, <1>2 DEF Given

\* A step of thread t that gets no block from the large region and counts nothing.
LEMMA CursorStays ==
    ASSUME IInv, CursorInv, initialized, NEW t \in Thread,
           UNCHANGED <<current_usage, free_count, pool_size>>,
           \A b \in Given : Kept(b), header' = header \/ lock = t,
           \A u \in Thread \ {t} : /\ pc'[u] = pc[u] /\ block'[u] = block[u]
                                   /\ size'[u] = size[u] /\ old'[u] = old[u],
           \A h \in held' : h.block \in Given,
           pc'[t] \in {"take", "count", "refree"} /\ old'[t] # Nil => old'[t].block \in Given,
           pc'[t] \in {"push", "uncount"} => block'[t] \in Given,
           pc'[t] = "count" => block'[t] = Nil \/ SizeClass(size'[t]) # Large
    PROVE  CursorInv'
<1>1. Given' \subseteq Given
  <2> SUFFICES ASSUME NEW b \in Given'
               PROVE  b \in Given
    OBVIOUS
  <2>1. CASE \E h \in held' : b = h.block
    BY <2>1
  <2>2. ASSUME NEW u \in Thread, pc'[u] \in {"take", "count", "refree"}, old'[u] # Nil,
               b = old'[u].block
        PROVE  b \in Given
    <3>1. CASE u = t
      BY <2>2, <3>1
    <3>2. CASE u # t
      <4>1. pc[u] \in {"take", "count", "refree"} /\ old[u] # Nil /\ b = old[u].block
        BY <2>2, <3>2
      <4> QED
        BY <4>1, GivenIs
    <3> QED
      BY <3>1, <3>2
  <2>3. ASSUME NEW u \in Thread, pc'[u] \in {"push", "uncount"}, b = block'[u]
        PROVE  b \in Given
    <3>1. CASE u = t
      BY <2>3, <3>1
    <3>2. CASE u # t
      <4>1. pc[u] \in {"push", "uncount"} /\ b = block[u]
        BY <2>3, <3>2
      <4> QED
        BY <4>1, GivenIs
    <3> QED
      BY <3>1, <3>2
  <2> QED
    BY <2>1, <2>2, <2>3, GivenIsNext
<1>2. ASSUME NEW u \in Thread, pc'[u] = "count", block'[u] # Nil, SizeClass(size'[u]) = Large
      PROVE  /\ pc[u] = "count" /\ block'[u] = block[u] /\ size'[u] = size[u]
             /\ header'[block[u]].next = header[block[u]].next
  <2>1. u # t
    BY <1>2
  <2>2. pc[u] = "count" /\ block'[u] = block[u] /\ size'[u] = size[u]
    BY <1>2, <2>1
  <2>3. lock = u
    BY <2>2 DEF IInv, LockOK
  <2> QED
    BY <2>1, <2>2, <2>3
<1> QED
  BY <1>1, <1>2, CursorKept

\* The steps that change no header and are not taken inside alloc or free.
LEMMA CursorCalls ==
    ASSUME IInv, CursorInv, initialized, NEW t \in Thread,
           \/ \E n \in Sizes : Alloc(t, n) \/ \E h \in held : Realloc(t, h, n)
           \/ \E h \in held : Free(t, h)
           \/ ReallocFree(t)
    PROVE  CursorInv'
<1>0. /\ LocalsOK /\ OwnersOK /\ DOMAIN pc = Thread /\ DOMAIN old = Thread
      /\ DOMAIN block = Thread /\ DOMAIN size = Thread
      /\ \A h \in held : h.block \in Given
  <2>1. \A h \in held : h.block \in Given
    BY GivenIs
  <2> QED
    BY <2>1 DEF IInv, LocalsOK
<1>1. ASSUME header' = header
      PROVE  \A b \in Given : Kept(b)
  BY <1>1, GivenHaveHeaders DEF Kept
<1>2. ASSUME NEW n \in Sizes, Alloc(t, n)
      PROVE  CursorInv'
  <2>1. /\ UNCHANGED <<create, lists, block, checker, held>>
        /\ size' = [size EXCEPT ![t] = n] /\ old' = [old EXCEPT ![t] = Nil]
        /\ pc' = [pc EXCEPT ![t] = "take"]
    BY <1>2 DEF Alloc
  <2> QED
    BY <1>0, <1>1, <2>1, CursorStays DEF create, lists
<1>3. ASSUME NEW n \in Sizes, NEW h \in held, Realloc(t, h, n)
      PROVE  CursorInv'
  <2>1. UNCHANGED <<create, lists, block, checker>> /\ pc[t] = "idle"
    BY <1>3 DEF Realloc
  <2>2. CASE held' = (held \ {h}) \cup {[h EXCEPT !.size = n]} /\ UNCHANGED <<lock, size, old, pc>>
    <3>1. [h EXCEPT !.size = n].block = h.block
      <4>1. h = [block |-> h.block, size |-> h.size]
        BY <1>0 DEF OwnersOK, IsOwner, Owned
      <4> QED
        BY <4>1
    <3>2. \A g \in held' : g.block \in Given
      BY <1>0, <2>2, <3>1
    <3> QED
      BY <1>0, <1>1, <2>1, <2>2, <3>2, CursorStays DEF create, lists
  <2>3. CASE /\ size' = [size EXCEPT ![t] = n] /\ old' = [old EXCEPT ![t] = h]
             /\ pc' = [pc EXCEPT ![t] = "take"] /\ held' = held \ {h}
    BY <1>0, <1>1, <2>1, <2>3, CursorStays DEF create, lists
  <2> QED
    BY <1>3, <2>2, <2>3 DEF Realloc
<1>4. ASSUME NEW h \in held, Free(t, h)
      PROVE  CursorInv'
  <2>1. /\ UNCHANGED <<create, lists, size, old, checker>> /\ held' = held \ {h}
        /\ block' = [block EXCEPT ![t] = h.block] /\ pc' = [pc EXCEPT ![t] = "push"]
    BY <1>4 DEF Free
  <2> QED
    BY <1>0, <1>1, <2>1, CursorStays DEF create, lists
<1>5. CASE ReallocFree(t)
  <2>1. /\ UNCHANGED <<create, lists, size, old, checker, held>> /\ pc[t] = "refree"
        /\ block' = [block EXCEPT ![t] = old[t].block] /\ pc' = [pc EXCEPT ![t] = "push"]
    BY <1>5 DEF ReallocFree
  <2>2. old[t].block \in Given
    <3>1. old[t] # Nil
      BY <1>0, <2>1 DEF LocalsOK
    <3> QED
      BY <2>1, <3>1, GivenIs
  <2> QED
    BY <1>0, <1>1, <2>1, <2>2, CursorStays DEF create, lists
<1> QED
  BY <1>2, <1>3, <1>4, <1>5

\* check looks and touches nothing.
LEMMA CursorChecks ==
    ASSUME IInv, CursorInv, initialized, NEW t \in Thread,
           Check(t) \/ CheckHead(t) \/ CheckWalk(t) \/ CheckCompare(t)
    PROVE  CursorInv'
<1>0. /\ DOMAIN pc = Thread /\ DOMAIN old = Thread /\ DOMAIN block = Thread /\ DOMAIN size = Thread
      /\ \A h \in held : h.block \in Given
  <2>1. \A h \in held : h.block \in Given
    BY GivenIs
  <2> QED
    BY <2>1 DEF IInv, LocalsOK
<1>1. /\ UNCHANGED <<create, lists, lock, old, held>>
      /\ pc'[t] \in {"idle", "head", "walk"}
      /\ \A u \in Thread \ {t} : pc'[u] = pc[u] /\ block'[u] = block[u] /\ size'[u] = size[u]
  <2>1. CASE Check(t)
    BY <1>0, <2>1 DEF Check, locals
  <2>2. CASE CheckHead(t)
    BY <1>0, <2>2 DEF CheckHead
  <2>3. CASE CheckWalk(t)
    BY <1>0, <2>3 DEF CheckWalk
  <2>4. CASE CheckCompare(t)
    BY <1>0, <2>4 DEF CheckCompare, locals
  <2> QED
    BY <2>1, <2>2, <2>3, <2>4
<1>2. \A b \in Given : Kept(b)
  BY <1>1, GivenHaveHeaders DEF Kept, lists
<1> QED
  BY <1>0, <1>1, <1>2, CursorStays DEF create, lists

\* free puts the block on its list, and says no less of it than before.
LEMMA CursorPush ==
    ASSUME IInv, CursorInv, initialized, NEW t \in Thread, FreePush(t)
    PROVE  CursorInv'
<1> PICK b : b = block[t]
  OBVIOUS
<1>0. /\ LockOK /\ Created /\ b \in DOMAIN header /\ lock = t /\ Large \notin Classes
      /\ DOMAIN pc = Thread /\ pc[t] = "push"
      /\ pc' = [pc EXCEPT ![t] = "uncount"]
      /\ UNCHANGED <<create, free_count, current_usage, lock, locals, checker, held>>
  BY Tables DEF FreePush, IInv, LocalsOK, LockOK
<1>1. \A a \in Given : Kept(a)
  <2> TAKE a \in Given
  <2>1. a \in DOMAIN header
    BY GivenHaveHeaders
  <2>2. CASE header[b].class \in Classes
    <3>1. header' = [header EXCEPT ![b].next = free_list[header[b].class]]
      BY <2>2 DEF FreePush
    <3>2. header[b] = [class |-> header[b].class, next |-> header[b].next]
      BY <1>0 DEF Created
    <3>3. DOMAIN header' = DOMAIN header /\ header'[b].class = header[b].class
          /\ \A d \in DOMAIN header : d # b => header'[d] = header[d]
      BY <1>0, <3>1, <3>2
    <3> QED
      BY <1>0, <2>1, <2>2, <3>3 DEF Kept
  <2>3. CASE header[b].class \notin Classes
    <3>1. header' = header
      BY <2>3 DEF FreePush
    <3> QED
      BY <2>1, <3>1 DEF Kept
  <2> QED
    BY <2>2, <2>3
<1>2. (\A h \in held : h.block \in Given) /\ b \in Given
  BY <1>0, GivenIs
<1> QED
  BY <1>0, <1>1, <1>2, CursorStays DEF create, locals

\* alloc takes a block from a list, or finds none.
LEMMA CursorTakesSmall ==
    ASSUME IInv, CursorInv, initialized, NEW t \in Thread, pc[t] = "take",
           UNCHANGED <<header, current_usage>>,
           pc' = [pc EXCEPT ![t] = "count"],
           \A u \in Thread \ {t} : block'[u] = block[u],
           block'[t] = Nil \/ SizeClass(size[t]) # Large,
           UNCHANGED <<create, free_count, lock, size, old, checker, held>>
    PROVE  CursorInv'
<1>1. \A b \in Given : Kept(b)
  BY GivenHaveHeaders DEF Kept
<1>2. \A h \in held : h.block \in Given
  BY GivenIs
<1>3. old[t] # Nil => old[t].block \in Given
  BY GivenIs
<1> QED
  BY <1>1, <1>2, <1>3, CursorStays DEF create, IInv, LocalsOK

\* The quantities the cursor is computed from, and what they mean.
LEMMA CursorNumbers ==
    ASSUME HeaderFits, IInv, CursorInv, initialized
    PROVE  /\ pool_size \in Nat /\ 2 * pool_size < Word /\ Word \in Nat \ {0}
           /\ buddy_start \in Nat /\ buddy_start <= pool_size
           /\ buddy_size = pool_size - buddy_start
           /\ Out \in Nat /\ Out <= Capacity /\ Capacity \in Nat /\ Capacity <= buddy_start
           /\ current_usage \in Nat /\ Cursor \in Nat /\ current_usage = Cursor + Out
           /\ Cursor <= 2 * buddy_size
<1>1. /\ pool_size \in Nat /\ 2 * pool_size < Word /\ Word \in Nat \ {0}
      /\ buddy_start \in Nat /\ buddy_start <= pool_size
      /\ buddy_size = pool_size - buddy_start
  BY PoolBelowWord DEF IInv, buddy_size
<1>2. Out \in Nat /\ Out <= Capacity /\ Capacity \in Nat /\ Capacity <= buddy_start
  BY OutBounded, CapacityFits, OfferType DEF CursorInv
<1>3. current_usage \in Nat /\ Cursor = current_usage - Out /\ Cursor \in 0..(2 * buddy_size)
  BY <1>1 DEF CursorInv, Cursor, IInv
<1> QED
  BY <1>1, <1>2, <1>3

\* A large block is given with its size, and lies in the pool.
LEMMA GivenNumbers ==
    ASSUME IInv, initialized, NEW b \in DOMAIN header, header[b].class = Large
    PROVE  b \in Nat /\ header[b].next \in Nat \ {0} /\ b + header[b].next <= pool_size
BY BlockInPool DEF IInv, Room

\* alloc cuts a block from the large region: the cursor moves by what is cut.
LEMMA CursorTakesLarge ==
    ASSUME WholeBlocks, IInv, CursorInv, initialized, NEW t \in Thread, pc[t] = "take",
           SizeClass(size[t]) = Large, TakeLarge(t), pc' = [pc EXCEPT ![t] = "count"],
           UNCHANGED <<create, free_count, lock, size, old, checker, held>>
    PROVE  CursorInv'
<1> PICK n : n = size[t]
  OBVIOUS
<1> PICK need : need = AlignUp(size[t] + Header)
  OBVIOUS
<1> PICK start : start = (buddy_start + current_usage) % Word
  OBVIOUS
<1>0. /\ HeaderFits /\ RequestsBelowWord /\ CursorAhead /\ n \in Sizes /\ n \in Nat
      /\ lock = t /\ DOMAIN pc = Thread /\ DOMAIN block = Thread /\ LockOK
  BY CursorLeads, SizesAssumption DEF WholeBlocks, IInv, LocalsOK, LockOK
<1>1. CASE ~((current_usage + need) % Word <= buddy_size)
  <2>1. block' = [block EXCEPT ![t] = Nil] /\ UNCHANGED <<header, current_usage>>
    BY <1>1 DEF TakeLarge
  <2> QED
    BY <1>0, <2>1, CursorTakesSmall
<1>2. CASE (current_usage + need) % Word <= buddy_size
  <2>1. /\ block' = [block EXCEPT ![t] = start] /\ block'[t] = start
        /\ current_usage' = (current_usage + need) % Word
        /\ header' = [b \in DOMAIN header \cup {start} |->
                         IF b = start THEN [class |-> Large, next |-> need] ELSE header[b]]
    BY <1>0, <1>2 DEF TakeLarge
  <2>2. /\ need \in Nat \ {0} /\ n + Header <= need
        /\ start \in Nat /\ start + need <= pool_size
        /\ start \notin Small
        /\ start = buddy_start + current_usage
        /\ (current_usage + need) % Word = current_usage + need
        /\ \A b \in Used : header[b].class = Large => b + header[b].next <= start
    BY <1>0, <1>2, LargeBlockNew
  <2>3. /\ header'[start].next = need
        /\ \A b \in DOMAIN header : b # start => header'[b] = header[b]
    BY <2>1
  <2>4. /\ pool_size \in Nat /\ buddy_start \in Nat /\ buddy_start <= pool_size
        /\ buddy_size = pool_size - buddy_start
        /\ Out \in Nat /\ Out <= Capacity /\ Capacity \in Nat
        /\ current_usage \in Nat /\ Cursor \in Nat /\ current_usage = Cursor + Out
    BY <1>0, CursorNumbers
  <2>5. /\ Out' = Out /\ buddy_size' = buddy_size /\ Cursor' = current_usage' - Out'
    BY DEF Out, TakenBytes, Cursor, buddy_size, create
  <2>6. Capacity <= n
    BY <1>0 DEF WholeBlocks
  <2>7. /\ Cursor' = Cursor + need /\ Cursor' <= buddy_size' /\ n <= buddy_size'
        /\ start + need <= buddy_start + Cursor' + n
    <3>1. Header \in Nat
      BY SizesAssumption
    <3>2. current_usage' = current_usage + need /\ current_usage' <= buddy_size
      BY <1>2, <2>1, <2>2
    <3>3. Cursor' = Cursor + need /\ Cursor' <= buddy_size
      BY <2>2, <2>4, <2>5, <3>2
    <3> QED
      BY <1>0, <2>2, <2>4, <2>5, <2>6, <3>1, <3>2, <3>3
  <2>8. Given' \subseteq Given
    <3>1. \A u \in Thread : /\ pc'[u] \in {"take", "count", "refree"} => pc[u] \in {"take", "count", "refree"}
                            /\ pc'[u] \in {"push", "uncount"} => pc[u] = pc'[u] /\ block'[u] = block[u]
      BY <1>0, <2>1
    <3> QED
      BY <3>1 DEF Given, Owned
  <2>9. \A b \in Given : b # start /\ header'[b] = header[b]
    <3> TAKE b \in Given
    <3>1. b \in DOMAIN header
      BY GivenHaveHeaders
    <3>2. b \in Used
      <4>1. \A u \in Thread : pc[u] \notin {"push", "uncount"}
        BY <1>0 DEF LockOK
      <4> QED
        BY <4>1 DEF Given, Used
    <3>3. b # start
      <4>1. CASE header[b].class = Large
        <5>1. b \in Nat /\ header[b].next \in Nat \ {0} /\ b + header[b].next <= start
          BY <2>2, <3>1, <3>2, <4>1, GivenNumbers
        <5> QED
          BY <2>2, <5>1
      <4>2. CASE header[b].class # Large
        BY <2>2, <3>1, <4>2 DEF IInv, Created
      <4> QED
        BY <4>1, <4>2
    <3> QED
      BY <2>3, <3>1, <3>3
  <2>10. \A b \in Given' : IF header'[b].class = Large
                           THEN b + header'[b].next <= buddy_start + Cursor'
                           ELSE header'[b].class \in Asked
    <3> TAKE b \in Given'
    <3>1. b \in Given /\ header'[b] = header[b] /\ b \in DOMAIN header
      BY <2>8, <2>9, GivenHaveHeaders
    <3>2. CASE header[b].class = Large
      <4>1. b \in Nat /\ header[b].next \in Nat
        BY <3>1, <3>2, GivenNumbers
      <4>2. b + header[b].next <= buddy_start + Cursor
        BY <3>1, <3>2 DEF CursorInv
      <4> QED
        BY <2>2, <2>4, <2>7, <3>1, <3>2, <4>1, <4>2
    <3>3. CASE header[b].class # Large
      BY <3>1, <3>3 DEF CursorInv
    <3> QED
      BY <3>2, <3>3
  <2>11. ASSUME NEW u \in Thread, pc'[u] = "count"
         PROVE  u = t
    <3>1. pc[u] = "count" => lock = u
      BY <1>0 DEF LockOK
    <3> QED
      BY <1>0, <2>11, <3>1
  <2>12. Cursor' \in 0..(2 * buddy_size')
    BY <2>2, <2>4, <2>5, <2>7
  <2>13. \A c \in Classes \ Asked : free_count'[c] = BlockCount[c]
    BY DEF CursorInv
  <2>14. \A u \in Thread : pc'[u] = "count" /\ block'[u] # Nil /\ SizeClass(size'[u]) = Large =>
             /\ Cursor' <= buddy_size' /\ size'[u] <= buddy_size'
             /\ block'[u] + header'[block'[u]].next <= buddy_start + Cursor' + size'[u]
    BY <2>1, <2>3, <2>7, <2>11
  <2> QED
    BY <2>10, <2>12, <2>13, <2>14 DEF CursorInv
<1> QED
  BY <1>1, <1>2

\* A block that stays given, and whose header stays, is still where it has to be when
\* the cursor has not moved back.
LEMMA GivenStays ==
    ASSUME WholeBlocks, IInv, CursorInv, initialized, NEW b \in Given, header' = header,
           Cursor' \in Nat, Cursor <= Cursor'
    PROVE  IF header'[b].class = Large THEN b + header'[b].next <= buddy_start + Cursor'
                                       ELSE header'[b].class \in Asked
<1>1. b \in DOMAIN header
  BY GivenHaveHeaders
<1>2. CASE header[b].class = Large
  <2>1. b \in Nat /\ header[b].next \in Nat
    BY <1>1, <1>2, GivenNumbers
  <2>2. b + header[b].next <= buddy_start + Cursor
    BY <1>2 DEF CursorInv
  <2>3. Cursor \in Nat /\ buddy_start \in Nat
    BY CursorNumbers DEF WholeBlocks
  <2> QED
    BY <1>2, <2>1, <2>2, <2>3
<1>3. CASE header[b].class # Large
  BY <1>3 DEF CursorInv
<1> QED
  BY <1>2, <1>3

\* alloc counts its block: one of a class with what the block offers, and a large one
\* with the size asked for, by which the cursor moves.
LEMMA CursorCounts ==
    ASSUME WholeBlocks, IInv, IInv', CursorInv, initialized, NEW t \in Thread, AllocReturn(t)
    PROVE  CursorInv'
<1> PICK n : n = size[t]
  OBVIOUS
<1> PICK b : b = block[t]
  OBVIOUS
<1> PICK c : c = SizeClass(n)
  OBVIOUS
<1>0. /\ HeaderFits /\ pc[t] = "count" /\ lock = t /\ lock' = Nil
      /\ UNCHANGED <<create, header, free_list, checker>>
      /\ LockOK /\ LockOK' /\ LocalsOK /\ DOMAIN pc = Thread
      /\ n \in Sizes /\ n \in Nat
      /\ b # Nil => b \in DOMAIN header /\ header[b].class = c
  BY SizesAssumption DEF AllocReturn, LOCK_RELEASE, IInv, LocalsOK, LockOK, WholeBlocks
<1>1. /\ pool_size \in Nat /\ 2 * pool_size < Word /\ Word \in Nat \ {0}
      /\ buddy_start \in Nat /\ buddy_start <= pool_size
      /\ buddy_size = pool_size - buddy_start
      /\ Out \in Nat /\ Out <= Capacity /\ Capacity \in Nat /\ Capacity <= buddy_start
      /\ current_usage \in Nat /\ Cursor \in Nat /\ current_usage = Cursor + Out
      /\ Cursor <= 2 * buddy_size
  BY <1>0, CursorNumbers
<1>2. \A u \in Thread : pc'[u] \notin {"take", "count", "push", "uncount"}
  BY <1>0, NilAssumption DEF LockOK
<1>3. c \in Classes \/ c = Large
  BY <1>0, SizeClassFits
<1>4. /\ held' = held \cup IF b # Nil THEN {[block |-> b, size |-> n]} ELSE {old[t]} \ {Nil}
      /\ free_count' = IF b # Nil /\ c # Large THEN [free_count EXCEPT ![c] = @ - 1]
                                               ELSE free_count
      /\ current_usage' = IF b # Nil THEN (current_usage + n) % Word ELSE current_usage
  BY DEF AllocReturn
<1>5. \A a \in Given' : a \in Given \/ (b # Nil /\ a = b)
  <2> TAKE a \in Given'
  <2>1. ASSUME NEW h \in held', a = h.block
        PROVE  a \in Given \/ (b # Nil /\ a = b)
    <3>1. CASE h \in held
      BY <2>1, <3>1, GivenIs
    <3>2. CASE b # Nil /\ h = [block |-> b, size |-> n]
      BY <2>1, <3>2
    <3>3. CASE h = old[t] /\ old[t] # Nil
      BY <1>0, <2>1, <3>3, GivenIs
    <3> QED
      BY <1>4, <2>1, <3>1, <3>2, <3>3
  <2>2. ASSUME NEW u \in Thread, pc'[u] \in {"take", "count", "refree"}, old'[u] # Nil,
               a = old'[u].block
        PROVE  a \in Given
    <3>1. pc[u] \in {"take", "count", "refree"} /\ old'[u] = old[u]
      <4>1. CASE b # Nil /\ old[t] # Nil
        BY <1>0, <2>2, <4>1 DEF AllocReturn, locals
      <4>2. CASE ~(b # Nil /\ old[t] # Nil)
        BY <1>0, <2>2, <4>2 DEF AllocReturn, Return, LocalsOK
      <4> QED
        BY <4>1, <4>2
    <3> QED
      BY <2>2, <3>1, GivenIs
  <2> QED
    BY <1>2, <2>1, <2>2, GivenIsNext
<1>6. buddy_size' = buddy_size /\ Cursor' = current_usage' - Out'
  BY <1>0 DEF buddy_size, create, Cursor
<1>7. SUFFICES /\ \A d \in Classes \ Asked : free_count'[d] = BlockCount[d]
               /\ Cursor' \in 0..(2 * buddy_size) /\ Cursor <= Cursor'
               /\ b # Nil => IF c = Large THEN b + header[b].next <= buddy_start + Cursor'
                                          ELSE c \in Asked
  <2>1. Cursor' \in Nat
    BY <1>1, <1>7
  <2>2. \A a \in Given : IF header'[a].class = Large
                         THEN a + header'[a].next <= buddy_start + Cursor'
                         ELSE header'[a].class \in Asked
    BY <1>0, <1>7, <2>1, GivenStays
  <2>3. \A a \in Given' : IF header'[a].class = Large
                          THEN a + header'[a].next <= buddy_start + Cursor'
                          ELSE header'[a].class \in Asked
    BY <1>0, <1>5, <1>7, <2>2
  <2> QED
    BY <1>2, <1>6, <1>7, <2>3 DEF CursorInv
<1>8. CASE b = Nil
  <2>1. free_count' = free_count /\ current_usage' = current_usage
    BY <1>4, <1>8
  <2>2. Out' = Out
    BY <2>1 DEF Out, TakenBytes
  <2> QED
    BY <1>1, <1>6, <1>8, <2>1, <2>2 DEF CursorInv
<1>9. CASE b # Nil /\ c = Large
  <2>1. /\ Cursor <= buddy_size /\ n <= buddy_size
        /\ b + header[b].next <= buddy_start + Cursor + n
    BY <1>0, <1>9 DEF CursorInv
  <2>2. free_count' = free_count /\ current_usage' = (current_usage + n) % Word
    BY <1>4, <1>9
  <2>3. Out' = Out
    BY <2>2 DEF Out, TakenBytes
  <2>4. current_usage + n \in Nat /\ current_usage + n < Word
    BY <1>0, <1>1, <2>1
  <2>5. current_usage' = current_usage + n
    BY <1>1, <2>2, <2>4, SmallModulo
  <2>6. Cursor' = Cursor + n
    BY <1>0, <1>1, <1>6, <2>3, <2>5
  <2>7. Cursor' \in 0..(2 * buddy_size) /\ Cursor <= Cursor'
    BY <1>0, <1>1, <2>1, <2>6
  <2>8. b + header[b].next <= buddy_start + Cursor'
    BY <1>0, <1>1, <2>1, <2>6
  <2> QED
    BY <1>9, <2>2, <2>7, <2>8 DEF CursorInv
<1>10. CASE b # Nil /\ c # Large
  <2>1. c \in Classes /\ c \in Asked /\ n = UserSize(c)
    BY <1>0, <1>3, <1>10 DEF WholeBlocks, Asked
  <2>2. /\ free_count' = [free_count EXCEPT ![c] = @ - 1]
        /\ current_usage' = (current_usage + n) % Word
    BY <1>4, <1>10
  <2>3. free_count'[c] = free_count[c] - 1
    BY <2>1, <2>2 DEF IInv
  <2>4. Out' = Out + n
    BY <2>1, <2>2, <2>3, OneMoreTaken
  <2>5. \A d \in Classes \ Asked : free_count'[d] = BlockCount[d]
    BY <2>1, <2>2 DEF CursorInv, IInv
  <2>6. Out' <= Capacity
    BY <2>5, OutBoundedNext
  <2>7. current_usage + n \in Nat /\ current_usage + n < Word
    BY <1>0, <1>1, <2>4, <2>6
  <2>8. current_usage' = current_usage + n
    BY <1>1, <2>2, <2>7, SmallModulo
  <2>9. Cursor' = Cursor
    BY <1>0, <1>1, <1>6, <2>4, <2>8
  <2> QED
    BY <1>1, <1>10, <2>1, <2>5, <2>9
<1> QED
  BY <1>8, <1>9, <1>10

\* free subtracts what the block offers, which is what alloc had added.
LEMMA CursorUncounts ==
    ASSUME WholeBlocks, IInv, IInv', CursorInv, initialized, NEW t \in Thread, FreeReturn(t)
    PROVE  CursorInv'
<1> PICK b : b = block[t]
  OBVIOUS
<1> PICK c : c = header[b].class
  OBVIOUS
<1>0. /\ HeaderFits /\ pc[t] = "uncount" /\ lock = t /\ lock' = Nil
      /\ UNCHANGED <<create, header, free_list, checker, held>>
      /\ pc' = [pc EXCEPT ![t] = "idle"] /\ old' = [old EXCEPT ![t] = Nil]
      /\ block' = [block EXCEPT ![t] = Nil]
      /\ LockOK /\ LockOK' /\ DOMAIN pc = Thread /\ DOMAIN old = Thread
      /\ b \in DOMAIN header
  BY DEF FreeReturn, LOCK_RELEASE, Return, IInv, LocalsOK, LockOK, WholeBlocks
<1>1. /\ pool_size \in Nat /\ 2 * pool_size < Word /\ Word \in Nat \ {0}
      /\ Out \in Nat /\ Capacity \in Nat /\ buddy_start \in Nat
      /\ buddy_size = pool_size - buddy_start /\ buddy_start <= pool_size
      /\ current_usage \in Nat /\ Cursor \in Nat /\ current_usage = Cursor + Out
      /\ current_usage < Word /\ Cursor <= 2 * buddy_size
  BY <1>0, CursorNumbers DEF IInv
<1>2. \A u \in Thread : pc'[u] \notin {"take", "count", "push", "uncount"}
  BY <1>0, NilAssumption DEF LockOK
<1>3. \A a \in Given' : a \in Given
  <2> TAKE a \in Given'
  <2>1. CASE \E h \in held' : a = h.block
    BY <1>0, <2>1, GivenIs
  <2>2. ASSUME NEW u \in Thread, pc'[u] \in {"take", "count", "refree"}, old'[u] # Nil,
               a = old'[u].block
        PROVE  a \in Given
    <3>1. pc[u] \in {"take", "count", "refree"} /\ old'[u] = old[u]
      BY <1>0, <2>2
    <3> QED
      BY <2>2, <3>1, GivenIs
  <2> QED
    BY <1>2, <2>1, <2>2, GivenIsNext
<1>4. buddy_size' = buddy_size /\ Cursor' = current_usage' - Out'
  BY <1>0 DEF buddy_size, create, Cursor
<1>5. SUFFICES (\A d \in Classes \ Asked : free_count'[d] = BlockCount[d]) /\ Cursor' = Cursor
  <2>1. \A a \in Given' : IF header'[a].class = Large
                          THEN a + header'[a].next <= buddy_start + Cursor'
                          ELSE header'[a].class \in Asked
    BY <1>0, <1>1, <1>3, <1>5, GivenStays
  <2> QED
    BY <1>1, <1>2, <1>4, <1>5, <2>1 DEF CursorInv
<1>6. CASE c \notin Classes
  <2>1. UNCHANGED <<free_count, current_usage>>
    BY <1>6 DEF FreeReturn
  <2>2. Out' = Out
    BY <2>1 DEF Out, TakenBytes
  <2> QED
    BY <1>1, <1>4, <2>1, <2>2 DEF CursorInv
<1>7. CASE c \in Classes
  <2>1. c \in Asked
    <3>1. b \in Given
      BY <1>0, GivenIs
    <3> QED
      BY <1>7, <3>1, Tables DEF CursorInv
  <2>2. /\ free_count' = [free_count EXCEPT ![c] = @ + 1]
        /\ current_usage' = (current_usage - UserSize(c)) % Word
    BY <1>7 DEF FreeReturn
  <2>3. free_count'[c] # free_count[c] - 1
    <3>1. free_count[c] \in 0..BlockCount[c] /\ free_count'[c] = free_count[c] + 1
      BY <1>7, <2>2, CountsBounded DEF IInv
    <3> QED
      BY <3>1, <1>7, Tables
  <2> PICK n \in Nat : n = UserSize(c)
    BY <1>7, OfferType
  <2>4. Out' = Out - n
    BY <1>7, <2>2, <2>3, OneMoreTaken
  <2>5. \A d \in Classes \ Asked : free_count'[d] = BlockCount[d]
    BY <2>1, <2>2 DEF CursorInv, IInv
  <2>6. Out' \in Nat
    BY <2>5, OutBoundedNext
  <2>7. current_usage - n \in Nat /\ current_usage - n < Word
    BY <1>1, <2>4, <2>6
  <2>8. current_usage' = current_usage - n
    BY <1>1, <2>2, <2>7, SmallModulo
  <2>9. Cursor' = Cursor
    BY <1>1, <1>4, <2>4, <2>8
  <2> QED
    BY <2>5, <2>9
<1> QED
  BY <1>6, <1>7

\* The smallest number a cursor can be.
LEMMA BeginsInRange == \A n \in Nat : 0 \in 0..(2 * n)
OBVIOUS

\* A new pool has given nothing.
LEMMA CursorBegins ==
    ASSUME IInv, IInv', NEW buffer \in Buffers, Create(buffer)
    PROVE  CursorInv'
<1> SUFFICES ASSUME initialized'
             PROVE  CursorInv'
  BY DEF CursorInv
<1>0. /\ ~initialized /\ current_usage' = 0 /\ free_count' = BlockCount
      /\ UNCHANGED <<lock, pc, locals, checker, held>> /\ Created'
  BY DEF Create, IInv
<1>1. held' = {} /\ \A t \in Thread : pc'[t] = "idle"
  BY <1>0 DEF IInv, NotCreated
<1>2. Given' = {}
  BY <1>1, GivenIsNext
<1>3. Out' = 0
  <2> DEFINE f == [c \in Classes |-> (BlockCount[c] - free_count'[c]) * UserSize(c)]
             zero == [c \in Classes |-> 0]
  <2>1. f = zero
    <3>1. \A c \in Classes : (BlockCount[c] - free_count'[c]) * UserSize(c) = 0
      <4> TAKE c \in Classes
      <4>1. BlockCount[c] \in Nat /\ UserSize(c) \in Nat /\ free_count'[c] = BlockCount[c]
        BY <1>0, Tables, OfferType
      <4> PICK n \in Nat : n = UserSize(c)
        BY <4>1
      <4>2. BlockCount[c] - free_count'[c] = 0 /\ 0 * n = 0
        BY <4>1
      <4> QED
        BY <4>2
    <3> QED
      BY <3>1
  <2>2. SumOver(zero) = Cardinality(Units(zero, Classes)) /\ Units(zero, Classes) = {}
    <3>1. zero \in [Classes -> Nat]
      OBVIOUS
    <3>2. Units(zero, Classes) = {}
      BY DEF Units
    <3> HIDE DEF zero
    <3> QED
      BY <3>1, <3>2, ClassesFinite, SumIsCount
  <2>3. Out' = SumOver(f)
    BY DEF Out, TakenBytes
  <2> HIDE DEF f, zero
  <2> QED
    BY <2>1, <2>2, <2>3, FS_EmptySet
<1>4. buddy_size' \in Nat
  <2>1. PICK buf \in Buffers : pool_size' = buf.size /\ HoldsClasses(buf)
    BY <1>0 DEF Created
  <2>2. buf.size \in Nat /\ buddy_start <= buf.size /\ buddy_start \in Nat
    BY <2>1, WordAssumption, BaseDef DEF HoldsClasses
  <2> QED
    BY <2>1, <2>2 DEF buddy_size
<1>5. Cursor' \in 0..(2 * buddy_size')
  <2>1. Cursor' = 0
    <3>1. current_usage' = 0
      BY <1>0
    <3> QED
      BY <1>3, <3>1 DEF Cursor
  <2> QED
    BY <1>4, <2>1, BeginsInRange, Zenon
<1> QED
  BY <1>0, <1>1, <1>2, <1>5 DEF CursorInv

\* Every step of every thread keeps CursorInv.
LEMMA CursorNext ==
    ASSUME WholeBlocks, IInv, IInv', CursorInv, [Next]_vars
    PROVE  CursorInv'
<1>0. \A t \in Thread : pc[t] # "idle" => initialized
  BY InsideCreated
<1>1. CASE UNCHANGED vars
  <2>1. CASE ~initialized
    BY <1>1, <2>1 DEF CursorInv, vars, create
  <2>2. CASE initialized
    <3> USE <1>1 DEF vars, create, lists, locals
    <3>1. Given' = Given
      BY DEF Given, Owned
    <3>2. \A b \in Given : Kept(b)
      BY GivenHaveHeaders DEF Kept
    <3> QED
      BY <2>2, <3>1, <3>2, CursorKept
  <2> QED
    BY <2>1, <2>2
<1>2. ASSUME NEW buffer \in Buffers, Create(buffer)
      PROVE  CursorInv'
  BY <1>2, CursorBegins
<1>3. CASE Destroy
  BY <1>3 DEF Destroy, CursorInv
<1>4. ASSUME NEW t \in Thread,
             \/ \E n \in Sizes : Alloc(t, n) \/ \E h \in held : Realloc(t, h, n)
             \/ \E h \in held : Free(t, h)
      PROVE  CursorInv'
  <2>1. initialized
    BY <1>4 DEF Alloc, Realloc, Free
  <2> QED
    BY <1>4, <2>1, CursorCalls
<1>5. ASSUME NEW t \in Thread,
             \/ \E count, n \in Sizes : Calloc(t, count, n)
             \/ \E n \in Sizes, alignment \in Alignment : AlignedAlloc(t, n, alignment)
      PROVE  CursorInv'
  BY <1>4, <1>5 DEF Calloc, AlignedAlloc
<1>6. ASSUME NEW t \in Thread, AllocTake(t)
      PROVE  CursorInv'
  <2>1. /\ pc[t] = "take" /\ pc' = [pc EXCEPT ![t] = "count"] /\ initialized
        /\ UNCHANGED <<create, free_count, lock, size, old, checker, held>>
        /\ DOMAIN block = Thread
    BY <1>0, <1>6 DEF AllocTake, IInv, LocalsOK
  <2>2. ASSUME NEW c \in Classes, c = SizeClass(size[t]), TakeSmall(t, c)
        PROVE  CursorInv'
    <3>1. /\ UNCHANGED <<header, current_usage>> /\ SizeClass(size[t]) # Large
          /\ \A u \in Thread \ {t} : block'[u] = block[u]
      BY <2>1, <2>2, Tables DEF TakeSmall
    <3> QED
      BY <2>1, <3>1, CursorTakesSmall
  <2>3. CASE SizeClass(size[t]) = Large /\ TakeLarge(t)
    BY <2>1, <2>3, CursorTakesLarge
  <2> QED
    BY <1>6, <2>2, <2>3 DEF AllocTake
<1>7. ASSUME NEW t \in Thread, AllocReturn(t) \/ ReallocFree(t) \/ FreePush(t) \/ FreeReturn(t)
      PROVE  CursorInv'
  <2>1. initialized
    BY <1>0, <1>7 DEF AllocReturn, ReallocFree, FreePush, FreeReturn
  <2> QED
    BY <1>7, <2>1, CursorCounts, CursorCalls, CursorPush, CursorUncounts
<1>8. ASSUME NEW t \in Thread, Check(t) \/ CheckHead(t) \/ CheckWalk(t) \/ CheckCompare(t)
      PROVE  CursorInv'
  <2>1. initialized
    BY <1>0, <1>8 DEF Check, CheckHead, CheckWalk, CheckCompare
  <2> QED
    BY <1>8, <2>1, CursorChecks
<1> QED
  BY <1>1, <1>2, <1>3, <1>4, <1>5, <1>6, <1>7, <1>8 DEF Next

-----------------------------------------------------------------------------
(* The theorems.  free subtracts from current_usage, from which the next large *)
(* block is cut, what a block offers and not what was asked for, so a pool     *)
(* asked for parts of blocks and for large blocks hands out bytes twice: no    *)
(* theorem holds of all requests.  RequestsKeepCursor names those that do not  *)
(* make it do so.                                                              *)

\* The pool, and the cursor where there are large requests.
PoolInv == IInv /\ (NoneLarge \/ CursorInv)

\* With those requests, current_usage stays ahead of the large blocks.
LEMMA PoolInvLeads ==
    ASSUME RequestsKeepCursor, PoolInv
    PROVE  RequestsBelowWord /\ CursorAhead
<1>1. CASE NoneLarge
  BY <1>1 DEF NoneLarge, RequestsBelowWord, CursorAhead
<1>2. CASE ~NoneLarge
  BY <1>2, CursorLeads DEF RequestsKeepCursor, WholeBlocks, PoolInv
<1> QED
  BY <1>1, <1>2

\* It is inductive.
LEMMA PoolInvKept ==
    ASSUME RequestsKeepCursor
    PROVE  /\ Init => PoolInv
           /\ PoolInv /\ [Next]_vars => PoolInv'
<1>1. Init => PoolInv
  BY IInvInit DEF PoolInv, CursorInv, Init
<1>2. ASSUME PoolInv, [Next]_vars
      PROVE  PoolInv'
  <2>1. IInv'
    BY <1>2, PoolInvLeads, IInvNext DEF PoolInv
  <2>2. CASE NoneLarge
    BY <2>1, <2>2 DEF PoolInv
  <2>3. CASE ~NoneLarge
    BY <1>2, <2>1, <2>3, CursorNext DEF RequestsKeepCursor, PoolInv
  <2> QED
    BY <2>2, <2>3
<1> QED
  BY <1>1, <1>2

\* However the threads' calls of alloc, calloc, aligned_alloc, realloc, free and check
\* interleave, every free list is a chain of blocks without repetitions, the blocks
\* callers hold have nothing in common (IInv), and the next large block is cut behind
\* those in use.
THEOREM PoolInvariant ==
    ASSUME RequestsKeepCursor
    PROVE  Spec => [](IInv /\ CursorAhead)
<1>1. Init => PoolInv
  BY PoolInvKept
<1>2. PoolInv /\ [Next]_vars => PoolInv'
  BY PoolInvKept
<1>3. PoolInv => IInv /\ CursorAhead
  BY PoolInvLeads DEF PoolInv
<1> QED
  BY <1>1, <1>2, <1>3, PTL DEF Spec

\* eg_mempool_free gives back what eg_mempool_alloc took: no block of a class is lost
\* or on a list twice, and each counter agrees with its list once the lock is free.
THEOREM NoBlockIsLost ==
    ASSUME RequestsKeepCursor
    PROVE  Spec => []BlocksConserved
<1>1. IInv => BlocksConserved
  BY BlocksConservedHolds
<1> QED
  BY <1>1, PoolInvariant, PTL

\* No byte belongs to two callers, or to a caller and a free block, or lies outside
\* of the pool.
THEOREM NoTwoOverlap ==
    ASSUME HeaderFits, RequestsKeepCursor
    PROVE  Spec => []NoOverlap
<1>1. IInv => NoOverlap
  BY NoOverlapHolds
<1> QED
  BY <1>1, PoolInvariant, PTL

\* A pool that maps its buffers itself owns one mapping while it is initialized.
LEMMA Mappings ==
    ASSUME MapsItsOwn
    PROVE  Spec => []MappedInv
<1>1. Init => MappedInv
  BY WordAssumption DEF Init, MappedInv
<1>2. MappedInv /\ [Next]_vars => MappedInv'
  BY MappedNext
<1> QED
  BY <1>1, <1>2, PTL DEF Spec

\* The invariants make a pool sound.
LEMMA SoundPool ==
    ASSUME HeaderFits, IInv, MappedInv, CursorAhead
    PROVE  PoolSound
<1>1. MappingsBalanced
  BY DEF MappedInv, MappingsBalanced
<1> QED
  BY <1>1, TypeOKHolds, BlocksConservedHolds, StatsHonestHolds, AlignedInsideHolds
     DEF PoolSound

\* Between any two steps of any thread nothing is lost or there twice: the blocks, the
\* counters, the one mapping, the bytes eg_mempool_get_stats reports; and the next large
\* block is cut behind those in use.
THEOREM PoolIsSound ==
    ASSUME HeaderFits, RequestsKeepCursor, MapsItsOwn
    PROVE  Spec => []PoolSound
<1>1. IInv /\ MappedInv /\ CursorAhead => PoolSound
  BY SoundPool
<1> QED
  BY <1>1, PoolInvariant, Mappings, PTL

\* CheckInv is inductive, stuttering included.
LEMMA CheckInvKept ==
    ASSUME IInv, CheckInv, [CheckedNext]_<<vars, alone>>
    PROVE  CheckInv'
<1>1. CASE CheckedNext
  BY <1>1, CheckInvNext
<1>2. CASE UNCHANGED <<vars, alone>>
  <2>1. UNCHANGED <<pc, size, block, cls, verdict, header, free_list, lock, alone>>
    BY <1>2 DEF vars, lists, locals, checker
  <2>2. \A c : Link(c)' = Link(c) /\ FreeBlocks(c)' = FreeBlocks(c)
    BY <2>1, SameLinks
  <2> QED
    BY <2>1, <2>2 DEF CheckInv
<1> QED
  BY <1>1, <1>2

\* CheckedPool takes MemoryPool's steps.
LEMMA CheckedIsPool == CheckedSpec => Spec
<1>1. CheckedInit => Init
  BY DEF CheckedInit
<1>2. [CheckedNext]_<<vars, alone>> => [Next]_vars
  BY DEF CheckedNext
<1> QED
  BY <1>1, <1>2, PTL DEF CheckedSpec, Spec

\* An eg_mempool_check that met no other call reports neither a mismatch nor an
\* overflow, whatever the threads did before and between earlier checks.
THEOREM CheckPasses ==
    ASSUME RequestsKeepCursor
    PROVE  CheckedSpec => []CheckAlonePasses
<1>1. CheckedInit => CheckInv
  BY NilAssumption DEF CheckedInit, CheckInv
<1>2. IInv /\ CheckInv /\ [CheckedNext]_<<vars, alone>> => CheckInv'
  BY CheckInvKept
<1>3. CheckInv => CheckAlonePasses
  BY DEF CheckInv, CheckAlonePasses
<1> QED
  BY <1>1, <1>2, <1>3, CheckedIsPool, PoolInvariant, PTL DEF CheckedSpec

=============================================================================
