-------------------------------- MODULE BTree --------------------------------
(***************************************************************************)
(* eg_btree_t, an index from u32 keys to values: a B-tree of order Order   *)
(* whose full nodes are split on the way down.  A node is a record of its  *)
(* entries in order and its children; a leaf has none.  The same key may   *)
(* be inserted again and is then stored again.                             *)
(***************************************************************************)
EXTENDS Integers, Sequences, SequencesExt, FiniteSets

CONSTANTS Entry,       \* the [key, value] records callers insert
          Key,         \* the keys they search for
          Nil,         \* NULL
          Order,       \* BTREE_ORDER
          MaxSize      \* bound: no insertion into a tree of this size

MAX_KEYS == Order - 1
MIN_KEYS == Order \div 2 - 1

OrderAssumption == Order \in Nat /\ Order > 2 /\ MAX_KEYS = 2 * MIN_KEYS + 1
EntryAssumption == \A e \in Entry : e.key \in Key /\ e.value # Nil

VARIABLES root, height, size,
          nodes,       \* blocks the tree has from calloc
          stored,      \* history: how often each entry was inserted
          found        \* the last search: its key and what it returned

Leaf == [entries |-> <<>>, kids |-> <<>>]
IsLeaf(n) == n.kids = <<>>
Full(n) == Len(n.entries) = MAX_KEYS

\* Binary search in the keys lo..hi: the index of the key, or where it belongs.
RECURSIVE SearchNode(_, _, _, _)
SearchNode(entries, key, lo, hi) ==
    LET mid == (lo + hi) \div 2
        at  == entries[mid].key
    IN  IF lo > hi THEN lo
        ELSE IF at = key THEN mid
        ELSE IF at < key THEN SearchNode(entries, key, mid + 1, hi)
        ELSE SearchNode(entries, key, lo, mid - 1)

RECURSIVE Find(_, _)
Find(n, key) ==
    LET i == SearchNode(n.entries, key, 1, Len(n.entries))
    IN  IF i <= Len(n.entries) /\ n.entries[i].key = key THEN n.entries[i].value
        ELSE IF IsLeaf(n) THEN Nil
        ELSE Find(n.kids[i], key)

Kids(c, m, n) == IF IsLeaf(c) THEN <<>> ELSE SubSeq(c.kids, m, n)

RightKids(c) == Kids(c, MIN_KEYS + 2, 2 * MIN_KEYS + 2)
LeftEntries(c) == SubSeq(c.entries, 1, MIN_KEYS)

\* The upper half of a full child goes to a new node, its middle entry up.
SplitChild(n, i) ==
    LET c == n.kids[i]
        left  == [entries |-> LeftEntries(c), kids |-> Kids(c, 1, MIN_KEYS + 1)]
        right == [entries |-> SubSeq(c.entries, MIN_KEYS + 2, 2 * MIN_KEYS + 1),
                  kids |-> RightKids(c)]
    IN  [entries |-> InsertAt(n.entries, i, c.entries[MIN_KEYS + 1]),
         kids |-> InsertAt([n.kids EXCEPT ![i] = left], i + 1, right)]

\* Behind the keys that are not larger.
Place(n, key) == Cardinality({j \in DOMAIN n.entries : n.entries[j].key <= key}) + 1

\* Mutant: after a split the insertion goes on in the left half.
SideLeft(n, i, key) == i

Side(n, i, key) == IF key > n.entries[i].key THEN i + 1 ELSE i

\* The node after the insertion, and the number of splits on the way.
RECURSIVE InsertNonfull(_, _)
InsertNonfull(n, e) ==
    LET i     == Place(n, e.key)
        split == ~IsLeaf(n) /\ Full(n.kids[i])
        m     == IF split THEN SplitChild(n, i) ELSE n
        k     == IF split THEN Side(m, i, e.key) ELSE i
        below == InsertNonfull(m.kids[k], e)
    IN  IF IsLeaf(n)
        THEN [node |-> [n EXCEPT !.entries = InsertAt(@, i, e)], splits |-> 0]
        ELSE [node |-> [m EXCEPT !.kids[k] = below.node],
              splits |-> below.splits + (IF split THEN 1 ELSE 0)]

-----------------------------------------------------------------------------
Init ==
    /\ root = Nil /\ height = 0 /\ size = 0 /\ nodes = 0
    /\ stored = [e \in Entry |-> 0] /\ found = Nil

\* calloc may fail here; the tree is then not created.
Create ==
    /\ root = Nil
    /\ root' = Leaf /\ height' = 1 /\ nodes' = nodes + 1
    /\ UNCHANGED <<size, stored, found>>

\* A full root gets a parent first.
Insert(e) ==
    LET tall  == Full(root)
        top   == IF tall THEN SplitChild([entries |-> <<>>, kids |-> <<root>>], 1) ELSE root
        below == InsertNonfull(top, e)
    IN  /\ root # Nil /\ size < MaxSize
        /\ root' = below.node
        /\ height' = height + (IF tall THEN 1 ELSE 0)
        /\ nodes' = nodes + below.splits + (IF tall THEN 2 ELSE 0)
        /\ size' = size + 1
        /\ stored' = [stored EXCEPT ![e] = @ + 1]
        /\ found' = Nil

Search(key) ==
    /\ root # Nil
    /\ found' = [key |-> key, value |-> Find(root, key)]
    /\ UNCHANGED <<root, height, size, nodes, stored>>

KidsFreed(n) == 1..(Len(n.entries) + 1)

\* The number of nodes btree_destroy_node frees.
RECURSIVE Freed(_)
Freed(n) ==
    IF IsLeaf(n) THEN 1
    ELSE LET sum[i \in 0..Len(n.kids)] ==
                 IF i = 0 THEN 1
                 ELSE sum[i - 1] + (IF i \in KidsFreed(n) THEN Freed(n.kids[i]) ELSE 0)
         IN  sum[Len(n.kids)]

Destroy ==
    /\ root # Nil
    /\ nodes' = nodes - Freed(root)
    /\ root' = Nil /\ height' = 0 /\ size' = 0
    /\ stored' = [e \in Entry |-> 0] /\ found' = Nil

Next ==
    \/ Create \/ Destroy
    \/ \E e \in Entry : Insert(e)
    \/ \E key \in Key : Search(key)

-----------------------------------------------------------------------------
(* Properties *)

RECURSIVE InOrder(_)
InOrder(n) ==
    IF IsLeaf(n) THEN n.entries
    ELSE FlattenSeq([i \in DOMAIN n.kids |->
             InOrder(n.kids[i]) \o IF i <= Len(n.entries) THEN <<n.entries[i]>> ELSE <<>>])

RECURSIVE Shape(_, _, _)
Shape(n, depth, least) ==
    /\ Len(n.entries) \in least..MAX_KEYS
    /\ IsLeaf(n) = (depth = 1)
    /\ ~IsLeaf(n) => /\ Len(n.kids) = Len(n.entries) + 1
                     /\ \A i \in DOMAIN n.kids : Shape(n.kids[i], depth - 1, MIN_KEYS)

\* btree_split_child and btree_insert_nonfull keep the tree balanced: every leaf
\* is height levels down and every node has its share of keys and children.
Balanced == root # Nil => Shape(root, height, 0)

\* eg_btree_insert: the entries in order are those inserted, each as often as it
\* was inserted, in ascending order of their keys; size counts them.
EntriesKept ==
    root # Nil =>
        LET all == InOrder(root)
        IN  /\ \A e \in Entry : Cardinality({i \in DOMAIN all : all[i] = e}) = stored[e]
            /\ \A i \in 1..(Len(all) - 1) : all[i].key <= all[i + 1].key
            /\ size = Len(all)

\* eg_btree_search returns a value inserted under the key if there is one, and
\* NULL only if there is none.
SearchFinds ==
    found # Nil =>
        LET values == {e.value : e \in {f \in Entry : f.key = found.key /\ stored[f] > 0}}
        IN  IF values = {} THEN found.value = Nil ELSE found.value \in values

\* Every node the tree took from the pool goes back with eg_btree_destroy.
NodesReturned == root = Nil => nodes = 0
=============================================================================
