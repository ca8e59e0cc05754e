---------------------------- MODULE MCContainers ----------------------------
(* What holds items, on small instances: the SPSC queue with the callers of *)
(* its size, the deduplicator and the B-tree.  They share nothing: a        *)
(* behaviour is one of one of them.                                         *)
EXTENDS Containers, TLC

CONSTANTS Nil, Entry, Key, MaxSize, i1, i2, i3, i4

VARIABLES subject, root, height, bSize, nodes, stored, found

dedup == <<created, filters, active_idx, current_count, arrays, recent, answer>>
btree == <<root, height, bSize, nodes, stored, found>>

\* Two expected items get 24 bits and 8 hashes. i3 collides with what i1 and i2 set
\* together, i4 with nothing; the hashes of i1 and i2 exceed the word.
HashOne == i1 :> 1 @@ i2 :> 61 @@ i3 :> 1 @@ i4 :> 6
HashTwo == i1 :> 24 @@ i2 :> 56 @@ i3 :> 4 @@ i4 :> 0

B == INSTANCE BTree WITH Order <- 4, size <- bSize

\* One key may be inserted with two values.
Entries == [key : {1, 2, 3, 4}, value : {"v"}] \cup {[key |-> 2, value |-> "w"]}

ASSUME B!OrderAssumption /\ B!EntryAssumption

ContainersInit ==
    /\ subject \in {"spsc", "dedup", "btree"}
    /\ MonitorInit /\ D!Init /\ B!Init

ContainersNext ==
    /\ UNCHANGED subject
    /\ \/ subject = "spsc" /\ MonitorNext /\ UNCHANGED <<dedup, btree>>
       \/ subject = "dedup" /\ D!Next /\ UNCHANGED <<allvars, btree>>
       \/ subject = "btree" /\ B!Next /\ UNCHANGED <<allvars, dedup>>

ContainersSpec == ContainersInit /\ [][ContainersNext]_<<subject, allvars, dedup, btree>>

Symmetry == Permutations(Item)

\* The B-tree, see BTree: its shape, its contents, its answers and its nodes.
TreeSound ==
    subject = "btree" => B!Balanced /\ B!EntriesKept /\ B!SearchFinds /\ B!NodesReturned
=============================================================================
