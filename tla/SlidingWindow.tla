---------------------------- MODULE SlidingWindow ----------------------------
(***************************************************************************)
(* What a deduplicator with a sliding window promises: an item that is     *)
(* among the last Window items reported as new is reported as a duplicate, *)
(* and one that resembles none of the last 2 * Window - 1 is new.          *)
(***************************************************************************)
EXTENDS Naturals, Sequences, SequencesExt

CONSTANTS Item, Window, Resembles(_, _)   \* an item and a set of items

VARIABLES recent,    \* the last items reported as new, at most 2 * Window - 1
          answer     \* the item asked about last, and what was said of it

Kept == 2 * Window - 1
LastOf(s, n) == SubSeq(s, IF Len(s) > n THEN Len(s) - n + 1 ELSE 1, Len(s))

Init == recent = <<>> /\ answer = <<>>

New(x) ==
    /\ ~Contains(LastOf(recent, Window), x)
    /\ recent' = LastOf(Append(recent, x), Kept)
    /\ answer' = <<x, "new">>

Duplicate(x) ==
    /\ Resembles(x, ToSet(recent))
    /\ recent' = recent
    /\ answer' = <<x, "duplicate">>

\* A question that adds nothing.
Ask(x) ==
    /\ \/ Resembles(x, ToSet(recent)) /\ answer' = <<x, "duplicate">>
       \/ ~Contains(LastOf(recent, Window), x) /\ answer' = <<x, "new">>
    /\ recent' = recent

\* A new deduplicator remembers nothing.
Restart == recent' = <<>> /\ answer' = <<>>

Next == Restart \/ \E x \in Item : New(x) \/ Duplicate(x) \/ Ask(x)

Spec == Init /\ [][Next]_<<recent, answer>>
=============================================================================
