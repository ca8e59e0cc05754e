---------------------------- MODULE MCConnection ----------------------------
(* Connection on small instances, a checksum that tells the corrupted        *)
(* messages from the good ones, and streams of good and bad messages; and    *)
(* the builders of frames with their real sizes.  The two share nothing: a   *)
(* behaviour is one of one of them.                                          *)
EXTENDS Connection, SequencesExt

Checksum(bytes) == <<FoldLeft(+, 0, bytes) % 4, Len(bytes) % 4>>

beat    == BuildFrame(0, <<>>)
pair    == BuildFrame(1, <<2, 1>>)
spoilt  == [pair EXCEPT ![4] = 1]
toolong == BuildFrame(1, <<2, 2, 2>>)
stray   == <<1>>

Messages == {beat, pair, spoilt, toolong, stray}

MCStreams ==
    {a \o b : a, b \in Messages} \cup {beat \o spoilt \o beat, beat \o beat \o beat}

AllBuffers == {{"recv", "send", "payload"}}
SomeMissing ==
    AllBuffers \cup {{"recv", "payload"}, {"send", "payload"}}

CONSTANTS Capacity, Count, Payload, MaxFrames

VARIABLES subject, cap, used, mem, built

building == <<cap, used, mem, built>>

F == INSTANCE Frames

ASSUME F!SizesAssumption

ProtocolInit ==
    /\ subject \in {"connection", "frames"}
    /\ Init /\ F!Init
    /\ subject = "frames" \/ \A other \in Capacity : cap <= other

ProtocolNext ==
    /\ UNCHANGED subject
    /\ \/ subject = "connection" /\ Next /\ UNCHANGED building
       \/ subject = "frames" /\ F!Next /\ UNCHANGED vars

ProtocolSpec ==
    /\ ProtocolInit /\ [][ProtocolNext]_<<subject, vars, building>>
    /\ Fairness

\* Frames built into one buffer, see Frames.
FramesWhole == subject = "frames" => F!FramesWhole
=============================================================================
