-------------------------------- MODULE Framing --------------------------------
(***************************************************************************)
(* The two envelopes of the GATT link as functions on byte sequences:      *)
(* AC 55 control frames (src/frame.rs) and 52 58 file frames               *)
(* (src/reassembly.rs).  Bytes are the numbers 0 .. Base-1 for a small     *)
(* Base, so that every byte, the magic's included, also occurs as a        *)
(* length, a command, a payload and a checksum, as it does on the wire.    *)
(***************************************************************************)
EXTENDS Integers, SequencesExt, FiniteSetsExt

CONSTANTS
    Base,             \* 256 in the code
    Magic,            \* the two header bytes
    MinLengthField,   \* MIN_LENGTH_FIELD
    MaxLengthField    \* MAX_LENGTH_FIELD

Byte == 0 .. Base - 1

\* Two magic bytes and two length bytes: FRAME_OVERHEAD.
Overhead == 4

LegalLength(len) == len \in MinLengthField .. MaxLengthField

\* The magic is no length, so that half a header before a frame is seen to be one.
ASSUME FramingAssumption ==
    /\ Base \in Nat \ {0, 1}
    /\ Magic \in Seq(Byte) /\ Len(Magic) = 2
    /\ MinLengthField \in Nat \ {0, 1}
    /\ MaxLengthField \in MinLengthField .. Base * Base - 1
    /\ ~ LegalLength(Magic[1] * Base + Magic[2])

\* The additive checksum both envelopes share.
Checksum(body) == FoldLeft(LAMBDA a, b : (a + b) % Base, 0, body)

\* A frame around cmd and payload; the length field counts cmd, payload, checksum.
\* The trailer is 58 52 on AA15 and empty on AA14.
Encode(cmd, payload, trailer) ==
    LET body == <<cmd>> \o payload
        len == Len(body) + 1
    IN  Magic \o <<len \div Base, (len % Base)>> \o body \o <<Checksum(body)>> \o trailer

LengthField(buffer) == buffer[3] * Base + buffer[4]

\* The bytes a frame with this length field occupies.
Total(len, trailer) == Overhead + len + Len(trailer)

\* Of the bytes the length field delimited: is this a frame, and which.
BodyOf(bytes, len) == SubSeq(bytes, 5, Overhead + len - 1)

Intact(bytes, len, trailer) ==
    /\ SubSeq(bytes, Overhead + len + 1, Len(bytes)) = trailer
    /\ bytes[Overhead + len] = Checksum(BodyOf(bytes, len))

Decoded(bytes, len, trailer) ==
    IF Intact(bytes, len, trailer) THEN <<BodyOf(bytes, len)>> ELSE <<>>

Drop(buffer, n) == SubSeq(buffer, n + 1, Len(buffer))

-----------------------------------------------------------------------------
\* is_partial_frame_prefix: could these bytes begin a frame?
IsPartialFramePrefix(buffer) ==
    IF Len(buffer) = 1 THEN buffer[1] = Magic[1]
    ELSE Len(buffer) >= 2 /\ SubSeq(buffer, 1, 2) = Magic

\* One turn of drain()'s loop, on the frames taken out so far and the rest: it
\* changes nothing at bytes that are not ours and at a frame that has not fully
\* arrived, where the loop ends.
Turn(taken) ==
    LET rest == taken.rest
        len == LengthField(rest)
        total == Total(len, <<>>)
    IN  IF Len(rest) < Overhead \/ SubSeq(rest, 1, 2) # Magic
        THEN taken
        ELSE IF ~ LegalLength(len)
        THEN [taken EXCEPT !.rest = Drop(rest, 2)]
        ELSE IF Len(rest) < total
        THEN taken
        ELSE [frames |-> taken.frames \o Decoded(SubSeq(rest, 1, total), len, <<>>),
              rest |-> Drop(rest, total)]

DrainTurns(buffer) ==
    LET turn[n \in 0 .. Len(buffer)] ==
            IF n = 0 THEN [frames |-> <<>>, rest |-> buffer] ELSE Turn(turn[n - 1])
    IN  turn

\* drain(): a turn that is not the last consumes a byte at least, so there are no
\* more of them than bytes.
Drain(buffer) == DrainTurns(buffer)[Len(buffer)]

\* push_detailed's verdict on what drain() left behind.
Residual(rest) ==
    IF rest = <<>> THEN "Empty"
    ELSE IF ~ IsPartialFramePrefix(rest) THEN "Foreign"
    ELSE IF Len(rest) > Overhead + MaxLengthField THEN "Overflowed"
    ELSE "PartialFrame"

Kept(rest) == IF Residual(rest) = "PartialFrame" THEN rest ELSE <<>>

-----------------------------------------------------------------------------
\* Where the two magic bytes are.
Headers(buffer) == {i \in 1 .. Len(buffer) - 1 : SubSeq(buffer, i, i + 1) = Magic}

\* Fault: half a header at the end of the buffer is dropped.
ResyncDropsLone(buffer) ==
    IF Headers(buffer) # {} THEN Drop(buffer, Min(Headers(buffer)) - 1) ELSE <<>>

\* resync_to_header: scan to the next magic, keeping a lone first magic byte.
ResyncToHeader(buffer) ==
    IF Headers(buffer) # {}
    THEN Drop(buffer, Min(Headers(buffer)) - 1)
    ELSE IF buffer # <<>> /\ Last(buffer) = Magic[1]
    THEN <<Magic[1]>>
    ELSE <<>>

\* One turn of drain_file_frames()'s loop: it resynchronises first.
FileTurn(taken, trailer) ==
    LET rest == ResyncToHeader(taken.rest)
        dropped == taken.dropped + Len(taken.rest) - Len(rest)
        len == LengthField(rest)
        total == Total(len, trailer)
    IN  IF Len(rest) >= Overhead /\ ~ LegalLength(len)
        THEN [taken EXCEPT !.rest = Drop(rest, 2), !.dropped = dropped + 2]
        ELSE IF Len(rest) < Overhead \/ Len(rest) < total
        THEN [taken EXCEPT !.rest = rest, !.dropped = dropped]
        ELSE [frames |-> taken.frames \o Decoded(SubSeq(rest, 1, total), len, trailer),
              rest |-> Drop(rest, total), dropped |-> dropped]

FileDrainTurns(buffer, trailer) ==
    LET turn[n \in 0 .. Len(buffer)] ==
            IF n = 0 THEN [frames |-> <<>>, rest |-> buffer, dropped |-> 0]
            ELSE FileTurn(turn[n - 1], trailer)
    IN  turn

DrainFileFrames(buffer, trailer) == FileDrainTurns(buffer, trailer)[Len(buffer)]
=============================================================================
