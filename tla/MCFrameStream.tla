---------------------------- MODULE MCFrameStream ----------------------------
(* Both envelopes over four byte values, two of which are the magic: every *)
(* frame below also holds magic bytes as its command, payload or checksum. *)
EXTENDS FrameStream

MCMagic == <<2, 3>>
MCTrailer == <<3, 2>>

Bodied == {<<c>> \o p : c \in {1, 2}, p \in {<<>>, <<3>>}}

ControlFrames == {[bytes |-> Encode(Head(b), Tail(b), <<>>), body |-> b] : b \in Bodied}
FileFrames == {[bytes |-> Encode(Head(b), Tail(b), FileTrailer), body |-> b] : b \in Bodied}

\* The checksum byte is off by one.
BadChecksum(f, trailer) ==
    LET at == Len(f.bytes) - Len(trailer)
    IN  [bytes |-> [f.bytes EXCEPT ![at] = (@ + 1) % Base], body |-> <<>>]

\* The length field reads n instead of what Encode wrote.
BadLength(f, n) ==
    [bytes |-> [f.bytes EXCEPT ![3] = n \div Base, ![4] = n % Base], body |-> <<>>]

\* A header cut short by a restart: the magic, then a whole frame.
DoubledMagic(f) == [f EXCEPT !.bytes = Magic \o @]

MCControlPieces == ControlFrames \cup {BadChecksum(f, <<>>) : f \in ControlFrames}

MCBrokenPieces ==
    MCControlPieces \cup {DoubledMagic(f) : f \in ControlFrames}
        \cup {BadLength(f, n) : f \in ControlFrames, n \in {0, 1, MaxLengthField + 1, 12}}

\* Junk ahead of a frame holds no first magic byte, but may end a frame's trailer.
MCFilePieces ==
    FileFrames \cup {BadChecksum(f, FileTrailer) : f \in FileFrames}
        \cup {[bytes |-> <<3>>, body |-> <<>>], [bytes |-> <<0, 1>>, body |-> <<>>]}
=============================================================================
