------------------------------ MODULE FrameStream ------------------------------
(***************************************************************************)
(* One characteristic's deframer fed by a link that cuts the byte stream   *)
(* where it likes: Deframer::push_detailed of src/frame.rs on AA14, or the *)
(* framing half of FileReassembler::push of src/reassembly.rs on AA15.     *)
(* The sender's stream is a queue of pieces: whole frames, frames damaged  *)
(* on the way, and junk.  "expected" is the reference: the body of every   *)
(* undamaged frame, at the moment its last byte has been pushed.           *)
(***************************************************************************)
EXTENDS Framing

CONSTANTS
    FileTrailer,    \* <<58, 52>>
    ControlPieces,  \* records [bytes, body]; body is <<>> for a piece that is no frame
    BrokenPieces,   \* the same with corrupt lengths and cut headers as well
    FilePieces,
    MaxPieces

\* A frame, and one that was damaged but for its magic and its length.
Framed(bytes, body, trailer) ==
    /\ body \in Seq(Byte) \ {<<>>} /\ LegalLength(Len(body) + 1)
    /\ bytes = Encode(Head(body), Tail(body), trailer)

Damaged(bytes, body, trailer) ==
    LET len == LengthField(bytes)
    IN  /\ body = <<>>
        /\ Len(bytes) >= Overhead /\ SubSeq(bytes, 1, 2) = Magic
        /\ LegalLength(len) /\ Len(bytes) = Total(len, trailer)
        /\ ~ Intact(bytes, len, trailer)

Enveloped(bytes, body, trailer) ==
    Framed(bytes, body, trailer) \/ Damaged(bytes, body, trailer)

\* A header cut short by a restart: the magic, then a whole frame.
Restarted(bytes, body) ==
    SubSeq(bytes, 1, 2) = Magic /\ Enveloped(Drop(bytes, 2), body, <<>>)

\* A length no frame has, and what follows the magic begins no frame either.
WrongLength(bytes, body) ==
    /\ body = <<>>
    /\ Len(bytes) >= Overhead /\ SubSeq(bytes, 1, 2) = Magic
    /\ ~ LegalLength(LengthField(bytes)) /\ ~ IsPartialFramePrefix(Drop(bytes, 2))

Junk(bytes, body) == body = <<>> /\ \A i \in DOMAIN bytes : bytes[i] # Magic[1]

ASSUME StreamAssumption ==
    /\ MaxPieces \in Nat \ {0}
    /\ FileTrailer \in Seq(Byte)
    /\ \A p \in ControlPieces \cup BrokenPieces \cup FilePieces : p.bytes \in Seq(Byte) \ {<<>>}
    /\ \A p \in ControlPieces : Enveloped(p.bytes, p.body, <<>>)
    /\ \A p \in BrokenPieces :
           \/ Enveloped(p.bytes, p.body, <<>>)
           \/ Restarted(p.bytes, p.body)
           \/ WrongLength(p.bytes, p.body)
    /\ \A p \in FilePieces : Enveloped(p.bytes, p.body, FileTrailer) \/ Junk(p.bytes, p.body)

VARIABLES
    channel,    \* "AA14" or "AA15"
    whole,      \* one piece per notification, as in every capture; else cut anywhere
    queue,      \* pieces not yet fully delivered
    offset,     \* bytes of Head(queue) already delivered
    buffer,     \* the deframer's
    residual,   \* the verdict of the last push
    frames,     \* every frame pushed out so far
    expected

streamVars == <<channel, whole, queue, offset, buffer, residual, frames, expected>>

Stream(pieces) == FlattenSeq([k \in DOMAIN pieces |-> pieces[k].bytes])

\* The pieces whose last byte is among the first n bytes of the queue.
Finished(n) ==
    LET k == CHOOSE m \in 0 .. Len(queue) :
                /\ Len(Stream(SubSeq(queue, 1, m))) <= n
                /\ m < Len(queue) => Len(Stream(SubSeq(queue, 1, m + 1))) > n
    IN  SubSeq(queue, 1, k)

BodyOn(piece) == IF piece.body = <<>> THEN <<>> ELSE <<piece.body>>
Bodies(pieces) == FlattenSeq([k \in DOMAIN pieces |-> BodyOn(pieces[k])])

Queues(pieces) == UNION {[1 .. n -> pieces] : n \in 1 .. MaxPieces}

-----------------------------------------------------------------------------
\* A corrupt length is only recoverable when the next frame starts a notification.
StreamInit ==
    /\ \/ channel = "AA14" /\ whole = FALSE /\ queue \in Queues(ControlPieces)
       \/ channel = "AA14" /\ whole = TRUE /\ queue \in Queues(BrokenPieces)
       \/ channel = "AA15" /\ whole = FALSE /\ queue \in Queues(FilePieces)
    /\ offset = 0
    /\ buffer = <<>>
    /\ residual = "Empty"
    /\ frames = <<>>
    /\ expected = <<>>

\* push_detailed: append, drain, then keep the remainder only if it can begin a frame.
PushControl(chunk) ==
    LET result == Drain(buffer \o chunk)
    IN  /\ frames' = frames \o result.frames
        /\ residual' = Residual(result.rest)
        /\ buffer' = Kept(result.rest)

\* FileReassembler::push, as far as its framing goes.
PushFile(chunk) ==
    LET result == DrainFileFrames(buffer \o chunk, FileTrailer)
    IN  /\ frames' = frames \o result.frames
        /\ residual' = IF result.dropped > 0 THEN "Desynced" ELSE "Empty"
        /\ buffer' = result.rest

\* One notification brings the next n bytes.
Push(n) ==
    LET ends == offset + n
        done == Finished(ends)
        chunk == SubSeq(Stream(queue), offset + 1, ends)
    IN  /\ \/ channel = "AA14" /\ PushControl(chunk)
           \/ channel = "AA15" /\ PushFile(chunk)
        /\ expected' = expected \o Bodies(done)
        /\ queue' = SubSeq(queue, Len(done) + 1, Len(queue))
        /\ offset' = ends - Len(Stream(done))
        /\ UNCHANGED <<channel, whole>>

Notify ==
    /\ queue # <<>>
    /\ \E n \in 1 .. Len(Stream(queue)) - offset :
        /\ whole => n = Len(Head(queue).bytes)
        /\ Push(n)

\* The link drops in the middle of a piece; the shell calls reset() before the
\* next link delivers anything.
Reconnect ==
    /\ offset > 0
    /\ queue' = Tail(queue)
    /\ offset' = 0
    /\ buffer' = <<>>
    /\ residual' = "Empty"
    /\ UNCHANGED <<channel, whole, frames, expected>>

Delivered == queue = <<>> /\ UNCHANGED streamVars

StreamNext == Notify \/ Reconnect \/ Delivered

StreamSpec == StreamInit /\ [][StreamNext]_streamVars

-----------------------------------------------------------------------------
\* The shape of the state.  "Overflowed" is not in it: that branch of
\* push_detailed is a backstop which drain()'s own arithmetic makes unreachable.
StreamTypeOK ==
    /\ queue \in Seq(ControlPieces \cup BrokenPieces \cup FilePieces)
    /\ offset \in Nat
    /\ buffer \in Seq(Byte)
    /\ residual \in IF channel = "AA15" THEN {"Empty", "Desynced"}
                    ELSE {"Empty", "PartialFrame", "Foreign"}
    /\ frames \in Seq(Seq(Byte))

\* However the link cuts the stream, every undamaged frame comes out, in order,
\* once, in the very push that delivers its last byte; and nothing else does:
\* a damaged neighbour is dropped without taking the alignment with it, and a
\* broken length can neither block the channel nor absorb what follows.
EveryFrameOnce == frames = expected
=============================================================================
