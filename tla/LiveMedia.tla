------------------------------- MODULE LiveMedia -------------------------------
(***************************************************************************)
(* The video half of the media loop of src/examples/live.rs: RTP packets   *)
(* of one stream over a link that loses, copies and reorders them, with    *)
(* strays on the port, into a SequenceTracker and a Depacketizer, and the  *)
(* pictures from the first decodable one on into a file.  A caller may     *)
(* reset both when the stream restarts.                                    *)
(***************************************************************************)
EXTENDS SequenceTracker, Depacketizer, FiniteSets, SequencesExt

CONSTANTS
    Pictures,           \* each a sequence of NALs [kind, size], size in packets
    FirstNumber,        \* the sequence number of the first packet
    MaxFaults           \* losses, copies, delays, strays and resets

ASSUME LiveAssumption ==
    /\ FirstNumber \in 0 .. SeqSpace - 1 /\ MaxFaults \in Nat

IsSet(nal) == nal.kind \in {"SPS", "PPS"}

\* A picture has its parameter sets, if it has any, before its slices.
SetsLead(picture) ==
    \E n \in 0 .. Len(picture) : \A i \in DOMAIN picture : IsSet(picture[i]) <=> i <= n

ASSUME PicturesAssumption ==
    /\ Pictures \in Seq(Seq([kind : STRING, size : Nat \ {0}]) \ {<<>>})
    /\ \A p \in DOMAIN Pictures : SetsLead(Pictures[p])

VARIABLES
    sent,       \* packets of the script on the air so far
    delayed,    \* those still on their way, or copied
    faults,
    file,       \* the units written
    running,
    arrivals,   \* history: the packets received since the last reset, in order
    counted,    \* history: those of the stream
    emitted     \* history: the units returned so far

link == <<sent, delayed, faults>>
vars == <<tracker, depacketizer, link, file, running, arrivals, counted, emitted>>

-----------------------------------------------------------------------------
\* The glasses: a picture's timestamp is its position.  Parameter sets go in one
\* STAP-A, a NAL of one packet alone, a larger one in fragments; the last packet
\* of a picture has the marker.
Nal(p, n) ==
    [kind |-> Pictures[p][n].kind, parts |-> [i \in 1 .. Pictures[p][n].size |-> <<p, n, i>>]]
Nals(p) == [n \in DOMAIN Pictures[p] |-> Nal(p, n)]

PayloadsOf(nal) ==
    IF Len(nal.parts) = 1 THEN <<[form |-> "Single", nals |-> <<nal>>]>>
    ELSE [i \in DOMAIN nal.parts |->
            [form |-> "FuA", kind |-> nal.kind, piece |-> nal.parts[i],
             start |-> i = 1, end |-> i = Len(nal.parts)]]

SetCount(p) ==
    CHOOSE n \in 0 .. Len(Pictures[p]) : \A i \in DOMAIN Pictures[p] : IsSet(Pictures[p][i]) <=> i <= n

SetsPayload(p) ==
    IF SetCount(p) = 0 THEN <<>>
    ELSE <<[form |-> "StapA", nals |-> SubSeq(Nals(p), 1, SetCount(p)), malformed |-> FALSE]>>

Slices(p) ==
    [n \in 1 .. Len(Pictures[p]) - SetCount(p) |-> PayloadsOf(Nal(p, SetCount(p) + n))]

PicturePayloads(p) == SetsPayload(p) \o FlattenSeq(Slices(p))

PacketsOf(p) ==
    [i \in DOMAIN PicturePayloads(p) |->
        [timestamp |-> p, marker |-> i = Len(PicturePayloads(p)), payload |-> PicturePayloads(p)[i]]]

Sends == [p \in DOMAIN Pictures |-> PacketsOf(p)]
Script == FlattenSeq(Sends)

\* The positions in the script of the packets of each picture.
Positions ==
    [p \in DOMAIN Sends |->
        [i \in DOMAIN Sends[p] |-> Len(FlattenSeq(SubSeq(Sends, 1, p - 1))) + i]]
Own(p) == Positions[p]

-----------------------------------------------------------------------------
Number(k) == (FirstNumber + k - 1) % SeqSpace

Init ==
    /\ TrackerInit
    /\ DepackInit
    /\ sent = 0 /\ delayed = {} /\ faults = 0
    /\ file = <<>> /\ running = TRUE
    /\ arrivals = <<>> /\ counted = <<>> /\ emitted = <<>>

\* The units from the first one on that can be decoded alone.
Starts(out) == {i \in DOMAIN out : IsDecodableStart(out[i].nals)}
FromStart(out) ==
    IF Starts(out) = {} THEN <<>>
    ELSE SubSeq(out, CHOOSE i \in Starts(out) : \A j \in Starts(out) : i <= j, Len(out))

\* What the loop writes: nothing before the first decodable start.
Recordable(out) == IF file # <<>> THEN out ELSE FromStart(out)

Write == emitted' = emitted \o units' /\ file' = file \o Recordable(units')

\* One datagram of the stream: counted, depacketised, written.
Arrive(k) ==
    /\ Observe(Number(k))
    /\ PushPayload(Script[k])
    /\ Write
    /\ arrivals' = Append(arrivals, k) /\ counted' = Append(counted, k)
    /\ UNCHANGED running

Fault == running /\ faults < MaxFaults /\ faults' = faults + 1

Deliver ==
    /\ running /\ sent < Len(Script)
    /\ Arrive(sent + 1)
    /\ sent' = sent + 1
    /\ UNCHANGED <<delayed, faults>>

DeliverCopied ==
    /\ Fault /\ sent < Len(Script)
    /\ Arrive(sent + 1)
    /\ sent' = sent + 1 /\ delayed' = delayed \cup {sent + 1}

Lose ==
    /\ Fault /\ sent < Len(Script)
    /\ sent' = sent + 1
    /\ UNCHANGED <<tracker, depacketizer, delayed, file, running, arrivals, counted, emitted>>

Delay ==
    /\ Fault /\ sent < Len(Script)
    /\ sent' = sent + 1 /\ delayed' = delayed \cup {sent + 1}
    /\ UNCHANGED <<tracker, depacketizer, file, running, arrivals, counted, emitted>>

DeliverLate ==
    /\ running
    /\ \E k \in delayed : Arrive(k) /\ delayed' = delayed \ {k}
    /\ UNCHANGED <<sent, faults>>

\* A datagram on the port that is not RTP.
Stray ==
    /\ Fault
    /\ PushNotRtp /\ Write
    /\ UNCHANGED <<tracker, sent, delayed, running, arrivals, counted>>

\* One of another payload type: not counted as of this stream, and depacketised
\* all the same.
Foreign == 0
ForeignPacket ==
    [timestamp |-> Foreign, marker |-> FALSE,
     payload |-> [form |-> "StapA", malformed |-> TRUE,
                  nals |-> <<[kind |-> "Slice", parts |-> <<<<Foreign, 1, 1>>>>]>>]]

\* What is on the air may be pushed; its numbers go round less than half way.
ASSUME ScriptAssumption ==
    /\ Script \in Seq(Packets) /\ Len(Script) < SeqSpace \div 2
    /\ ForeignPacket \in Packets

StrayStream ==
    /\ Fault
    /\ PushPayload(ForeignPacket) /\ Write
    /\ arrivals' = Append(arrivals, Foreign)
    /\ UNCHANGED <<tracker, sent, delayed, running, counted>>

\* The caller of a stream that stalled or restarted resets both machines.
Restart ==
    /\ Fault
    /\ TrackerReset
    /\ DepackReset
    /\ arrivals' = <<>> /\ counted' = <<>>
    /\ UNCHANGED <<sent, delayed, file, running, emitted>>

\* The recording time is over: what is open is flushed, if the file has begun.
Stop ==
    /\ running
    /\ running' = FALSE
    /\ Flush
    /\ emitted' = emitted \o units'
    /\ file' = IF depack'.keyframe_seen THEN file \o units' ELSE file
    /\ UNCHANGED <<tracker, link, arrivals, counted>>

Next ==
    \/ Deliver \/ DeliverCopied \/ Lose \/ Delay \/ DeliverLate
    \/ Stray \/ StrayStream \/ Restart
    \/ Stop

Spec == Init /\ [][Next]_vars

-----------------------------------------------------------------------------
Arrived == ToSet(counted)
HighestOf(seq) == CHOOSE k \in ToSet(seq) : \A j \in ToSet(seq) : j <= k

\* No packet came before the first, or as late as the window is wide.
WithinWindow ==
    \A i \in DOMAIN counted :
        /\ counted[i] >= counted[1]
        /\ HighestOf(SubSeq(counted, 1, i)) - counted[i] < Window

\* src/rtp.rs: a late arrival retires a gap instead of counting it twice, and a
\* copy counts as a copy.  As long as packets are late by less than the window
\* the counters are exact, across the wrap of the numbers.
LossIsExact ==
    (counted # <<>> /\ WithinWindow) =>
        /\ received = Cardinality(Arrived)
        /\ lost = HighestOf(counted) - counted[1] + 1 - Cardinality(Arrived)
        /\ duplicates = Len(counted) - Cardinality(Arrived)

Whole(p) == [timestamp |-> p, nals |-> Nals(p), closed_by_marker |-> TRUE]

\* The file holds everything returned from the first picture on that can be decoded
\* alone.
FileIsWanted == file = FromStart(emitted)

\* The packets of p came one after the other from the one after the n-th arrival on,
\* and none of them at another time.
CameFrom(p, n) ==
    /\ SubSeq(arrivals, n + 1, n + Len(Own(p))) = Own(p)
    /\ \A i \in DOMAIN arrivals : arrivals[i] \in ToSet(Own(p)) => i - n \in DOMAIN Own(p)
CameClean(p) == \E n \in 0 .. Len(arrivals) - Len(Own(p)) : CameFrom(p, n)

\* A picture whose packets came one after the other, and only they, is returned
\* whole and closed by its marker, whatever happened to the pictures around it;
\* and it is in the file, whose first picture can be decoded alone.
CleanPictureComesOut ==
    /\ FileIsWanted
    /\ \A p \in DOMAIN Pictures : CameClean(p) => Whole(p) \in ToSet(emitted)

\* src/h264.rs, rtp.rs: the counters tell a bad link.  A unit that a packet closed
\* and that is not its whole picture goes with a loss, a copy or a late packet in
\* the tracker, unless the stream was joined inside that very picture or a
\* stranger's packets got in.
DamageIsCounted ==
    [][ \A i \in DOMAIN emitted' \ DOMAIN emitted :
            LET u == emitted'[i]
            IN  (running' /\ u.timestamp # Foreign /\ u.nals # Nals(u.timestamp)) =>
                    \/ LostEstimate' > 0 \/ duplicates' > 0 \/ reordered' > 0
                    \/ arrivals'[1] > Own(u.timestamp)[1]
                    \/ Foreign \in ToSet(arrivals') ]_vars

\* src/h264.rs on a lost fragment start: a fragment is dropped rather than
\* emitted under a header that is not its own.
NeverHeadless ==
    \A u \in ToSet(emitted) : \A n \in DOMAIN u.nals : \A i \in DOMAIN u.nals[n].parts :
        u.nals[n].parts[i][2] = u.nals[n].parts[1][2]

\* src/h264.rs on push: RTP of another payload type yields nothing.
StrangerYieldsNothing == \A u \in ToSet(emitted) : u.timestamp # Foreign
=============================================================================
