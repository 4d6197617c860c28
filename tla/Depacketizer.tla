------------------------------ MODULE Depacketizer ------------------------------
(***************************************************************************)
(* RTP packets to H.264 access units (Depacketizer, src/h264.rs).  A NAL   *)
(* unit is its kind and the sequence of the pieces its bytes came in; a    *)
(* piece is a tuple that starts with the timestamp it was sent under.  A   *)
(* packet is a timestamp, the marker bit and a payload, and that is        *)
(* one NAL, an aggregate of several that may end malformed, a fragment, or *)
(* unsupported, which also stands for an empty payload and for a fragment  *)
(* too short to be one.                                                    *)
(***************************************************************************)
EXTENDS Naturals, Sequences

CONSTANTS
    None,     \* no picture or fragment open, no parameter set seen
    Packets   \* those that may be pushed

NalUnits == [kind : STRING, parts : Seq(Seq(Nat))]

Payloads ==
    [form : {"Single"}, nals : Seq(NalUnits)]
        \cup [form : {"StapA"}, nals : Seq(NalUnits), malformed : BOOLEAN]
        \cup [form : {"FuA"}, kind : STRING, piece : Seq(Nat), start : BOOLEAN, end : BOOLEAN]
        \cup [form : {"Unsupported"}]

SentUnder(nal, timestamp) == \A i \in DOMAIN nal.parts : nal.parts[i][1] = timestamp

ASSUME PacketsAssumption ==
    /\ None \notin Nat /\ None \notin NalUnits
    /\ Packets \subseteq [timestamp : Nat, marker : BOOLEAN, payload : Payloads]
    /\ \A p \in Packets :
        /\ p.payload.form \in {"Single", "StapA"} =>
             \A n \in DOMAIN p.payload.nals : SentUnder(p.payload.nals[n], p.timestamp)
        /\ p.payload.form = "FuA" => p.payload.piece[1] = p.timestamp

VARIABLES
    depack,   \* the fields of the struct
    units     \* what the last operation returned

depacketizer == <<depack, units>>

New ==
    [timestamp |-> None, nals |-> <<>>, fu |-> None, sps |-> None, pps |-> None,
     keyframe_seen |-> FALSE,
     access_units |-> 0, keyframes |-> 0, nal_units |-> 0,
     dropped_fragments |-> 0, unsupported_packets |-> 0, units_closed_without_marker |-> 0]

Kinds(nals) == {nals[i].kind : i \in DOMAIN nals}

IsKeyframe(nals) == "IDR" \in Kinds(nals)

IsDecodableStart(nals) == IsKeyframe(nals) /\ {"SPS", "PPS"} \subseteq Kinds(nals)

Unsupported(d) == [d EXCEPT !.unsupported_packets = @ + 1]

\* An unfinished fragmented NAL is given up, and counted once.
DropFu(d) ==
    IF d.fu = None THEN d ELSE [d EXCEPT !.fu = None, !.dropped_fragments = @ + 1]

\* What emit leaves behind, and what it returns: no unit at all for no NAL.
Emitted(d) ==
    IF d.nals = <<>> THEN d
    ELSE [d EXCEPT !.nals = <<>>, !.access_units = @ + 1,
                   !.keyframes = IF IsKeyframe(d.nals) THEN @ + 1 ELSE @,
                   !.keyframe_seen = @ \/ IsDecodableStart(d.nals)]

Unit(d, byMarker) ==
    IF d.nals = <<>> THEN <<>>
    ELSE <<[timestamp |-> d.timestamp, nals |-> d.nals, closed_by_marker |-> byMarker]>>

\* The last NAL of a kind, if there is one.
LastOf(kind, nals, otherwise) ==
    LET at == {i \in DOMAIN nals : nals[i].kind = kind}
    IN  IF at = {} THEN otherwise ELSE nals[CHOOSE i \in at : \A j \in at : j <= i]

PushNals(d, nals) ==
    [d EXCEPT !.nals = @ \o nals, !.nal_units = @ + Len(nals),
              !.sps = LastOf("SPS", nals, @), !.pps = LastOf("PPS", nals, @)]

\* Every entry before a malformed one counts.
ConsumeStapA(d, payload) ==
    LET pushed == PushNals(d, payload.nals)
    IN  IF payload.malformed THEN Unsupported(pushed) ELSE pushed

\* A continuation is appended to whatever NAL is open; with none open it is dropped.
ExtendFu(d, payload) ==
    IF d.fu = None THEN [d EXCEPT !.dropped_fragments = @ + 1]
    ELSE [d EXCEPT !.fu.parts = Append(@, payload.piece)]

StartFu(d, payload) ==
    [DropFu(d) EXCEPT !.fu = [kind |-> payload.kind, parts |-> <<payload.piece>>]]

ConsumeFuA(d, payload) ==
    LET grown == IF payload.start THEN StartFu(d, payload) ELSE ExtendFu(d, payload)
    IN  IF payload.end /\ grown.fu # None
        THEN PushNals([grown EXCEPT !.fu = None], <<grown.fu>>)
        ELSE grown

Consume(d, payload) ==
    CASE payload.form = "Single" -> PushNals(d, payload.nals)
      [] payload.form = "StapA"  -> ConsumeStapA(d, payload)
      [] payload.form = "FuA"    -> ConsumeFuA(d, payload)
      [] OTHER                   -> Unsupported(d)

-----------------------------------------------------------------------------
\* Closing what is open gives the new record and the units to return.

\* Fault: only a marker ends a picture.
ClosedByMarkerOnly(d, timestamp) == [d |-> [d EXCEPT !.timestamp = timestamp], units |-> <<>>]

\* The timestamp backstop: a packet of another time closes what is open.
ClosedByTimestamp(d, timestamp) ==
    IF d.timestamp \in {None, timestamp}
    THEN [d |-> [d EXCEPT !.timestamp = timestamp], units |-> <<>>]
    ELSE LET dropped == DropFu(d)
             out == Unit(dropped, FALSE)
         IN  [d |-> [Emitted(dropped) EXCEPT !.timestamp = timestamp,
                                             !.units_closed_without_marker = @ + Len(out)],
              units |-> out]

ClosedByMarker(d) ==
    LET dropped == DropFu(d)
    IN  [d |-> [Emitted(dropped) EXCEPT !.timestamp = None], units |-> Unit(dropped, TRUE)]

DepackInit == depack = New /\ units = <<>>

\* Fault: the packet is taken in before the backstop looks at its timestamp.
PushPayloadBackstopLate(p) ==
    LET opened == ClosedByTimestamp(Consume(depack, p.payload), p.timestamp)
        closed == ClosedByMarker(opened.d)
    IN  /\ depack' = IF p.marker THEN closed.d ELSE opened.d
        /\ units' = IF p.marker THEN opened.units \o closed.units ELSE opened.units

PushPayload(p) ==
    LET opened == ClosedByTimestamp(depack, p.timestamp)
        consumed == Consume(opened.d, p.payload)
        closed == ClosedByMarker(consumed)
    IN  /\ depack' = IF p.marker THEN closed.d ELSE consumed
        /\ units' = IF p.marker THEN opened.units \o closed.units ELSE opened.units

\* A datagram that is not RTP is only counted.
PushNotRtp == depack' = Unsupported(depack) /\ units' = <<>>

Flush ==
    /\ depack' = IF depack.timestamp = None THEN depack
                 ELSE [Emitted(depack) EXCEPT !.timestamp = None, !.fu = None]
    /\ units' = IF depack.timestamp = None THEN <<>> ELSE Unit(depack, FALSE)

\* Everything partial goes; the counters, the parameter sets and keyframe_seen stay.
DepackReset ==
    /\ depack' = [depack EXCEPT !.timestamp = None, !.nals = <<>>, !.fu = None]
    /\ units' = <<>>

DepackNext ==
    \/ \E p \in Packets : PushPayload(p)
    \/ PushNotRtp \/ Flush \/ DepackReset

DepackSpec == DepackInit /\ [][DepackNext]_depacketizer

-----------------------------------------------------------------------------
\* A picture is never glued to another: every NAL and every fragment in a unit
\* was sent under that unit's timestamp.
OnePicture ==
    \A k \in DOMAIN units : \A n \in DOMAIN units[k].nals :
        SentUnder(units[k].nals[n], units[k].timestamp)
=============================================================================
