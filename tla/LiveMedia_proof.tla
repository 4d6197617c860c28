---------------------------- MODULE LiveMedia_proof ----------------------------
(***************************************************************************)
(* The two machines of the receive path and the loop that drives them, for *)
(* every sequence space, window, set of packets and script.                *)
(*   SequenceTracker alone: the counters never lose a packet.              *)
(*   Depacketizer alone: no unit joins what was sent under two timestamps. *)
(*   LiveMedia: the counters are exact as long as no packet is later than  *)
(* the window is wide, and the file is what came from the first decodable  *)
(* picture on.  The invariant LiveInv says what the counters and the       *)
(* window are in terms of the packets that came (CountInv), and that       *)
(* keyframe_seen is whether a decodable start was returned (Recording).    *)
(* On top of it PictureInv follows a picture from its first packet on:     *)
(* what has come of it, and nothing else, is in the depacketizer           *)
(* (Gathering), and counters that show nothing mean the order of the       *)
(* script (InOrder).  So a picture that comes clean is returned whole, and *)
(* damage shows in the counters.                                           *)
(***************************************************************************)
EXTENDS LiveMedia, FiniteSetTheorems, SequenceTheorems, WellFoundedInduction, TLAPS

-----------------------------------------------------------------------------
(* The tracker of src/rtp.rs.                                              *)

\* The invariant that carries the proof: until a packet is seen nothing is counted.
Counting ==
    /\ TrackerTypeOK
    /\ Conservation
    /\ highest = Unseen => received = 0 /\ lost = 0 /\ expected = 0

\* A distance between two numbers is a number of the space.
LEMMA AheadIsSequence ==
    ASSUME NEW a \in Int, NEW b \in Int
    PROVE  Ahead(a, b) \in Nat /\ Ahead(a, b) < SeqSpace
BY TrackerAssumption DEF Ahead

\* The window only ever holds distances it is wide enough for.
LEMMA SlidInWindow ==
    ASSUME NEW delta \in Nat \ {0}
    PROVE  Slid(delta) \subseteq 1 .. Window
BY TrackerAssumption DEF Slid

LEMMA ObserveCounts ==
    ASSUME NEW s \in Sequences, Counting, Observe(s)
    PROVE  Counting'
<1> USE DEF Counting, TrackerTypeOK, Conservation
<1>1. CASE First(s)
  BY <1>1, TrackerAssumption DEF First, Sequences, Unseen
<1>2. CASE Forward(s)
  <2>1. PICK delta \in Nat \ {0} :
            /\ lost' = lost + delta - 1 /\ expected' = expected + delta
            /\ window' = Slid(delta)
    <3>1. Ahead(s, highest) \in 1 .. SeqSpace \div 2 - 1
      BY <1>2 DEF Forward
    <3>2. Ahead(s, highest) \in Nat \ {0}
      BY <3>1, TrackerAssumption
    <3>3. lost' = lost + Ahead(s, highest) - 1 /\ expected' = expected + Ahead(s, highest)
          /\ window' = Slid(Ahead(s, highest))
      BY <1>2 DEF Forward
    <3> QED
      BY <3>2, <3>3
  <2>2. received' = received + 1 /\ highest' = s /\ UNCHANGED <<duplicates, reordered>>
    BY <1>2 DEF Forward
  <2>3. window' \subseteq 1 .. Window
    BY <2>1, SlidInWindow
  <2>4. s # Unseen
    BY DEF Sequences, Unseen
  <2> QED
    BY <2>1, <2>2, <2>3, <2>4
<1>3. CASE Duplicate(s)
  BY <1>3 DEF Duplicate
<1>4. CASE Late(s)
  <2>1. highest # Unseen /\ highest' = highest
    BY <1>4 DEF Late, Backward
  <2>2. window' \subseteq 1 .. Window
    BY <1>4 DEF Late
  <2>3. received' = received + 1 /\ lost' = lost - 1 /\ expected' = expected
    BY <1>4 DEF Late
  <2>4. reordered' = reordered + 1 /\ duplicates' = duplicates
    BY <1>4 DEF Late
  <2> QED
    BY <2>1, <2>2, <2>3, <2>4
<1> QED
  BY <1>1, <1>2, <1>3, <1>4 DEF Observe

LEMMA CountingInvariant == TrackerSpec => []Counting
<1>1. TrackerInit => Counting
  BY TrackerAssumption DEF TrackerInit, Counting, TrackerTypeOK, Conservation, Sequences
<1>2. Counting /\ [TrackerNext]_tracker => Counting'
  <2> SUFFICES ASSUME Counting, [TrackerNext]_tracker PROVE Counting'
    OBVIOUS
  <2>1. CASE TrackerReset
    BY <2>1 DEF TrackerReset, Counting, TrackerTypeOK, Conservation
  <2>2. CASE \E s \in Sequences : Observe(s)
    BY <2>2, ObserveCounts
  <2>3. CASE UNCHANGED tracker
    BY <2>3 DEF tracker, Counting, TrackerTypeOK, Conservation
  <2> QED
    BY <2>1, <2>2, <2>3 DEF TrackerNext
<1> QED
  BY <1>1, <1>2, PTL DEF TrackerSpec

\* Every number from the first packet to the highest is received or lost, never
\* both and never neither, in every order of arrival and across every wrap
\* (SequenceTracker::observe).
THEOREM TrackerConserves == TrackerSpec => [](TrackerTypeOK /\ Conservation)
<1>1. Counting => TrackerTypeOK /\ Conservation
  BY DEF Counting
<1> QED
  BY <1>1, CountingInvariant, PTL

-----------------------------------------------------------------------------
(* The depacketizer of src/h264.rs.                                        *)

\* The part of the struct the argument is about is there.
HasPartial(d) ==
    /\ {"timestamp", "nals", "fu", "keyframe_seen"} \subseteq DOMAIN d
    /\ d.timestamp \in Nat \cup {None}
    /\ d.nals \in Seq(NalUnits) /\ d.fu \in NalUnits \cup {None}

AllSentUnder(nals, timestamp) == \A n \in DOMAIN nals : SentUnder(nals[n], timestamp)

\* What is open was sent under the timestamp that is open.
Coherent(d) ==
    /\ HasPartial(d)
    /\ AllSentUnder(d.nals, d.timestamp)
    /\ d.fu # None => SentUnder(d.fu, d.timestamp)
    /\ d.timestamp = None => d.nals = <<>> /\ d.fu = None

OnePictureIn(out) == \A k \in DOMAIN out : AllSentUnder(out[k].nals, out[k].timestamp)

Units == [timestamp : Nat, nals : Seq(NalUnits), closed_by_marker : BOOLEAN]

LEMMA DropFuCoherent ==
    ASSUME NEW d, Coherent(d)
    PROVE  /\ Coherent(DropFu(d)) /\ DropFu(d).fu = None
           /\ DropFu(d).timestamp = d.timestamp
BY DEF Coherent, HasPartial, DropFu

LEMMA EmittedIsEmpty ==
    ASSUME NEW d, Coherent(d)
    PROVE  /\ Emitted(d).nals = <<>> /\ Emitted(d).fu = d.fu /\ DOMAIN Emitted(d) = DOMAIN d
BY DEF Coherent, HasPartial, Emitted

LEMMA UnitIsOnePicture ==
    ASSUME NEW d, Coherent(d), NEW byMarker \in BOOLEAN
    PROVE  Unit(d, byMarker) \in Seq(Units) /\ OnePictureIn(Unit(d, byMarker))
<1>1. CASE d.nals = <<>>
  BY <1>1 DEF Unit, OnePictureIn
<1>2. CASE d.nals # <<>>
  <2> DEFINE u == [timestamp |-> d.timestamp, nals |-> d.nals, closed_by_marker |-> byMarker]
  <2>1. u \in Units
    BY <1>2 DEF Coherent, HasPartial, Units
  <2>2. Unit(d, byMarker) = <<u>>
    BY <1>2 DEF Unit
  <2>3. AllSentUnder(u.nals, u.timestamp)
    BY DEF Coherent
  <2> HIDE DEF u
  <2> QED
    BY <2>1, <2>2, <2>3 DEF OnePictureIn
<1> QED
  BY <1>1, <1>2

LEMMA ConcatIsOnePicture ==
    ASSUME NEW out1 \in Seq(Units), NEW out2 \in Seq(Units), OnePictureIn(out1), OnePictureIn(out2)
    PROVE  out1 \o out2 \in Seq(Units) /\ OnePictureIn(out1 \o out2)
BY DEF OnePictureIn

LEMMA PushNalsCoherent ==
    ASSUME NEW d, Coherent(d), d.timestamp # None,
           NEW nals \in Seq(NalUnits), AllSentUnder(nals, d.timestamp)
    PROVE  /\ Coherent(PushNals(d, nals))
           /\ PushNals(d, nals).timestamp = d.timestamp
<1> DEFINE e == PushNals(d, nals)
<1>1. DOMAIN e = DOMAIN d /\ e.timestamp = d.timestamp /\ e.fu = d.fu /\ e.nals = d.nals \o nals
  BY DEF PushNals, Coherent, HasPartial
<1>2. e.nals \in Seq(NalUnits)
  BY <1>1 DEF Coherent, HasPartial
<1>3. AllSentUnder(e.nals, e.timestamp)
  BY <1>1 DEF Coherent, HasPartial, AllSentUnder
<1> QED
  BY <1>1, <1>2, <1>3 DEF Coherent, HasPartial

LEMMA UnsupportedCoherent ==
    ASSUME NEW d, Coherent(d)
    PROVE  Coherent(Unsupported(d)) /\ Unsupported(d).timestamp = d.timestamp
BY DEF Coherent, HasPartial, Unsupported

LEMMA AggregateCoherent ==
    ASSUME NEW d, Coherent(d), d.timestamp # None, NEW payload,
           payload.nals \in Seq(NalUnits), AllSentUnder(payload.nals, d.timestamp)
    PROVE  /\ Coherent(ConsumeStapA(d, payload))
           /\ ConsumeStapA(d, payload).timestamp = d.timestamp
BY PushNalsCoherent, UnsupportedCoherent DEF ConsumeStapA

\* A fragment joins only what was opened under its own timestamp.
LEMMA FragmentCoherent ==
    ASSUME NEW d, Coherent(d), d.timestamp # None, NEW payload,
           payload.kind \in STRING, payload.piece \in Seq(Nat), payload.piece[1] = d.timestamp
    PROVE  /\ Coherent(ConsumeFuA(d, payload))
           /\ ConsumeFuA(d, payload).timestamp = d.timestamp
<1> DEFINE opened == [kind |-> payload.kind, parts |-> <<payload.piece>>]
           grown == IF payload.start THEN StartFu(d, payload) ELSE ExtendFu(d, payload)
<1>1. opened \in NalUnits /\ SentUnder(opened, d.timestamp)
  BY DEF NalUnits, SentUnder
<1>2. Coherent(StartFu(d, payload)) /\ StartFu(d, payload).timestamp = d.timestamp
  <2> DEFINE e == DropFu(d)
  <2>1. Coherent(e) /\ e.timestamp = d.timestamp
    BY DropFuCoherent
  <2>2. StartFu(d, payload) = [e EXCEPT !.fu = opened]
    BY DEF StartFu
  <2> HIDE DEF e, opened
  <2> QED
    BY <1>1, <2>1, <2>2 DEF Coherent, HasPartial
<1>3. Coherent(ExtendFu(d, payload)) /\ ExtendFu(d, payload).timestamp = d.timestamp
  <2>1. CASE d.fu = None
    BY <2>1 DEF ExtendFu, Coherent, HasPartial
  <2>2. CASE d.fu # None
    <3> DEFINE more == [d.fu EXCEPT !.parts = Append(@, payload.piece)]
               longer == Append(d.fu.parts, payload.piece)
    <3>1. d.fu \in NalUnits /\ SentUnder(d.fu, d.timestamp)
      BY <2>2 DEF Coherent, HasPartial
    <3>2. more \in NalUnits /\ more.parts = longer
      <4>1. longer \in Seq(Seq(Nat))
        BY <3>1 DEF NalUnits
      <4>2. more = [d.fu EXCEPT !.parts = longer]
        OBVIOUS
      <4> HIDE DEF longer, more
      <4> QED
        BY <3>1, <4>1, <4>2 DEF NalUnits
    <3>3. SentUnder(more, d.timestamp)
      BY SMTT(20), <3>1, <3>2 DEF NalUnits, SentUnder
    <3>4. ExtendFu(d, payload) = [d EXCEPT !.fu = more]
      BY <2>2 DEF ExtendFu, Coherent, HasPartial
    <3> HIDE DEF more
    <3> DEFINE e == [d EXCEPT !.fu = more]
    <3>5. e.fu = more /\ e.nals = d.nals /\ e.timestamp = d.timestamp /\ DOMAIN e = DOMAIN d
      BY DEF Coherent, HasPartial
    <3> HIDE DEF e
    <3>6. Coherent(e)
      BY <3>2, <3>3, <3>5 DEF Coherent, HasPartial
    <3> QED
      BY <3>4, <3>5, <3>6 DEF e
  <2> QED
    BY <2>1, <2>2
<1>4. Coherent(grown) /\ grown.timestamp = d.timestamp
  BY <1>2, <1>3
<1> HIDE DEF grown
<1>5. CASE payload.end /\ grown.fu # None
  <2> DEFINE e == [grown EXCEPT !.fu = None]
  <2>1. Coherent(e) /\ e.timestamp = d.timestamp
    BY <1>4 DEF Coherent, HasPartial
  <2>2. <<grown.fu>> \in Seq(NalUnits) /\ AllSentUnder(<<grown.fu>>, d.timestamp)
    BY <1>4, <1>5 DEF Coherent, HasPartial, AllSentUnder
  <2>3. ConsumeFuA(d, payload) = PushNals(e, <<grown.fu>>)
    BY <1>5 DEF ConsumeFuA, grown
  <2> HIDE DEF e
  <2> QED
    BY <2>1, <2>2, <2>3, PushNalsCoherent
<1>6. CASE ~ (payload.end /\ grown.fu # None)
  <2>1. ConsumeFuA(d, payload) = grown
    BY <1>6 DEF ConsumeFuA, grown
  <2> QED
    BY <1>4, <2>1
<1> QED
  BY <1>5, <1>6

LEMMA ConsumeCoherent ==
    ASSUME NEW p \in Packets, NEW d, Coherent(d), d.timestamp = p.timestamp
    PROVE  /\ Coherent(Consume(d, p.payload))
           /\ Consume(d, p.payload).timestamp = d.timestamp
<1>1. p.timestamp \in Nat /\ p.payload \in Payloads /\ d.timestamp # None
  BY PacketsAssumption
<1>2. CASE p.payload.form = "Single"
  <2>1. p.payload.nals \in Seq(NalUnits)
    BY <1>1, <1>2 DEF Payloads
  <2>2. AllSentUnder(p.payload.nals, d.timestamp)
    BY <1>2, PacketsAssumption DEF AllSentUnder
  <2> QED
    BY <1>1, <1>2, <2>1, <2>2, PushNalsCoherent DEF Consume
<1>3. CASE p.payload.form = "StapA"
  <2>1. p.payload.nals \in Seq(NalUnits)
    BY <1>1, <1>3 DEF Payloads
  <2>2. AllSentUnder(p.payload.nals, d.timestamp)
    BY <1>3, PacketsAssumption DEF AllSentUnder
  <2> QED
    BY <1>1, <1>3, <2>1, <2>2, AggregateCoherent DEF Consume
<1>4. CASE p.payload.form = "FuA"
  <2>1. p.payload.kind \in STRING /\ p.payload.piece \in Seq(Nat)
    BY <1>1, <1>4 DEF Payloads
  <2>2. p.payload.piece[1] = d.timestamp
    BY <1>4, PacketsAssumption
  <2> QED
    BY <1>1, <1>4, <2>1, <2>2, FragmentCoherent DEF Consume
<1>5. CASE p.payload.form \notin {"Single", "StapA", "FuA"}
  BY <1>5, UnsupportedCoherent DEF Consume
<1> QED
  BY <1>2, <1>3, <1>4, <1>5

\* The timestamp backstop leaves nothing of another time open.
LEMMA BackstopCoherent ==
    ASSUME NEW d, Coherent(d), NEW t \in Nat
    PROVE  LET opened == ClosedByTimestamp(d, t)
           IN  /\ Coherent(opened.d) /\ opened.d.timestamp = t
               /\ opened.units \in Seq(Units) /\ OnePictureIn(opened.units)
<1>1. CASE d.timestamp \in {None, t}
  <2> DEFINE e == [d EXCEPT !.timestamp = t]
  <2>1. ClosedByTimestamp(d, t) = [d |-> e, units |-> <<>>]
    BY <1>1 DEF ClosedByTimestamp
  <2>2. e.timestamp = t /\ e.nals = d.nals /\ e.fu = d.fu /\ DOMAIN e = DOMAIN d
    BY DEF Coherent, HasPartial
  <2>3. Coherent(e)
    BY <1>1, <2>2, PacketsAssumption DEF Coherent, HasPartial, AllSentUnder
  <2> HIDE DEF e
  <2> QED
    BY <2>1, <2>2, <2>3 DEF OnePictureIn
<1>2. CASE d.timestamp \notin {None, t}
  <2> DEFINE f == DropFu(d)
             out == Unit(f, FALSE)
             e == [Emitted(f) EXCEPT !.timestamp = t, !.units_closed_without_marker = @ + Len(out)]
  <2>1. Coherent(f) /\ f.fu = None
    BY DropFuCoherent
  <2>2. out \in Seq(Units) /\ OnePictureIn(out)
    BY <2>1, UnitIsOnePicture
  <2>3. Emitted(f).nals = <<>> /\ Emitted(f).fu = None /\ DOMAIN Emitted(f) = DOMAIN f
    BY <2>1, EmittedIsEmpty
  <2>4. ClosedByTimestamp(d, t) = [d |-> e, units |-> out]
    BY <1>2 DEF ClosedByTimestamp
  <2> HIDE DEF f, out
  <2>5. e.timestamp = t /\ e.nals = <<>> /\ e.fu = None /\ DOMAIN e = DOMAIN f
    BY <2>1, <2>3 DEF Coherent, HasPartial
  <2> HIDE DEF e
  <2>6. Coherent(e)
    BY <2>1, <2>5, PacketsAssumption DEF Coherent, HasPartial, AllSentUnder
  <2> QED
    BY <2>2, <2>4, <2>5, <2>6
<1> QED
  BY <1>1, <1>2

LEMMA MarkerCoherent ==
    ASSUME NEW d, Coherent(d)
    PROVE  LET closed == ClosedByMarker(d)
           IN  /\ Coherent(closed.d)
               /\ closed.units \in Seq(Units) /\ OnePictureIn(closed.units)
<1> DEFINE f == DropFu(d)
           e == [Emitted(f) EXCEPT !.timestamp = None]
           out == Unit(f, TRUE)
<1>1. Coherent(f) /\ f.fu = None
  BY DropFuCoherent
<1>2. out \in Seq(Units) /\ OnePictureIn(out)
  BY <1>1, UnitIsOnePicture
<1>3. Emitted(f).nals = <<>> /\ Emitted(f).fu = None /\ DOMAIN Emitted(f) = DOMAIN f
  BY <1>1, EmittedIsEmpty
<1>4. ClosedByMarker(d) = [d |-> e, units |-> out]
  BY DEF ClosedByMarker
<1> HIDE DEF f, out
<1>5. e.timestamp = None /\ e.nals = <<>> /\ e.fu = None /\ DOMAIN e = DOMAIN f
  BY <1>1, <1>3 DEF Coherent, HasPartial
<1> HIDE DEF e
<1>6. Coherent(e)
  BY <1>1, <1>5 DEF Coherent, HasPartial, AllSentUnder
<1> QED
  BY <1>2, <1>4, <1>6

-----------------------------------------------------------------------------
\* The inductive invariant.
DepackInvariant ==
    /\ Coherent(depack)
    /\ units \in Seq(Units)
    /\ OnePictureIn(units)

LEMMA PushKeeps ==
    ASSUME DepackInvariant, NEW p \in Packets, PushPayload(p)
    PROVE  DepackInvariant'
<1> DEFINE opened == ClosedByTimestamp(depack, p.timestamp)
           consumed == Consume(opened.d, p.payload)
           closed == ClosedByMarker(consumed)
<1>1. Coherent(opened.d) /\ opened.d.timestamp = p.timestamp
      /\ opened.units \in Seq(Units) /\ OnePictureIn(opened.units)
  BY BackstopCoherent, PacketsAssumption DEF DepackInvariant
<1>2. Coherent(consumed)
  BY <1>1, ConsumeCoherent
<1>3. Coherent(closed.d) /\ closed.units \in Seq(Units) /\ OnePictureIn(closed.units)
  BY <1>2, MarkerCoherent
<1>4. opened.units \o closed.units \in Seq(Units) /\ OnePictureIn(opened.units \o closed.units)
  BY <1>1, <1>3, ConcatIsOnePicture
<1>5. /\ depack' = IF p.marker THEN closed.d ELSE consumed
      /\ units' = IF p.marker THEN opened.units \o closed.units ELSE opened.units
  BY DEF PushPayload
<1> HIDE DEF opened, consumed, closed
<1> QED
  BY <1>1, <1>2, <1>3, <1>4, <1>5 DEF DepackInvariant

LEMMA FlushKeeps ==
    ASSUME DepackInvariant, Flush
    PROVE  DepackInvariant'
<1> DEFINE e == [Emitted(depack) EXCEPT !.timestamp = None, !.fu = None]
<1>1. CASE depack.timestamp = None
  BY <1>1 DEF Flush, DepackInvariant, OnePictureIn
<1>2. CASE depack.timestamp # None
  <2>1. depack' = e /\ units' = Unit(depack, FALSE)
    BY <1>2 DEF Flush
  <2>2. e.timestamp = None /\ e.nals = <<>> /\ e.fu = None /\ DOMAIN e = DOMAIN depack
    BY EmittedIsEmpty DEF DepackInvariant, Coherent, HasPartial
  <2>3. units' \in Seq(Units) /\ OnePictureIn(units')
    BY <2>1, UnitIsOnePicture DEF DepackInvariant
  <2> HIDE DEF e
  <2>4. Coherent(e)
    BY <2>2 DEF DepackInvariant, Coherent, HasPartial, AllSentUnder
  <2> QED
    BY <2>1, <2>3, <2>4 DEF DepackInvariant
<1> QED
  BY <1>1, <1>2

\* A unit never joins what was sent under two timestamps: a lost marker costs a
\* picture its end and never gives it another's (Depacketizer::push_payload).
THEOREM UnitsAreOnePicture == DepackSpec => []OnePicture
<1>1. DepackInit => DepackInvariant
  BY DEF DepackInit, New, DepackInvariant, Coherent, HasPartial, AllSentUnder, OnePictureIn
<1>2. DepackInvariant /\ [DepackNext]_depacketizer => DepackInvariant'
  <2> SUFFICES ASSUME DepackInvariant, [DepackNext]_depacketizer PROVE DepackInvariant'
    OBVIOUS
  <2>1. CASE \E p \in Packets : PushPayload(p)
    BY <2>1, PushKeeps
  <2>2. CASE PushNotRtp
    BY <2>2, UnsupportedCoherent DEF PushNotRtp, DepackInvariant, OnePictureIn
  <2>3. CASE Flush
    BY <2>3, FlushKeeps
  <2>4. CASE DepackReset
    <3> DEFINE e == [depack EXCEPT !.timestamp = None, !.nals = <<>>, !.fu = None]
    <3>1. e.timestamp = None /\ e.nals = <<>> /\ e.fu = None /\ DOMAIN e = DOMAIN depack
      BY DEF DepackInvariant, Coherent, HasPartial
    <3>2. depack' = e /\ units' = <<>>
      BY <2>4 DEF DepackReset
    <3> HIDE DEF e
    <3>3. Coherent(e)
      BY <3>1 DEF DepackInvariant, Coherent, HasPartial, AllSentUnder
    <3> QED
      BY <3>2, <3>3 DEF DepackInvariant, OnePictureIn
  <2>5. CASE UNCHANGED depacketizer
    BY <2>5 DEF depacketizer, DepackInvariant
  <2> QED
    BY <2>1, <2>2, <2>3, <2>4, <2>5 DEF DepackNext
<1>3. DepackInvariant => OnePicture
  BY DEF DepackInvariant, OnePictureIn, AllSentUnder, OnePicture
<1> QED
  BY <1>1, <1>2, <1>3, PTL DEF DepackSpec

-----------------------------------------------------------------------------
(* The numbers of the script and the way round between them.               *)

\* A remainder, when the number is not far out of range.
LEMMA Wrapped ==
    ASSUME NEW S \in Nat \ {0}, NEW x \in Int, - S <= x, x < 2 * S
    PROVE  /\ x < 0 => x % S = x + S
           /\ 0 <= x /\ x < S => x % S = x
           /\ S <= x => x % S = x - S
  <1>1. CASE x < 0
    <2>1. x = S * (-1) + (x + S) /\ 0 <= x + S /\ x + S < S
      BY <1>1
    <2> QED
      BY <2>1
  <1>2. CASE 0 <= x /\ x < S
    BY <1>2
  <1>3. CASE S <= x
    <2>1. x = S * 1 + (x - S) /\ 0 <= x - S /\ x - S < S
      BY <1>3
    <2> QED
      BY <2>1
  <1> QED
    BY <1>1, <1>2, <1>3

\* The bounds on the constants, one by one.
LEMMA SpaceIs ==
    /\ SeqSpace \in Nat \ {0}
    /\ SeqSpace \div 2 \in Nat /\ 2 * (SeqSpace \div 2) = SeqSpace
    /\ Window \in Nat \ {0} /\ Window < SeqSpace \div 2
    /\ Len(Script) \in Nat /\ Len(Script) < SeqSpace \div 2
    /\ FirstNumber \in 0 .. SeqSpace - 1
  BY TrackerAssumption, LiveAssumption, ScriptAssumption, LenProperties

\* The number of a packet, and the way round from one packet to another.
LEMMA NumberIs ==
    ASSUME NEW k \in 1 .. Len(Script)
    PROVE  /\ Number(k) \in {FirstNumber + k - 1, FirstNumber + k - 1 - SeqSpace}
           /\ Number(k) \in Sequences /\ Number(k) # Unseen
  <1> DEFINE x == FirstNumber + k - 1
  <1>1. x \in Int /\ 0 <= x /\ x < 2 * SeqSpace /\ - SeqSpace <= x
    BY SpaceIs
  <1>2. Number(k) = x % SeqSpace
    BY DEF Number
  <1> HIDE DEF x
  <1>3. x < SeqSpace => x % SeqSpace = x
    BY <1>1, Wrapped, SpaceIs
  <1>4. SeqSpace <= x => x % SeqSpace = x - SeqSpace
    BY <1>1, Wrapped, SpaceIs
  <1>5. Number(k) \in {x, x - SeqSpace} /\ 0 <= Number(k) /\ Number(k) <= SeqSpace - 1 /\ Number(k) \in Int
    BY <1>1, <1>2, <1>3, <1>4, SpaceIs
  <1>6. Number(k) \in Sequences /\ Number(k) # Unseen
    BY <1>5, SpaceIs DEF Sequences, Unseen
  <1>7. x = FirstNumber + k - 1
    BY DEF x
  <1> QED
    BY <1>1, <1>5, <1>6, <1>7, SpaceIs

\* The way round between two packets is the distance in the script, forwards or
\* backwards, because the script is shorter than half the space.
LEMMA AheadIs ==
    ASSUME NEW j \in 1 .. Len(Script), NEW k \in 1 .. Len(Script)
    PROVE  /\ k >= j => Ahead(Number(k), Number(j)) = k - j
           /\ k < j => Ahead(Number(k), Number(j)) = SeqSpace - (j - k)
  <1> DEFINE x == Number(k) - Number(j)
  <1>1. x \in Int /\ - SeqSpace <= x /\ x < SeqSpace /\ x < 2 * SeqSpace
    BY NumberIs, SpaceIs DEF Sequences
  <1>2. x \in {k - j, k - j + SeqSpace, k - j - SeqSpace}
    BY NumberIs, SpaceIs
  <1>3. Ahead(Number(k), Number(j)) = x % SeqSpace
    BY DEF Ahead
  <1> HIDE DEF x
  <1>4. x < 0 => x % SeqSpace = x + SeqSpace
    BY <1>1, Wrapped, SpaceIs
  <1>5. 0 <= x => x % SeqSpace = x
    BY <1>1, Wrapped, SpaceIs
  <1> QED
    BY <1>1, <1>2, <1>3, <1>4, <1>5, SpaceIs

-----------------------------------------------------------------------------
(* The counters against a count of what came.                              *)

\* What is counted so far, when the packets came in time: k is the highest of them.
CountedTo(k) ==
    /\ k \in ToSet(counted)
    /\ \A j \in ToSet(counted) : j <= k
    /\ highest = Number(k)
    /\ IsFiniteSet(ToSet(counted))
    /\ received = Cardinality(ToSet(counted))
    /\ expected = k - counted[1] + 1
    /\ duplicates = Len(counted) - Cardinality(ToSet(counted))
    /\ \A d \in window : d \in 1 .. Window /\ k - d \in ToSet(counted)
    /\ \A d \in 1 .. Window - 1 : k - d \in ToSet(counted) => d \in window

\* Nothing of the stream has come yet.
NoneCounted ==
    highest = Unseen /\ received = 0 /\ duplicates = 0 /\ expected = 0 /\ window = {}

\* As long as the packets come in time the counters are those of a count by hand.
CountInv ==
    /\ counted \in Seq(1 .. Len(Script))
    /\ counted = <<>> => NoneCounted
    /\ counted # <<>> /\ WithinWindow => \E k \in 1 .. Len(Script) : CountedTo(k)

\* What one more arrival adds to the set of those that came.
LEMMA Appended ==
    ASSUME NEW S, NEW s \in Seq(S), NEW x \in S
    PROVE  /\ Append(s, x) \in Seq(S) /\ Len(Append(s, x)) = Len(s) + 1 /\ Append(s, x) # <<>>
           /\ Append(s, x)[Len(s) + 1] = x
           /\ s # <<>> => Append(s, x)[1] = s[1]
           /\ s = <<>> => Append(s, x)[1] = x
           /\ ToSet(Append(s, x)) = ToSet(s) \cup {x}
           /\ SubSeq(Append(s, x), 1, Len(s) + 1) = Append(s, x)
           /\ \A i \in 1 .. Len(s) : /\ Append(s, x)[i] = s[i]
                                     /\ SubSeq(Append(s, x), 1, i) = SubSeq(s, 1, i)
  <1> DEFINE t == Append(s, x)
             n == Len(s)
  <1>0. n \in Nat /\ DOMAIN s = 1 .. n
    OBVIOUS
  <1>1. /\ t \in Seq(S) /\ Len(t) = n + 1 /\ DOMAIN t = 1 .. n + 1
        /\ t[n + 1] = x /\ \A i \in 1 .. n : t[i] = s[i]
    BY AppendProperties
  <1>2. t # <<>> /\ (s # <<>> => n > 0) /\ (s = <<>> => n = 0)
    <2>1. t # <<>>
      BY AppendProperties
    <2>2. s = <<>> <=> n = 0
      BY EmptySeq
    <2> QED
      BY <1>0, <2>1, <2>2
  <1>3. ToSet(t) = ToSet(s) \cup {x}
    <2>1. \A y : y \in ToSet(t) <=> \E i \in 1 .. n + 1 : t[i] = y
      BY <1>1 DEF ToSet
    <2>2. \A y : y \in ToSet(s) <=> \E i \in 1 .. n : s[i] = y
      BY <1>0 DEF ToSet
    <2> HIDE DEF t, n
    <2>3. \A y : (\E i \in 1 .. n + 1 : t[i] = y) <=> (\E i \in 1 .. n : s[i] = y) \/ y = x
      BY <1>0, <1>1
    <2> QED
      BY <2>1, <2>2, <2>3
  <1> HIDE DEF t, n
  <1>4. SubSeq(t, 1, n + 1) = t
    BY <1>0, <1>1, SubSeqProperties, SeqEqual
  <1>5. ASSUME NEW i \in 1 .. n
        PROVE  SubSeq(t, 1, i) = SubSeq(s, 1, i)
    <2>1. /\ SubSeq(t, 1, i) \in Seq(S) /\ Len(SubSeq(t, 1, i)) = i
          /\ \A j \in 1 .. i : SubSeq(t, 1, i)[j] = t[j]
      BY <1>0, <1>1, SubSeqProperties
    <2>2. /\ SubSeq(s, 1, i) \in Seq(S) /\ Len(SubSeq(s, 1, i)) = i
          /\ \A j \in 1 .. i : SubSeq(s, 1, i)[j] = s[j]
      BY <1>0, <1>1, SubSeqProperties DEF n
    <2>3. \A j \in 1 .. i : t[j] = s[j]
      BY <1>0, <1>1
    <2> DEFINE a == SubSeq(t, 1, i)
               b == SubSeq(s, 1, i)
    <2> HIDE DEF a, b
    <2>4. a \in Seq(S) /\ b \in Seq(S) /\ Len(a) = i /\ Len(b) = i /\ \A j \in 1 .. i : a[j] = b[j]
      BY <2>1, <2>2, <2>3 DEF a, b
    <2>5. a = b
      BY <2>4, SeqEqual
    <2> QED
      BY <2>5 DEF a, b
  <1> QED
    BY <1>0, <1>1, <1>2, <1>3, <1>4, <1>5 DEF t, n

\* The highest is what is at least as high as all the others.
LEMMA HighestIs ==
    ASSUME NEW seq, NEW m \in ToSet(seq), ToSet(seq) \subseteq Nat, \A j \in ToSet(seq) : j <= m
    PROVE  HighestOf(seq) = m
  BY DEF HighestOf

\* The first packet of the stream, or after a reset.
LEMMA FirstCounted ==
    ASSUME CountInv, NEW k \in 1 .. Len(Script), counted = <<>>,
           Observe(Number(k)), counted' = Append(counted, k)
    PROVE  CountInv'
  <1>1. NoneCounted
    BY DEF CountInv
  <1>2. First(Number(k))
    BY <1>1 DEF NoneCounted, Observe, Forward, Duplicate, Late, Backward
  <1>3. /\ highest' = Number(k) /\ received' = 1 /\ expected' = 1
        /\ duplicates' = 0 /\ window' = {}
    BY <1>1, <1>2 DEF First, NoneCounted
  <1>4. /\ counted' \in Seq(1 .. Len(Script)) /\ counted' # <<>>
        /\ Len(counted') = 1 /\ counted'[1] = k /\ ToSet(counted') = {k}
    <2>4. Append(<<>>, k) = <<k>>
      OBVIOUS
    <2>5. /\ <<k>> \in Seq(1 .. Len(Script)) /\ <<k>> # <<>> /\ Len(<<k>>) = 1 /\ <<k>>[1] = k
          /\ DOMAIN <<k>> = {1}
      OBVIOUS
    <2>6. ToSet(<<k>>) = {k}
      BY <2>5 DEF ToSet
    <2> QED
      BY <2>4, <2>5, <2>6
  <1>5. IsFiniteSet({k}) /\ Cardinality({k}) = 1
    BY FS_Singleton
  <1>6. k \in Nat
    BY SpaceIs
  <1>7. CountedTo(k)'
    <2>1. \A d \in 1 .. Window - 1 : k - d \notin {k}
      BY SpaceIs
    <2>2. expected' = k - counted'[1] + 1 /\ duplicates' = Len(counted') - 1
      BY <1>3, <1>4, <1>6
    <2>3. k \in {k} /\ \A j \in {k} : j <= k
      BY <1>6
    <2> QED
      BY <1>3, <1>4, <1>5, <2>1, <2>2, <2>3 DEF CountedTo
  <1> QED
    BY <1>4, <1>7 DEF CountInv

\* What the window allows of the packets so far it allows of their prefix, and the
\* last of them is close to the highest.
LEMMA WindowOfPrefix ==
    ASSUME counted \in Seq(1 .. Len(Script)), counted # <<>>, NEW k \in 1 .. Len(Script),
           counted' = Append(counted, k), WithinWindow'
    PROVE  WithinWindow /\ HighestOf(counted') - k < Window
  <1> DEFINE n == Len(counted)
  <1>0. n \in Nat /\ DOMAIN counted = 1 .. n
    OBVIOUS
  <1>1. /\ DOMAIN counted' = 1 .. n + 1 /\ counted'[n + 1] = k /\ counted'[1] = counted[1]
        /\ SubSeq(counted', 1, n + 1) = counted'
        /\ \A i \in 1 .. n : counted'[i] = counted[i] /\ SubSeq(counted', 1, i) = SubSeq(counted, 1, i)
    <2>1. counted' \in Seq(1 .. Len(Script)) /\ Len(counted') = n + 1
      BY Appended
    <2> QED
      BY <2>1, Appended
  <1>2. \A i \in 1 .. n + 1 : /\ counted'[i] >= counted'[1]
                              /\ HighestOf(SubSeq(counted', 1, i)) - counted'[i] < Window
    BY <1>1 DEF WithinWindow, HighestOf
  <1> HIDE DEF n
  <1>3. HighestOf(SubSeq(counted', 1, n + 1)) - counted'[n + 1] < Window
    BY <1>0, <1>2
  <1>4. ASSUME NEW i \in 1 .. n
        PROVE  counted[i] >= counted[1] /\ HighestOf(SubSeq(counted, 1, i)) - counted[i] < Window
    <2>1. i \in 1 .. n + 1
      BY <1>0
    <2> QED
      BY <1>1, <1>2, <2>1
  <1> QED
    BY <1>0, <1>1, <1>3, <1>4 DEF WithinWindow

\* A packet ahead of all the others.
LEMMA AheadCounted ==
    ASSUME counted \in Seq(1 .. Len(Script)), counted # <<>>,
           NEW h \in 1 .. Len(Script), CountedTo(h), NEW k \in 1 .. Len(Script), k > h,
           Observe(Number(k)), counted' = Append(counted, k)
    PROVE  CountedTo(k)'
  <1> DEFINE Here == ToSet(counted)
             delta == k - h
  <1>0. /\ h \in Here /\ \A j \in Here : j <= h
        /\ highest = Number(h) /\ IsFiniteSet(Here)
        /\ received = Cardinality(Here) /\ expected = h - counted[1] + 1
        /\ duplicates = Len(counted) - Cardinality(Here)
        /\ \A d \in window : d \in 1 .. Window /\ h - d \in Here
        /\ \A d \in 1 .. Window - 1 : h - d \in Here => d \in window
    BY DEF CountedTo
  <1>1. Here \subseteq 1 .. Len(Script) /\ counted[1] \in 1 .. Len(Script) /\ Len(counted) \in Nat
    <2>1. DOMAIN counted = 1 .. Len(counted) /\ Len(counted) \in Nat \ {0}
      BY EmptySeq
    <2> QED
      BY <2>1 DEF ToSet
  <1>2. Ahead(Number(k), highest) = delta /\ delta \in 1 .. SeqSpace \div 2 - 1 /\ highest # Unseen
    BY <1>0, AheadIs, NumberIs, SpaceIs
  <1>3. Forward(Number(k))
    BY <1>2 DEF Observe, First, Duplicate, Late, Backward
  <1>4. /\ highest' = Number(k) /\ received' = received + 1 /\ expected' = expected + delta
        /\ duplicates' = duplicates /\ window' = Slid(delta)
    BY <1>2, <1>3 DEF Forward
  <1>5. /\ ToSet(counted') = Here \cup {k} /\ counted'[1] = counted[1]
        /\ Len(counted') = Len(counted) + 1
    BY Appended
  <1>6. k \notin Here
    BY <1>0, <1>1, SpaceIs
  <1>7. /\ IsFiniteSet(Here \cup {k}) /\ Cardinality(Here \cup {k}) = Cardinality(Here) + 1
        /\ Cardinality(Here) \in Nat
    BY <1>0, <1>6, FS_AddElement, FS_CardinalityType
  <1> HIDE DEF Here
  <1>8. \A e \in Slid(delta) : e \in 1 .. Window /\ k - e \in Here \cup {k}
    <2>1. CASE delta >= Window
      BY <2>1 DEF Slid
    <2>2. CASE delta < Window
      <3>1. ASSUME NEW e \in Slid(delta)
            PROVE  e \in 1 .. Window /\ k - e \in Here
        <4>1. CASE e = delta
          BY <1>0, <1>2, <2>2, <4>1, SpaceIs
        <4>2. CASE e # delta
          <5>1. PICK d \in window : e = d + delta /\ e \in 1 .. Window
            BY <2>2, <3>1, <4>2, SpaceIs DEF Slid
          <5>2. d \in Int /\ h - d \in Here
            BY <1>0, <5>1, SpaceIs
          <5>3. k - e = h - d
            BY <5>1, <5>2, SpaceIs
          <5> QED
            BY <5>1, <5>2, <5>3
        <4> QED
          BY <4>1, <4>2
      <3> QED
        BY <3>1
    <2> QED
      BY <2>1, <2>2, SpaceIs
  <1>9. ASSUME NEW d \in 1 .. Window - 1, k - d \in Here \cup {k}
        PROVE  d \in Slid(delta)
    <2>1. k - d \in Here
      BY <1>9, SpaceIs
    <2>2. k - d <= h
      BY <1>0, <2>1
    <2>3. d >= delta /\ delta < Window
      BY <2>2, SpaceIs
    <2>4. CASE d = delta
      BY <2>3, <2>4, SpaceIs DEF Slid
    <2>5. CASE d # delta
      <3>1. d - delta \in 1 .. Window - 1 /\ h - (d - delta) = k - d
        BY <2>3, <2>5, <1>2, SpaceIs
      <3>2. d - delta \in window
        BY <1>0, <2>1, <3>1
      <3>3. d = (d - delta) + delta /\ d \in 1 .. Window
        BY <1>2, SpaceIs
      <3>4. d \in {e + delta : e \in window}
        BY <3>2, <3>3
      <3> QED
        BY <2>3, <3>3, <3>4, SpaceIs DEF Slid
    <2> QED
      BY <2>4, <2>5
  <1>a. \A j \in Here \cup {k} : j <= k
    BY <1>0, <1>1, SpaceIs
  <1>b. expected' = k - counted'[1] + 1 /\ duplicates' = Len(counted') - (Cardinality(Here) + 1)
    <2>1. counted[1] \in Int /\ h \in Int /\ k \in Int /\ Len(counted) \in Int
      BY <1>1, SpaceIs
    <2>2. expected' = h - counted[1] + 1 + (k - h)
      BY <1>0, <1>4
    <2>3. duplicates' = Len(counted) - Cardinality(Here) /\ Cardinality(Here) \in Int
      BY <1>0, <1>4, <1>7
    <2>4. \A a, b, c \in Int : b - a + 1 + (c - b) = c - a + 1 /\ a - b = (a + 1) - (b + 1)
      OBVIOUS
    <2>5. /\ h - counted[1] + 1 + (k - h) = k - counted[1] + 1
          /\ Len(counted) - Cardinality(Here) = (Len(counted) + 1) - (Cardinality(Here) + 1)
      BY SMTT(20), <2>1, <2>3, <2>4
    <2> QED
      BY <1>5, <2>2, <2>3, <2>5
  <1> QED
    BY <1>0, <1>4, <1>5, <1>7, <1>8, <1>9, <1>a, <1>b DEF CountedTo

\* A packet no further than the highest, and behind it by less than the window.
LEMMA BehindCounted ==
    ASSUME counted \in Seq(1 .. Len(Script)), counted # <<>>,
           NEW h \in 1 .. Len(Script), CountedTo(h), NEW k \in 1 .. Len(Script), k <= h, h - k < Window,
           Observe(Number(k)), counted' = Append(counted, k)
    PROVE  CountedTo(h)'
  <1> DEFINE Here == ToSet(counted)
  <1>0. /\ h \in Here /\ \A j \in Here : j <= h
        /\ highest = Number(h) /\ IsFiniteSet(Here)
        /\ received = Cardinality(Here) /\ expected = h - counted[1] + 1
        /\ duplicates = Len(counted) - Cardinality(Here)
        /\ \A d \in window : d \in 1 .. Window /\ h - d \in Here
        /\ \A d \in 1 .. Window - 1 : h - d \in Here => d \in window
    BY DEF CountedTo
  <1>1. Len(counted) \in Int /\ h \in Int /\ k \in Int
    BY SpaceIs
  <1>2. highest # Unseen /\ Ahead(highest, Number(k)) = h - k
    BY <1>0, AheadIs, NumberIs
  <1>3. Backward(Number(k))
    <2>1. Ahead(Number(k), highest) \in {0, SeqSpace - (h - k)}
      BY <1>0, <1>1, AheadIs
    <2>2. 0 \notin 1 .. SeqSpace \div 2 - 1 /\ SeqSpace - (h - k) \notin 1 .. SeqSpace \div 2 - 1
      BY <1>1, SpaceIs
    <2> QED
      BY <1>2, <2>1, <2>2 DEF Backward
  <1>4. Duplicate(Number(k)) \/ Late(Number(k))
    BY <1>2, <1>3 DEF Observe, First, Forward, Backward
  <1>5. IsDuplicate(Number(k)) <=> k \in Here
    <2>1. CASE k = h
      BY <1>0, <2>1 DEF IsDuplicate
    <2>2. CASE k # h
      <3>1. Number(k) # Number(h)
        <4>1. Ahead(Number(h), Number(h)) = h - h
          BY AheadIs
        <4> QED
          BY <1>0, <1>1, <1>2, <2>2, <4>1
      <3>2. h - k \in 1 .. Window - 1 /\ h - (h - k) = k
        BY <1>1, <2>2, SpaceIs
      <3>3. h - k \in window <=> k \in Here
        BY <1>0, <3>2
      <3> QED
        BY <1>0, <1>2, <3>1, <3>3 DEF IsDuplicate
    <2> QED
      BY <2>1, <2>2
  <1>6. /\ ToSet(counted') = Here \cup {k} /\ counted'[1] = counted[1]
        /\ Len(counted') = Len(counted) + 1
    BY Appended
  <1>7. /\ IsFiniteSet(Here \cup {k}) /\ Cardinality(Here) \in Int
        /\ k \notin Here => Cardinality(Here \cup {k}) = Cardinality(Here) + 1
    <2> HIDE DEF Here
    <2>1. Cardinality(Here) \in Nat
      BY <1>0, FS_CardinalityType
    <2>2. IsFiniteSet(Here \cup {k}) /\ (k \notin Here => Cardinality(Here \cup {k}) = Cardinality(Here) + 1)
      BY <1>0, FS_AddElement
    <2> QED
      BY <2>1, <2>2
  <1> HIDE DEF Here
  <1>8. CASE Duplicate(Number(k))
    <2>1. /\ highest' = highest /\ received' = received /\ expected' = expected
          /\ duplicates' = duplicates + 1 /\ window' = window
      BY <1>8 DEF Duplicate
    <2>2. Here \cup {k} = Here
      BY <1>5, <1>8 DEF Duplicate
    <2>3. duplicates' = Len(counted') - Cardinality(Here)
      BY <1>0, <1>1, <1>6, <1>7, <2>1
    <2> QED
      BY <1>0, <1>6, <2>1, <2>2, <2>3 DEF CountedTo
  <1>9. CASE Late(Number(k))
    <2>1. /\ highest' = highest /\ received' = received + 1 /\ expected' = expected
          /\ duplicates' = duplicates /\ window' = window \cup ({h - k} \cap 1 .. Window)
      BY <1>2, <1>9 DEF Late
    <2>2. k \notin Here
      BY <1>5, <1>9 DEF Late
    <2>3. k # h
      BY <1>0, <2>2
    <2>4. h - k \in 1 .. Window /\ h - (h - k) = k
      BY <1>1, <2>3, SpaceIs
    <2>5. \A d \in window' : d \in 1 .. Window /\ h - d \in Here \cup {k}
      BY <1>0, <2>1, <2>4
    <2>6. ASSUME NEW d \in 1 .. Window - 1, h - d \in Here \cup {k}
          PROVE  d \in window'
      <3>1. CASE h - d \in Here
        BY <1>0, <2>1, <3>1
      <3>2. CASE h - d = k
        <4>1. d = h - k
          BY <1>1, <3>2, SpaceIs
        <4> QED
          BY <2>1, <2>4, <4>1
      <3> QED
        BY <2>6, <3>1, <3>2
    <2>7. duplicates' = Len(counted') - (Cardinality(Here) + 1)
      <3>1. \A a, b \in Int : a - b = (a + 1) - (b + 1)
        OBVIOUS
      <3> QED
        BY <1>0, <1>1, <1>6, <1>7, <2>1, <3>1
    <2>8. received' = Cardinality(Here \cup {k}) /\ \A j \in Here \cup {k} : j <= h
      BY <1>0, <1>7, <2>1, <2>2
    <2> QED
      BY <1>0, <1>6, <1>7, <2>1, <2>2, <2>5, <2>6, <2>7, <2>8 DEF CountedTo
  <1> QED
    BY <1>4, <1>8, <1>9

\* Every arrival keeps the count.
LEMMA ArriveCounts ==
    ASSUME CountInv, NEW k \in 1 .. Len(Script), Observe(Number(k)), counted' = Append(counted, k)
    PROVE  CountInv'
  <1>1. CASE counted = <<>>
    BY <1>1, FirstCounted
  <1>2. CASE counted # <<>>
    <2>1. counted' \in Seq(1 .. Len(Script)) /\ counted' # <<>> /\ ToSet(counted') = ToSet(counted) \cup {k}
      BY Appended DEF CountInv
    <2>2. ASSUME WithinWindow'
          PROVE  \E h \in 1 .. Len(Script) : CountedTo(h)'
      <3>1. WithinWindow /\ HighestOf(counted') - k < Window
        BY <1>2, <2>2, WindowOfPrefix DEF CountInv
      <3>2. PICK h \in 1 .. Len(Script) : CountedTo(h)
        BY <1>2, <3>1 DEF CountInv
      <3>3. CASE k > h
        <4>1. CountedTo(k)'
          BY <1>2, <3>2, <3>3, AheadCounted DEF CountInv
        <4> QED
          BY <4>1
      <3>4. CASE ~ (k > h)
        <4>1. k <= h
          BY <3>4, SpaceIs
        <4>2. HighestOf(counted') = h
          <5>1. h \in ToSet(counted) /\ \A j \in ToSet(counted) : j <= h
            BY <3>2 DEF CountedTo
          <5>2. ToSet(counted') \subseteq Nat
            BY <2>1, SpaceIs DEF ToSet
          <5> QED
            BY <2>1, <4>1, <5>1, <5>2, HighestIs
        <4>3. CountedTo(h)'
          BY <1>2, <3>1, <3>2, <4>1, <4>2, BehindCounted DEF CountInv
        <4> QED
          BY <4>3
      <3> QED
        BY <3>3, <3>4
    <2> QED
      BY <2>1, <2>2 DEF CountInv
  <1> QED
    BY <1>1, <1>2

\* The invariant says what the property says.
LEMMA CountedIsExact ==
    ASSUME CountInv, received + lost = expected, lost \in Int
    PROVE  LossIsExact
  <1> SUFFICES ASSUME counted # <<>>, WithinWindow
               PROVE  /\ received = Cardinality(Arrived)
                      /\ lost = HighestOf(counted) - counted[1] + 1 - Cardinality(Arrived)
                      /\ duplicates = Len(counted) - Cardinality(Arrived)
    BY DEF LossIsExact
  <1>1. PICK h \in 1 .. Len(Script) : CountedTo(h)
    BY DEF CountInv
  <1>2. ToSet(counted) \subseteq Nat /\ counted[1] \in Int /\ h \in Int
    <2>1. DOMAIN counted = 1 .. Len(counted) /\ Len(counted) \in Nat \ {0}
      BY EmptySeq DEF CountInv
    <2> QED
      BY <2>1, SpaceIs DEF CountInv, ToSet
  <1>3. HighestOf(counted) = h
    BY <1>1, <1>2, HighestIs DEF CountedTo
  <1>4. Cardinality(ToSet(counted)) \in Int
    BY <1>1, FS_CardinalityType DEF CountedTo
  <1> DEFINE n == Cardinality(ToSet(counted))
             first == counted[1]
  <1>5. received = n /\ expected = h - first + 1 /\ duplicates = Len(counted) - n
    BY <1>1 DEF CountedTo
  <1>6. n \in Int /\ first \in Int
    BY <1>2, <1>4
  <1> HIDE DEF n, first
  <1>7. lost = h - first + 1 - n
    BY <1>2, <1>5, <1>6
  <1> QED
    BY <1>3, <1>5, <1>7 DEF Arrived, n, first

-----------------------------------------------------------------------------
(* keyframe_seen and the units that were returned.                         *)

\* A unit of out can be decoded alone.
HasStart(out) == \E i \in DOMAIN out : IsDecodableStart(out[i].nals)

\* d is followed by e, and the units out were returned in between.
SeenIn(d, e, out) == e.keyframe_seen <=> d.keyframe_seen \/ HasStart(out)

\* Only a unit that is returned can be the first decodable one: dropping a fragment is not,
LEMMA DropFuSeen ==
    ASSUME NEW d, Coherent(d)
    PROVE  DropFu(d).keyframe_seen = d.keyframe_seen
  BY DEF Coherent, HasPartial, DropFu

\* returning what is open is,
LEMMA EmittedSeen ==
    ASSUME NEW d, Coherent(d), NEW byMarker \in BOOLEAN
    PROVE  SeenIn(d, Emitted(d), Unit(d, byMarker))
  <1>1. CASE d.nals = <<>>
    <2>1. Unit(d, byMarker) = <<>> /\ Emitted(d) = d
      BY <1>1 DEF Unit, Emitted
    <2> QED
      BY <2>1 DEF SeenIn, HasStart
  <1>2. CASE d.nals # <<>>
    <2> DEFINE u == [timestamp |-> d.timestamp, nals |-> d.nals, closed_by_marker |-> byMarker]
    <2>1. Unit(d, byMarker) = <<u>> /\ u.nals = d.nals
      BY <1>2 DEF Unit
    <2>2. Emitted(d).keyframe_seen = (d.keyframe_seen \/ IsDecodableStart(d.nals))
      BY <1>2 DEF Emitted, Coherent, HasPartial
    <2> HIDE DEF u
    <2>3. DOMAIN <<u>> = {1} /\ <<u>>[1] = u
      OBVIOUS
    <2>4. HasStart(<<u>>) <=> IsDecodableStart(u.nals)
      BY <2>3 DEF HasStart
    <2> QED
      BY <2>1, <2>2, <2>4 DEF SeenIn
  <1> QED
    BY <1>1, <1>2

\* taking in NALs is not,
LEMMA PushNalsSeen ==
    ASSUME NEW d, Coherent(d), NEW nals
    PROVE  PushNals(d, nals).keyframe_seen = d.keyframe_seen
  BY DEF Coherent, HasPartial, PushNals

\* taking in a payload is not,
LEMMA ConsumeSeen ==
    ASSUME NEW p \in Packets, NEW d, Coherent(d), d.timestamp = p.timestamp
    PROVE  Consume(d, p.payload).keyframe_seen = d.keyframe_seen
  <1>k. "keyframe_seen" \in DOMAIN d
    BY DEF Coherent, HasPartial
  <1>u. \A e : "keyframe_seen" \in DOMAIN e =>
            Unsupported(e).keyframe_seen = e.keyframe_seen /\ "keyframe_seen" \in DOMAIN Unsupported(e)
    BY DEF Unsupported
  <1>p. \A e, nals : "keyframe_seen" \in DOMAIN e => PushNals(e, nals).keyframe_seen = e.keyframe_seen
                         /\ "keyframe_seen" \in DOMAIN PushNals(e, nals)
    BY DEF PushNals
  <1>1. ConsumeStapA(d, p.payload).keyframe_seen = d.keyframe_seen
    BY <1>k, <1>u, <1>p DEF ConsumeStapA
  <1>2. ConsumeFuA(d, p.payload).keyframe_seen = d.keyframe_seen
    <2> DEFINE grown == IF p.payload.start THEN StartFu(d, p.payload) ELSE ExtendFu(d, p.payload)
    <2>1. \A e, v : "keyframe_seen" \in DOMAIN e =>
              [e EXCEPT !.fu = v].keyframe_seen = e.keyframe_seen
              /\ "keyframe_seen" \in DOMAIN [e EXCEPT !.fu = v]
      OBVIOUS
    <2>2. DropFu(d).keyframe_seen = d.keyframe_seen /\ "keyframe_seen" \in DOMAIN DropFu(d)
      BY <1>k DEF DropFu
    <2>3. /\ StartFu(d, p.payload).keyframe_seen = d.keyframe_seen
          /\ "keyframe_seen" \in DOMAIN StartFu(d, p.payload)
      BY <2>1, <2>2 DEF StartFu
    <2>4. /\ ExtendFu(d, p.payload).keyframe_seen = d.keyframe_seen
          /\ "keyframe_seen" \in DOMAIN ExtendFu(d, p.payload)
      BY <1>k DEF ExtendFu
    <2>5. grown.keyframe_seen = d.keyframe_seen /\ "keyframe_seen" \in DOMAIN grown
      BY <2>3, <2>4
    <2>6. ConsumeFuA(d, p.payload) \in {grown, PushNals([grown EXCEPT !.fu = None], <<grown.fu>>)}
      BY DEF ConsumeFuA
    <2> HIDE DEF grown
    <2> DEFINE e == [grown EXCEPT !.fu = None]
    <2>7. e.keyframe_seen = d.keyframe_seen /\ "keyframe_seen" \in DOMAIN e
      BY <2>5
    <2> HIDE DEF e
    <2>8. PushNals(e, <<grown.fu>>).keyframe_seen = d.keyframe_seen
      BY <1>p, <2>7
    <2> QED
      BY <2>5, <2>6, <2>8 DEF e
  <1> QED
    BY <1>k, <1>u, <1>p, <1>1, <1>2 DEF Consume

\* the two ways to close a unit are:
\* by the next one's timestamp,
LEMMA BackstopSeen ==
    ASSUME NEW d, Coherent(d), NEW t \in Nat
    PROVE  SeenIn(d, ClosedByTimestamp(d, t).d, ClosedByTimestamp(d, t).units)
  <1>1. CASE d.timestamp \in {None, t}
    <2> DEFINE e == [d EXCEPT !.timestamp = t]
    <2>1. ClosedByTimestamp(d, t) = [d |-> e, units |-> <<>>]
      BY <1>1 DEF ClosedByTimestamp
    <2>2. e.keyframe_seen = d.keyframe_seen
      BY DEF Coherent, HasPartial
    <2> HIDE DEF e
    <2>3. ~ HasStart(<<>>)
      BY DEF HasStart
    <2>4. ClosedByTimestamp(d, t).d = e /\ ClosedByTimestamp(d, t).units = <<>>
      BY <2>1
    <2> QED
      BY <2>2, <2>3, <2>4 DEF SeenIn
  <1>2. CASE d.timestamp \notin {None, t}
    <2> DEFINE f == DropFu(d)
               out == Unit(f, FALSE)
               e == [Emitted(f) EXCEPT !.timestamp = t, !.units_closed_without_marker = @ + Len(out)]
    <2>1. Coherent(f) /\ f.keyframe_seen = d.keyframe_seen
      BY DropFuCoherent, DropFuSeen
    <2>2. SeenIn(f, Emitted(f), out) /\ DOMAIN Emitted(f) = DOMAIN f
      BY <2>1, EmittedSeen, EmittedIsEmpty
    <2>3. ClosedByTimestamp(d, t) = [d |-> e, units |-> out]
      BY <1>2 DEF ClosedByTimestamp
    <2> HIDE DEF f, out
    <2>4. e.keyframe_seen = Emitted(f).keyframe_seen
      BY <2>1, <2>2 DEF Coherent, HasPartial
    <2> HIDE DEF e
    <2> QED
      BY <2>1, <2>2, <2>3, <2>4 DEF SeenIn
  <1> QED
    BY <1>1, <1>2

\* and by the marker.
LEMMA MarkerSeen ==
    ASSUME NEW d, Coherent(d)
    PROVE  SeenIn(d, ClosedByMarker(d).d, ClosedByMarker(d).units)
  <1> DEFINE f == DropFu(d)
             e == [Emitted(f) EXCEPT !.timestamp = None]
             out == Unit(f, TRUE)
  <1>1. Coherent(f) /\ f.keyframe_seen = d.keyframe_seen
    BY DropFuCoherent, DropFuSeen
  <1>2. SeenIn(f, Emitted(f), out) /\ DOMAIN Emitted(f) = DOMAIN f
    BY <1>1, EmittedSeen, EmittedIsEmpty
  <1>3. ClosedByMarker(d) = [d |-> e, units |-> out]
    BY DEF ClosedByMarker
  <1> HIDE DEF f, out
  <1>4. e.keyframe_seen = Emitted(f).keyframe_seen
    BY <1>1, <1>2 DEF Coherent, HasPartial
  <1> HIDE DEF e
  <1> QED
    BY <1>1, <1>2, <1>3, <1>4 DEF SeenIn

\* Two sequences of units together have a start when one of them has.
LEMMA ConcatHasStart ==
    ASSUME NEW out1 \in Seq(Units), NEW out2 \in Seq(Units)
    PROVE  HasStart(out1 \o out2) <=> HasStart(out1) \/ HasStart(out2)
  <1> DEFINE out == out1 \o out2
             m == Len(out1)
             n == Len(out2)
  <1>1. /\ m \in Nat /\ n \in Nat /\ DOMAIN out1 = 1 .. m /\ DOMAIN out2 = 1 .. n
        /\ DOMAIN out = 1 .. m + n
        /\ \A i \in 1 .. m : out[i] = out1[i]
        /\ \A i \in 1 .. n : out[m + i] = out2[i]
    OBVIOUS
  <1> HIDE DEF out, m, n
  <1>2. ASSUME NEW i \in 1 .. m + n, i \notin 1 .. m
        PROVE  i - m \in 1 .. n /\ out[i] = out2[i - m]
    <2>1. i - m \in 1 .. n /\ i = m + (i - m)
      BY <1>1, <1>2
    <2> QED
      BY <1>1, <2>1
  <1>3. HasStart(out) => HasStart(out1) \/ HasStart(out2)
    BY <1>1, <1>2 DEF HasStart
  <1>4. ASSUME NEW i \in 1 .. n
        PROVE  m + i \in 1 .. m + n
    BY <1>1
  <1>5. HasStart(out1) => HasStart(out)
    BY <1>1 DEF HasStart
  <1>6. HasStart(out2) => HasStart(out)
    BY <1>1, <1>4 DEF HasStart
  <1> QED
    BY <1>3, <1>5, <1>6 DEF out

\* A packet is seen as what it returns,
LEMMA PushSeen ==
    ASSUME DepackInvariant, NEW p \in Packets, PushPayload(p)
    PROVE  SeenIn(depack, depack', units')
  <1> DEFINE opened == ClosedByTimestamp(depack, p.timestamp)
             consumed == Consume(opened.d, p.payload)
             closed == ClosedByMarker(consumed)
  <1>1. /\ Coherent(opened.d) /\ opened.d.timestamp = p.timestamp
        /\ opened.units \in Seq(Units) /\ SeenIn(depack, opened.d, opened.units)
    BY BackstopCoherent, BackstopSeen, PacketsAssumption DEF DepackInvariant
  <1>2. Coherent(consumed) /\ consumed.keyframe_seen = opened.d.keyframe_seen
    BY <1>1, ConsumeCoherent, ConsumeSeen
  <1>3. closed.units \in Seq(Units) /\ SeenIn(consumed, closed.d, closed.units)
    BY <1>2, MarkerCoherent, MarkerSeen
  <1>4. HasStart(opened.units \o closed.units) <=> HasStart(opened.units) \/ HasStart(closed.units)
    BY <1>1, <1>3, ConcatHasStart
  <1>5. /\ depack' = IF p.marker THEN closed.d ELSE consumed
        /\ units' = IF p.marker THEN opened.units \o closed.units ELSE opened.units
    BY DEF PushPayload
  <1> HIDE DEF opened, consumed, closed
  <1>6. CASE p.marker
    BY <1>1, <1>2, <1>3, <1>4, <1>5, <1>6 DEF SeenIn
  <1>7. CASE ~ p.marker
    BY <1>1, <1>2, <1>5, <1>7 DEF SeenIn
  <1> QED
    BY <1>6, <1>7

\* and so is a flush.
LEMMA FlushSeen ==
    ASSUME DepackInvariant, Flush
    PROVE  SeenIn(depack, depack', units')
  <1> DEFINE e == [Emitted(depack) EXCEPT !.timestamp = None, !.fu = None]
  <1>1. CASE depack.timestamp = None
    BY <1>1 DEF Flush, SeenIn, HasStart
  <1>2. CASE depack.timestamp # None
    <2>1. depack' = e /\ units' = Unit(depack, FALSE)
      BY <1>2 DEF Flush
    <2>2. e.keyframe_seen = Emitted(depack).keyframe_seen
      BY EmittedIsEmpty DEF DepackInvariant, Coherent, HasPartial
    <2> HIDE DEF e
    <2> QED
      BY <2>1, <2>2, EmittedSeen DEF DepackInvariant, SeenIn
  <1> QED
    BY <1>1, <1>2

-----------------------------------------------------------------------------
(* The units from the first start on.                                      *)

\* A set of numbers that is not empty has a least one.
LEMMA Least ==
    ASSUME NEW T, T \subseteq Nat, T # {}
    PROVE  \E m \in T : \A n \in T : m <= n
  <1> DEFINE R == {ss \in Nat \X Nat : ss[1] < ss[2]}
  <1>1. IsWellFoundedOn(R, Nat)
    BY NatLessThanWellFounded DEF OpToRel
  <1> HIDE DEF R
  <1>2. \E x \in T : \A y \in T : ~ (<<y, x>> \in R)
    BY <1>1, WFMin
  <1>3. \A x, y \in Nat : ~ (<<y, x>> \in R) => x <= y
    BY DEF R
  <1> QED
    BY <1>2, <1>3

\* FromStart cuts at the least start.
LEMMA FromLeast ==
    ASSUME NEW out, NEW i \in Starts(out), \A j \in Starts(out) : i <= j, DOMAIN out \subseteq Nat
    PROVE  FromStart(out) = SubSeq(out, i, Len(out))
  <1> DEFINE c == CHOOSE k \in Starts(out) : \A j \in Starts(out) : k <= j
  <1>1. c \in Starts(out) /\ \A j \in Starts(out) : c <= j
    OBVIOUS
  <1>2. c = i
    <2>1. c <= i /\ i <= c /\ c \in Nat /\ i \in Nat
      BY <1>1 DEF Starts
    <2> HIDE DEF c
    <2> QED
      BY <2>1
  <1> QED
    BY <1>2 DEF FromStart

\* Without a start there is nothing to cut.
LEMMA NoStart ==
    ASSUME NEW out
    PROVE  /\ HasStart(out) <=> Starts(out) # {}
           /\ ~ HasStart(out) => FromStart(out) = <<>>
  BY DEF HasStart, Starts, FromStart

\* With one there is.
LEMMA SomeStart ==
    ASSUME NEW out \in Seq(Units), HasStart(out)
    PROVE  FromStart(out) # <<>>
  <1>1. Starts(out) # {} /\ Starts(out) \subseteq Nat /\ DOMAIN out = 1 .. Len(out) /\ Len(out) \in Nat
    BY NoStart DEF Starts
  <1>2. PICK i \in Starts(out) : \A j \in Starts(out) : i <= j
    BY <1>1, Least
  <1>3. i \in 1 .. Len(out)
    BY <1>1 DEF Starts
  <1>4. FromStart(out) = SubSeq(out, i, Len(out))
    BY <1>1, <1>2, FromLeast
  <1>5. Len(SubSeq(out, i, Len(out))) = Len(out) - i + 1
    BY <1>1, <1>3, SubSeqProperties
  <1>6. Len(out) - i + 1 # 0 /\ Len(<<>>) = 0
    BY <1>1, <1>3
  <1> QED
    BY <1>4, <1>5, <1>6

\* Units join what begins at a start, once there is one.
LEMMA FromStartConcat ==
    ASSUME NEW out1 \in Seq(Units), NEW out2 \in Seq(Units)
    PROVE  /\ HasStart(out1) => FromStart(out1 \o out2) = FromStart(out1) \o out2
           /\ ~ HasStart(out1) => FromStart(out1 \o out2) = FromStart(out2)
           /\ FromStart(out2) \in Seq(Units)
  <1> DEFINE out == out1 \o out2
             m == Len(out1)
             n == Len(out2)
  <1>1. /\ m \in Nat /\ n \in Nat /\ DOMAIN out1 = 1 .. m /\ DOMAIN out2 = 1 .. n
        /\ out \in Seq(Units) /\ DOMAIN out = 1 .. m + n /\ Len(out) = m + n
        /\ \A i \in 1 .. m : out[i] = out1[i] /\ out1[i] \in Units
        /\ \A i \in 1 .. n : out[m + i] = out2[i] /\ out2[i] \in Units
        /\ m = Len(out1) /\ n = Len(out2)
    OBVIOUS
  <1> HIDE DEF out, m, n
  <1>d. DOMAIN out1 \subseteq Nat /\ DOMAIN out2 \subseteq Nat /\ DOMAIN out \subseteq Nat
    BY <1>1
  <1>2. \A i \in 1 .. m : i \in 1 .. m + n /\ (i \in Starts(out) <=> i \in Starts(out1))
    BY <1>1 DEF Starts
  <1>3. \A i \in 1 .. n : m + i \in 1 .. m + n /\ (m + i \in Starts(out) <=> i \in Starts(out2))
    BY <1>1 DEF Starts
  <1>4. \A i \in 1 .. m + n : i \in 1 .. m \/ (i - m \in 1 .. n /\ i = m + (i - m))
    BY <1>1
  <1>5. ASSUME HasStart(out1)
        PROVE  FromStart(out) = FromStart(out1) \o out2
    <2>1. Starts(out1) # {} /\ Starts(out1) \subseteq 1 .. m /\ Starts(out1) \subseteq Nat
      BY <1>1, <1>5, NoStart DEF Starts
    <2>2. PICK i \in Starts(out1) : \A j \in Starts(out1) : i <= j
      BY <2>1, Least
    <2>3. i \in 1 .. m
      BY <2>1
    <2>4. i \in Starts(out) /\ \A j \in Starts(out) : i <= j
      <3>1. ASSUME NEW j \in Starts(out)
            PROVE  i <= j
        <4>1. j \in 1 .. m + n
          BY <1>1 DEF Starts
        <4> QED
          BY <1>1, <1>2, <1>4, <2>2, <2>3, <4>1
      <3> QED
        BY <1>2, <2>3, <3>1
    <2>5. FromStart(out) = SubSeq(out, i, m + n) /\ FromStart(out1) = SubSeq(out1, i, m)
      <3>1. FromStart(out) = SubSeq(out, i, Len(out))
        BY <1>d, <2>4, FromLeast
      <3>2. FromStart(out1) = SubSeq(out1, i, Len(out1))
        BY <1>d, <2>2, FromLeast
      <3> QED
        BY <1>1, <3>1, <3>2
    <2> DEFINE a == SubSeq(out, i, m + n)
               b == SubSeq(out1, i, m)
    <2>6. /\ a \in Seq(Units) /\ Len(a) = m + n - i + 1
          /\ \A j \in 1 .. m + n - i + 1 : a[j] = out[i + j - 1]
      <3>1. \A j \in i .. m + n : out[j] \in Units
        BY <1>1, <2>3
      <3>2. i <= m + n
        BY <1>1, <2>3
      <3> QED
        BY <1>1, <2>3, <3>1, <3>2, SubSeqProperties
    <2>7. /\ b \in Seq(Units) /\ Len(b) = m - i + 1
          /\ \A j \in 1 .. m - i + 1 : b[j] = out1[i + j - 1]
      <3>1. \A j \in i .. m : out1[j] \in Units
        BY <1>1, <2>3
      <3> QED
        BY <1>1, <2>3, <3>1, SubSeqProperties
    <2> HIDE DEF a, b
    <2> DEFINE c == b \o out2
    <2>8. /\ c \in Seq(Units) /\ Len(c) = m - i + 1 + n
          /\ \A j \in 1 .. m - i + 1 : c[j] = b[j]
          /\ \A j \in 1 .. n : c[m - i + 1 + j] = out2[j]
      <3>0. \A x, y \in Seq(Units) :
                /\ x \o y \in Seq(Units) /\ Len(x \o y) = Len(x) + Len(y)
                /\ \A j \in 1 .. Len(x) : (x \o y)[j] = x[j]
                /\ \A j \in 1 .. Len(y) : (x \o y)[Len(x) + j] = y[j]
        OBVIOUS
      <3>1. /\ c \in Seq(Units) /\ Len(c) = Len(b) + Len(out2)
            /\ \A j \in 1 .. Len(b) : c[j] = b[j]
            /\ \A j \in 1 .. Len(out2) : c[Len(b) + j] = out2[j]
        BY <2>7, <3>0
      <3>2. Len(b) = m - i + 1 /\ Len(out2) = n
        BY <1>1, <2>7
      <3> HIDE DEF c
      <3> QED
        BY <3>1, <3>2
    <2> HIDE DEF c
    <2>9. ASSUME NEW j \in 1 .. m + n - i + 1
          PROVE  a[j] = c[j]
      <3>0. a[j] = out[i + j - 1]
        BY <2>6
      <3>1. CASE j \in 1 .. m - i + 1
        <4>1. i + j - 1 \in 1 .. m
          BY <1>1, <2>3, <3>1
        <4> QED
          BY <1>1, <2>7, <2>8, <3>0, <3>1, <4>1
      <3>2. CASE j \notin 1 .. m - i + 1
        <4> DEFINE l == j - (m - i + 1)
        <4>1. l \in 1 .. n /\ j = m - i + 1 + l /\ i + j - 1 = m + l
          <5>1. i \in Int /\ m \in Int /\ n \in Int /\ j \in Int /\ 1 <= j /\ j <= m + n - i + 1
            BY <1>1, <2>3
          <5>2. j > m - i + 1
            BY <3>2, <5>1
          <5> QED
            BY <5>1, <5>2
        <4> HIDE DEF l
        <4>2. c[j] = out2[l]
          BY <2>8, <4>1
        <4>3. out[i + j - 1] = out2[l]
          BY <1>1, <4>1
        <4> QED
          BY <3>0, <4>2, <4>3
      <3> QED
        BY <3>1, <3>2
    <2>10. m + n - i + 1 = m - i + 1 + n
      BY <1>1, <2>3
    <2>11. a = c
      BY <2>6, <2>8, <2>9, <2>10, SeqEqual
    <2> QED
      BY <2>5, <2>11 DEF a, b, c
  <1>6. ASSUME ~ HasStart(out1)
        PROVE  FromStart(out) = FromStart(out2)
    <2>1. Starts(out1) = {}
      BY <1>6, NoStart
    <2>2. CASE ~ HasStart(out2)
      <3>1. ~ HasStart(out)
        BY <1>6, <2>2, ConcatHasStart DEF out
      <3> QED
        BY <2>2, <3>1, NoStart
    <2>3. CASE HasStart(out2)
      <3>1. Starts(out2) # {} /\ Starts(out2) \subseteq 1 .. n /\ Starts(out2) \subseteq Nat
        BY <1>1, <2>3, NoStart DEF Starts
      <3>2. PICK i \in Starts(out2) : \A j \in Starts(out2) : i <= j
        BY <3>1, Least
      <3>3. i \in 1 .. n
        BY <3>1
      <3>4. m + i \in Starts(out) /\ \A j \in Starts(out) : m + i <= j
        <4>1. ASSUME NEW j \in Starts(out)
              PROVE  m + i <= j
          <5>1. j \in 1 .. m + n
            BY <1>1 DEF Starts
          <5>2. j - m \in 1 .. n /\ j = m + (j - m)
            BY <1>2, <1>4, <2>1, <5>1
          <5>3. j - m \in Starts(out2)
            BY <1>3, <5>2
          <5>4. i <= j - m
            BY <3>2, <5>3
          <5> QED
            BY <1>1, <3>3, <5>1, <5>4
        <4> QED
          BY <1>3, <3>2, <3>3, <4>1
      <3>5. FromStart(out) = SubSeq(out, m + i, m + n) /\ FromStart(out2) = SubSeq(out2, i, n)
        <4>1. FromStart(out) = SubSeq(out, m + i, Len(out))
          BY <1>d, <3>4, FromLeast
        <4>2. FromStart(out2) = SubSeq(out2, i, Len(out2))
          BY <1>d, <3>2, FromLeast
        <4> QED
          BY <1>1, <4>1, <4>2
      <3> DEFINE a == SubSeq(out, m + i, m + n)
                 b == SubSeq(out2, i, n)
      <3>6. /\ a \in Seq(Units) /\ Len(a) = n - i + 1
            /\ \A j \in 1 .. n - i + 1 : a[j] = out[m + i + j - 1]
        <4>1. \A j \in m + i .. m + n : out[j] \in Units
          BY <1>1, <1>4, <3>3
        <4> DEFINE lo == m + i
                   hi == m + n
        <4>2. lo <= hi /\ hi - lo + 1 = n - i + 1 /\ lo \in Int /\ hi \in Int
          BY <1>1, <3>3
        <4> HIDE DEF lo, hi
        <4>3. \A j \in lo .. hi : out[j] \in Units
          BY <4>1 DEF lo, hi
        <4>4. /\ SubSeq(out, lo, hi) \in Seq(Units) /\ Len(SubSeq(out, lo, hi)) = hi - lo + 1
              /\ \A j \in 1 .. hi - lo + 1 : SubSeq(out, lo, hi)[j] = out[lo + j - 1]
          BY <4>2, <4>3, SubSeqProperties
        <4>5. a = SubSeq(out, lo, hi) /\ lo = m + i
          BY DEF lo, hi
        <4> HIDE DEF a
        <4> QED
          BY <4>2, <4>4, <4>5
      <3>7. /\ b \in Seq(Units) /\ Len(b) = n - i + 1
            /\ \A j \in 1 .. n - i + 1 : b[j] = out2[i + j - 1]
        <4>1. \A j \in i .. n : out2[j] \in Units
          BY <1>1, <3>3
        <4> QED
          BY <1>1, <3>3, <4>1, SubSeqProperties
      <3> HIDE DEF a, b
      <3>8. ASSUME NEW j \in 1 .. n - i + 1
            PROVE  a[j] = b[j]
        <4>1. i + j - 1 \in 1 .. n /\ m + i + j - 1 = m + (i + j - 1)
          BY <1>1, <3>3
        <4>2. a[j] = out[m + (i + j - 1)]
          BY <3>6, <4>1
        <4>3. out[m + (i + j - 1)] = out2[i + j - 1]
          BY <1>1, <4>1
        <4> QED
          BY <3>7, <4>2, <4>3
      <3>9. a = b
        BY <3>6, <3>7, <3>8, SeqEqual
      <3> QED
        BY <3>5, <3>9 DEF a, b
    <2> QED
      BY <2>2, <2>3
  <1>7. FromStart(out2) \in Seq(Units)
    <2>1. CASE ~ HasStart(out2)
      BY <2>1, NoStart, EmptySeq
    <2>2. CASE HasStart(out2)
      <3>1. Starts(out2) # {} /\ Starts(out2) \subseteq 1 .. n /\ Starts(out2) \subseteq Nat
        BY <1>1, <2>2, NoStart DEF Starts
      <3>2. PICK i \in Starts(out2) : \A j \in Starts(out2) : i <= j
        BY <3>1, Least
      <3>3. FromStart(out2) = SubSeq(out2, i, n)
        BY <1>1, <1>d, <3>2, FromLeast
      <3>4. \A j \in i .. n : out2[j] \in Units
        BY <1>1, <3>1
      <3> QED
        BY <1>1, <3>1, <3>3, <3>4, SubSeqProperties
    <2> QED
      BY <2>1, <2>2
  <1> QED
    BY <1>5, <1>6, <1>7 DEF out

-----------------------------------------------------------------------------
(* The loop.                                                               *)

\* What the caller of the depacketizer has made of its units.
Recording ==
    /\ emitted \in Seq(Units)
    /\ FileIsWanted
    /\ depack.keyframe_seen <=> HasStart(emitted)

\* The link carries packets of the script.
LinkInv == sent \in 0 .. Len(Script) /\ delayed \subseteq 1 .. Len(Script)

\* The inductive invariant of the media loop.
LiveInv == LinkInv /\ Counting /\ CountInv /\ DepackInvariant /\ Recording

\* The loop writes what it must.
LEMMA WriteKeeps ==
    ASSUME Recording, units' \in Seq(Units), SeenIn(depack, depack', units'), Write
    PROVE  Recording'
  <1>1. emitted' = emitted \o units' /\ file' = file \o Recordable(units')
    BY DEF Write
  <1>2. emitted \in Seq(Units) /\ file = FromStart(emitted)
    BY DEF Recording, FileIsWanted
  <1>3. emitted' \in Seq(Units) /\ (HasStart(emitted') <=> HasStart(emitted) \/ HasStart(units'))
    BY <1>1, <1>2, ConcatProperties, ConcatHasStart
  <1>4. depack'.keyframe_seen <=> HasStart(emitted')
    BY <1>3 DEF Recording, SeenIn
  <1>5. file' = FromStart(emitted')
    <2>1. CASE HasStart(emitted)
      <3>1. file # <<>>
        BY <1>2, <2>1, SomeStart
      <3>2. file' = FromStart(emitted) \o units'
        BY <1>1, <1>2, <3>1 DEF Recordable
      <3> QED
        BY <1>1, <1>2, <2>1, <3>2, FromStartConcat
    <2>2. CASE ~ HasStart(emitted)
      <3>1. file = <<>>
        BY <1>2, <2>2, NoStart
      <3>2. file' = <<>> \o FromStart(units')
        BY <1>1, <3>1 DEF Recordable
      <3>3. FromStart(units') \in Seq(Units) /\ FromStart(emitted') = FromStart(units')
        BY <1>1, <1>2, <2>2, FromStartConcat
      <3> QED
        BY <3>2, <3>3, ConcatEmptySeq
    <2> QED
      BY <2>1, <2>2
  <1> QED
    BY <1>3, <1>4, <1>5 DEF Recording, FileIsWanted

\* A unit that is returned alone begins at itself.
LEMMA UnitAlone ==
    ASSUME NEW d, Coherent(d), HasStart(Unit(d, FALSE))
    PROVE  FromStart(Unit(d, FALSE)) = Unit(d, FALSE)
  <1> DEFINE u == [timestamp |-> d.timestamp, nals |-> d.nals, closed_by_marker |-> FALSE]
             out == Unit(d, FALSE)
  <1>1. d.nals # <<>>
    BY DEF HasStart, Unit
  <1>2. out = <<u>>
    BY <1>1 DEF Unit
  <1>3. out \in Seq(Units)
    BY UnitIsOnePicture
  <1> HIDE DEF u
  <1>4. DOMAIN out = {1} /\ Len(out) = 1
    <2>1. DOMAIN <<u>> = {1} /\ Len(<<u>>) = 1
      OBVIOUS
    <2> HIDE DEF out
    <2> QED
      BY <1>2, <2>1
  <1>5. Starts(out) = {1}
    BY <1>4 DEF Starts, HasStart
  <1> HIDE DEF out
  <1>6. FromStart(out) = SubSeq(out, 1, Len(out))
    BY <1>4, <1>5, FromLeast
  <1>7. SubSeq(out, 1, Len(out)) = out
    BY <1>3, SubSeqFull
  <1> QED
    BY <1>6, <1>7 DEF out

\* The flush at the end: the unit is written if it, or one before it, can be decoded alone.
LEMMA StopKeeps ==
    ASSUME DepackInvariant, Recording, Stop
    PROVE  DepackInvariant' /\ Recording'
  <1>1. Flush /\ emitted' = emitted \o units'
        /\ file' = IF depack'.keyframe_seen THEN file \o units' ELSE file
    BY DEF Stop
  <1>2. DepackInvariant' /\ SeenIn(depack, depack', units')
    BY <1>1, FlushKeeps, FlushSeen
  <1>3. units' \in Seq(Units) /\ emitted \in Seq(Units) /\ file = FromStart(emitted)
    BY <1>2 DEF DepackInvariant, Recording, FileIsWanted
  <1>4. emitted' \in Seq(Units) /\ (HasStart(emitted') <=> HasStart(emitted) \/ HasStart(units'))
    BY <1>1, <1>3, ConcatProperties, ConcatHasStart
  <1>5. depack'.keyframe_seen <=> HasStart(emitted')
    BY <1>2, <1>4 DEF Recording, SeenIn
  <1>6. file' = FromStart(emitted')
    <2>1. CASE HasStart(emitted)
      <3>1. file' = FromStart(emitted) \o units'
        BY <1>1, <1>3, <1>4, <1>5, <2>1
      <3> QED
        BY <1>1, <1>3, <2>1, <3>1, FromStartConcat
    <2>2. CASE ~ HasStart(emitted) /\ HasStart(units')
      <3>1. file' = <<>> \o units'
        BY <1>1, <1>3, <1>4, <1>5, <2>2, NoStart
      <3>2. FromStart(emitted') = FromStart(units')
        BY <1>1, <1>3, <2>2, FromStartConcat
      <3>3. FromStart(units') = units'
        <4>1. ~ HasStart(<<>>)
          BY DEF HasStart
        <4>2. units' # <<>>
          BY <2>2, <4>1
        <4>3. units' = Unit(depack, FALSE)
          BY <1>1, <4>2 DEF Flush
        <4> QED
          BY <2>2, <4>3, UnitAlone DEF DepackInvariant
      <3> QED
        BY <1>3, <3>1, <3>2, <3>3, ConcatEmptySeq
    <2>3. CASE ~ HasStart(emitted')
      <3>1. file' = <<>> /\ FromStart(emitted') = <<>>
        BY <1>1, <1>3, <1>4, <1>5, <2>3, NoStart
      <3> QED
        BY <3>1
    <2> QED
      BY <1>4, <2>1, <2>2, <2>3
  <1> QED
    BY <1>2, <1>4, <1>5, <1>6 DEF Recording, FileIsWanted

\* One datagram of the stream: both machines and the file.
LEMMA ArriveKeeps ==
    ASSUME Counting, CountInv, DepackInvariant, Recording, NEW k \in 1 .. Len(Script), Arrive(k)
    PROVE  Counting' /\ CountInv' /\ DepackInvariant' /\ Recording'
  <1>1. Script[k] \in Packets /\ Number(k) \in Sequences
    BY ScriptAssumption, ElementOfSeq, NumberIs
  <1>2. /\ Observe(Number(k)) /\ PushPayload(Script[k]) /\ Write
        /\ counted' = Append(counted, k)
    BY DEF Arrive
  <1>3. Counting' /\ CountInv'
    BY <1>1, <1>2, ObserveCounts, ArriveCounts
  <1>4. DepackInvariant' /\ SeenIn(depack, depack', units')
    BY <1>1, <1>2, PushKeeps, PushSeen
  <1>5. Recording'
    BY <1>2, <1>4, WriteKeeps DEF DepackInvariant
  <1> QED
    BY <1>3, <1>4, <1>5

\* A datagram that is no packet of the stream leaves the counters alone.
LEMMA StrayKeeps ==
    ASSUME DepackInvariant, Recording, Stray \/ StrayStream
    PROVE  DepackInvariant' /\ Recording'
  <1>1. CASE Stray
    <2>1. depack' = Unsupported(depack) /\ units' = <<>> /\ Write
      BY <1>1 DEF Stray, PushNotRtp
    <2>2. DepackInvariant'
      BY <2>1, UnsupportedCoherent DEF DepackInvariant, OnePictureIn
    <2>3. depack'.keyframe_seen = depack.keyframe_seen
      BY <2>1 DEF Unsupported, DepackInvariant, Coherent, HasPartial
    <2>4. ~ HasStart(<<>>)
      BY DEF HasStart
    <2>5. SeenIn(depack, depack', units')
      BY <2>1, <2>3, <2>4 DEF SeenIn
    <2> QED
      BY <2>1, <2>2, <2>5, WriteKeeps DEF DepackInvariant
  <1>2. CASE StrayStream
    <2>1. PushPayload(ForeignPacket) /\ Write /\ ForeignPacket \in Packets
      BY <1>2, ScriptAssumption DEF StrayStream
    <2>2. DepackInvariant' /\ SeenIn(depack, depack', units')
      BY <2>1, PushKeeps, PushSeen
    <2> QED
      BY <2>1, <2>2, WriteKeeps DEF DepackInvariant
  <1> QED
    BY <1>1, <1>2

\* The count is about the tracker and the arrivals only,
LEMMA SameCount ==
    ASSUME Counting, CountInv, UNCHANGED <<tracker, counted>>
    PROVE  Counting' /\ CountInv'
  BY DEF tracker, Counting, TrackerTypeOK, Conservation, CountInv, NoneCounted, CountedTo,
       WithinWindow, HighestOf

\* and the recording about the depacketizer and the file.
LEMMA SameRecording ==
    ASSUME DepackInvariant, Recording, UNCHANGED <<depacketizer, file, emitted>>
    PROVE  DepackInvariant' /\ Recording'
  BY DEF depacketizer, DepackInvariant, Recording, FileIsWanted

\* A reset keeps keyframe_seen: the file goes on.
LEMMA DepackResetKeeps ==
    ASSUME DepackInvariant, DepackReset
    PROVE  DepackInvariant' /\ depack'.keyframe_seen = depack.keyframe_seen
  <1> DEFINE e == [depack EXCEPT !.timestamp = None, !.nals = <<>>, !.fu = None]
  <1>1. /\ e.timestamp = None /\ e.nals = <<>> /\ e.fu = None /\ DOMAIN e = DOMAIN depack
        /\ e.keyframe_seen = depack.keyframe_seen
    BY DEF DepackInvariant, Coherent, HasPartial
  <1>2. depack' = e /\ units' = <<>>
    BY DEF DepackReset
  <1> HIDE DEF e
  <1>3. Coherent(e)
    BY <1>1 DEF DepackInvariant, Coherent, HasPartial, AllSentUnder
  <1> QED
    BY <1>1, <1>2, <1>3 DEF DepackInvariant, OnePictureIn

\* At the start nothing has come and nothing is written.
LEMMA LiveInitInv == Init => LiveInv
  <1> SUFFICES ASSUME Init PROVE LiveInv
    OBVIOUS
  <1>1. LinkInv
    BY SpaceIs DEF Init, LinkInv
  <1>2. Counting
    BY TrackerAssumption DEF Init, TrackerInit, Counting, TrackerTypeOK, Conservation, Sequences
  <1>3. CountInv
    BY DEF Init, TrackerInit, CountInv, NoneCounted
  <1>4. DepackInvariant
    BY DEF Init, DepackInit, New, DepackInvariant, Coherent, HasPartial, AllSentUnder, OnePictureIn
  <1>5. Recording
    <2>1. emitted = <<>> /\ file = <<>> /\ ~ depack.keyframe_seen
      BY DEF Init, DepackInit, New
    <2>2. ~ HasStart(<<>>) /\ <<>> \in Seq(Units)
      BY DEF HasStart
    <2>3. FromStart(<<>>) = <<>>
      BY <2>2, NoStart
    <2>4. emitted \in Seq(Units) /\ FileIsWanted
      BY <2>1, <2>2, <2>3 DEF FileIsWanted
    <2>5. depack.keyframe_seen <=> HasStart(emitted)
      BY <2>1, <2>2
    <2> QED
      BY <2>4, <2>5 DEF Recording
  <1> QED
    BY <1>1, <1>2, <1>3, <1>4, <1>5 DEF LiveInv

\* One step per action; the three that deliver come down to Arrive.
LEMMA LiveNextInv == LiveInv /\ [Next]_vars => LiveInv'
  <1> SUFFICES ASSUME LiveInv, [Next]_vars PROVE LiveInv'
    OBVIOUS
  <1>0. LinkInv /\ Counting /\ CountInv /\ DepackInvariant /\ Recording
    BY DEF LiveInv
  <1>1. sent < Len(Script) => sent + 1 \in 1 .. Len(Script)
    BY <1>0, SpaceIs DEF LinkInv
  <1>2. ASSUME NEW k \in 1 .. Len(Script), Arrive(k), LinkInv'
        PROVE  LiveInv'
    BY <1>0, <1>2, ArriveKeeps DEF LiveInv
  <1>3. CASE Deliver
    <2>1. sent + 1 \in 1 .. Len(Script) /\ Arrive(sent + 1) /\ LinkInv'
      BY <1>0, <1>1, <1>3, SpaceIs DEF Deliver, LinkInv
    <2> QED
      BY <1>2, <2>1
  <1>4. CASE DeliverCopied
    <2>1. sent + 1 \in 1 .. Len(Script) /\ Arrive(sent + 1) /\ LinkInv'
      BY <1>0, <1>1, <1>4, SpaceIs DEF DeliverCopied, LinkInv
    <2> QED
      BY <1>2, <2>1
  <1>5. CASE DeliverLate
    <2>1. PICK k \in delayed : Arrive(k) /\ delayed' = delayed \ {k}
      BY <1>5 DEF DeliverLate
    <2>2. k \in 1 .. Len(Script) /\ LinkInv'
      BY <1>0, <1>5, <2>1 DEF DeliverLate, LinkInv
    <2> QED
      BY <1>2, <2>1, <2>2
  <1>6. CASE Lose \/ Delay
    <2>1. /\ sent < Len(Script) /\ sent' = sent + 1
          /\ delayed' = delayed \/ delayed' = delayed \cup {sent + 1}
      BY <1>6 DEF Lose, Delay
    <2>2. sent \in 0 .. Len(Script) /\ delayed \subseteq 1 .. Len(Script) /\ sent + 1 \in 1 .. Len(Script)
      BY <1>0, <1>1, <2>1 DEF LinkInv
    <2>3. delayed' \subseteq 1 .. Len(Script)
      BY <2>1, <2>2
    <2>4. sent' \in 0 .. Len(Script)
      BY <2>1, <2>2
    <2>5. LinkInv'
      BY <2>3, <2>4 DEF LinkInv
    <2> QED
      BY <1>0, <1>6, <2>5, SameCount, SameRecording DEF Lose, Delay, LiveInv
  <1>7. CASE Stray \/ StrayStream
    <2>1. LinkInv' /\ UNCHANGED <<tracker, counted>>
      BY <1>0, <1>7 DEF Stray, StrayStream, LinkInv
    <2> QED
      BY <1>0, <1>7, <2>1, SameCount, StrayKeeps DEF LiveInv
  <1>8. CASE Restart
    <2>1. TrackerReset /\ DepackReset /\ counted' = <<>> /\ UNCHANGED <<sent, delayed, file, emitted>>
      BY <1>8 DEF Restart
    <2>2. Counting'
      BY <2>1 DEF TrackerReset, Counting, TrackerTypeOK, Conservation
    <2>3. CountInv'
      BY <2>1 DEF TrackerReset, CountInv, NoneCounted
    <2>4. DepackInvariant' /\ depack'.keyframe_seen = depack.keyframe_seen
      BY <1>0, <2>1, DepackResetKeeps
    <2>5. Recording'
      BY <1>0, <2>1, <2>4 DEF Recording, FileIsWanted
    <2> QED
      BY <1>0, <2>1, <2>2, <2>3, <2>4, <2>5 DEF LinkInv, LiveInv
  <1>9. CASE Stop
    <2>1. LinkInv' /\ UNCHANGED <<tracker, counted>>
      BY <1>0, <1>9 DEF Stop, link, LinkInv
    <2> QED
      BY <1>0, <1>9, <2>1, SameCount, StopKeeps DEF LiveInv
  <1>10. CASE UNCHANGED vars
    <2>1. UNCHANGED <<tracker, counted>> /\ UNCHANGED <<depacketizer, file, emitted>> /\ LinkInv'
      BY <1>0, <1>10 DEF vars, link, LinkInv
    <2> QED
      BY <1>0, <2>1, SameCount, SameRecording DEF LiveInv
  <1> QED
    BY <1>3, <1>4, <1>5, <1>6, <1>7, <1>8, <1>9, <1>10 DEF Next

\* The invariant holds in every reachable state.
LEMMA LiveAlways == Spec => []LiveInv
  BY LiveInitInv, LiveNextInv, PTL DEF Spec

\* On a link that loses, copies and reorders, with resets in between: every number from
\* the first packet to the highest is counted as received or as lost, and once.
THEOREM LiveConserves == Spec => []Conservation
  <1>1. LiveInv => Conservation
    BY DEF LiveInv, Counting
  <1> QED
    BY <1>1, LiveAlways, PTL

\* Whatever the link does to the order, as long as no packet is later than the window is
\* wide, the counters are those of a count by hand, across every wrap of the numbers
\* (SequenceTracker::observe).
THEOREM CountersAreExact == Spec => []LossIsExact
  <1>1. LiveInv => LossIsExact
    BY CountedIsExact DEF LiveInv, Counting, Conservation, TrackerTypeOK
  <1> QED
    BY <1>1, LiveAlways, PTL

\* In the media loop as well no unit joins two pictures, with strangers' packets, resets
\* and the last flush.
THEOREM LiveOnePicture == Spec => []OnePicture
  <1>1. LiveInv => OnePicture
    BY DEF LiveInv, DepackInvariant, OnePictureIn, AllSentUnder, OnePicture
  <1> QED
    BY <1>1, LiveAlways, PTL

\* The recording is what the depacketizer returned from the first picture on that can be
\* decoded alone, all of it and in order, the flushed last unit included (examples/live.rs).
THEOREM RecordingIsWhole == Spec => []FileIsWanted
  <1>1. LiveInv => FileIsWanted
    BY DEF LiveInv, Recording
  <1> QED
    BY <1>1, LiveAlways, PTL

-----------------------------------------------------------------------------
(* How a sequence of sequences is put down: FlattenSeq, a fold of the     *)
(* library, as a loop.                                                     *)

\* Induction up to n, the induction hypothesis as a set.
LEMMA UpTo ==
    ASSUME NEW n \in Nat, NEW T, 0 \in T, \A i \in 1 .. n : i - 1 \in T => i \in T
    PROVE  \A i \in 0 .. n : i \in T
  <1> DEFINE missing == {i \in 0 .. n : i \notin T}
  <1> SUFFICES ASSUME missing # {} PROVE FALSE
    OBVIOUS
  <1>0. missing \subseteq Nat
    OBVIOUS
  <1>1. PICK m \in missing : \A i \in missing : m <= i
    <2> HIDE DEF missing
    <2> QED
      BY <1>0, Least
  <1>2. m \in 1 .. n
    BY <1>1
  <1>3. m - 1 \in 0 .. n /\ ~ (m <= m - 1)
    BY <1>2
  <1>4. m - 1 \in T
    BY <1>1, <1>3
  <1> QED
    BY <1>1, <1>2, <1>4

\* f runs through a loop of n turns, from base on: turn i makes step[i][x] of x.
RunsThrough(f, n, S, base, step) ==
    /\ f \in [0 .. n -> S]
    /\ f[0] = base
    /\ \A i \in 1 .. n : f[i] = step[i][f[i - 1]]

\* There is such a function.
LEMMA Turns ==
    ASSUME NEW n \in Nat, NEW S, NEW base \in S,
           NEW step, \A i \in 1 .. n : \A x \in S : step[i][x] \in S
    PROVE  \E f : RunsThrough(f, n, S, base, step)
  <1> DEFINE Runs(m, g) == g[0] = base /\ \A i \in 1 .. m : g[i] = step[i][g[i - 1]]
             T == {m \in 0 .. n : \E g \in [0 .. m -> S] : Runs(m, g)}
  <1>1. 0 \in T
    <2> DEFINE g == [i \in 0 .. 0 |-> base]
    <2>1. g \in [0 .. 0 -> S] /\ g[0] = base
      OBVIOUS
    <2>2. Runs(0, g)
      BY <2>1
    <2> HIDE DEF Runs, g
    <2> QED
      BY <2>1, <2>2
  <1>2. ASSUME NEW m \in 1 .. n, m - 1 \in T PROVE m \in T
    <2>1. PICK g \in [0 .. m - 1 -> S] : Runs(m - 1, g)
      BY <1>2
    <2> DEFINE x == step[m][g[m - 1]]
               h == [i \in 0 .. m |-> IF i = m THEN x ELSE g[i]]
    <2>2. m - 1 \in 0 .. m - 1 /\ m \in 0 .. n /\ 0 \in 0 .. m - 1 /\ m # 0
      OBVIOUS
    <2>3. x \in S
      BY <2>1, <2>2
    <2> HIDE DEF x
    <2>4. \A i \in 0 .. m : i # m => i \in 0 .. m - 1
      OBVIOUS
    <2>5. h \in [0 .. m -> S]
      BY <2>3, <2>4
    <2>6. h[0] = base
      BY <2>1, <2>2
    <2>7. ASSUME NEW i \in 1 .. m PROVE h[i] = step[i][h[i - 1]]
      <3>1. i \in 0 .. m /\ i - 1 \in 0 .. m /\ i - 1 # m
        OBVIOUS
      <3>2. h[i - 1] = g[i - 1]
        BY <3>1
      <3>3. CASE i = m
        BY <3>1, <3>2, <3>3 DEF x
      <3>4. CASE i # m
        <4>1. i \in 1 .. m - 1
          BY <3>4
        <4> QED
          BY <2>1, <3>1, <3>2, <3>4, <4>1
      <3> QED
        BY <3>3, <3>4
    <2>8. Runs(m, h)
      BY <2>6, <2>7
    <2> HIDE DEF h, Runs
    <2> QED
      BY <2>2, <2>5, <2>8
  <1> HIDE DEF T
  <1>3. \A i \in 0 .. n : i \in T
    BY <1>1, <1>2, UpTo
  <1>4. n \in T
    BY <1>3
  <1>5. PICK g \in [0 .. n -> S] : Runs(n, g)
    BY <1>4 DEF T
  <1>6. RunsThrough(g, n, S, base, step)
    BY <1>5 DEF RunsThrough
  <1> QED
    BY <1>6

\* FlattenSeq's loop: from the empty sequence on, one sequence after the other.
Flattens(g, S, seqs) ==
    /\ g \in [0 .. Len(seqs) -> Seq(S)]
    /\ g[0] = <<>> /\ \A i \in 1 .. Len(seqs) : g[i] = g[i - 1] \o seqs[i]
    /\ FlattenSeq(seqs) = g[Len(seqs)]

\* The library's FlattenSeq, a fold, is that loop.
LEMMA FlattenTurns ==
    ASSUME NEW S, NEW seqs \in Seq(Seq(S))
    PROVE  \E g : Flattens(g, S, seqs)
<1> DEFINE n == Len(seqs)
           step == [i \in 1 .. n |-> [x \in Seq(S) |-> x \o seqs[i]]]
           IsRun(g) == g = [i \in 1 .. n |-> IF i = 1 THEN seqs[i] ELSE g[i - 1] \o seqs[i]]
           flat == CHOOSE g : IsRun(g)
<1>1. n \in Nat /\ (\A i \in 1 .. n : seqs[i] \in Seq(S)) /\ <<>> \in Seq(S)
  BY EmptySeq
<1>2. \A i \in 1 .. n : \A x \in Seq(S) : step[i][x] = x \o seqs[i] /\ step[i][x] \in Seq(S)
  BY <1>1
<1>3. PICK f : f \in [0 .. n -> Seq(S)] /\ f[0] = <<>> /\ \A i \in 1 .. n : f[i] = step[i][f[i - 1]]
  <2> HIDE DEF n, step
  <2>1. \A i \in 1 .. n : \A x \in Seq(S) : step[i][x] \in Seq(S)
    BY <1>2
  <2>2. \E f : RunsThrough(f, n, Seq(S), <<>>, step)
    BY <1>1, <2>1, Turns
  <2> QED
    BY <2>2 DEF RunsThrough
<1>4. \A i \in 1 .. n : f[i] = f[i - 1] \o seqs[i]
  <2> SUFFICES ASSUME NEW i \in 1 .. n PROVE f[i] = f[i - 1] \o seqs[i]
    OBVIOUS
  <2>1. f[i - 1] \in Seq(S)
    <3>1. i - 1 \in 0 .. n
      BY <1>1
    <3> HIDE DEF n
    <3> QED
      BY <1>3, <3>1
  <2> QED
    BY <1>2, <1>3, <2>1
<1>5. CASE n = 0
  <2>1. seqs = <<>>
    BY <1>5, EmptySeq
  <2>2. FlattenSeq(seqs) = seqs
    BY <1>5 DEF FlattenSeq
  <2> QED
    BY <1>3, <1>4, <1>5, <2>1, <2>2 DEF Flattens
<1>6. CASE n # 0
  <2>1. FlattenSeq(seqs) = flat[n]
    BY <1>6 DEF FlattenSeq
  <2> DEFINE h == [i \in 1 .. n |-> f[i]]
  <2>2. IsRun(h)
    <3>1. ASSUME NEW i \in 1 .. n PROVE f[i] = IF i = 1 THEN seqs[i] ELSE h[i - 1] \o seqs[i]
      <4>1. CASE i = 1
        <5>1. f[i] = <<>> \o seqs[i] /\ seqs[i] \in Seq(S)
          <6>1. i - 1 = 0
            BY <4>1
          <6> HIDE DEF n
          <6> QED
            BY <1>1, <1>3, <1>4, <6>1
        <5> QED
          BY <4>1, <5>1, ConcatEmptySeq
      <4>2. CASE i # 1
        <5>1. i - 1 \in 1 .. n
          BY <1>1, <4>2
        <5>2. h[i - 1] = f[i - 1]
          BY <5>1
        <5> QED
          BY <1>4, <4>2, <5>2
      <4> QED
        BY <4>1, <4>2
    <3> HIDE DEF n
    <3> QED
      BY <3>1
  <2>3. IsRun(flat)
    <3> HIDE DEF IsRun, h
    <3> QED
      BY <2>2
  <2> HIDE DEF flat
  <2>4. \A i \in 1 .. n : flat[i] = IF i = 1 THEN seqs[i] ELSE flat[i - 1] \o seqs[i]
    <3> HIDE DEF n
    <3> QED
      BY <2>3
  <2> DEFINE T == {i \in 0 .. n : i = 0 \/ flat[i] = f[i]}
  <2>5. 0 \in T
    BY <1>1
  <2>6. ASSUME NEW i \in 1 .. n, i - 1 \in T PROVE i \in T
    <3>1. flat[i] = f[i]
      <4>1. CASE i = 1
        <5>1. f[i] = <<>> \o seqs[i] /\ seqs[i] \in Seq(S)
          <6>1. i - 1 = 0
            BY <4>1
          <6> HIDE DEF n
          <6> QED
            BY <1>1, <1>3, <1>4, <6>1
        <5> QED
          BY <2>4, <4>1, <5>1, ConcatEmptySeq
      <4>2. CASE i # 1
        <5>1. flat[i - 1] = f[i - 1]
          BY <2>6, <4>2
        <5> QED
          BY <1>4, <2>4, <4>2, <5>1
      <4> QED
        BY <4>1, <4>2
    <3> QED
      BY <1>1, <3>1
  <2>7. \A i \in 0 .. n : i \in T
    <3> HIDE DEF T, n
    <3> QED
      BY <1>1, <2>5, <2>6, UpTo
  <2>8. flat[n] = f[n]
    BY <1>1, <1>6, <2>7
  <2> QED
    BY <1>3, <1>4, <2>1, <2>8 DEF Flattens
<1> QED
  BY <1>5, <1>6

\* Where the elements of a concatenation come from.
Joins(S, s, t, both) ==
    /\ both \in Seq(S) /\ Len(both) = Len(s) + Len(t)
    /\ \A x \in 1 .. Len(s) : both[x] = s[x]
    /\ \A x \in 1 .. Len(t) : both[Len(s) + x] = t[x]

LEMMA Concatenated ==
    ASSUME NEW S, NEW s \in Seq(S), NEW t \in Seq(S)
    PROVE  Joins(S, s, t, s \o t)
<1>1. /\ s \o t \in Seq(S) /\ Len(s \o t) = Len(s) + Len(t)
      /\ \A i \in 1 .. Len(s) + Len(t) :
             (s \o t)[i] = IF i <= Len(s) THEN s[i] ELSE t[i - Len(s)]
  BY ConcatProperties
<1>2. Len(s) \in Nat /\ Len(t) \in Nat
  OBVIOUS
<1>3. ASSUME NEW x \in 1 .. Len(s) PROVE (s \o t)[x] = s[x]
  BY <1>1, <1>2
<1>4. ASSUME NEW x \in 1 .. Len(t) PROVE (s \o t)[Len(s) + x] = t[x]
  <2>1. Len(s) + x \in 1 .. Len(s) + Len(t) /\ ~ (Len(s) + x <= Len(s)) /\ (Len(s) + x) - Len(s) = x
    BY <1>2
  <2> QED
    BY <1>1, <2>1
<1> QED
  BY <1>1, <1>3, <1>4 DEF Joins

\* Flattening a prefix of a vector of sequences is a prefix of the loop.
LEMMA PrefixTurns ==
    ASSUME NEW S, NEW seqs \in Seq(Seq(S)), NEW g, Flattens(g, S, seqs),
           NEW head \in Seq(Seq(S)), Len(head) <= Len(seqs),
           \A i \in 1 .. Len(head) : head[i] = seqs[i]
    PROVE  FlattenSeq(head) = g[Len(head)]
<1> DEFINE m == Len(head)
<1>0. m \in Nat /\ m \in 0 .. Len(seqs)
  OBVIOUS
<1>1. PICK f : Flattens(f, S, head)
  BY FlattenTurns
<1> DEFINE T == {i \in 0 .. m : f[i] = g[i]}
<1>2. 0 \in T
  BY <1>0, <1>1 DEF Flattens
<1>3. ASSUME NEW i \in 1 .. m, i - 1 \in T PROVE i \in T
  <2>1. i \in 1 .. Len(seqs) /\ i \in 0 .. m
    BY <1>0
  <2>2. f[i] = f[i - 1] \o head[i] /\ g[i] = g[i - 1] \o seqs[i]
    BY <1>1, <2>1 DEF Flattens
  <2>3. f[i - 1] = g[i - 1] /\ head[i] = seqs[i]
    BY <1>3
  <2> QED
    BY <2>1, <2>2, <2>3
<1>4. \A i \in 0 .. m : i \in T
  <2> HIDE DEF T, m
  <2> QED
    BY <1>0, <1>2, <1>3, UpTo
<1>5. f[m] = g[m]
  BY <1>0, <1>4
<1> QED
  BY <1>1, <1>5 DEF Flattens

\* longer begins with the sequence part.
Prolongs(part, longer) ==
    Len(part) <= Len(longer) /\ \A x \in 1 .. Len(part) : longer[x] = part[x]

\* What one turn of the loop has put down, every later one keeps.
LEMMA TurnsKeep ==
    ASSUME NEW S, NEW seqs \in Seq(Seq(S)), NEW g, Flattens(g, S, seqs), NEW k \in 0 .. Len(seqs)
    PROVE  \A m \in k .. Len(seqs) : Prolongs(g[k], g[m])
<1> DEFINE n == Len(seqs)
           Keeps(m) == Len(g[k]) <= Len(g[m]) /\ \A x \in 1 .. Len(g[k]) : g[m][x] = g[k][x]
           T == {m \in 0 .. n : m >= k => Keeps(m)}
<1>1. n \in Nat /\ \A i \in 0 .. n : g[i] \in Seq(S) /\ Len(g[i]) \in Nat
  <2>1. n \in Nat /\ g \in [0 .. n -> Seq(S)]
    BY DEF Flattens
  <2> HIDE DEF n
  <2>2. \A i \in 0 .. n : g[i] \in Seq(S)
    BY <2>1
  <2> QED
    BY <2>1, <2>2, LenProperties
<1>2. k \in 0 .. n /\ Keeps(k)
  BY <1>1
<1>3. 0 \in T
  <2>1. 0 >= k => k = 0
    BY <1>2
  <2> HIDE DEF Keeps, n
  <2> QED
    BY <1>1, <1>2, <2>1
<1>4. ASSUME NEW m \in 1 .. n, m - 1 \in T PROVE m \in T
  <2>1. m \in 0 .. n /\ m - 1 \in 0 .. n
    BY <1>1
  <2>2. SUFFICES ASSUME m >= k PROVE Keeps(m)
    <3> HIDE DEF Keeps
    <3> QED
      BY <2>1
  <2>3. CASE m = k
    <3> HIDE DEF Keeps
    <3> QED
      BY <1>2, <2>3
  <2>4. CASE m # k
    <3>1. Keeps(m - 1)
      <4>1. m - 1 >= k
        BY <1>2, <2>1, <2>2, <2>4
      <4> HIDE DEF Keeps
      <4> QED
        BY <1>4, <4>1
    <3> DEFINE before == g[m - 1]
    <3>2. g[m] = before \o seqs[m]
      BY DEF Flattens
    <3>3. before \in Seq(S) /\ seqs[m] \in Seq(S) /\ g[k] \in Seq(S)
      BY <1>1, <1>2, <2>1
    <3>4. Len(g[k]) <= Len(before) /\ \A x \in 1 .. Len(g[k]) : before[x] = g[k][x]
      BY <3>1
    <3> HIDE DEF n, before
    <3>5. Len(g[m]) = Len(before) + Len(seqs[m])
          /\ \A x \in 1 .. Len(before) : g[m][x] = before[x]
      BY <3>2, <3>3, Concatenated DEF Joins
    <3>6. Len(before) \in Nat /\ Len(seqs[m]) \in Nat /\ Len(g[k]) \in Nat
      BY <3>3
    <3>7. \A x \in 1 .. Len(g[k]) : x \in 1 .. Len(before)
      BY <3>4, <3>6
    <3>8. Len(g[k]) <= Len(g[m])
      BY <3>4, <3>5, <3>6
    <3>9. \A x \in 1 .. Len(g[k]) : g[m][x] = g[k][x]
      BY <3>4, <3>5, <3>7
    <3> QED
      BY <3>8, <3>9
  <2> QED
    BY <2>3, <2>4
<1>5. \A m \in 0 .. n : m \in T
  <2> HIDE DEF T, n
  <2> QED
    BY <1>1, <1>3, <1>4, UpTo
<1>6. \A m \in k .. n : m \in 0 .. n /\ m >= k
  BY <1>1, <1>2
<1> QED
  BY <1>5, <1>6 DEF Prolongs

\* How far the first n sequences of seqs reach when they are put one after the other.
Before(seqs, n) == Len(FlattenSeq(SubSeq(seqs, 1, n)))

\* FlattenSeq puts each sequence down where the ones before it end.
LaidOut(S, seqs) ==
    /\ FlattenSeq(seqs) \in Seq(S) /\ Len(FlattenSeq(seqs)) = Before(seqs, Len(seqs))
    /\ \A n \in 0 .. Len(seqs) : Before(seqs, n) \in Nat
    /\ Before(seqs, 0) = 0
    /\ \A n \in 1 .. Len(seqs) : Before(seqs, n) = Before(seqs, n - 1) + Len(seqs[n])
    /\ \A n \in 0 .. Len(seqs) : \A m \in n .. Len(seqs) : Before(seqs, n) <= Before(seqs, m)
    /\ \A n \in 1 .. Len(seqs) : \A i \in 1 .. Len(seqs[n]) :
           FlattenSeq(seqs)[Before(seqs, n - 1) + i] = seqs[n][i]

LEMMA Flattened ==
    ASSUME NEW S, NEW seqs \in Seq(Seq(S))
    PROVE  LaidOut(S, seqs)
<1> DEFINE n == Len(seqs)
<1>1. PICK g : Flattens(g, S, seqs)
  BY FlattenTurns
<1>2. n \in Nat /\ (\A m \in 1 .. n : seqs[m] \in Seq(S))
      /\ (\A m \in 0 .. n : g[m] \in Seq(S) /\ Len(g[m]) \in Nat)
      /\ g[0] = <<>> /\ (\A m \in 1 .. n : g[m] = g[m - 1] \o seqs[m])
      /\ FlattenSeq(seqs) = g[n]
  <2>1. /\ g \in [0 .. n -> Seq(S)] /\ g[0] = <<>>
        /\ (\A m \in 1 .. n : g[m] = g[m - 1] \o seqs[m]) /\ FlattenSeq(seqs) = g[n]
    BY <1>1 DEF Flattens
  <2>2. n \in Nat /\ \A m \in 1 .. n : seqs[m] \in Seq(S)
    OBVIOUS
  <2> HIDE DEF n
  <2>3. \A m \in 0 .. n : g[m] \in Seq(S)
    BY <2>1
  <2> QED
    BY <2>1, <2>2, <2>3, LenProperties
<1>3. ASSUME NEW m \in 0 .. n PROVE Before(seqs, m) = Len(g[m])
  <2> DEFINE head == SubSeq(seqs, 1, m)
  <2>1. head \in Seq(Seq(S)) /\ Len(head) = m /\ \A i \in 1 .. m : head[i] = seqs[i]
    <3>1. 1 \in 1 .. n + 1 /\ m \in 1 - 1 .. n
      BY <1>2
    <3>2. /\ SubSeq(seqs, 1, m) \in Seq(Seq(S)) /\ Len(SubSeq(seqs, 1, m)) = IF 1 <= m THEN m - 1 + 1 ELSE 0
          /\ \A i \in 1 .. m - 1 + 1 : SubSeq(seqs, 1, m)[i] = seqs[1 + i - 1]
      BY <3>1, SubSeqProperties
    <3>3. m \in Nat /\ (1 <= m => m - 1 + 1 = m) /\ (~ (1 <= m) => m = 0)
          /\ \A i \in 1 .. m : i \in 1 .. m - 1 + 1 /\ 1 + i - 1 = i
      BY <1>2
    <3> HIDE DEF n
    <3> QED
      BY <3>2, <3>3
  <2> HIDE DEF head
  <2>2. Len(head) <= Len(seqs) /\ \A i \in 1 .. Len(head) : head[i] = seqs[i]
    BY <1>2, <2>1
  <2>3. FlattenSeq(head) = g[Len(head)]
    BY <1>1, <2>1, <2>2, PrefixTurns
  <2> QED
    BY <2>1, <2>3 DEF Before, head
<1> HIDE DEF n
<1>4. ASSUME NEW m \in 1 .. n
      PROVE  /\ Before(seqs, m) = Before(seqs, m - 1) + Len(seqs[m])
             /\ \A i \in 1 .. Len(seqs[m]) : FlattenSeq(seqs)[Before(seqs, m - 1) + i] = seqs[m][i]
  <2>1. m \in 0 .. n /\ m - 1 \in 0 .. n /\ n \in m .. n
    BY <1>2
  <2>2. Joins(S, g[m - 1], seqs[m], g[m])
    BY <1>2, <2>1, Concatenated
  <2>3. Prolongs(g[m], g[n])
    BY <1>1, <2>1, TurnsKeep DEF n
  <2>4. /\ Len(g[m]) = Len(g[m - 1]) + Len(seqs[m]) /\ Len(g[m - 1]) \in Nat /\ Len(seqs[m]) \in Nat
        /\ \A i \in 1 .. Len(seqs[m]) : g[m][Len(g[m - 1]) + i] = seqs[m][i]
    BY <1>2, <2>1, <2>2 DEF Joins
  <2>5. \A x \in 1 .. Len(g[m]) : g[n][x] = g[m][x]
    BY <2>3 DEF Prolongs
  <2>6. ASSUME NEW i \in 1 .. Len(seqs[m]) PROVE g[n][Len(g[m - 1]) + i] = seqs[m][i]
    <3>0. \A a, b \in Nat : \A x \in 1 .. b : a + x \in 1 .. a + b
      OBVIOUS
    <3>1. Len(g[m - 1]) + i \in 1 .. Len(g[m])
      BY <2>4, <3>0
    <3> QED
      BY <2>4, <2>5, <3>1
  <2> QED
    BY <1>2, <1>3, <2>1, <2>4, <2>6
<1>5. ASSUME NEW k \in 0 .. n, NEW m \in k .. n PROVE Before(seqs, k) <= Before(seqs, m)
  <2>1. m \in 0 .. n
    BY <1>2
  <2>2. Prolongs(g[k], g[m])
    BY <1>1, TurnsKeep DEF n
  <2> QED
    BY <1>3, <2>1, <2>2 DEF Prolongs
<1>6. n \in 0 .. n /\ 0 \in 0 .. n
  BY <1>2
<1>7. Len(g[0]) = 0
  BY <1>2
<1> QED
  BY <1>2, <1>3, <1>4, <1>5, <1>6, <1>7 DEF LaidOut, n

\* and every element of what it gives is one of theirs.
LEMMA Belongs ==
    ASSUME NEW S, NEW seqs \in Seq(Seq(S)), NEW k \in 1 .. Len(FlattenSeq(seqs))
    PROVE  \E n \in 1 .. Len(seqs) : \E i \in 1 .. Len(seqs[n]) : k = Before(seqs, n - 1) + i
<1> DEFINE N == Len(seqs)
           T == {n \in 0 .. N : k <= Before(seqs, n)}
<1>1. LaidOut(S, seqs) /\ N \in Nat
  BY Flattened
<1>2. Len(FlattenSeq(seqs)) = Before(seqs, N) /\ Before(seqs, N) \in Nat
  BY <1>1 DEF LaidOut
<1>3. N \in T /\ T \subseteq Nat /\ T # {}
  BY <1>1, <1>2
<1>4. PICK n \in T : \A m \in T : n <= m
  <2> HIDE DEF T
  <2> QED
    BY <1>3, Least
<1>5. n # 0
  BY <1>1 DEF LaidOut
<1>6. n \in 1 .. N /\ n - 1 \in 0 .. N /\ n - 1 \notin T
  BY <1>1, <1>4, <1>5
<1>7. /\ Before(seqs, n) = Before(seqs, n - 1) + Len(seqs[n])
      /\ Before(seqs, n - 1) \in Nat /\ Len(seqs[n]) \in Nat
  BY <1>1, <1>6 DEF LaidOut
<1>8. k <= Before(seqs, n) /\ ~ (k <= Before(seqs, n - 1)) /\ k \in Nat
  BY <1>2, <1>4, <1>6
<1> DEFINE i == k - Before(seqs, n - 1)
<1>9. i \in 1 .. Len(seqs[n]) /\ k = Before(seqs, n - 1) + i
  <2> DEFINE b == Before(seqs, n - 1)
             c == Len(seqs[n])
             e == Before(seqs, n)
  <2>1. e = b + c /\ b \in Nat /\ c \in Nat /\ k <= e /\ ~ (k <= b) /\ k \in Nat
    BY <1>7, <1>8
  <2> HIDE DEF b, c, e
  <2>2. k - b \in 1 .. c /\ k = b + (k - b)
    BY <2>1
  <2> QED
    BY <2>2 DEF b, c
<1> HIDE DEF i
<1> QED
  BY <1>6, <1>9

-----------------------------------------------------------------------------
(* What the packets of a picture are.                                      *)

Pieces == [kind : STRING, size : Nat \ {0}]

\* The parts of a picture, and how many of them are parameter sets.
LEMMA PictureIs ==
    ASSUME NEW p \in DOMAIN Pictures
    PROVE  /\ p \in Nat \ {0} /\ Len(Pictures[p]) \in Nat \ {0}
           /\ \A n \in 1 .. Len(Pictures[p]) : Pictures[p][n] \in Pieces
           /\ SetCount(p) \in 0 .. Len(Pictures[p])
<1> DEFINE S == Seq(Pieces) \ {<<>>}
<1>1. Pictures \in Seq(S) /\ DOMAIN Pictures = 1 .. Len(Pictures) /\ Len(Pictures) \in Nat
  BY PicturesAssumption DEF Pieces
<1>2. Pictures[p] \in S /\ p \in Nat \ {0}
  <2> HIDE DEF S
  <2> QED
    BY <1>1
<1>3. Len(Pictures[p]) \in Nat \ {0} /\ \A n \in 1 .. Len(Pictures[p]) : Pictures[p][n] \in Pieces
  BY <1>2, EmptySeq
<1>4. SetCount(p) \in 0 .. Len(Pictures[p])
  BY PicturesAssumption DEF SetCount, SetsLead
<1> QED
  BY <1>2, <1>3, <1>4

\* The NALs of a picture as they are sent.
LEMMA NalIs ==
    ASSUME NEW p \in DOMAIN Pictures, NEW n \in 1 .. Len(Pictures[p])
    PROVE  /\ Nal(p, n) \in NalUnits
           /\ Nal(p, n).parts \in Seq(Seq(Nat)) /\ Len(Nal(p, n).parts) = Pictures[p][n].size
           /\ Pictures[p][n].size \in Nat \ {0} /\ Nal(p, n).kind \in STRING
           /\ \A i \in 1 .. Pictures[p][n].size : Nal(p, n).parts[i] = <<p, n, i>>
<1> DEFINE size == Pictures[p][n].size
           parts == [i \in 1 .. size |-> <<p, n, i>>]
<1>1. Pictures[p][n] \in Pieces /\ p \in Nat /\ n \in Nat
  BY PictureIs
<1>2. size \in Nat \ {0} /\ Pictures[p][n].kind \in STRING
  BY <1>1 DEF Pieces
<1>3. Nal(p, n) = [kind |-> Pictures[p][n].kind, parts |-> parts]
  BY DEF Nal
<1> HIDE DEF size
<1>4. \A i \in 1 .. size : <<p, n, i>> \in Seq(Nat)
  BY <1>1, <1>2
<1>5. parts \in Seq(Seq(Nat)) /\ Len(parts) = size
  <2> DEFINE S == Seq(Nat)
  <2>1. \A i \in 1 .. size : <<p, n, i>> \in S
    BY <1>4
  <2> HIDE DEF S
  <2>2. parts \in [1 .. size -> S]
    BY <2>1
  <2> HIDE DEF parts
  <2>3. parts \in Seq(S)
    BY <1>2, <2>2
  <2>4. DOMAIN parts = 1 .. size
    BY <2>2
  <2>5. Len(parts) = size
    BY <1>2, <2>3, <2>4, LenProperties
  <2> QED
    BY <2>3, <2>5 DEF S
<1>6. \A i \in 1 .. size : parts[i] = <<p, n, i>>
  OBVIOUS
<1> HIDE DEF parts
<1> QED
  BY <1>2, <1>3, <1>5, <1>6 DEF NalUnits, size

LEMMA NalsAre ==
    ASSUME NEW p \in DOMAIN Pictures
    PROVE  /\ Nals(p) \in Seq(NalUnits) /\ Len(Nals(p)) = Len(Pictures[p])
           /\ \A n \in 1 .. Len(Pictures[p]) : Nals(p)[n] = Nal(p, n)
<1> DEFINE N == Len(Pictures[p])
<1>1. N \in Nat /\ Nals(p) = [n \in 1 .. N |-> Nal(p, n)] /\ \A n \in 1 .. N : Nal(p, n) \in NalUnits
  <2>1. DOMAIN Pictures[p] = 1 .. N
    <3>1. Pictures[p] \in Seq(Pieces)
      BY PicturesAssumption DEF Pieces
    <3> QED
      BY <3>1
  <2> QED
    BY <2>1, PictureIs, NalIs DEF Nals
<1> HIDE DEF N
<1>2. Nals(p) \in [1 .. N -> NalUnits]
  BY <1>1
<1>3. Nals(p) \in Seq(NalUnits) /\ DOMAIN Nals(p) = 1 .. N
  BY <1>1, <1>2
<1>4. Len(Nals(p)) = N
  BY <1>1, <1>3, LenProperties
<1> QED
  BY <1>1, <1>3, <1>4 DEF N

\* A NAL is sent in as many packets as it has parts.
LEMMA PayloadsAre ==
    ASSUME NEW nal \in NalUnits, Len(nal.parts) # 0
    PROVE  /\ PayloadsOf(nal) \in Seq(Payloads) /\ Len(PayloadsOf(nal)) = Len(nal.parts)
           /\ Len(nal.parts) = 1 => PayloadsOf(nal)[1] = [form |-> "Single", nals |-> <<nal>>]
           /\ Len(nal.parts) # 1 => \A i \in 1 .. Len(nal.parts) :
                PayloadsOf(nal)[i] = [form |-> "FuA", kind |-> nal.kind, piece |-> nal.parts[i],
                                      start |-> i = 1, end |-> i = Len(nal.parts)]
<1> DEFINE N == Len(nal.parts)
           single == [form |-> "Single", nals |-> <<nal>>]
           fu(i) == [form |-> "FuA", kind |-> nal.kind, piece |-> nal.parts[i],
                     start |-> i = 1, end |-> i = N]
<1>1. nal.kind \in STRING /\ nal.parts \in Seq(Seq(Nat)) /\ N \in Nat /\ DOMAIN nal.parts = 1 .. N
  BY DEF NalUnits
<1>2. single \in Payloads
  BY DEF Payloads
<1>3. \A i \in 1 .. N : fu(i) \in Payloads
  <2> SUFFICES ASSUME NEW i \in 1 .. N PROVE fu(i) \in Payloads
    OBVIOUS
  <2>1. nal.parts[i] \in Seq(Nat) /\ (i = 1) \in BOOLEAN /\ (i = N) \in BOOLEAN
    BY <1>1, ElementOfSeq
  <2> HIDE DEF N
  <2> QED
    BY <1>1, <2>1 DEF Payloads
<1>4. CASE N = 1
  <2>1. PayloadsOf(nal) = <<single>>
    BY <1>4 DEF PayloadsOf
  <2> HIDE DEF single
  <2>2. <<single>> \in Seq(Payloads) /\ Len(<<single>>) = 1 /\ <<single>>[1] = single
    BY <1>2
  <2> QED
    BY <1>4, <2>1, <2>2 DEF single
<1>5. CASE N # 1
  <2> DEFINE s == [i \in 1 .. N |-> fu(i)]
  <2>1. PayloadsOf(nal) = s
    BY <1>1, <1>5 DEF PayloadsOf
  <2>2. \A i \in 1 .. N : s[i] = fu(i)
    OBVIOUS
  <2> HIDE DEF fu, N
  <2>3. s \in [1 .. N -> Payloads]
    BY <1>3
  <2>4. s \in Seq(Payloads) /\ DOMAIN s = 1 .. N
    BY <1>1, <2>3
  <2>5. Len(s) = N
    BY <1>1, <2>4, LenProperties
  <2> QED
    BY <1>5, <2>1, <2>2, <2>4, <2>5 DEF N, fu
<1> QED
  BY <1>4, <1>5

\* How many packets come before the slices, and the size of the n-th of these.
SetPackets(p) == Len(SetsPayload(p))
SliceCount(p) == Len(Pictures[p]) - SetCount(p)
Slice(p, n) == Nal(p, SetCount(p) + n)
SliceSize(p, n) == Len(Slice(p, n).parts)

LEMMA SliceIs ==
    ASSUME NEW p \in DOMAIN Pictures, NEW n \in 1 .. SliceCount(p)
    PROVE  /\ SetCount(p) + n \in 1 .. Len(Pictures[p])
           /\ Slice(p, n) \in NalUnits /\ SliceSize(p, n) \in Nat \ {0}
           /\ Nals(p)[SetCount(p) + n] = Slice(p, n)
<1>1. SetCount(p) + n \in 1 .. Len(Pictures[p])
  <2> DEFINE a == SetCount(p)
             b == Len(Pictures[p])
  <2>1. b \in Nat /\ a \in 0 .. b /\ n \in 1 .. (b - a)
    BY PictureIs DEF SliceCount
  <2> HIDE DEF a, b
  <2>2. a + n \in 1 .. b
    BY <2>1
  <2> QED
    BY <2>2 DEF a, b
<1> QED
  BY <1>1, NalIs, NalsAre DEF Slice, SliceSize

LEMMA SlicesAre ==
    ASSUME NEW p \in DOMAIN Pictures
    PROVE  /\ Slices(p) \in Seq(Seq(Payloads)) /\ Len(Slices(p)) = SliceCount(p)
           /\ SliceCount(p) \in Nat
           /\ \A n \in 1 .. SliceCount(p) : /\ Slices(p)[n] = PayloadsOf(Slice(p, n))
                                            /\ Len(Slices(p)[n]) = SliceSize(p, n)
<1> DEFINE R == SliceCount(p)
           S == Seq(Payloads)
<1>1. R \in Nat /\ Slices(p) = [n \in 1 .. R |-> PayloadsOf(Slice(p, n))]
  BY PictureIs DEF SliceCount, Slices, Slice
<1>2. \A n \in 1 .. R : PayloadsOf(Slice(p, n)) \in S /\ Len(PayloadsOf(Slice(p, n))) = SliceSize(p, n)
  BY SliceIs, PayloadsAre DEF SliceSize
<1> HIDE DEF R, S
<1>3. Slices(p) \in [1 .. R -> S]
  BY <1>1, <1>2
<1>4. Slices(p) \in Seq(S) /\ DOMAIN Slices(p) = 1 .. R
  BY <1>1, <1>3
<1>5. Len(Slices(p)) = R
  BY <1>1, <1>4, LenProperties
<1> QED
  BY <1>1, <1>2, <1>4, <1>5 DEF R, S

\* The aggregate of the parameter sets, if there is one.
SetsPacket(p) == [form |-> "StapA", nals |-> SubSeq(Nals(p), 1, SetCount(p)), malformed |-> FALSE]

LEMMA SetsAre ==
    ASSUME NEW p \in DOMAIN Pictures
    PROVE  /\ SetsPayload(p) \in Seq(Payloads)
           /\ IF SetCount(p) = 0 THEN SetsPayload(p) = <<>> /\ SetPackets(p) = 0
              ELSE SetsPayload(p) = <<SetsPacket(p)>> /\ SetPackets(p) = 1
           /\ SubSeq(Nals(p), 1, SetCount(p)) \in Seq(NalUnits)
<1>1. SubSeq(Nals(p), 1, SetCount(p)) \in Seq(NalUnits)
  <2>1. 1 \in 1 .. Len(Nals(p)) + 1 /\ SetCount(p) \in 1 - 1 .. Len(Nals(p))
    BY PictureIs, NalsAre
  <2> QED
    BY <2>1, NalsAre, SubSeqProperties
<1>2. SetsPacket(p) \in Payloads
  BY <1>1 DEF SetsPacket, Payloads
<1>3. SetsPayload(p) = IF SetCount(p) = 0 THEN <<>> ELSE <<SetsPacket(p)>>
  BY DEF SetsPayload, SetsPacket
<1> QED
  BY <1>1, <1>2, <1>3 DEF SetPackets

\* Where each packet of a picture stands among them.
Place(p, n, i) == SetPackets(p) + Before(Slices(p), n) + i

LEMMA PicturePayloadsAre ==
    ASSUME NEW p \in DOMAIN Pictures
    PROVE  /\ PicturePayloads(p) \in Seq(Payloads)
           /\ Len(PicturePayloads(p)) = Place(p, SliceCount(p), 0)
           /\ Len(PicturePayloads(p)) \in Nat \ {0}
           /\ SetCount(p) # 0 => PicturePayloads(p)[1] = SetsPacket(p)
           /\ \A n \in 0 .. SliceCount(p) : Place(p, n, 0) \in Nat
           /\ \A n \in 1 .. SliceCount(p) :
                /\ Place(p, n, 0) = Place(p, n - 1, 0) + SliceSize(p, n)
                /\ Place(p, n, 0) <= Len(PicturePayloads(p))
                /\ \A i \in 1 .. SliceSize(p, n) :
                     PicturePayloads(p)[Place(p, n - 1, i)] = PayloadsOf(Slice(p, n))[i]
<1> DEFINE f == FlattenSeq(Slices(p))
           R == SliceCount(p)
           a == SetPackets(p)
           s == SetsPayload(p)
<1>1. LaidOut(Payloads, Slices(p)) /\ R \in Nat /\ Len(Slices(p)) = R
      /\ (\A n \in 1 .. R : Slices(p)[n] = PayloadsOf(Slice(p, n)) /\ Len(Slices(p)[n]) = SliceSize(p, n))
  BY SlicesAre, Flattened
<1>2. /\ f \in Seq(Payloads) /\ Len(f) = Before(Slices(p), R)
      /\ Before(Slices(p), 0) = 0
      /\ (\A n \in 0 .. R : Before(Slices(p), n) \in Nat)
      /\ (\A n \in 1 .. R : /\ Before(Slices(p), n) = Before(Slices(p), n - 1) + SliceSize(p, n)
                            /\ Before(Slices(p), n) <= Before(Slices(p), R))
      /\ (\A n \in 1 .. R : \A i \in 1 .. SliceSize(p, n) :
            f[Before(Slices(p), n - 1) + i] = PayloadsOf(Slice(p, n))[i])
  <2>1. /\ \A n \in 1 .. R : n \in 0 .. R /\ R \in n .. R
        /\ R \in 0 .. R
    BY <1>1
  <2> HIDE DEF R
  <2>2. f \in Seq(Payloads) /\ Len(f) = Before(Slices(p), R)
    BY <1>1 DEF LaidOut
  <2>3. Before(Slices(p), 0) = 0 /\ \A n \in 0 .. R : Before(Slices(p), n) \in Nat
    BY <1>1 DEF LaidOut
  <2>4. \A n \in 1 .. R : Before(Slices(p), n) = Before(Slices(p), n - 1) + SliceSize(p, n)
    BY <1>1 DEF LaidOut
  <2>5. \A n \in 1 .. R : Before(Slices(p), n) <= Before(Slices(p), R)
    BY <1>1, <2>1 DEF LaidOut
  <2>6. ASSUME NEW n \in 1 .. R, NEW i \in 1 .. SliceSize(p, n)
        PROVE  f[Before(Slices(p), n - 1) + i] = PayloadsOf(Slice(p, n))[i]
    <3>1. n \in 1 .. Len(Slices(p)) /\ i \in 1 .. Len(Slices(p)[n])
          /\ Slices(p)[n] = PayloadsOf(Slice(p, n))
      BY <1>1
    <3>2. FlattenSeq(Slices(p))[Before(Slices(p), n - 1) + i] = Slices(p)[n][i]
      BY <1>1, <3>1 DEF LaidOut
    <3> QED
      BY <3>1, <3>2
  <2> QED
    BY <2>2, <2>3, <2>4, <2>5, <2>6
<1>3. s \in Seq(Payloads) /\ Len(s) = a /\ a \in Nat /\ (a = 0 <=> SetCount(p) = 0)
      /\ (SetCount(p) # 0 => s = <<SetsPacket(p)>> /\ a = 1)
  <2>1. SetsPayload(p) \in Seq(Payloads)
    BY SetsAre
  <2>2. Len(s) = a
    BY DEF SetPackets
  <2>3. IF SetCount(p) = 0 THEN a = 0 ELSE s = <<SetsPacket(p)>> /\ a = 1
    BY SetsAre
  <2> HIDE DEF s, a
  <2>4. a \in Nat /\ (a = 0 <=> SetCount(p) = 0)
    BY <2>3
  <2> QED
    BY <2>1, <2>2, <2>3, <2>4 DEF s
<1>4. PicturePayloads(p) = s \o f
  BY DEF PicturePayloads
<1>5. Joins(Payloads, s, f, s \o f)
  BY <1>2, <1>3, Concatenated
<1>6. R = 0 => SetCount(p) # 0
  BY PictureIs DEF SliceCount
<1>7. R # 0 => 1 \in 1 .. R /\ Before(Slices(p), 1) = SliceSize(p, 1) /\ SliceSize(p, 1) \in Nat \ {0}
  <2>1. R # 0 => 1 \in 1 .. R /\ 1 - 1 = 0
    BY <1>1
  <2> QED
    BY <1>2, <2>1, SliceIs
<1> HIDE DEF f, R, a, s
<1>8. PicturePayloads(p) \in Seq(Payloads) /\ Len(PicturePayloads(p)) = a + Before(Slices(p), R)
  BY <1>2, <1>3, <1>4, <1>5 DEF Joins
<1>9. R \in 0 .. R /\ Before(Slices(p), R) \in Nat /\ (R # 0 => Before(Slices(p), R) # 0)
  BY <1>1, <1>2, <1>7
<1>10. a + Before(Slices(p), R) \in Nat \ {0}
  BY <1>3, <1>6, <1>9
<1>11. SetCount(p) # 0 => PicturePayloads(p)[1] = SetsPacket(p)
  <2> SUFFICES ASSUME SetCount(p) # 0 PROVE PicturePayloads(p)[1] = SetsPacket(p)
    OBVIOUS
  <2>1. 1 \in 1 .. Len(s) /\ s[1] = SetsPacket(p)
    BY <1>3
  <2> QED
    BY <1>4, <1>5, <2>1 DEF Joins
<1>12. ASSUME NEW n \in 1 .. R, NEW i \in 1 .. SliceSize(p, n)
       PROVE  PicturePayloads(p)[Place(p, n - 1, i)] = PayloadsOf(Slice(p, n))[i]
  <2> DEFINE b == Before(Slices(p), n - 1)
             c == SliceSize(p, n)
             x == b + i
  <2>1. n \in 0 .. R /\ n - 1 \in 0 .. R
    BY <1>1
  <2>2. b \in Nat /\ c \in Nat /\ b + c <= Len(f) /\ Len(f) \in Nat
    BY <1>2, <1>9, <2>1, SliceIs DEF R
  <2>3. f[x] = PayloadsOf(Slice(p, n))[i]
    BY <1>2
  <2> HIDE DEF b, c
  <2>4. x \in 1 .. Len(f) /\ a + x = a + b + i
    <3>1. i \in 1 .. c
      BY DEF c
    <3> QED
      BY <1>3, <2>2, <3>1
  <2> HIDE DEF x
  <2>5. (s \o f)[a + x] = f[x]
    BY <1>3, <1>5, <2>4 DEF Joins
  <2> QED
    BY <1>4, <2>3, <2>4, <2>5 DEF Place, a, b
<1>13. ASSUME NEW n \in 0 .. R PROVE Place(p, n, 0) = a + Before(Slices(p), n) /\ Place(p, n, 0) \in Nat
  <2>1. Before(Slices(p), n) \in Nat
    BY <1>2
  <2> QED
    BY <1>3, <2>1 DEF Place, a
<1>14. ASSUME NEW n \in 1 .. R
       PROVE  /\ Place(p, n, 0) = Place(p, n - 1, 0) + SliceSize(p, n)
              /\ Place(p, n, 0) <= Len(PicturePayloads(p))
  <2> DEFINE b == Before(Slices(p), n - 1)
             c == SliceSize(p, n)
             e == Before(Slices(p), n)
             g == Before(Slices(p), R)
  <2>1. n \in 0 .. R /\ n - 1 \in 0 .. R
    BY <1>1
  <2>2. Place(p, n, 0) = a + e /\ Place(p, n - 1, 0) = a + b /\ Len(PicturePayloads(p)) = a + g
    BY <1>8, <1>13, <2>1
  <2>3. b \in Nat /\ c \in Nat /\ e = b + c /\ e <= g /\ g \in Nat
    BY <1>2, <1>9, <2>1, SliceIs DEF R
  <2> HIDE DEF b, c, e, g
  <2>4. a + e = (a + b) + c /\ a + e <= a + g
    BY <1>3, <2>3
  <2> QED
    BY <2>2, <2>4 DEF c
<1> QED
  BY <1>8, <1>9, <1>10, <1>11, <1>12, <1>13, <1>14 DEF R

-----------------------------------------------------------------------------
(* A picture on its way into the depacketizer.                             *)

\* One element more of a sequence.
LEMMA OneMore ==
    ASSUME NEW S, NEW s \in Seq(S), NEW k \in 0 .. Len(s) - 1
    PROVE  /\ SubSeq(s, 1, k) \in Seq(S)
           /\ SubSeq(s, 1, k + 1) = Append(SubSeq(s, 1, k), s[k + 1])
           /\ SubSeq(s, 1, k + 1) = SubSeq(s, 1, k) \o <<s[k + 1]>>
<1>1. /\ Len(s) \in Nat /\ k \in Nat /\ k + 1 \in 1 .. Len(s) /\ s[k + 1] \in S
      /\ 1 \in 1 .. Len(s) + 1 /\ k \in 0 .. Len(s) /\ k + 1 \in 0 .. Len(s)
  BY ElementOfSeq
<1> DEFINE a == SubSeq(s, 1, k)
           b == SubSeq(s, 1, k + 1)
<1>2. a \in Seq(S) /\ Len(a) = k /\ \A i \in 1 .. k : a[i] = s[i]
  <2>1. /\ a \in Seq(S) /\ Len(a) = IF 1 <= k THEN k - 1 + 1 ELSE 0
        /\ \A i \in 1 .. k - 1 + 1 : a[i] = s[1 + i - 1]
    BY <1>1, SubSeqProperties
  <2> HIDE DEF a
  <2>2. k - 1 + 1 = k /\ \A i \in 1 .. k : 1 + i - 1 = i
    BY <1>1
  <2> QED
    BY <1>1, <2>1, <2>2
<1>3. b \in Seq(S) /\ Len(b) = k + 1 /\ \A i \in 1 .. k + 1 : b[i] = s[i]
  <2>1. /\ b \in Seq(S) /\ Len(b) = IF 1 <= k + 1 THEN k + 1 - 1 + 1 ELSE 0
        /\ \A i \in 1 .. k + 1 - 1 + 1 : b[i] = s[1 + i - 1]
    BY <1>1, SubSeqProperties
  <2> HIDE DEF b
  <2>2. k + 1 - 1 + 1 = k + 1 /\ \A i \in 1 .. k + 1 : 1 + i - 1 = i
    BY <1>1
  <2> QED
    BY <1>1, <2>1, <2>2
<1> DEFINE c == Append(a, s[k + 1])
<1> HIDE DEF a, b
<1>4. c \in Seq(S) /\ Len(c) = k + 1 /\ (\A i \in 1 .. k : c[i] = a[i]) /\ c[k + 1] = s[k + 1]
  BY <1>1, <1>2, AppendProperties
<1> HIDE DEF c
<1>5. \A i \in 1 .. k + 1 : c[i] = b[i]
  <2>1. \A i \in 1 .. k + 1 : i \in 1 .. k \/ i = k + 1
    BY <1>1
  <2> QED
    BY <1>2, <1>3, <1>4, <2>1
<1>6. b = c
  BY <1>3, <1>4, <1>5, SeqEqual
<1>7. c = a \o <<s[k + 1]>>
  BY <1>1, <1>2, AppendIsConcat DEF c
<1> QED
  BY <1>2, <1>6, <1>7 DEF a, b, c

\* A NAL with other parts.
LEMMA PartsReplaced ==
    ASSUME NEW nal \in NalUnits, NEW parts
    PROVE  [nal EXCEPT !.parts = parts] = [kind |-> nal.kind, parts |-> parts]
BY DEF NalUnits

\* What is open of a NAL when i of its packets have come.
PartOf(nal, i) ==
    IF i = 0 THEN None ELSE [kind |-> nal.kind, parts |-> SubSeq(nal.parts, 1, i)]

\* The next packet of a NAL opens it, goes on with it or completes it.
LEMMA OneNal ==
    ASSUME NEW d, HasPartial(d), NEW nal \in NalUnits, NEW i \in 0 .. Len(nal.parts) - 1,
           d.fu = PartOf(nal, i)
    PROVE  LET e == Consume(d, PayloadsOf(nal)[i + 1])
           IN  IF i + 1 = Len(nal.parts) THEN e.nals = d.nals \o <<nal>> /\ e.fu = None
               ELSE e.nals = d.nals /\ e.fu = PartOf(nal, i + 1)
<1> DEFINE N == Len(nal.parts)
           payload == PayloadsOf(nal)[i + 1]
           e == Consume(d, payload)
<1>1. nal.kind \in STRING /\ nal.parts \in Seq(Seq(Nat)) /\ N \in Nat /\ DOMAIN nal = {"kind", "parts"}
      /\ nal = [kind |-> nal.kind, parts |-> nal.parts]
  BY DEF NalUnits
<1>2. N # 0 /\ i \in Nat /\ i + 1 \in 1 .. N
  BY <1>1
<1>3. {"nals", "fu"} \subseteq DOMAIN d /\ d.nals \in Seq(NalUnits)
  BY DEF HasPartial
<1>4. CASE N = 1
  <2>1. i = 0 /\ i + 1 = 1
    BY <1>2, <1>4
  <2>2. payload = [form |-> "Single", nals |-> <<nal>>]
    BY <1>2, <1>4, <2>1, PayloadsAre
  <2> HIDE DEF payload
  <2>3. e = PushNals(d, <<nal>>)
    BY <2>2 DEF Consume
  <2> HIDE DEF e
  <2>4. e.nals = d.nals \o <<nal>> /\ e.fu = d.fu
    BY <1>3, <2>3 DEF PushNals
  <2> QED
    BY <1>4, <2>1, <2>4 DEF PartOf, e, payload
<1>5. CASE N # 1
  <2> DEFINE start == i + 1 = 1
             end == i + 1 = N
             piece == nal.parts[i + 1]
             more == [kind |-> nal.kind, parts |-> SubSeq(nal.parts, 1, i + 1)]
  <2>1. payload = [form |-> "FuA", kind |-> nal.kind, piece |-> piece, start |-> start, end |-> end]
    BY <1>2, <1>5, PayloadsAre
  <2>2. SubSeq(nal.parts, 1, i) \in Seq(Seq(Nat))
        /\ SubSeq(nal.parts, 1, i + 1) = Append(SubSeq(nal.parts, 1, i), piece)
        /\ SubSeq(nal.parts, 1, i + 1) = SubSeq(nal.parts, 1, i) \o <<piece>>
    <3> DEFINE S == Seq(Nat)
    <3>1. nal.parts \in Seq(S) /\ i \in 0 .. Len(nal.parts) - 1
      BY <1>1
    <3> HIDE DEF S
    <3>2. /\ SubSeq(nal.parts, 1, i) \in Seq(S)
          /\ SubSeq(nal.parts, 1, i + 1) = Append(SubSeq(nal.parts, 1, i), nal.parts[i + 1])
          /\ SubSeq(nal.parts, 1, i + 1) = SubSeq(nal.parts, 1, i) \o <<nal.parts[i + 1]>>
      BY <3>1, OneMore
    <3> QED
      BY <3>2 DEF S
  <2>3. start \in BOOLEAN /\ end \in BOOLEAN /\ (start <=> i = 0) /\ (end <=> i + 1 = N)
    BY <1>2
  <2> DEFINE grown == IF start THEN StartFu(d, payload) ELSE ExtendFu(d, payload)
  <2> HIDE DEF start, end, piece, N
  <2>4. e = ConsumeFuA(d, payload) /\ payload.kind = nal.kind /\ payload.piece = piece
        /\ payload.start = start /\ payload.end = end
    BY <2>1 DEF Consume
  <2> HIDE DEF payload, e
  <2>5. more \in NalUnits /\ more # None
    <3>1. SubSeq(nal.parts, 1, i + 1) \in Seq(Seq(Nat))
      <4> DEFINE S == Seq(Nat)
      <4>1. nal.parts \in Seq(S) /\ i + 1 \in 0 .. Len(nal.parts) /\ 1 \in 1 .. Len(nal.parts) + 1
        BY <1>1, <1>2 DEF N
      <4>2. \A x \in 1 .. i + 1 : nal.parts[x] \in S
        <5>1. \A x \in 1 .. i + 1 : x \in 1 .. Len(nal.parts)
          BY <1>2 DEF N
        <5> HIDE DEF S
        <5> QED
          BY <4>1, <5>1, ElementOfSeq
      <4>3. 1 \in Int /\ i + 1 \in Int
        BY <1>2
      <4> HIDE DEF S
      <4>4. SubSeq(nal.parts, 1, i + 1) \in Seq(S)
        BY <4>2, <4>3, SubSeqProperties
      <4> QED
        BY <4>4 DEF S
    <3>2. more \in NalUnits
      BY <1>1, <3>1 DEF NalUnits
    <3> HIDE DEF more
    <3> QED
      BY <3>2, PacketsAssumption
  <2>6. grown = [d EXCEPT !.fu = more]
    <3>1. CASE start
      <4>1. i = 0 /\ d.fu = None /\ DropFu(d) = d
        BY <2>3, <3>1 DEF PartOf, DropFu
      <4>2. SubSeq(nal.parts, 1, i) = <<>>
        BY <4>1, SubSeqEmpty
      <4>3. SubSeq(nal.parts, 1, i + 1) = <<piece>>
        <5>1. <<>> \o <<piece>> = <<piece>>
          OBVIOUS
        <5> QED
          BY <2>2, <4>2, <5>1
      <4>4. StartFu(d, payload) = [d EXCEPT !.fu = [kind |-> nal.kind, parts |-> <<piece>>]]
        BY <2>4, <4>1 DEF StartFu
      <4> QED
        BY <3>1, <4>3, <4>4
    <3>2. CASE ~ start
      <4> DEFINE fu == [kind |-> nal.kind, parts |-> SubSeq(nal.parts, 1, i)]
      <4>1. i # 0 /\ d.fu = fu /\ d.fu # None /\ d.fu \in NalUnits
        <5>1. d.fu = fu /\ i # 0
          BY <2>3, <3>2 DEF PartOf
        <5>2. fu \in NalUnits
          BY <1>1, <2>2 DEF NalUnits
        <5> QED
          BY <5>1, <5>2, PacketsAssumption
      <4>2. ExtendFu(d, payload) = [d EXCEPT !.fu.parts = Append(@, piece)]
        BY <2>4, <4>1 DEF ExtendFu
      <4>3. [d EXCEPT !.fu.parts = Append(@, piece)] = [d EXCEPT !.fu = [d.fu EXCEPT !.parts = Append(@, piece)]]
        BY <1>3
      <4>4. [d.fu EXCEPT !.parts = Append(@, piece)] = more
        <5> DEFINE before == SubSeq(nal.parts, 1, i)
        <5>1. d.fu = [kind |-> nal.kind, parts |-> before]
          BY <4>1
        <5>2. SubSeq(nal.parts, 1, i + 1) = Append(before, piece)
          BY <2>2
        <5> HIDE DEF before
        <5>3. d.fu \in NalUnits /\ d.fu.kind = nal.kind /\ d.fu.parts = before
          BY <4>1, <5>1 DEF before
        <5>4. [d.fu EXCEPT !.parts = Append(before, piece)] = [kind |-> d.fu.kind, parts |-> Append(before, piece)]
          BY <5>3, PartsReplaced
        <5> QED
          BY <5>2, <5>3, <5>4
      <4> HIDE DEF more, fu
      <4> QED
        BY <3>2, <4>2, <4>3, <4>4
    <3> QED
      BY <3>1, <3>2
  <2> HIDE DEF more, grown
  <2>7. grown.fu = more /\ grown.nals = d.nals /\ DOMAIN grown = DOMAIN d
    BY <1>3, <2>6
  <2>8. CASE end
    <3>1. more = nal
      <4>1. SubSeq(nal.parts, 1, Len(nal.parts)) = nal.parts
        <5> DEFINE S == Seq(Nat)
        <5>1. nal.parts \in Seq(S)
          BY <1>1
        <5> HIDE DEF S
        <5> QED
          BY <5>1, SubSeqFull
      <4> QED
        BY <1>1, <2>3, <2>8, <4>1 DEF more, N
    <3>2. e = PushNals([grown EXCEPT !.fu = None], <<grown.fu>>)
      BY <2>4, <2>5, <2>7, <2>8 DEF ConsumeFuA, grown
    <3>3. e.nals = grown.nals \o <<grown.fu>> /\ e.fu = None
      <4> DEFINE g == [grown EXCEPT !.fu = None]
      <4>1. g.nals = grown.nals /\ g.fu = None /\ {"nals", "fu"} \subseteq DOMAIN g
        BY <1>3, <2>7
      <4> HIDE DEF g
      <4> QED
        BY <3>2, <4>1 DEF PushNals, g
    <3> QED
      BY <2>3, <2>7, <2>8, <3>1, <3>3 DEF N, e, payload
  <2>9. CASE ~ end
    <3>1. e = grown
      BY <2>4, <2>9 DEF ConsumeFuA, grown
    <3>2. PartOf(nal, i + 1) = more
      BY <1>2 DEF PartOf, more
    <3> QED
      BY <2>3, <2>7, <2>9, <3>1, <3>2 DEF N, e, payload
  <2> QED
    BY <2>8, <2>9
<1> QED
  BY <1>4, <1>5

\* The depacketizer holds n slices of p, what comes before them, and i packets of the next.
Holds(d, p, n, i) ==
    /\ d.nals = SubSeq(Nals(p), 1, SetCount(p) + n)
    /\ IF i = 0 THEN d.fu = None
       ELSE n < SliceCount(p) /\ i < SliceSize(p, n + 1) /\ d.fu = PartOf(Slice(p, n + 1), i)

\* It holds the first k packets of p.
Gathered(d, p, k) ==
    \/ k = 0 /\ d.nals = <<>> /\ d.fu = None
    \/ \E n \in 0 .. SliceCount(p), i \in Nat : k = Place(p, n, i) /\ Holds(d, p, n, i)

\* The parameter sets, and after them one slice more.
LEMMA SetsGather ==
    ASSUME NEW p \in DOMAIN Pictures, NEW d, HasPartial(d), d.nals = <<>>, d.fu = None,
           SetCount(p) # 0
    PROVE  /\ Place(p, 0, 0) = 1
           /\ Holds(Consume(d, PicturePayloads(p)[1]), p, 0, 0)
<1> DEFINE nals == SubSeq(Nals(p), 1, SetCount(p))
           payload == PicturePayloads(p)[1]
           e == Consume(d, payload)
<1>1. payload = [form |-> "StapA", nals |-> nals, malformed |-> FALSE]
  BY PicturePayloadsAre DEF SetsPacket
<1>2. nals \in Seq(NalUnits)
  BY SetsAre
<1>3. {"nals", "fu"} \subseteq DOMAIN d
  BY DEF HasPartial
<1> HIDE DEF nals, payload
<1>4. e = PushNals(d, nals)
  BY <1>1 DEF Consume, ConsumeStapA
<1> HIDE DEF e
<1>5. e.nals = d.nals \o nals /\ e.fu = d.fu
  BY <1>3, <1>4 DEF PushNals
<1>6. <<>> \o nals = nals
  BY <1>2, ConcatEmptySeq
<1>7. SetCount(p) + 0 = SetCount(p)
  BY PictureIs
<1>8. Place(p, 0, 0) = 1
  <2>1. SetPackets(p) = 1 /\ Before(Slices(p), 0) = 0
    BY SetsAre, SlicesAre, Flattened DEF LaidOut
  <2> QED
    BY <2>1 DEF Place
<1> QED
  BY <1>5, <1>6, <1>7, <1>8 DEF Holds, nals, e, payload

LEMMA SlicesGather ==
    ASSUME NEW p \in DOMAIN Pictures, NEW d, HasPartial(d),
           NEW n \in 0 .. SliceCount(p), NEW i \in Nat, Holds(d, p, n, i),
           Place(p, n, i) < Len(PicturePayloads(p))
    PROVE  Gathered(Consume(d, PicturePayloads(p)[Place(p, n, i) + 1]), p, Place(p, n, i) + 1)
<1> DEFINE R == SliceCount(p)
           m == n + 1
           size == SliceSize(p, m)
           k == Place(p, n, i)
           e == Consume(d, PicturePayloads(p)[k + 1])
           a == SetPackets(p)
           b == Before(Slices(p), n)
           c == Before(Slices(p), m)
           N == Len(PicturePayloads(p))
<1>1. R \in Nat /\ N = Place(p, R, 0) /\ N \in Nat
  BY PicturePayloadsAre, SlicesAre
<1>2. n # R
  <2> SUFFICES ASSUME n = R PROVE FALSE
    OBVIOUS
  <2>1. i = 0
    BY <1>1 DEF Holds
  <2> QED
    BY <1>1, <2>1
<1>3. m \in 1 .. R /\ m \in 0 .. R /\ m - 1 = n
  BY <1>1, <1>2
<1>4. /\ Slice(p, m) \in NalUnits /\ size \in Nat \ {0} /\ Nals(p)[SetCount(p) + m] = Slice(p, m)
      /\ SetCount(p) + m \in 1 .. Len(Pictures[p])
  BY <1>3, SliceIs
<1>5. i \in 0 .. size - 1 /\ i + 1 \in 1 .. size /\ d.fu = PartOf(Slice(p, m), i)
  <2>1. IF i = 0 THEN d.fu = None ELSE i < size /\ d.fu = PartOf(Slice(p, m), i)
    BY DEF Holds
  <2>2. d.fu = PartOf(Slice(p, m), i)
    BY <2>1 DEF PartOf
  <2> HIDE DEF size, m
  <2>3. i < size
    BY <1>4, <2>1
  <2> QED
    BY <1>4, <2>2, <2>3
<1>6. a \in Nat /\ b \in Nat /\ c = b + size
  <2>1. LaidOut(Payloads, Slices(p)) /\ Len(Slices(p)) = R /\ Len(Slices(p)[m]) = size
    BY <1>3, SlicesAre, Flattened
  <2>2. b \in Nat
    BY <2>1 DEF LaidOut
  <2>3. c = Before(Slices(p), m - 1) + Len(Slices(p)[m])
    BY <1>3, <2>1 DEF LaidOut
  <2>4. a \in Nat
    BY SetsAre
  <2> QED
    BY <1>3, <2>1, <2>2, <2>3, <2>4
<1>7. k + 1 = Place(p, n, i + 1) /\ (i + 1 = size => k + 1 = Place(p, m, 0))
  <2>1. k = a + b + i /\ Place(p, n, i + 1) = a + b + (i + 1) /\ Place(p, m, 0) = a + c + 0
    BY DEF Place
  <2> HIDE DEF k, a, b, c, size, m
  <2> QED
    BY <1>4, <1>6, <2>1
<1>8. PicturePayloads(p)[k + 1] = PayloadsOf(Slice(p, m))[i + 1]
  <2>1. PicturePayloads(p)[Place(p, m - 1, i + 1)] = PayloadsOf(Slice(p, m))[i + 1]
    BY <1>3, <1>5, PicturePayloadsAre
  <2> QED
    BY <1>3, <1>7, <2>1
<1>9. size = Len(Slice(p, m).parts)
  BY DEF SliceSize
<1> HIDE DEF k, a, b, c, size, m, R, N
<1>10. IF i + 1 = size THEN e.nals = d.nals \o <<Slice(p, m)>> /\ e.fu = None
       ELSE e.nals = d.nals /\ e.fu = PartOf(Slice(p, m), i + 1)
  <2> DEFINE nal == Slice(p, m)
             payload == PicturePayloads(p)[k + 1]
  <2>1. /\ nal \in NalUnits /\ i \in 0 .. Len(nal.parts) - 1 /\ d.fu = PartOf(nal, i)
        /\ payload = PayloadsOf(nal)[i + 1] /\ size = Len(nal.parts)
    BY <1>4, <1>5, <1>8, <1>9
  <2> HIDE DEF nal, payload
  <2>2. IF i + 1 = Len(nal.parts)
        THEN /\ Consume(d, PayloadsOf(nal)[i + 1]).nals = d.nals \o <<nal>>
             /\ Consume(d, PayloadsOf(nal)[i + 1]).fu = None
        ELSE /\ Consume(d, PayloadsOf(nal)[i + 1]).nals = d.nals
             /\ Consume(d, PayloadsOf(nal)[i + 1]).fu = PartOf(nal, i + 1)
    BY <2>1, OneNal
  <2> QED
    BY <2>1, <2>2 DEF nal, payload
<1> HIDE DEF e
<1>11. CASE i + 1 = size
  <2>1. SubSeq(Nals(p), 1, SetCount(p) + m) = SubSeq(Nals(p), 1, SetCount(p) + n) \o <<Slice(p, m)>>
    <3> DEFINE x == SetCount(p) + n
    <3>1. x + 1 = SetCount(p) + m /\ x \in 0 .. Len(Nals(p)) - 1
      <4>1. SetCount(p) \in Nat /\ Len(Nals(p)) = Len(Pictures[p]) /\ Len(Pictures[p]) \in Nat
        BY PictureIs, NalsAre
      <4>2. SetCount(p) + m \in 1 .. Len(Nals(p)) /\ m = n + 1 /\ n \in Nat
        BY <1>4, <4>1 DEF m
      <4> QED
        BY <4>1, <4>2
    <3> HIDE DEF x
    <3>2. SubSeq(Nals(p), 1, x + 1) = SubSeq(Nals(p), 1, x) \o <<Nals(p)[x + 1]>>
      BY <3>1, NalsAre, OneMore
    <3> QED
      BY <1>4, <3>1, <3>2 DEF x
  <2>2. Holds(e, p, m, 0)
    BY <1>10, <1>11, <2>1 DEF Holds
  <2> QED
    BY <1>3, <1>7, <1>11, <2>2 DEF Gathered, R, e, k
<1>12. CASE i + 1 # size
  <2>1. i + 1 # 0 /\ i + 1 < size /\ n < R /\ i + 1 \in Nat
    BY <1>1, <1>2, <1>4, <1>5, <1>12 DEF R
  <2>2. Holds(e, p, n, i + 1)
    BY <1>10, <1>12, <2>1 DEF Holds, R, m, size
  <2> QED
    BY <1>7, <2>1, <2>2 DEF Gathered, R, e, k
<1> QED
  BY <1>11, <1>12

\* One packet of p more.
LEMMA GatherMore ==
    ASSUME NEW p \in DOMAIN Pictures, NEW d, HasPartial(d),
           NEW k \in 0 .. Len(PicturePayloads(p)) - 1, Gathered(d, p, k)
    PROVE  Gathered(Consume(d, PicturePayloads(p)[k + 1]), p, k + 1)
<1>1. Len(PicturePayloads(p)) \in Nat /\ k < Len(PicturePayloads(p)) /\ SliceCount(p) \in Nat
  BY PicturePayloadsAre, SlicesAre
<1>2. CASE \E n \in 0 .. SliceCount(p), i \in Nat : k = Place(p, n, i) /\ Holds(d, p, n, i)
  BY <1>1, <1>2, SlicesGather
<1>3. CASE k = 0 /\ d.nals = <<>> /\ d.fu = None /\ SetCount(p) # 0
  <2>1. 0 \in 0 .. SliceCount(p) /\ 0 \in Nat /\ k + 1 = 1
    BY <1>1, <1>3
  <2> QED
    BY <1>3, <2>1, SetsGather DEF Gathered
<1>4. CASE k = 0 /\ d.nals = <<>> /\ d.fu = None /\ SetCount(p) = 0
  <2>1. SetPackets(p) = 0 /\ Before(Slices(p), 0) = 0
    BY <1>4, SetsAre, SlicesAre, Flattened DEF LaidOut
  <2>2. Place(p, 0, 0) = 0 /\ SetCount(p) + 0 = 0
    BY <1>4, <2>1 DEF Place
  <2>3. SubSeq(Nals(p), 1, 0) = <<>>
    BY SubSeqEmpty
  <2>4. Holds(d, p, 0, 0)
    BY <1>4, <2>2, <2>3 DEF Holds
  <2>5. 0 \in 0 .. SliceCount(p)
    BY <1>1
  <2> QED
    BY <1>1, <1>4, <2>2, <2>4, <2>5, SlicesGather
<1> QED
  BY <1>2, <1>3, <1>4 DEF Gathered

\* All of them: the picture, and nothing open.
LEMMA GatherAll ==
    ASSUME NEW p \in DOMAIN Pictures, NEW d, Gathered(d, p, Len(PicturePayloads(p)))
    PROVE  d.nals = Nals(p) /\ d.fu = None /\ d.nals # <<>>
<1> DEFINE R == SliceCount(p)
           N == Len(PicturePayloads(p))
           a == SetPackets(p)
<1>1. N \in Nat \ {0} /\ N = Place(p, R, 0) /\ R \in Nat
  BY PicturePayloadsAre, SlicesAre
<1>2. PICK n \in 0 .. R, i \in Nat : N = Place(p, n, i) /\ Holds(d, p, n, i)
  BY <1>1 DEF Gathered
<1>3. n = R /\ i = 0
  <2> SUFFICES ASSUME ~ (n = R) PROVE FALSE
    <3>1. n = R => i = 0
      BY <1>1, <1>2 DEF Holds
    <3> QED
      BY <3>1
  <2> DEFINE m == n + 1
             b == Before(Slices(p), n)
             size == SliceSize(p, m)
  <2>1. m \in 1 .. R /\ m - 1 = n
    BY <1>1
  <2>2. Place(p, m, 0) = Place(p, n, 0) + size /\ Place(p, m, 0) <= N /\ Place(p, n, 0) \in Nat
    BY <2>1, PicturePayloadsAre
  <2>3. size \in Nat \ {0} /\ i < size
    <3>1. size \in Nat \ {0}
      BY <2>1, SliceIs
    <3>2. i # 0 => i < size
      BY <1>2 DEF Holds
    <3> HIDE DEF size
    <3> QED
      BY <3>1, <3>2
  <2>4. N = a + b + i /\ Place(p, n, 0) = a + b + 0
    BY <1>2 DEF Place
  <2>5. a \in Nat /\ b \in Nat
    <3>1. Len(Slices(p)) = R /\ LaidOut(Payloads, Slices(p))
      BY SlicesAre, Flattened
    <3> QED
      BY <3>1, SetsAre DEF LaidOut
  <2> HIDE DEF N, a, b, size, m, R
  <2> QED
    BY <1>1, <2>2, <2>3, <2>4, <2>5
<1>4. SetCount(p) + R = Len(Nals(p)) /\ Nals(p) \in Seq(NalUnits) /\ Len(Nals(p)) # 0
  <2> DEFINE x == SetCount(p)
             y == Len(Pictures[p])
  <2>1. x \in 0 .. y /\ y \in Nat \ {0} /\ R = y - x /\ Len(Nals(p)) = y /\ Nals(p) \in Seq(NalUnits)
    BY PictureIs, NalsAre DEF SliceCount
  <2> HIDE DEF x, y, R
  <2>2. x + R = y /\ y # 0
    BY <2>1
  <2> QED
    BY <2>1, <2>2 DEF x
<1>5. SubSeq(Nals(p), 1, Len(Nals(p))) = Nals(p)
  BY <1>4, SubSeqFull
<1>6. d.nals = Nals(p) /\ d.fu = None
  BY <1>2, <1>3, <1>4, <1>5 DEF Holds
<1> QED
  BY <1>4, <1>6

-----------------------------------------------------------------------------
(* Whose packet each one of the script is.                                 *)

Wire == [timestamp : Nat, marker : BOOLEAN, payload : Payloads]

LEMMA PacketsAre ==
    ASSUME NEW p \in DOMAIN Pictures
    PROVE  /\ PacketsOf(p) \in Seq(Wire) /\ Len(PacketsOf(p)) = Len(PicturePayloads(p))
           /\ \A i \in 1 .. Len(PicturePayloads(p)) :
                PacketsOf(p)[i] = [timestamp |-> p, marker |-> i = Len(PicturePayloads(p)),
                                   payload |-> PicturePayloads(p)[i]]
<1> DEFINE N == Len(PicturePayloads(p))
           packet(i) == [timestamp |-> p, marker |-> i = N, payload |-> PicturePayloads(p)[i]]
<1>1. PicturePayloads(p) \in Seq(Payloads) /\ N \in Nat /\ DOMAIN PicturePayloads(p) = 1 .. N /\ p \in Nat
  BY PicturePayloadsAre, PictureIs
<1>2. PacketsOf(p) = [i \in 1 .. N |-> packet(i)]
  BY <1>1 DEF PacketsOf
<1>3. ASSUME NEW i \in 1 .. N PROVE packet(i) \in Wire
  <2>1. PicturePayloads(p)[i] \in Payloads /\ (i = N) \in BOOLEAN
    BY <1>1, ElementOfSeq
  <2> HIDE DEF N
  <2> QED
    BY <1>1, <2>1 DEF Wire
<1> HIDE DEF packet, N
<1>4. PacketsOf(p) \in [1 .. N -> Wire]
  BY <1>2, <1>3
<1>5. PacketsOf(p) \in Seq(Wire) /\ DOMAIN PacketsOf(p) = 1 .. N
  BY <1>1, <1>4
<1>6. Len(PacketsOf(p)) = N
  BY <1>1, <1>5, LenProperties
<1>7. \A i \in 1 .. N : PacketsOf(p)[i] = packet(i)
  BY <1>2
<1> QED
  BY <1>5, <1>6, <1>7 DEF N, packet

LEMMA SendsAre ==
    /\ Sends \in Seq(Seq(Wire)) /\ Len(Sends) = Len(Pictures) /\ Len(Pictures) \in Nat
    /\ DOMAIN Pictures = 1 .. Len(Pictures) /\ DOMAIN Sends = 1 .. Len(Pictures)
    /\ \A p \in DOMAIN Pictures : Sends[p] = PacketsOf(p)
<1> DEFINE N == Len(Pictures)
           S == Seq(Wire)
<1>1. N \in Nat /\ DOMAIN Pictures = 1 .. N
  <2> DEFINE T == Seq([kind : STRING, size : Nat \ {0}]) \ {<<>>}
  <2>1. Pictures \in Seq(T)
    BY PicturesAssumption
  <2> HIDE DEF T
  <2> QED
    BY <2>1
<1>2. \A p \in 1 .. N : PacketsOf(p) \in S
  BY <1>1, PacketsAre
<1>3. Sends = [p \in 1 .. N |-> PacketsOf(p)]
  BY <1>1 DEF Sends
<1> HIDE DEF S, N
<1>4. Sends \in [1 .. N -> S]
  BY <1>2, <1>3
<1>5. Sends \in Seq(S) /\ DOMAIN Sends = 1 .. N
  BY <1>1, <1>4
<1>6. Len(Sends) = N
  BY <1>1, <1>5, LenProperties
<1> QED
  BY <1>1, <1>3, <1>5, <1>6 DEF S, N

\* The packets of a picture follow one another in the script, and the last has the marker.
LEMMA OwnAre ==
    ASSUME NEW p \in DOMAIN Pictures
    PROVE  /\ Len(Own(p)) = Len(PicturePayloads(p)) /\ DOMAIN Own(p) = 1 .. Len(Own(p))
           /\ Len(Own(p)) \in Nat \ {0} /\ p \in Nat \ {0}
           /\ Own(p) \in Seq(1 .. Len(Script))
           /\ \A i \in 1 .. Len(Own(p)) :
                /\ Own(p)[i] \in 1 .. Len(Script) /\ Own(p)[i] = Own(p)[1] + i - 1
                /\ Script[Own(p)[i]] = [timestamp |-> p, marker |-> i = Len(Own(p)),
                                        payload |-> PicturePayloads(p)[i]]
<1> DEFINE N == Len(PicturePayloads(p))
           b == Before(Sends, p - 1)
           L == Len(Script)
           T == 1 .. L
           packet(i) == [timestamp |-> p, marker |-> i = N, payload |-> PicturePayloads(p)[i]]
<1>1. /\ LaidOut(Wire, Sends) /\ p \in 1 .. Len(Sends) /\ Len(Sends) \in Nat
      /\ Sends[p] = PacketsOf(p) /\ p \in DOMAIN Sends
  BY SendsAre, Flattened
<1>2. N \in Nat \ {0} /\ Len(PacketsOf(p)) = N /\ \A i \in 1 .. N : PacketsOf(p)[i] = packet(i)
  BY PacketsAre, PicturePayloadsAre
<1>3. p \in 0 .. Len(Sends) /\ p - 1 \in 0 .. Len(Sends) /\ Len(Sends) \in p .. Len(Sends)
      /\ p \in Nat \ {0}
  BY <1>1
<1>4. Before(Sends, p) = b + N /\ b \in Nat /\ Before(Sends, p) <= L /\ L \in Nat
  <2>1. Before(Sends, p) = b + Len(Sends[p]) /\ b \in Nat
    BY <1>1, <1>3 DEF LaidOut
  <2>2. Before(Sends, p) <= Before(Sends, Len(Sends)) /\ Len(FlattenSeq(Sends)) = Before(Sends, Len(Sends))
    BY <1>1, <1>3 DEF LaidOut
  <2>3. L = Len(FlattenSeq(Sends))
    BY DEF Script
  <2>4. L \in Nat
    BY SpaceIs
  <2> QED
    BY <1>1, <1>2, <2>1, <2>2, <2>3, <2>4
<1>5. \A i \in 1 .. N : Script[b + i] = packet(i)
  <2>1. \A i \in 1 .. Len(Sends[p]) : FlattenSeq(Sends)[b + i] = Sends[p][i]
    BY <1>1 DEF LaidOut
  <2> HIDE DEF packet, b, N
  <2> QED
    BY <1>1, <1>2, <2>1 DEF Script
<1>6. Own(p) = [i \in 1 .. N |-> b + i]
  <2>1. Positions[p] = [i \in DOMAIN Sends[p] |-> b + i]
    BY <1>1 DEF Positions, Before
  <2>2. DOMAIN PacketsOf(p) = 1 .. N
    BY <1>2, PacketsAre
  <2> QED
    BY <1>1, <2>1, <2>2 DEF Own
<1> HIDE DEF b, N, L, packet
<1>7. \A i \in 1 .. N : b + i \in T /\ b + i = (b + 1) + i - 1
  BY <1>2, <1>4
<1>8. 1 \in 1 .. N /\ N \in Nat
  BY <1>2
<1>9. \A i \in 1 .. N : Own(p)[i] = b + i
  BY <1>6
<1>10. Own(p) \in Seq(T) /\ DOMAIN Own(p) = 1 .. N
  <2> HIDE DEF T
  <2>1. Own(p) \in [1 .. N -> T]
    BY <1>6, <1>7
  <2> QED
    BY <1>8, <2>1
<1>11. Len(Own(p)) = N
  BY <1>8, <1>10, LenProperties
<1> HIDE DEF T
<1>12. \A i \in 1 .. N : /\ Own(p)[i] \in T /\ Own(p)[i] = Own(p)[1] + i - 1
                         /\ Script[Own(p)[i]] = packet(i)
  BY <1>5, <1>7, <1>8, <1>9
<1> QED
  BY <1>2, <1>3, <1>10, <1>11, <1>12 DEF T, L, N, packet

\* and every packet of the script is that of one picture.
LEMMA OwnerIs ==
    ASSUME NEW k \in 1 .. Len(Script)
    PROVE  \E p \in DOMAIN Pictures : \E i \in 1 .. Len(Own(p)) : k = Own(p)[i]
<1>1. k \in 1 .. Len(FlattenSeq(Sends))
  BY DEF Script
<1>2. PICK p \in 1 .. Len(Sends) : \E i \in 1 .. Len(Sends[p]) : k = Before(Sends, p - 1) + i
  BY <1>1, SendsAre, Belongs
<1>3. PICK i \in 1 .. Len(Sends[p]) : k = Before(Sends, p - 1) + i
  BY <1>2
<1>4. p \in DOMAIN Pictures /\ p \in DOMAIN Sends
  BY <1>2, SendsAre
<1>5. Len(Sends[p]) = Len(Own(p)) /\ DOMAIN Sends[p] = 1 .. Len(Sends[p])
  BY <1>4, SendsAre, PacketsAre, OwnAre
<1>6. Own(p)[i] = Before(Sends, p - 1) + i
  BY <1>3, <1>4, <1>5 DEF Own, Positions, Before
<1> QED
  BY <1>3, <1>4, <1>5, <1>6

\* The timestamp tells whose.
LEMMA OwnedBy ==
    ASSUME NEW p \in DOMAIN Pictures, NEW k \in 1 .. Len(Script)
    PROVE  k \in ToSet(Own(p)) <=> Script[k].timestamp = p
<1>0. ASSUME NEW q \in DOMAIN Pictures, NEW i \in 1 .. Len(Own(q)), k = Own(q)[i]
      PROVE  Script[k].timestamp = q
  <2>1. Script[Own(q)[i]] = [timestamp |-> q, marker |-> i = Len(Own(q)),
                             payload |-> PicturePayloads(q)[i]]
    BY OwnAre
  <2>2. Script[Own(q)[i]].timestamp = q
    BY <2>1
  <2> QED
    BY <1>0, <2>2
<1>1. PICK q \in DOMAIN Pictures : \E i \in 1 .. Len(Own(q)) : k = Own(q)[i]
  BY OwnerIs
<1>2. PICK i \in 1 .. Len(Own(q)) : k = Own(q)[i]
  BY <1>1
<1>3. Script[k].timestamp = q
  BY <1>0, <1>2
<1>4. ASSUME k \in ToSet(Own(p)) PROVE Script[k].timestamp = p
  <2>1. PICK j \in 1 .. Len(Own(p)) : k = Own(p)[j]
    BY <1>4, OwnAre DEF ToSet
  <2> QED
    BY <1>0, <2>1
<1>5. k \in ToSet(Own(q))
  BY <1>2, OwnAre DEF ToSet
<1> QED
  BY <1>3, <1>4, <1>5

-----------------------------------------------------------------------------
(* A packet of a picture that is on its way.                               *)

\* The depacketizer has the first k packets of p, and nothing after them.
Ready(d, p, k) ==
    IF k = 0 THEN d.timestamp # p ELSE d.timestamp = p /\ Gathered(d, p, k)

LEMMA SameGathered ==
    ASSUME NEW d, NEW e, NEW p, NEW k, Gathered(d, p, k), d.nals = e.nals, d.fu = e.fu
    PROVE  Gathered(e, p, k)
BY DEF Gathered, Holds

\* What the backstop leaves open, and when it returns nothing.
LEMMA Opened ==
    ASSUME NEW d, Coherent(d), NEW t \in Nat
    PROVE  LET opened == ClosedByTimestamp(d, t)
           IN  /\ d.timestamp \in {None, t} => opened.units = <<>>
               /\ d.timestamp = t => opened.d.nals = d.nals /\ opened.d.fu = d.fu
               /\ d.timestamp # t => opened.d.nals = <<>> /\ opened.d.fu = None
<1> DEFINE opened == ClosedByTimestamp(d, t)
<1>1. CASE d.timestamp \in {None, t}
  <2> DEFINE e == [d EXCEPT !.timestamp = t]
  <2>1. opened = [d |-> e, units |-> <<>>]
    BY <1>1 DEF ClosedByTimestamp
  <2>2. e.nals = d.nals /\ e.fu = d.fu
    BY DEF Coherent, HasPartial
  <2> HIDE DEF e, opened
  <2>3. opened.d.nals = d.nals /\ opened.d.fu = d.fu /\ opened.units = <<>>
    BY <2>1, <2>2
  <2>4. d.timestamp # t => d.nals = <<>> /\ d.fu = None
    BY <1>1 DEF Coherent
  <2> QED
    BY <2>3, <2>4 DEF opened
<1>2. CASE d.timestamp \notin {None, t}
  <2> DEFINE f == DropFu(d)
             out == Unit(f, FALSE)
             e == [Emitted(f) EXCEPT !.timestamp = t, !.units_closed_without_marker = @ + Len(out)]
  <2>1. Coherent(f) /\ f.fu = None
    BY DropFuCoherent
  <2>2. Emitted(f).nals = <<>> /\ Emitted(f).fu = None /\ DOMAIN Emitted(f) = DOMAIN f
    BY <2>1, EmittedIsEmpty
  <2>3. opened = [d |-> e, units |-> out]
    BY <1>2 DEF ClosedByTimestamp
  <2> HIDE DEF f, out
  <2>4. e.nals = <<>> /\ e.fu = None
    BY <2>1, <2>2 DEF Coherent, HasPartial
  <2> HIDE DEF e, opened
  <2>5. opened.d.nals = <<>> /\ opened.d.fu = None
    BY <2>3, <2>4
  <2> QED
    BY <1>2, <2>5 DEF opened
<1> QED
  BY <1>1, <1>2

\* After a marker nothing is open, and after another packet its picture is.
LEMMA PushTime ==
    ASSUME DepackInvariant, NEW packet \in Packets, PushPayload(packet)
    PROVE  depack'.timestamp = IF packet.marker THEN None ELSE packet.timestamp
<1> DEFINE opened == ClosedByTimestamp(depack, packet.timestamp)
           consumed == Consume(opened.d, packet.payload)
           f == DropFu(consumed)
<1>1. Coherent(opened.d) /\ opened.d.timestamp = packet.timestamp
  BY BackstopCoherent, PacketsAssumption DEF DepackInvariant
<1>2. Coherent(consumed) /\ consumed.timestamp = packet.timestamp
  BY <1>1, ConsumeCoherent
<1>3. depack' = IF packet.marker THEN ClosedByMarker(consumed).d ELSE consumed
  BY DEF PushPayload
<1>4. ClosedByMarker(consumed).d.timestamp = None
  <2>1. ClosedByMarker(consumed).d = [Emitted(f) EXCEPT !.timestamp = None]
    BY DEF ClosedByMarker
  <2>2. "timestamp" \in DOMAIN Emitted(f)
    BY <1>2, DropFuCoherent, EmittedIsEmpty DEF Coherent, HasPartial
  <2> HIDE DEF f
  <2> QED
    BY <2>1, <2>2
<1> QED
  BY <1>2, <1>3, <1>4

\* When the backstop closes nothing, a packet returns nothing but its own picture, and
\* that with the marker.
LEMMA PushReturns ==
    ASSUME DepackInvariant, NEW packet \in Packets, PushPayload(packet),
           depack.timestamp \in {None, packet.timestamp}
    PROVE  /\ ~ packet.marker => units' = <<>>
           /\ \A x \in DOMAIN units' : units'[x].timestamp = packet.timestamp
<1> DEFINE opened == ClosedByTimestamp(depack, packet.timestamp)
           consumed == Consume(opened.d, packet.payload)
           f == DropFu(consumed)
<1>1. packet.timestamp \in Nat /\ Coherent(depack)
  BY PacketsAssumption DEF DepackInvariant
<1>2. opened.units = <<>> /\ Coherent(opened.d) /\ opened.d.timestamp = packet.timestamp
  BY <1>1, Opened, BackstopCoherent
<1>3. Coherent(consumed) /\ consumed.timestamp = packet.timestamp
  BY <1>2, ConsumeCoherent
<1>4. f.timestamp = packet.timestamp /\ Coherent(f)
  BY <1>3, DropFuCoherent
<1>5. units' = IF packet.marker THEN opened.units \o Unit(f, TRUE) ELSE opened.units
  BY DEF PushPayload, ClosedByMarker
<1> HIDE DEF f, opened
<1>6. Unit(f, TRUE) \in Seq(Units)
  BY <1>4, UnitIsOnePicture
<1>7. units' = IF packet.marker THEN Unit(f, TRUE) ELSE <<>>
  BY <1>2, <1>5, <1>6, ConcatEmptySeq
<1>8. \A x \in DOMAIN Unit(f, TRUE) : Unit(f, TRUE)[x].timestamp = packet.timestamp
  <2>1. CASE f.nals = <<>>
    BY <2>1 DEF Unit
  <2>2. CASE f.nals # <<>>
    <3> DEFINE u == [timestamp |-> f.timestamp, nals |-> f.nals, closed_by_marker |-> TRUE]
    <3>1. Unit(f, TRUE) = <<u>> /\ u.timestamp = packet.timestamp
      BY <1>4, <2>2 DEF Unit
    <3> HIDE DEF u
    <3>2. DOMAIN <<u>> = {1} /\ <<u>>[1] = u
      OBVIOUS
    <3> QED
      BY <3>1, <3>2
  <2> QED
    BY <2>1, <2>2
<1>9. ~ packet.marker => units' = <<>>
  BY <1>7
<1>10. \A x \in DOMAIN units' : units'[x].timestamp = packet.timestamp
  <2>1. DOMAIN <<>> = {}
    OBVIOUS
  <2> QED
    BY <1>7, <1>8, <2>1
<1> QED
  BY <1>9, <1>10

\* The next packet of p: one more of them, or the whole picture closed by its marker.
LEMMA PushOwn ==
    ASSUME DepackInvariant, NEW p \in DOMAIN Pictures, NEW i \in 1 .. Len(Own(p)),
           PushPayload(Script[Own(p)[i]]), Ready(depack, p, i - 1)
    PROVE  /\ i # Len(Own(p)) => Ready(depack', p, i)
           /\ i = Len(Own(p)) => \E out \in Seq(Units) :
                /\ units' = out \o <<Whole(p)>>
                /\ depack.timestamp \in {None, p} => out = <<>>
<1> DEFINE N == Len(Own(p))
           packet == Script[Own(p)[i]]
           payload == PicturePayloads(p)[i]
           opened == ClosedByTimestamp(depack, p)
           consumed == Consume(opened.d, payload)
<1>1. /\ packet \in Packets /\ packet.timestamp = p /\ packet.payload = payload
      /\ (packet.marker <=> i = N) /\ p \in Nat
  <2> DEFINE last == i = N
  <2>1. Own(p)[i] \in 1 .. Len(Script) /\ p \in Nat
        /\ packet = [timestamp |-> p, marker |-> last, payload |-> payload]
    BY OwnAre
  <2>2. packet \in Packets
    BY <2>1, ScriptAssumption, ElementOfSeq
  <2> HIDE DEF payload, packet, last
  <2>3. packet.timestamp = p /\ packet.payload = payload /\ packet.marker = last
    BY <2>1
  <2> QED
    BY <2>1, <2>2, <2>3 DEF last
<1>2. /\ i - 1 \in 0 .. Len(PicturePayloads(p)) - 1 /\ (i - 1) + 1 = i /\ N = Len(PicturePayloads(p))
      /\ N \in Nat
  BY OwnAre
<1>3. Coherent(depack) /\ depack.timestamp \in Nat \cup {None}
  BY DEF DepackInvariant, Coherent, HasPartial
<1>4. Coherent(opened.d) /\ opened.d.timestamp = p /\ opened.units \in Seq(Units)
  BY <1>1, <1>3, BackstopCoherent
<1>5. Gathered(opened.d, p, i - 1)
  <2>1. CASE i - 1 = 0
    <3>1. opened.d.nals = <<>> /\ opened.d.fu = None
      BY <1>1, <1>3, <2>1, Opened DEF Ready
    <3> QED
      BY <2>1, <3>1 DEF Gathered
  <2>2. CASE i - 1 # 0
    <3>1. depack.timestamp = p /\ Gathered(depack, p, i - 1)
      BY <2>2 DEF Ready
    <3>2. depack.nals = opened.d.nals /\ depack.fu = opened.d.fu
      BY <1>1, <1>3, <3>1, Opened
    <3> HIDE DEF opened
    <3> QED
      BY <3>1, <3>2, SameGathered
  <2> QED
    BY <2>1, <2>2
<1>6. HasPartial(opened.d)
  BY <1>4 DEF Coherent
<1>7. Gathered(consumed, p, i)
  <2>1. Gathered(Consume(opened.d, PicturePayloads(p)[(i - 1) + 1]), p, (i - 1) + 1)
    <3> HIDE DEF opened
    <3> QED
      BY <1>2, <1>5, <1>6, GatherMore
  <2> QED
    BY <1>2, <2>1
<1>8. Coherent(consumed) /\ consumed.timestamp = p
  <2>1. opened.d.timestamp = packet.timestamp
    BY <1>1, <1>4
  <2> HIDE DEF opened
  <2> QED
    BY <1>1, <1>4, <2>1, ConsumeCoherent
<1>9. /\ depack' = IF i = N THEN ClosedByMarker(consumed).d ELSE consumed
      /\ units' = IF i = N THEN opened.units \o ClosedByMarker(consumed).units ELSE opened.units
  <2>1. PushPayload(packet)
    OBVIOUS
  <2> HIDE DEF N
  <2> QED
    BY <1>1, <2>1 DEF PushPayload
<1>10. ASSUME i # N PROVE Ready(depack', p, i)
  BY <1>7, <1>8, <1>9, <1>10 DEF Ready
<1>11. ASSUME i = N
       PROVE  /\ units' = opened.units \o <<Whole(p)>>
              /\ depack.timestamp \in {None, p} => opened.units = <<>>
  <2>1. consumed.nals = Nals(p) /\ consumed.fu = None /\ consumed.nals # <<>>
    <3>1. Gathered(consumed, p, Len(PicturePayloads(p)))
      BY <1>2, <1>7, <1>11
    <3> HIDE DEF consumed
    <3> QED
      BY <3>1, GatherAll
  <2>2. DropFu(consumed) = consumed
    BY <2>1 DEF DropFu
  <2>3. ClosedByMarker(consumed).units = Unit(consumed, TRUE)
    BY <2>2 DEF ClosedByMarker
  <2>4. Unit(consumed, TRUE) = <<Whole(p)>>
    BY <1>8, <2>1 DEF Unit, Whole
  <2>5. depack.timestamp \in {None, p} => opened.units = <<>>
    BY <1>1, <1>3, Opened
  <2> QED
    BY <1>9, <1>11, <2>3, <2>4, <2>5
<1> HIDE DEF opened
<1> QED
  BY <1>4, <1>10, <1>11

-----------------------------------------------------------------------------
(* What arrived, and what the depacketizer has made of it.                 *)

\* The last k arrivals are the first k packets of p, and no other arrival is of p.
Begun(p, k) ==
    /\ k <= Len(arrivals)
    /\ \A i \in 1 .. k : arrivals[Len(arrivals) - k + i] = Own(p)[i]
    /\ \A i \in 1 .. Len(arrivals) - k : arrivals[i] \notin ToSet(Own(p))

PacketOf(k) == IF k = Foreign THEN ForeignPacket ELSE Script[k]

\* The timestamp that is open is that of the last arrival, unless this had the marker.
OpenAfter(seq) ==
    IF seq = <<>> THEN None
    ELSE LET packet == PacketOf(seq[Len(seq)])
         IN  IF packet.marker THEN None ELSE packet.timestamp

Follows == depack.timestamp = OpenAfter(arrivals)

\* A picture that has begun to come clean is in the depacketizer so far.
Gathering ==
    \A p \in DOMAIN Pictures : \A k \in 0 .. Len(Own(p)) - 1 : Begun(p, k) => Ready(depack, p, k)

CleanAreReturned ==
    \A p \in DOMAIN Pictures : CameClean(p) => Whole(p) \in ToSet(emitted)

\* With no copy, no late packet and no loss the packets came in the order of the script.
InOrder ==
    /\ Foreign \notin ToSet(arrivals) => counted = arrivals
    /\ counted # <<>> => highest # Unseen
    /\ reordered = 0 => lost >= 0
    /\ (duplicates = 0 /\ reordered = 0 /\ lost = 0 /\ counted # <<>>) =>
         /\ \A i \in 1 .. Len(counted) : counted[i] = counted[1] + i - 1
         /\ highest = Number(counted[Len(counted)])

\* What the two properties of pictures need, beside LiveInv.
PictureInv ==
    /\ arrivals \in Seq(0 .. Len(Script))
    /\ running => Follows /\ Gathering
    /\ CleanAreReturned
    /\ InOrder

\* t is the N elements of a sequence after its first n.
IsStretch(t, S, s, n, N) ==
    t \in Seq(S) /\ Len(t) = N /\ \A j \in 1 .. N : t[j] = s[n + j]

LEMMA Stretch ==
    ASSUME NEW S, NEW s \in Seq(S), NEW n \in Nat, NEW N \in Nat, n + N <= Len(s)
    PROVE  IsStretch(SubSeq(s, n + 1, n + N), S, s, n, N)
<1> DEFINE b == n + N
           a == n + 1
           t == SubSeq(s, a, b)
<1>1. Len(s) \in Nat /\ a \in Int /\ b \in Int /\ b - a + 1 = N /\ (a <= b <=> N # 0)
      /\ (\A i \in a .. b : i \in 1 .. Len(s)) /\ \A j \in 1 .. N : a + j - 1 = n + j
  <2>1. Len(s) \in Nat
    OBVIOUS
  <2> QED
    BY <2>1
<1> HIDE DEF a, b
<1>2. \A i \in a .. b : s[i] \in S
  BY <1>1, ElementOfSeq
<1>3. /\ t \in Seq(S) /\ Len(t) = IF a <= b THEN b - a + 1 ELSE 0
      /\ \A j \in 1 .. b - a + 1 : t[j] = s[a + j - 1]
  BY <1>1, <1>2, SubSeqProperties
<1> HIDE DEF t
<1>4. t \in Seq(S) /\ Len(t) = N /\ \A j \in 1 .. N : t[j] = s[n + j]
  BY <1>1, <1>3
<1> QED
  BY <1>4 DEF t, a, b, IsStretch

\* An arrival more.
LEMMA OneArrival ==
    ASSUME arrivals \in Seq(0 .. Len(Script)), NEW k \in 0 .. Len(Script),
           arrivals' = Append(arrivals, k)
    PROVE  /\ arrivals' \in Seq(0 .. Len(Script)) /\ arrivals' # <<>>
           /\ Len(arrivals) \in Nat /\ Len(arrivals') = Len(arrivals) + 1
           /\ DOMAIN arrivals = 1 .. Len(arrivals) /\ DOMAIN arrivals' = 1 .. Len(arrivals) + 1
           /\ \A i \in 1 .. Len(arrivals) : arrivals'[i] = arrivals[i]
           /\ arrivals'[Len(arrivals) + 1] = k
<1> DEFINE S == 0 .. Len(Script)
<1>1. arrivals \in Seq(S) /\ k \in S
  OBVIOUS
<1> HIDE DEF S
<1>2. /\ arrivals' \in Seq(S) /\ arrivals' # <<>> /\ Len(arrivals') = Len(arrivals) + 1
      /\ \A i \in 1 .. Len(arrivals) : arrivals'[i] = arrivals[i]
      /\ arrivals'[Len(arrivals) + 1] = k
  BY <1>1, AppendProperties
<1>3. Len(arrivals) \in Nat /\ DOMAIN arrivals = 1 .. Len(arrivals) /\ DOMAIN arrivals' = 1 .. Len(arrivals')
  BY <1>1, <1>2, LenProperties
<1> QED
  BY <1>2, <1>3 DEF S

\* Nothing of p has come: nothing of p is open.
LEMMA NoneOpen ==
    ASSUME NEW seq \in Seq(0 .. Len(Script)), NEW p \in DOMAIN Pictures,
           \A i \in 1 .. Len(seq) : seq[i] \notin ToSet(Own(p))
    PROVE  OpenAfter(seq) # p
<1>1. p \in Nat \ {0} /\ None # p /\ Foreign # p
  BY PictureIs, PacketsAssumption DEF Foreign
<1>2. CASE seq = <<>>
  BY <1>1, <1>2 DEF OpenAfter
<1>3. CASE seq # <<>>
  <2> DEFINE n == Len(seq)
             k == seq[n]
  <2>1. n \in Nat \ {0} /\ k \in 0 .. Len(Script)
    BY <1>3, EmptySeq, ElementOfSeq
  <2>2. k \notin ToSet(Own(p))
    BY <2>1
  <2>3. PacketOf(k).timestamp # p
    <3>1. CASE k = Foreign
      BY <1>1, <3>1 DEF PacketOf, ForeignPacket
    <3>2. CASE k # Foreign
      <4>1. k \in 1 .. Len(Script)
        BY <2>1, <3>2, SpaceIs DEF Foreign
      <4> QED
        BY <2>2, <3>2, <4>1, OwnedBy DEF PacketOf
    <3> QED
      BY <3>1, <3>2
  <2>4. OpenAfter(seq) \in {None, PacketOf(k).timestamp}
    BY <1>3 DEF OpenAfter
  <2> QED
    BY <1>1, <2>3, <2>4
<1> QED
  BY <1>2, <1>3

\* Before the i-th packet of p came, i - 1 had.
LEMMA BegunBefore ==
    ASSUME arrivals \in Seq(0 .. Len(Script)), NEW k \in 0 .. Len(Script),
           arrivals' = Append(arrivals, k),
           NEW p \in DOMAIN Pictures, NEW i \in 1 .. Len(Own(p)), Begun(p, i)'
    PROVE  Begun(p, i - 1) /\ k = Own(p)[i]
<1> DEFINE n == Len(arrivals)
<1>1. /\ n \in Nat /\ Len(arrivals') = n + 1 /\ arrivals'[n + 1] = k
      /\ \A j \in 1 .. n : arrivals'[j] = arrivals[j]
  BY OneArrival
<1>2. i \in Nat \ {0}
  BY OwnAre
<1>3. /\ i <= n + 1 /\ (\A j \in 1 .. i : arrivals'[(n + 1) - i + j] = Own(p)[j])
      /\ \A j \in 1 .. (n + 1) - i : arrivals'[j] \notin ToSet(Own(p))
  BY <1>1 DEF Begun
<1> HIDE DEF n
<1>4. i \in 1 .. i /\ (n + 1) - i + i = n + 1 /\ i - 1 <= n
  BY <1>1, <1>2, <1>3
<1>5. k = Own(p)[i]
  BY <1>1, <1>3, <1>4
<1>6. \A j \in 1 .. i - 1 : arrivals[n - (i - 1) + j] = Own(p)[j]
  <2> SUFFICES ASSUME NEW j \in 1 .. i - 1 PROVE arrivals[n - (i - 1) + j] = Own(p)[j]
    OBVIOUS
  <2>1. j \in 1 .. i /\ (n + 1) - i + j = n - (i - 1) + j /\ n - (i - 1) + j \in 1 .. n
    BY <1>1, <1>2, <1>3
  <2> QED
    BY <1>1, <1>3, <2>1
<1>7. \A j \in 1 .. n - (i - 1) : arrivals[j] \notin ToSet(Own(p))
  <2> SUFFICES ASSUME NEW j \in 1 .. n - (i - 1) PROVE arrivals[j] \notin ToSet(Own(p))
    OBVIOUS
  <2>1. j \in 1 .. (n + 1) - i /\ j \in 1 .. n
    BY <1>1, <1>2, <1>3
  <2> QED
    BY <1>1, <1>3, <2>1
<1> QED
  BY <1>4, <1>5, <1>6, <1>7 DEF Begun, n

\* Every packet the loop may be given is one of the script or a stranger's.
LEMMA PacketOfIs ==
    ASSUME NEW k \in 0 .. Len(Script)
    PROVE  PacketOf(k) \in Packets /\ (k # Foreign => k \in 1 .. Len(Script))
<1>1. k # Foreign => k \in 1 .. Len(Script)
  BY SpaceIs DEF Foreign
<1> QED
  BY <1>1, ScriptAssumption, ElementOfSeq DEF PacketOf

\* A packet is taken in: what is open is what the arrivals say.
LEMMA PushGathers ==
    ASSUME DepackInvariant, arrivals \in Seq(0 .. Len(Script)), Gathering,
           NEW k \in 0 .. Len(Script), PushPayload(PacketOf(k)), arrivals' = Append(arrivals, k)
    PROVE  Follows' /\ Gathering'
<1>1. PacketOf(k) \in Packets
  BY PacketOfIs
<1>2. /\ arrivals' \in Seq(0 .. Len(Script)) /\ arrivals' # <<>>
      /\ arrivals'[Len(arrivals')] = k
  BY OneArrival
<1>3. Follows'
  <2>1. depack'.timestamp = IF PacketOf(k).marker THEN None ELSE PacketOf(k).timestamp
    BY <1>1, PushTime
  <2>2. OpenAfter(arrivals') = IF PacketOf(k).marker THEN None ELSE PacketOf(k).timestamp
    BY <1>2 DEF OpenAfter
  <2>3. OpenAfter(arrivals)' = OpenAfter(arrivals')
    BY DEF OpenAfter, PacketOf
  <2> QED
    BY <2>1, <2>2, <2>3 DEF Follows
<1>4. ASSUME NEW p \in DOMAIN Pictures, NEW i \in 0 .. Len(Own(p)) - 1, Begun(p, i)'
      PROVE  Ready(depack', p, i)
  <2>1. Len(Own(p)) \in Nat \ {0}
    BY OwnAre
  <2>2. CASE i = 0
    <3>1. \A j \in 1 .. Len(arrivals') : arrivals'[j] \notin ToSet(Own(p))
      <4>1. \A j \in 1 .. Len(arrivals') - 0 : arrivals'[j] \notin ToSet(Own(p))
        BY <1>4, <2>2 DEF Begun
      <4>2. Len(arrivals') - 0 = Len(arrivals')
        BY OneArrival
      <4> QED
        BY <4>1, <4>2
    <3>2. OpenAfter(arrivals') # p
      BY <1>2, <3>1, NoneOpen
    <3>3. depack'.timestamp = OpenAfter(arrivals')
      BY <1>3 DEF Follows, OpenAfter, PacketOf
    <3> QED
      BY <2>2, <3>2, <3>3 DEF Ready
  <2>3. CASE i # 0
    <3>1. i \in 1 .. Len(Own(p)) /\ i # Len(Own(p)) /\ i - 1 \in 0 .. Len(Own(p)) - 1
      BY <2>1, <2>3
    <3>2. Begun(p, i - 1) /\ k = Own(p)[i]
      BY <1>4, <3>1, BegunBefore
    <3>3. Ready(depack, p, i - 1)
      BY <3>1, <3>2 DEF Gathering
    <3>4. PushPayload(Script[Own(p)[i]])
      <4>1. k \in 1 .. Len(Script)
        BY <3>1, <3>2, OwnAre
      <4> QED
        BY <3>2, <4>1 DEF PacketOf, Foreign
    <3> QED
      BY <3>1, <3>3, <3>4, PushOwn
  <2> QED
    BY <2>2, <2>3
<1>5. Gathering'
  <2>1. ASSUME NEW p \in DOMAIN Pictures, NEW i \in 0 .. Len(Own(p)) - 1
        PROVE  Ready(depack, p, i)' <=> Ready(depack', p, i)
    BY DEF Ready, Gathered, Holds
  <2> QED
    BY <1>4, <2>1 DEF Gathering
<1> QED
  BY <1>3, <1>5

\* A picture that came clean by the last arrival had come so before, or this was its
\* last packet.
LEMMA CleanNow ==
    ASSUME arrivals \in Seq(0 .. Len(Script)), NEW k \in 0 .. Len(Script),
           arrivals' = Append(arrivals, k), NEW p \in DOMAIN Pictures, CameClean(p)'
    PROVE  \/ CameClean(p)
           \/ Begun(p, Len(Own(p)) - 1) /\ k = Own(p)[Len(Own(p))]
<1> DEFINE N == Len(Own(p))
           m == Len(arrivals)
           S == 0 .. Len(Script)
           T == 1 .. Len(Script)
<1>1. /\ m \in Nat /\ Len(arrivals') = m + 1 /\ arrivals' \in Seq(S)
      /\ DOMAIN arrivals = 1 .. m /\ DOMAIN arrivals' = 1 .. m + 1
      /\ \A i \in 1 .. m : arrivals'[i] = arrivals[i]
  BY OneArrival
<1>2. N \in Nat \ {0} /\ DOMAIN Own(p) = 1 .. N /\ Own(p) \in Seq(T)
  BY OwnAre
<1>3. PICK n \in 0 .. (m + 1) - N : CameFrom(p, n)'
  BY <1>1 DEF CameClean
<1>4. n \in Nat /\ n + N <= m + 1
  BY <1>1, <1>2
<1>5. \A i \in 1 .. m + 1 : arrivals'[i] \in ToSet(Own(p)) => i - n \in 1 .. N
  BY <1>1, <1>2, <1>3 DEF CameFrom
<1>6. \A j \in 1 .. N : arrivals'[n + j] = Own(p)[j]
  <2>1. SubSeq(arrivals', n + 1, n + N) = Own(p)
    BY <1>3 DEF CameFrom
  <2>2. n \in Nat /\ N \in Nat /\ n + N <= Len(arrivals') /\ arrivals' \in Seq(S)
    BY <1>1, <1>2, <1>4
  <2> HIDE DEF N, S, m
  <2>3. IsStretch(SubSeq(arrivals', n + 1, n + N), S, arrivals', n, N)
    BY <2>2, Stretch
  <2> QED
    BY <2>1, <2>3 DEF IsStretch
<1>7. CASE n + N <= m
  <2>1. SubSeq(arrivals, n + 1, n + N) = Own(p)
    <3> DEFINE t == SubSeq(arrivals, n + 1, n + N)
    <3>0. arrivals \in Seq(S)
      OBVIOUS
    <3>6. n \in Nat /\ N \in Nat /\ n + N <= Len(arrivals)
      BY <1>2, <1>4, <1>7
    <3> HIDE DEF N, S, m
    <3>7. IsStretch(t, S, arrivals, n, N)
      <4> HIDE DEF t
      <4>1. IsStretch(SubSeq(arrivals, n + 1, n + N), S, arrivals, n, N)
        BY <3>0, <3>6, Stretch
      <4> QED
        BY <4>1 DEF t
    <3>1. t \in Seq(S) /\ Len(t) = N /\ \A j \in 1 .. N : t[j] = arrivals[n + j]
      BY <3>7 DEF IsStretch
    <3>2. \A j \in 1 .. N : n + j \in 1 .. m
      BY <1>1, <1>2, <1>4, <1>7
    <3>3. \A j \in 1 .. N : t[j] = Own(p)[j]
      BY <1>1, <1>6, <3>1, <3>2
    <3>4. Own(p) \in Seq(S)
      <4>1. T \subseteq S
        BY SpaceIs DEF S
      <4> HIDE DEF T
      <4>2. \A j \in 1 .. N : Own(p)[j] \in S
        BY <1>2, <4>1, ElementOfSeq DEF N
      <4> QED
        BY <1>2, <4>1, <4>2
    <3> HIDE DEF t
    <3>5. t = Own(p)
      BY <3>1, <3>3, <3>4, SeqEqual DEF N
    <3> QED
      BY <3>5 DEF t
  <2>2. \A i \in 1 .. m : arrivals[i] \in ToSet(Own(p)) => i - n \in 1 .. N
    <3>1. \A i \in 1 .. m : i \in 1 .. m + 1
      BY <1>1
    <3> HIDE DEF N, m
    <3> QED
      BY <1>1, <1>5, <3>1
  <2>3. CameFrom(p, n)
    BY <1>1, <1>2, <2>1, <2>2 DEF CameFrom
  <2>4. n \in 0 .. m - N
    BY <1>1, <1>2, <1>4, <1>7
  <2> QED
    BY <2>3, <2>4 DEF CameClean
<1>8. CASE ~ (n + N <= m)
  <2> HIDE DEF N, m
  <2>1. n + N = m + 1 /\ (m + 1) - N = n
    BY <1>1, <1>2, <1>4, <1>8
  <2>2. N <= Len(arrivals')
    BY <1>1, <1>2, <1>4, <2>1
  <2>3. \A j \in 1 .. N : arrivals'[Len(arrivals') - N + j] = Own(p)[j]
    BY <1>1, <1>6, <2>1
  <2>4. \A i \in 1 .. Len(arrivals') - N : arrivals'[i] \notin ToSet(Own(p))
    <3> SUFFICES ASSUME NEW i \in 1 .. n, arrivals'[i] \in ToSet(Own(p)) PROVE FALSE
      BY <1>1, <2>1
    <3>1. i \in 1 .. m + 1 /\ ~ (i - n \in 1 .. N)
      BY <1>1, <1>2, <1>4
    <3> QED
      BY <1>5, <3>1
  <2>5. Begun(p, N)'
    <3>1. Own(p)' = Own(p)
      OBVIOUS
    <3> QED
      BY <2>2, <2>3, <2>4 DEF Begun
  <2>6. N \in 1 .. N
    BY <1>2
  <2> QED
    BY <2>5, <2>6, BegunBefore DEF N
<1> QED
  BY <1>7, <1>8

\* What is returned stays in the history, and what is new in it was returned.
LEMMA ReturnedGrows ==
    ASSUME emitted \in Seq(Units), units' \in Seq(Units), emitted' = emitted \o units'
    PROVE  /\ ToSet(emitted') = ToSet(emitted) \cup ToSet(units')
           /\ \A i \in DOMAIN emitted' \ DOMAIN emitted :
                \E x \in DOMAIN units' : emitted'[i] = units'[x]
<1> DEFINE a == Len(emitted)
           b == Len(units')
<1>1. /\ a \in Nat /\ b \in Nat /\ DOMAIN emitted = 1 .. a /\ DOMAIN units' = 1 .. b
      /\ Joins(Units, emitted, units', emitted')
  BY Concatenated
<1>2. DOMAIN emitted' = 1 .. a + b
  BY <1>1 DEF Joins
<1>3. /\ \A i \in 1 .. a : emitted'[i] = emitted[i]
      /\ \A i \in 1 .. b : emitted'[a + i] = units'[i]
  BY <1>1 DEF Joins
<1> HIDE DEF a, b
<1>4. \A i \in 1 .. a + b : i \in 1 .. a \/ (i - a \in 1 .. b /\ a + (i - a) = i)
  BY <1>1
<1>5. (\A i \in 1 .. a : i \in 1 .. a + b) /\ \A i \in 1 .. b : a + i \in 1 .. a + b
  BY <1>1
<1>6. \A i \in 1 .. a + b : emitted'[i] \in ToSet(emitted) \cup ToSet(units')
  <2> SUFFICES ASSUME NEW i \in 1 .. a + b
               PROVE  emitted'[i] \in ToSet(emitted) \cup ToSet(units')
    OBVIOUS
  <2>1. CASE i \in 1 .. a
    BY <1>1, <1>3, <2>1 DEF ToSet
  <2>2. CASE i - a \in 1 .. b /\ a + (i - a) = i
    <3>1. emitted'[a + (i - a)] = units'[i - a]
      BY <1>3, <2>2
    <3> QED
      BY <1>1, <2>2, <3>1 DEF ToSet
  <2> QED
    BY <1>4, <2>1, <2>2
<1>7. \A i \in 1 .. a : emitted[i] \in ToSet(emitted')
  BY <1>2, <1>3, <1>5 DEF ToSet
<1>8. \A i \in 1 .. b : units'[i] \in ToSet(emitted')
  BY <1>2, <1>3, <1>5 DEF ToSet
<1>9. ASSUME NEW i \in DOMAIN emitted' \ DOMAIN emitted
      PROVE  \E x \in DOMAIN units' : emitted'[i] = units'[x]
  <2>1. i \in 1 .. a + b /\ ~ (i \in 1 .. a)
    BY <1>1, <1>2
  <2>2. i - a \in 1 .. b /\ a + (i - a) = i
    BY <1>4, <2>1
  <2>3. emitted'[a + (i - a)] = units'[i - a]
    BY <1>3, <2>2
  <2>4. i - a \in DOMAIN units'
    BY <1>1, <2>2
  <2> QED
    BY <2>2, <2>3, <2>4
<1>10. ToSet(emitted') = ToSet(emitted) \cup ToSet(units')
  <2>1. ToSet(emitted') \subseteq ToSet(emitted) \cup ToSet(units')
    BY <1>2, <1>6 DEF ToSet
  <2>2. ToSet(emitted) \subseteq ToSet(emitted')
    <3>1. \A e \in ToSet(emitted) : \E i \in 1 .. a : e = emitted[i]
      BY <1>1 DEF ToSet
    <3> QED
      BY <1>7, <3>1
  <2>3. ToSet(units') \subseteq ToSet(emitted')
    <3>1. \A e \in ToSet(units') : \E i \in 1 .. b : e = units'[i]
      BY <1>1 DEF ToSet
    <3> QED
      BY <1>8, <3>1
  <2> QED
    BY <2>1, <2>2, <2>3
<1> QED
  BY <1>9, <1>10

\* It is returned then.
LEMMA PushReturnsClean ==
    ASSUME DepackInvariant, Recording, arrivals \in Seq(0 .. Len(Script)), Gathering,
           CleanAreReturned, NEW k \in 0 .. Len(Script), PushPayload(PacketOf(k)),
           units' \in Seq(Units), arrivals' = Append(arrivals, k), emitted' = emitted \o units'
    PROVE  CleanAreReturned'
<1>1. emitted \in Seq(Units)
  BY DEF Recording
<1>2. ToSet(emitted') = ToSet(emitted) \cup ToSet(units')
  BY <1>1, ReturnedGrows
<1>3. ASSUME NEW p \in DOMAIN Pictures, CameClean(p)' PROVE Whole(p) \in ToSet(emitted')
  <2>1. CASE CameClean(p)
    BY <1>2, <2>1 DEF CleanAreReturned
  <2>2. CASE Begun(p, Len(Own(p)) - 1) /\ k = Own(p)[Len(Own(p))]
    <3> DEFINE N == Len(Own(p))
    <3>1. N \in Nat \ {0} /\ k \in 1 .. Len(Script)
      <4>1. N \in Nat \ {0}
        BY OwnAre
      <4>2. N \in 1 .. N
        BY <4>1
      <4> QED
        BY <2>2, <4>1, <4>2, OwnAre
    <3>2. PacketOf(k) = Script[Own(p)[N]]
      BY <2>2, <3>1 DEF PacketOf, Foreign
    <3>3. N - 1 \in 0 .. N - 1 /\ N \in 1 .. N
      BY <3>1
    <3>4. Ready(depack, p, N - 1)
      BY <2>2, <3>3 DEF Gathering
    <3>5. PICK out \in Seq(Units) : units' = out \o <<Whole(p)>>
      BY <3>2, <3>3, <3>4, PushOwn
    <3>6. Whole(p) \in ToSet(units')
      <4> DEFINE u == Whole(p)
      <4>1. u \in Units
        BY NalsAre, PictureIs DEF Whole, Units
      <4> HIDE DEF u
      <4>2. Append(out, u) = units'
        BY <3>5, <4>1, AppendIsConcat DEF u
      <4>3. Append(out, u) \in Seq(Units) /\ Len(Append(out, u)) = Len(out) + 1
            /\ Append(out, u)[Len(out) + 1] = u /\ Len(out) \in Nat
        BY <4>1, AppendProperties
      <4>4. Len(out) + 1 \in DOMAIN units'
        BY <4>2, <4>3
      <4>5. units'[Len(out) + 1] = u
        BY <4>2, <4>3
      <4> QED
        BY <4>4, <4>5 DEF ToSet, u
    <3> QED
      BY <1>2, <3>6
  <2> QED
    BY <1>3, <2>1, <2>2, CleanNow
<1> QED
  BY <1>3 DEF CleanAreReturned, Whole, Nals, Nal

\* A packet of the stream is counted: the order stays what the counters say.
LEMMA ArriveInOrder ==
    ASSUME Counting, CountInv, InOrder, arrivals \in Seq(0 .. Len(Script)),
           NEW k \in 1 .. Len(Script), Observe(Number(k)),
           counted' = Append(counted, k), arrivals' = Append(arrivals, k)
    PROVE  InOrder'
<1> DEFINE n == Len(counted)
           S == 1 .. Len(Script)
<1>1. /\ highest \in Sequences \cup {Unseen} /\ received \in Nat /\ lost \in Int
      /\ duplicates \in Nat /\ reordered \in Nat
  BY DEF Counting, TrackerTypeOK
<1>2. /\ counted' \in Seq(S) /\ n \in Nat /\ Len(counted') = n + 1 /\ counted' # <<>>
      /\ (\A i \in 1 .. n : counted'[i] = counted[i] /\ counted[i] \in S)
      /\ counted'[n + 1] = k /\ (n = 0 <=> counted = <<>>) /\ S \subseteq Nat
  <2>1. counted \in Seq(S) /\ k \in S
    BY DEF CountInv
  <2>2. S \subseteq Nat
    BY SpaceIs
  <2> HIDE DEF S
  <2>3. n \in Nat /\ (n = 0 <=> counted = <<>>) /\ \A i \in 1 .. n : counted[i] \in S
    BY <2>1, EmptySeq, ElementOfSeq
  <2>4. /\ counted' \in Seq(S) /\ counted' # <<>> /\ Len(counted') = Len(counted) + 1
        /\ \A i \in 1 .. Len(counted) : counted'[i] = counted[i]
        /\ counted'[Len(counted) + 1] = k
    BY <2>1, AppendProperties
  <2> QED
    BY <2>2, <2>3, <2>4
<1>3. Foreign \notin ToSet(arrivals') => counted' = arrivals'
  <2> SUFFICES ASSUME Foreign \notin ToSet(arrivals') PROVE counted' = arrivals'
    OBVIOUS
  <2>1. Foreign \notin ToSet(arrivals)
    <3>1. \A i \in DOMAIN arrivals : i \in DOMAIN arrivals' /\ arrivals'[i] = arrivals[i]
      BY OneArrival
    <3> QED
      BY <3>1 DEF ToSet
  <2> QED
    BY <2>1 DEF InOrder
<1>4. highest' # Unseen
  <2>1. Number(k) # Unseen
    BY NumberIs
  <2> QED
    BY <2>1 DEF Observe, First, Forward, Duplicate, Late, Backward
<1>5. highest # Unseen /\ Ahead(Number(k), highest) \in 1 .. SeqSpace \div 2 - 1 =>
          Ahead(Number(k), highest) \in Nat \ {0}
  OBVIOUS
<1>6. reordered' = 0 => lost' >= 0
  <2>0. reordered = 0 => lost >= 0
    BY DEF InOrder
  <2>1. CASE First(Number(k)) \/ Duplicate(Number(k))
    BY <2>0, <2>1 DEF First, Duplicate
  <2>2. CASE Forward(Number(k))
    <3> DEFINE delta == Ahead(Number(k), highest)
    <3>1. delta \in Nat \ {0} /\ lost' = lost + delta - 1 /\ reordered' = reordered
      BY <1>5, <2>2 DEF Forward
    <3> HIDE DEF delta
    <3> QED
      BY <1>1, <2>0, <3>1
  <2>3. CASE Late(Number(k))
    BY <1>1, <2>3 DEF Late
  <2> QED
    BY <2>1, <2>2, <2>3 DEF Observe
<1>7. ASSUME duplicates' = 0, reordered' = 0, lost' = 0
      PROVE  /\ \A i \in 1 .. Len(counted') : counted'[i] = counted'[1] + i - 1
             /\ highest' = Number(counted'[Len(counted')])
  <2>1. CASE First(Number(k))
    <3>1. counted = <<>> /\ highest' = Number(k)
      BY <2>1 DEF First, InOrder
    <3>2. Len(counted') = 1 /\ counted'[1] = k
      BY <1>2, <3>1
    <3>3. \A i \in 1 .. 1 : i = 1 /\ k = k + i - 1
      BY <1>2
    <3> QED
      BY <3>1, <3>2, <3>3
  <2>2. CASE Forward(Number(k))
    <3> DEFINE delta == Ahead(Number(k), highest)
               h == counted[n]
    <3>1. /\ delta \in Nat \ {0} /\ lost' = lost + delta - 1 /\ reordered' = reordered
          /\ duplicates' = duplicates /\ highest' = Number(k) /\ highest # Unseen
      BY <1>5, <2>2 DEF Forward
    <3>2. counted # <<>> /\ n # 0
      BY <1>2, <3>1 DEF CountInv, NoneCounted
    <3>3. lost = 0 /\ delta = 1
      <4>1. lost >= 0
        BY <1>7, <3>1 DEF InOrder
      <4> HIDE DEF delta
      <4> QED
        BY <1>1, <1>7, <3>1, <4>1
    <3>4. (\A i \in 1 .. n : counted[i] = counted[1] + i - 1) /\ highest = Number(h)
      BY <1>7, <3>1, <3>2, <3>3 DEF InOrder
    <3>5. h \in S /\ n \in 1 .. n /\ 1 \in 1 .. n
      BY <1>2, <3>2
    <3>6. k = h + 1
      <4>1. /\ k >= h => delta = k - h
            /\ k < h => delta = SeqSpace - (h - k)
        BY <3>4, <3>5, AheadIs
      <4> HIDE DEF delta, h
      <4> QED
        BY <3>3, <3>5, <4>1, SpaceIs
    <3>7. h = counted[1] + n - 1 /\ counted[1] \in Nat
      BY <1>2, <3>4, <3>5
    <3> HIDE DEF h
    <3>8. \A i \in 1 .. n + 1 : counted'[i] = counted'[1] + i - 1
      <4> SUFFICES ASSUME NEW i \in 1 .. n + 1 PROVE counted'[i] = counted'[1] + i - 1
        OBVIOUS
      <4>1. counted'[1] = counted[1]
        BY <1>2, <3>5
      <4>2. CASE i \in 1 .. n
        BY <1>2, <3>4, <4>1, <4>2
      <4>3. CASE i = n + 1
        <5>1. counted'[i] = k
          BY <1>2, <4>3
        <5> QED
          BY <1>2, <3>6, <3>7, <4>1, <4>3, <5>1
      <4>4. i \in 1 .. n \/ i = n + 1
        BY <1>2
      <4> QED
        BY <4>2, <4>3, <4>4
    <3> QED
      BY <1>2, <3>1, <3>8
  <2>3. CASE Duplicate(Number(k)) \/ Late(Number(k))
    BY <1>1, <1>7, <2>3 DEF Duplicate, Late
  <2> QED
    BY <2>1, <2>2, <2>3 DEF Observe
<1> QED
  BY <1>3, <1>4, <1>6, <1>7 DEF InOrder

\* A stranger's packet is not counted.
LEMMA StrangerInOrder ==
    ASSUME InOrder, arrivals \in Seq(0 .. Len(Script)), arrivals' = Append(arrivals, Foreign),
           UNCHANGED <<tracker, counted>>
    PROVE  InOrder'
<1>1. Foreign \in ToSet(arrivals')
  <2>1. Foreign \in 0 .. Len(Script)
    BY SpaceIs DEF Foreign
  <2>2. Len(arrivals) + 1 \in DOMAIN arrivals' /\ arrivals'[Len(arrivals) + 1] = Foreign
    BY <2>1, OneArrival
  <2> QED
    BY <2>2 DEF ToSet
<1> QED
  BY <1>1 DEF InOrder, tracker, Number

\* At the start no packet has come.
LEMMA PictureInit == Init => PictureInv
<1> SUFFICES ASSUME Init PROVE PictureInv
  OBVIOUS
<1>1. /\ arrivals = <<>> /\ counted = <<>> /\ depack.timestamp = None /\ lost = 0
      /\ Len(arrivals) = 0 /\ arrivals \in Seq(0 .. Len(Script))
  BY DEF Init, TrackerInit, DepackInit, New
<1>2. Follows
  BY <1>1 DEF Follows, OpenAfter
<1>3. Gathering
  <2> SUFFICES ASSUME NEW p \in DOMAIN Pictures, NEW k \in 0 .. Len(Own(p)) - 1, Begun(p, k)
               PROVE  Ready(depack, p, k)
    BY DEF Gathering
  <2>1. k = 0
    BY <1>1, OwnAre DEF Begun
  <2>2. None # p
    BY PictureIs, PacketsAssumption
  <2> QED
    BY <1>1, <2>1, <2>2 DEF Ready
<1>4. CleanAreReturned
  <2> SUFFICES ASSUME NEW p \in DOMAIN Pictures PROVE ~ CameClean(p)
    BY DEF CleanAreReturned
  <2> QED
    BY <1>1, OwnAre DEF CameClean
<1>5. InOrder
  BY <1>1 DEF InOrder
<1> QED
  BY <1>1, <1>2, <1>3, <1>4, <1>5 DEF PictureInv

\* What does not touch the arrivals leaves the pictures that came as they are,
LEMMA SamePictures ==
    ASSUME CleanAreReturned, arrivals' = arrivals, ToSet(emitted) \subseteq ToSet(emitted')
    PROVE  CleanAreReturned'
BY DEF CleanAreReturned, CameClean, CameFrom, Whole, Nals, Nal

\* the order,
LEMMA SameOrder ==
    ASSUME InOrder, UNCHANGED <<tracker, counted, arrivals>>
    PROVE  InOrder'
BY DEF InOrder, tracker, Number

\* and what is open.
LEMMA SameOpen ==
    ASSUME Follows, Gathering, arrivals' = arrivals, depack'.timestamp = depack.timestamp,
           depack'.nals = depack.nals, depack'.fu = depack.fu
    PROVE  Follows' /\ Gathering'
<1>1. Follows'
  BY DEF Follows, OpenAfter, PacketOf
<1>2. ASSUME NEW p \in DOMAIN Pictures, NEW k \in 0 .. Len(Own(p)) - 1, Begun(p, k)'
      PROVE  Ready(depack, p, k)'
  <2>1. Ready(depack, p, k)
    BY <1>2 DEF Gathering, Begun
  <2>2. Ready(depack', p, k)
    BY <2>1, SameGathered DEF Ready
  <2> QED
    BY <2>2 DEF Ready, Gathered, Holds
<1> QED
  BY <1>1, <1>2 DEF Gathering

\* A reset forgets what arrived.
LEMMA RestartKeeps ==
    ASSUME DepackInvariant, Restart
    PROVE  Follows' /\ Gathering' /\ CleanAreReturned' /\ InOrder'
<1>1. /\ arrivals' = <<>> /\ counted' = <<>> /\ lost' = 0 /\ depack'.timestamp = None
      /\ Len(arrivals') = 0
  <2> DEFINE e == [depack EXCEPT !.timestamp = None, !.nals = <<>>, !.fu = None]
  <2>1. e.timestamp = None
    BY DEF DepackInvariant, Coherent, HasPartial
  <2> QED
    BY <2>1 DEF Restart, TrackerReset, DepackReset
<1>2. Follows'
  BY <1>1 DEF Follows, OpenAfter
<1>3. Gathering'
  <2> SUFFICES ASSUME NEW p \in DOMAIN Pictures, NEW k \in 0 .. Len(Own(p)) - 1, Begun(p, k)'
               PROVE  Ready(depack, p, k)'
    BY DEF Gathering
  <2>1. k = 0
    BY <1>1, OwnAre DEF Begun
  <2>2. None # p
    BY PictureIs, PacketsAssumption
  <2> QED
    BY <1>1, <2>1, <2>2 DEF Ready
<1>4. CleanAreReturned'
  <2> SUFFICES ASSUME NEW p \in DOMAIN Pictures PROVE ~ CameClean(p)'
    BY DEF CleanAreReturned
  <2> QED
    BY <1>1, OwnAre DEF CameClean
<1>5. InOrder'
  BY <1>1 DEF InOrder
<1> QED
  BY <1>2, <1>3, <1>4, <1>5

\* One step per action; those that push a packet come down to PushGathers.
LEMMA PictureNext == LiveInv /\ LiveInv' /\ PictureInv /\ [Next]_vars => PictureInv'
<1> SUFFICES ASSUME LiveInv, LiveInv', PictureInv, [Next]_vars PROVE PictureInv'
  OBVIOUS
<1>0. /\ LinkInv /\ Counting /\ CountInv /\ DepackInvariant /\ Recording
      /\ units' \in Seq(Units) /\ emitted \in Seq(Units)
  BY DEF LiveInv, DepackInvariant, Recording
<1>1. /\ arrivals \in Seq(0 .. Len(Script)) /\ (running => Follows /\ Gathering)
      /\ CleanAreReturned /\ InOrder
  BY DEF PictureInv
<1>2. ASSUME running, running', NEW k \in 0 .. Len(Script), PushPayload(PacketOf(k)), Write,
             arrivals' = Append(arrivals, k), InOrder'
      PROVE  PictureInv'
  <2>1. Follows' /\ Gathering'
    BY <1>0, <1>1, <1>2, PushGathers
  <2>2. CleanAreReturned'
    BY <1>0, <1>1, <1>2, PushReturnsClean DEF Write
  <2>3. arrivals' \in Seq(0 .. Len(Script))
    BY <1>1, <1>2, OneArrival
  <2> QED
    BY <1>2, <2>1, <2>2, <2>3 DEF PictureInv
<1>3. ASSUME running, NEW k \in 1 .. Len(Script), Arrive(k)
      PROVE  PictureInv'
  <2>1. k \in 0 .. Len(Script) /\ PacketOf(k) = Script[k]
    BY SpaceIs DEF PacketOf, Foreign
  <2>2. /\ Observe(Number(k)) /\ PushPayload(PacketOf(k)) /\ Write /\ running'
        /\ arrivals' = Append(arrivals, k) /\ counted' = Append(counted, k)
    BY <1>3, <2>1 DEF Arrive
  <2>3. InOrder'
    BY <1>0, <1>1, <2>2, ArriveInOrder
  <2> QED
    BY <1>2, <1>3, <2>1, <2>2, <2>3
<1>4. sent < Len(Script) => sent + 1 \in 1 .. Len(Script)
  BY <1>0, SpaceIs DEF LinkInv
<1>5. CASE Deliver \/ DeliverCopied
  BY <1>3, <1>4, <1>5 DEF Deliver, DeliverCopied, Fault
<1>6. CASE DeliverLate
  <2>1. PICK k \in delayed : Arrive(k)
    BY <1>6 DEF DeliverLate
  <2>2. k \in 1 .. Len(Script) /\ running
    BY <1>0, <1>6 DEF LinkInv, DeliverLate
  <2> QED
    BY <1>3, <2>1, <2>2
<1>7. ASSUME UNCHANGED <<tracker, depacketizer, running, arrivals, counted, emitted>>
      PROVE  PictureInv'
  <2>1. CleanAreReturned' /\ InOrder'
    BY <1>1, <1>7, SamePictures, SameOrder
  <2>2. running' => Follows' /\ Gathering'
    BY <1>1, <1>7, SameOpen DEF depacketizer
  <2> QED
    BY <1>1, <1>7, <2>1, <2>2 DEF PictureInv
<1>8. CASE Lose \/ Delay
  BY <1>7, <1>8 DEF Lose, Delay
<1>9. CASE Stray
  <2>1. /\ depack' = Unsupported(depack) /\ units' = <<>> /\ emitted' = emitted \o units'
        /\ UNCHANGED <<tracker, counted, arrivals>> /\ running' = running
    BY <1>9 DEF Stray, PushNotRtp, Write
  <2>2. ToSet(emitted) \subseteq ToSet(emitted')
    BY <1>0, <2>1, ReturnedGrows
  <2>3. CleanAreReturned' /\ InOrder'
    BY <1>1, <2>1, <2>2, SamePictures, SameOrder
  <2>4. depack'.timestamp = depack.timestamp /\ depack'.nals = depack.nals /\ depack'.fu = depack.fu
    BY <1>0, <2>1 DEF Unsupported, DepackInvariant, Coherent, HasPartial
  <2>5. running' => Follows' /\ Gathering'
    BY <1>1, <2>1, <2>4, SameOpen
  <2> QED
    BY <1>1, <2>1, <2>3, <2>5 DEF PictureInv
<1>10. CASE StrayStream
  <2>1. Foreign \in 0 .. Len(Script) /\ PacketOf(Foreign) = ForeignPacket
    BY SpaceIs DEF PacketOf, Foreign
  <2>2. /\ PushPayload(PacketOf(Foreign)) /\ Write /\ running /\ running'
        /\ arrivals' = Append(arrivals, Foreign) /\ UNCHANGED <<tracker, counted>>
    BY <1>10, <2>1 DEF StrayStream, Fault
  <2>3. InOrder'
    BY <1>1, <2>2, StrangerInOrder
  <2> QED
    BY <1>2, <2>1, <2>2, <2>3
<1>11. CASE Restart
  <2>1. arrivals' \in Seq(0 .. Len(Script))
    BY <1>11 DEF Restart
  <2> QED
    BY <1>0, <1>11, <2>1, RestartKeeps DEF PictureInv
<1>12. CASE Stop
  <2>1. /\ ~ running' /\ emitted' = emitted \o units' /\ UNCHANGED <<tracker, counted, arrivals>>
    BY <1>12 DEF Stop
  <2>2. ToSet(emitted) \subseteq ToSet(emitted')
    BY <1>0, <2>1, ReturnedGrows
  <2> QED
    BY <1>1, <2>1, <2>2, SamePictures, SameOrder DEF PictureInv
<1>13. CASE UNCHANGED vars
  BY <1>7, <1>13 DEF vars
<1> QED
  BY <1>5, <1>6, <1>8, <1>9, <1>10, <1>11, <1>12, <1>13 DEF Next

LEMMA PicturesAlways == Spec => []PictureInv
BY PictureInit, PictureNext, LiveAlways, PTL DEF Spec

\* The first packet of a picture has a position in the script.
LEMMA FirstOwn ==
    ASSUME NEW p \in DOMAIN Pictures
    PROVE  1 \in 1 .. Len(Own(p)) /\ Own(p)[1] \in Nat \ {0}
<1>1. 1 \in 1 .. Len(Own(p))
  BY OwnAre
<1>2. Own(p)[1] \in 1 .. Len(Script)
  BY <1>1, OwnAre
<1> QED
  BY <1>1, <1>2, SpaceIs

\* A packet that came in order closes nothing of another time: the one before it in the
\* script was the last arrival, and had the marker if its picture was another.
LEMMA InOrderJoins ==
    ASSUME arrivals \in Seq(0 .. Len(Script)), Follows, NEW k \in 1 .. Len(Script),
           arrivals # <<>> => arrivals[Len(arrivals)] \in 1 .. Len(Script)
                              /\ arrivals[Len(arrivals)] + 1 = k
    PROVE  depack.timestamp \in {None, Script[k].timestamp}
<1>1. CASE arrivals = <<>>
  BY <1>1 DEF Follows, OpenAfter
<1>2. CASE arrivals # <<>>
  <2> DEFINE l == arrivals[Len(arrivals)]
  <2>1. l \in 1 .. Len(Script) /\ l + 1 = k
    BY <1>2
  <2>2. PacketOf(l) = Script[l]
    BY <2>1 DEF PacketOf, Foreign
  <2>3. depack.timestamp = IF Script[l].marker THEN None ELSE Script[l].timestamp
    BY <1>2, <2>2 DEF Follows, OpenAfter
  <2> HIDE DEF l
  <2>4. PICK q \in DOMAIN Pictures : \E j \in 1 .. Len(Own(q)) : l = Own(q)[j]
    BY <2>1, OwnerIs
  <2>5. PICK j \in 1 .. Len(Own(q)) : l = Own(q)[j]
    BY <2>4
  <2> DEFINE last == j = Len(Own(q))
  <2>6. Script[l] = [timestamp |-> q, marker |-> last, payload |-> PicturePayloads(q)[j]]
    BY <2>5, OwnAre
  <2> HIDE DEF last
  <2>7. Script[l].timestamp = q /\ Script[l].marker = last
    BY <2>6
  <2>8. CASE last
    BY <2>3, <2>7, <2>8
  <2>9. CASE ~ last
    <3>1. Len(Own(q)) \in Nat
      BY OwnAre
    <3>2. j + 1 \in 1 .. Len(Own(q)) /\ j \in Nat
      BY <2>9, <3>1 DEF last
    <3>3. Own(q)[j + 1] = Own(q)[1] + (j + 1) - 1 /\ Own(q)[j] = Own(q)[1] + j - 1
          /\ Own(q)[1] \in Nat
      <4>2. Own(q)[1] \in Nat
        BY FirstOwn
      <4> QED
        BY <3>2, <4>2, OwnAre
    <3>4. Own(q)[j + 1] = k
      BY <2>1, <2>5, <3>2, <3>3
    <3>5. k \in ToSet(Own(q))
      <4>1. DOMAIN Own(q) = 1 .. Len(Own(q))
        BY OwnAre
      <4> QED
        BY <3>2, <3>4, <4>1 DEF ToSet
    <3>6. Script[k].timestamp = q
      BY <3>5, OwnedBy
    <3> QED
      BY <2>3, <2>7, <2>9, <3>6
  <2> QED
    BY <2>8, <2>9
<1> QED
  BY <1>1, <1>2

\* The arrivals in order up to the n-th packet of p, from its first or earlier: the
\* picture had begun.
LEMMA InOrderBegun ==
    ASSUME arrivals \in Seq(0 .. Len(Script)), NEW first \in Nat,
           \A i \in 1 .. Len(arrivals) : arrivals[i] = first + i - 1,
           NEW p \in DOMAIN Pictures, NEW n \in 1 .. Len(Own(p)),
           Own(p)[n] = first + Len(arrivals), first <= Own(p)[1]
    PROVE  Begun(p, n - 1)
<1> DEFINE m == Len(arrivals)
           own == Own(p)[1]
           N == Len(Own(p))
<1>1. m \in Nat /\ N \in Nat /\ DOMAIN Own(p) = 1 .. N /\ \A i \in 1 .. m : arrivals[i] = first + i - 1
  BY OwnAre
<1>2. own \in Nat /\ \A i \in 1 .. N : Own(p)[i] = own + i - 1
  <2>1. \A i \in 1 .. N : Own(p)[i] = Own(p)[1] + i - 1
    BY OwnAre
  <2> QED
    BY <2>1, FirstOwn
<1>3. own + n - 1 = first + m /\ first <= own /\ n \in 1 .. N
  BY <1>2
<1> HIDE DEF m, own, N
<1>4. n - 1 <= m /\ n - 1 \in Nat
  BY <1>1, <1>2, <1>3
<1>5. \A i \in 1 .. n - 1 : arrivals[m - (n - 1) + i] = Own(p)[i]
  <2> SUFFICES ASSUME NEW i \in 1 .. n - 1 PROVE arrivals[m - (n - 1) + i] = Own(p)[i]
    OBVIOUS
  <2> DEFINE x == m - (n - 1) + i
  <2>1. x \in 1 .. m /\ i \in 1 .. N /\ first + x - 1 = own + i - 1
    BY <1>1, <1>2, <1>3, <1>4
  <2> HIDE DEF x
  <2>2. arrivals[x] = Own(p)[i]
    BY <1>1, <1>2, <2>1
  <2> QED
    BY <2>2 DEF x
<1>6. \A i \in 1 .. m - (n - 1) : arrivals[i] \notin ToSet(Own(p))
  <2> SUFFICES ASSUME NEW i \in 1 .. m - (n - 1), NEW j \in 1 .. N, arrivals[i] = Own(p)[j]
               PROVE  FALSE
    BY <1>1 DEF ToSet
  <2>1. i \in 1 .. m
    BY <1>1, <1>4
  <2>2. first + i - 1 = own + j - 1
    BY <1>1, <1>2, <2>1
  <2> QED
    BY <1>1, <1>2, <1>3, <1>4, <2>1, <2>2
<1> QED
  BY <1>1, <1>4, <1>5, <1>6 DEF Begun, m

\* In an orderly run a packet returns a whole picture or nothing.
LEMMA ArriveIsWhole ==
    ASSUME DepackInvariant, arrivals \in Seq(0 .. Len(Script)), Follows, Gathering,
           NEW k \in 1 .. Len(Script), PushPayload(Script[k]), arrivals' = Append(arrivals, k),
           NEW first \in Nat \ {0},
           \A i \in 1 .. Len(arrivals') : arrivals'[i] = first + i - 1,
           NEW x \in DOMAIN units', units' \in Seq(Units),
           ~ (first > Own(units'[x].timestamp)[1])
    PROVE  units'[x].nals = Nals(units'[x].timestamp)
<1> DEFINE m == Len(arrivals)
<1>1. /\ m \in Nat /\ Len(arrivals') = m + 1 /\ arrivals'[m + 1] = k
      /\ \A i \in 1 .. m : arrivals'[i] = arrivals[i]
  <2>1. k \in 0 .. Len(Script)
    BY SpaceIs
  <2> QED
    BY <2>1, OneArrival
<1>2. k = first + m /\ \A i \in 1 .. m : arrivals[i] = first + i - 1
  <2> HIDE DEF m
  <2>1. m + 1 \in 1 .. m + 1 /\ (\A i \in 1 .. m : i \in 1 .. m + 1) /\ first + (m + 1) - 1 = first + m
    BY <1>1
  <2> QED
    BY <1>1, <2>1
<1>3. depack.timestamp \in {None, Script[k].timestamp}
  <2> SUFFICES ASSUME arrivals # <<>>
               PROVE  arrivals[m] \in 1 .. Len(Script) /\ arrivals[m] + 1 = k
    BY InOrderJoins
  <2>1. m \in 1 .. m /\ arrivals[m] \in 0 .. Len(Script)
    BY EmptySeq, ElementOfSeq
  <2>2. arrivals[m] = first + m - 1
    BY <1>2, <2>1
  <2> HIDE DEF m
  <2>3. arrivals[m] + 1 = k
    BY <1>1, <1>2, <2>2
  <2> QED
    BY <1>1, <1>2, <2>1, <2>2, <2>3, SpaceIs
<1>4. Script[k] \in Packets
  BY ScriptAssumption, ElementOfSeq
<1>5. PICK p \in DOMAIN Pictures : \E n \in 1 .. Len(Own(p)) : k = Own(p)[n]
  BY OwnerIs
<1>6. PICK n \in 1 .. Len(Own(p)) : k = Own(p)[n]
  BY <1>5
<1> DEFINE N == Len(Own(p))
           last == n = N
<1>7. Script[k] = [timestamp |-> p, marker |-> last, payload |-> PicturePayloads(p)[n]]
      /\ N \in Nat \ {0} /\ Own(p)[1] \in Nat
  <2>1. Script[Own(p)[n]] = [timestamp |-> p, marker |-> last, payload |-> PicturePayloads(p)[n]]
    BY OwnAre
  <2>2. N \in Nat \ {0}
    BY OwnAre
  <2> HIDE DEF last, N
  <2> QED
    BY <1>6, <2>1, <2>2, FirstOwn
<1>8. Script[k].timestamp = p /\ Script[k].marker = last
  <2> HIDE DEF last
  <2> QED
    BY <1>7
<1>9. (~ last => units' = <<>>) /\ units'[x].timestamp = p
  <2> HIDE DEF last
  <2> QED
    BY <1>3, <1>4, <1>8, PushReturns
<1>10. last
  <2>1. DOMAIN <<>> = {}
    OBVIOUS
  <2> HIDE DEF last
  <2> QED
    BY <1>9, <2>1
<1>11. Begun(p, n - 1)
  <2>1. first <= Own(p)[1]
    BY <1>7, <1>9
  <2> QED
    BY <1>2, <1>6, <2>1, InOrderBegun
<1>12. Ready(depack, p, n - 1)
  <2>1. n - 1 \in 0 .. N - 1
    BY <1>7
  <2> QED
    BY <1>11, <2>1 DEF Gathering
<1>13. PICK out \in Seq(Units) : units' = out \o <<Whole(p)>> /\ out = <<>>
  <2>1. PushPayload(Script[Own(p)[n]])
    BY <1>6
  <2>2. depack.timestamp \in {None, p}
    BY <1>3, <1>8
  <2> QED
    BY <1>10, <1>12, <2>1, <2>2, PushOwn
<1>14. units'[x] = Whole(p)
  <2> DEFINE u == Whole(p)
  <2>1. u \in Units
    BY NalsAre, PictureIs DEF Whole, Units
  <2> HIDE DEF u
  <2>2. <<>> \o <<u>> = <<u>> /\ DOMAIN <<u>> = {1} /\ <<u>>[1] = u
    BY <2>1
  <2>3. units' = <<u>>
    BY <1>13, <2>2 DEF u
  <2> QED
    BY <2>2, <2>3 DEF u
<1> QED
  BY <1>14 DEF Whole

\* The step behind DamageIsCounted.
LEMMA DamageStep ==
    ASSUME LiveInv, LiveInv', PictureInv, PictureInv', Next, running',
           NEW i \in DOMAIN emitted' \ DOMAIN emitted,
           emitted'[i].nals # Nals(emitted'[i].timestamp)
    PROVE  \/ LostEstimate' > 0 \/ duplicates' > 0 \/ reordered' > 0
           \/ arrivals'[1] > Own(emitted'[i].timestamp)[1]
           \/ Foreign \in ToSet(arrivals')
<1> SUFFICES ASSUME ~ (LostEstimate' > 0), ~ (duplicates' > 0), ~ (reordered' > 0),
                    ~ (arrivals'[1] > Own(emitted'[i].timestamp)[1]),
                    Foreign \notin ToSet(arrivals')
             PROVE  FALSE
  OBVIOUS
<1>0. /\ LinkInv /\ DepackInvariant /\ emitted \in Seq(Units) /\ units' \in Seq(Units)
      /\ CountInv' /\ TrackerTypeOK' /\ InOrder'
      /\ arrivals \in Seq(0 .. Len(Script)) /\ (running => Follows /\ Gathering)
  BY DEF LiveInv, DepackInvariant, Recording, PictureInv, Counting
<1>1. ASSUME NEW k \in 1 .. Len(Script), Arrive(k), running PROVE FALSE
  <2>1. /\ PushPayload(Script[k]) /\ emitted' = emitted \o units'
        /\ arrivals' = Append(arrivals, k) /\ counted' = Append(counted, k)
    BY <1>1 DEF Arrive, Write
  <2>2. PICK x \in DOMAIN units' : emitted'[i] = units'[x]
    BY <1>0, <2>1, ReturnedGrows
  <2>3. k \in 0 .. Len(Script)
    BY SpaceIs
  <2>4. arrivals' # <<>> /\ counted' = arrivals' /\ Len(arrivals') \in Nat
        /\ 1 \in 1 .. Len(arrivals')
    <3>1. arrivals' # <<>> /\ Len(arrivals') = Len(arrivals) + 1 /\ Len(arrivals) \in Nat
      BY <1>0, <2>1, <2>3, OneArrival
    <3> QED
      BY <1>0, <3>1 DEF InOrder
  <2>5. duplicates' = 0 /\ reordered' = 0 /\ lost' = 0
    <3>1. duplicates' \in Nat /\ reordered' \in Nat /\ lost' \in Int
      BY <1>0 DEF TrackerTypeOK
    <3>2. reordered' = 0 => lost' >= 0
      BY <1>0 DEF InOrder
    <3> QED
      BY <3>1, <3>2 DEF LostEstimate
  <2>6. \A j \in 1 .. Len(arrivals') : arrivals'[j] = arrivals'[1] + j - 1
    BY <1>0, <2>4, <2>5 DEF InOrder
  <2>7. arrivals'[1] \in Nat \ {0}
    <3>1. counted' \in Seq(1 .. Len(Script))
      BY <1>0 DEF CountInv
    <3>2. arrivals'[1] \in 1 .. Len(Script)
      BY <2>4, <3>1, ElementOfSeq
    <3> QED
      BY <3>2, SpaceIs
  <2> DEFINE first == arrivals'[1]
  <2>8. ~ (first > Own(units'[x].timestamp)[1])
    BY <2>2
  <2>9. first \in Nat \ {0} /\ \A j \in 1 .. Len(arrivals') : arrivals'[j] = first + j - 1
    BY <2>6, <2>7
  <2> HIDE DEF first
  <2>10. units'[x].nals = Nals(units'[x].timestamp)
    BY <1>0, <1>1, <2>1, <2>8, <2>9, ArriveIsWhole
  <2> QED
    BY <2>2, <2>10
<1>2. CASE Deliver \/ DeliverCopied
  <2>1. sent + 1 \in 1 .. Len(Script)
    BY <1>0, <1>2, SpaceIs DEF LinkInv, Deliver, DeliverCopied
  <2> QED
    BY <1>1, <1>2, <2>1 DEF Deliver, DeliverCopied, Fault
<1>3. CASE DeliverLate
  <2>1. PICK k \in delayed : Arrive(k)
    BY <1>3 DEF DeliverLate
  <2>2. k \in 1 .. Len(Script) /\ running
    BY <1>0, <1>3 DEF LinkInv, DeliverLate
  <2> QED
    BY <1>1, <2>1, <2>2
<1>4. CASE Lose \/ Delay \/ Restart
  BY <1>4 DEF Lose, Delay, Restart
<1>5. CASE Stray
  <2>1. units' = <<>> /\ emitted' = emitted \o units'
    BY <1>5 DEF Stray, PushNotRtp, Write
  <2>2. emitted \o <<>> = emitted
    BY <1>0, ConcatEmptySeq
  <2> QED
    BY <2>1, <2>2
<1>6. CASE StrayStream
  <2>1. Foreign \in 0 .. Len(Script) /\ arrivals' = Append(arrivals, Foreign)
    BY <1>6, SpaceIs DEF StrayStream, Foreign
  <2>2. Len(arrivals) + 1 \in DOMAIN arrivals' /\ arrivals'[Len(arrivals) + 1] = Foreign
    BY <1>0, <2>1, OneArrival
  <2> QED
    BY <2>2 DEF ToSet
<1>7. CASE Stop
  BY <1>7 DEF Stop
<1> QED
  BY <1>2, <1>3, <1>4, <1>5, <1>6, <1>7 DEF Next

\* A picture whose packets came one after the other is returned whole, whatever happened
\* to the ones around it, and the file is what was returned from the first decodable one
\* on (Depacketizer::push_payload, examples/live.rs).
THEOREM CleanPictureIsReturned == Spec => []CleanPictureComesOut
<1>1. LiveInv /\ PictureInv => CleanPictureComesOut
  BY DEF LiveInv, Recording, PictureInv, CleanAreReturned, CleanPictureComesOut
<1> QED
  BY <1>1, LiveAlways, PicturesAlways, PTL

\* A unit that is not its whole picture goes with a loss, a copy or a late packet in the
\* counters, unless the stream was joined inside the picture or a stranger's packets got
\* in (SequenceTracker::observe beside Depacketizer::push_payload).
THEOREM DamageShows == Spec => DamageIsCounted
<1>1. LiveInv /\ LiveInv' /\ PictureInv /\ PictureInv' /\ [Next]_vars =>
        [ \A i \in DOMAIN emitted' \ DOMAIN emitted :
            LET u == emitted'[i]
            IN  (running' /\ u.timestamp # Foreign /\ u.nals # Nals(u.timestamp)) =>
                    \/ LostEstimate' > 0 \/ duplicates' > 0 \/ reordered' > 0
                    \/ arrivals'[1] > Own(u.timestamp)[1]
                    \/ Foreign \in ToSet(arrivals') ]_vars
  BY DamageStep
<1> QED
  BY <1>1, LiveAlways, PicturesAlways, PTL DEF Spec, DamageIsCounted
=============================================================================
