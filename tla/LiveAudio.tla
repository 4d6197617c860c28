-------------------------------- MODULE LiveAudio --------------------------------
(***************************************************************************)
(* The audio half of the live view: the session description the glasses    *)
(* answer DESCRIBE with, the RTP datagrams of src/rtp.rs, the access units *)
(* of src/aac.rs and the ADTS file that src/examples/live.rs writes.  Of a *)
(* datagram only the header fields, the AU headers bit by bit and the      *)
(* lengths are kept; a frame is the datagram it came in and the bytes of   *)
(* it, [from, to).                                                         *)
(***************************************************************************)
EXTENDS Sdp

CONSTANTS
    Descriptions,   \* what the glasses may say: [lines, widths, asc, payload_type, sets, url]
    Script          \* what they send: [version, csrcs, extension, padding, units, part]

HEADER_BYTES == 12
ADTS_HEADER_BYTES == 7
MAX_ADTS_FRAME_BYTES == 8191

SAMPLE_RATES ==
    <<96000, 88200, 64000, 48000, 44100, 32000, 24000, 22050, 16000, 12000, 11025, 8000, 7350>>

GLASSES_ASC ==
    [object_type |-> 2, frequency_index |-> 8, channels |-> 1, sample_rate_hz |-> 16000]
GLASSES_WIDTHS == [size_length |-> 13, index_length |-> 3, index_delta_length |-> 3]

VARIABLES
    described,      \* "idle", "asked", "yes", "refused"
    served,         \* the description the glasses answer with
    lines,          \* and its lines as they arrive
    player,         \* what the client took from it: [widths, asc, payload_type]
    onair,          \* the datagrams of the script still to arrive
    arrivals,       \* history: those that did, in order
    aac,            \* Depacketizer: [frames, bytes, errors]
    adts            \* the file: [header, frame] one after the other

audio == <<described, served, lines, player, onair, arrivals, aac, adts>>

-----------------------------------------------------------------------------
(* AudioSpecificConfig and the widths, out of the fmtp line.               *)

Bits(word, shift, width) == (word \div 2 ^ shift) % 2 ^ width

\* The first two bytes of the config, None for hex text that is none.
parse_audio_specific_config(word) ==
    LET object_type == Bits(word, 11, 5)
        index == Bits(word, 7, 4)
    IN  IF word = None \/ object_type \in {0, 31} \/ index >= Len(SAMPLE_RATES) THEN <<>>
        ELSE <<[object_type |-> object_type, frequency_index |-> index,
                channels |-> Bits(word, 3, 4), sample_rate_hz |-> SAMPLE_RATES[index + 1]]>>

\* The two index widths default to 0; each is cut to a byte.
from_fmtp(fmtp) ==
    LET size == get_u32(fmtp, "sizelength")
        OrZero(n) == IF n = None THEN 0 ELSE n % 256
    IN  IF size = None THEN <<>>
        ELSE <<[size_length |-> size % 256,
                index_length |-> OrZero(get_u32(fmtp, "indexlength")),
                index_delta_length |-> OrZero(get_u32(fmtp, "indexdeltalength"))]>>

first_header_bits(widths) == widths.size_length + widths.index_length
later_header_bits(widths) == widths.size_length + widths.index_delta_length

\* live.rs: what the description does not say keeps the glasses' own values.
Chosen(sd) ==
    LET track == section(sd, "audio")
        fmtp == IF track = <<>> THEN <<>> ELSE track[1].fmtp
        OrElse(found, otherwise) == IF found = <<>> THEN otherwise ELSE found[1]
    IN  [widths |-> IF fmtp = <<>> THEN GLASSES_WIDTHS ELSE OrElse(from_fmtp(fmtp[1]), GLASSES_WIDTHS),
         asc |-> IF fmtp = <<>> THEN GLASSES_ASC
                 ELSE OrElse(parse_audio_specific_config(get_u32(fmtp[1], "config")), GLASSES_ASC),
         payload_type |-> IF track = <<>> THEN 97 ELSE track[1].payload_type]

-----------------------------------------------------------------------------
(* rtp::parse: where the payload of a datagram starts and ends.            *)

rtp_parse(d) ==
    LET fixed == HEADER_BYTES + 4 * d.csrcs
        offset == IF d.extension = None THEN fixed ELSE fixed + 4 + 4 * d.extension
        stated == IF d.padding = None THEN 0 ELSE d.padding
    IN  IF \/ d.len < HEADER_BYTES                          \* TooShort
           \/ d.version # 2                                 \* BadVersion
           \/ offset > d.len                                \* TruncatedCsrc, TruncatedExtension
           \/ d.padding # None /\ (stated = 0 \/ stated > d.len - offset)
        THEN [ok |-> FALSE] ELSE [ok |-> TRUE, from |-> offset, to |-> d.len - stated]

-----------------------------------------------------------------------------
(* RFC 3640: AU-headers-length in bits, the headers, the access units.     *)

\* BitReader::read of count bits after the first at; None when they run out.
read(bits, at, count) ==
    IF at + count > Len(bits) THEN None
    ELSE FoldLeft(LAMBDA out, bit : 2 * out + bit, 0, SubSeq(bits, at + 1, at + count))

\* Fault: every header as wide as the first.
HeaderBitsAlike(widths, n) == first_header_bits(widths)

HeaderBits(widths, n) == IF n = 0 THEN first_header_bits(widths) ELSE later_header_bits(widths)

\* The sizes of the units; <<None>> when the headers do not add up.
RECURSIVE AuSizes(_, _, _, _)
AuSizes(d, widths, consumed, sizes) ==
    LET bits == HeaderBits(widths, Len(sizes))
        size == read(d.header, consumed, widths.size_length)
    IN  CASE consumed >= d.declared -> sizes
          [] consumed < d.declared /\ consumed + bits > d.declared -> <<None>>
          [] OTHER -> AuSizes(d, widths, consumed + bits, Append(sizes, size))

Sum(sizes) == FoldLeft(LAMBDA sum, n : sum + n, 0, sizes)

\* The frames as byte intervals, or the error.
depacketize(d, from, to, widths) ==
    LET start == from + 2 + (d.declared + 7) \div 8
        sizes == AuSizes(d, widths, 0, <<>>)
        Frame(i) == [from |-> start + Sum(SubSeq(sizes, 1, i - 1)),
                     to |-> start + Sum(SubSeq(sizes, 1, i))]
    IN  IF \/ widths.size_length = 0                        \* ZeroSizeLength
           \/ to - from < 2                                 \* PayloadTooShort
           \/ start > to \/ sizes = <<None>>                \* BadAuHeadersLength
           \/ start + Sum(sizes) > to                       \* TruncatedAu
        THEN [ok |-> FALSE, frames |-> <<>>]
        ELSE [ok |-> TRUE, frames |-> [i \in DOMAIN sizes |-> Frame(i)]]

\* Depacketizer::push: any payload type is taken for audio.
Frames(d, widths) ==
    LET packet == rtp_parse(d)
    IN  IF packet.ok THEN depacketize(d, packet.from, packet.to, widths)
        ELSE [ok |-> FALSE, frames |-> <<>>]

-----------------------------------------------------------------------------
(* ADTS: each byte is 8 bits wide, what does not fit is shifted out.       *)

\* <<>> when the frame does not fit the 13 bits of its length.
adts_header(asc, frame_len) ==
    LET len == frame_len + ADTS_HEADER_BYTES
    IN  IF len > MAX_ADTS_FRAME_BYTES \/ asc.object_type = 0 THEN <<>>
        ELSE <<255, 241,
               ((asc.object_type - 1) * 64 + (asc.frequency_index % 16) * 4
                  + (asc.channels % 8) \div 4) % 256,
               (asc.channels % 4) * 64 + Bits(len, 11, 2), Bits(len, 3, 8),
               Bits(len, 0, 3) * 32 + 31, 252>>

adts_frame_length(header) ==
    IF Len(header) < ADTS_HEADER_BYTES \/ header[1] # 255 \/ Bits(header[2], 4, 4) # 15 THEN None
    ELSE Bits(header[4], 0, 2) * 2048 + header[5] * 8 + Bits(header[6], 5, 3)

\* Of the foreign interface: always the glasses' own config.
glasses_adts_header(frame_len) == adts_header(GLASSES_ASC, frame_len)

-----------------------------------------------------------------------------
(* The glasses: units go out under the widths they describe.               *)

BitsOf(n, width) == [i \in 1 .. width |-> Bits(n, width - i, 1)]

HeaderOf(widths, units) ==
    FlattenSeq([i \in DOMAIN units |->
        BitsOf(units[i], widths.size_length)
          \o BitsOf(0, IF i = 1 THEN widths.index_length ELSE widths.index_delta_length)])

\* A fragment has the size of the whole unit in its header and part bytes of it.
Datagram(item, widths) ==
    LET bits == HeaderOf(widths, item.units)
        data == IF item.part = None THEN Sum(item.units) ELSE item.part
        pad == IF item.padding = None THEN 0 ELSE item.padding
        ext == IF item.extension = None THEN 0 ELSE 4 + 4 * item.extension
    IN  [version |-> item.version, csrcs |-> item.csrcs, extension |-> item.extension,
         padding |-> item.padding, declared |-> Len(bits),
         header |-> bits \o [i \in 1 .. 8 * ((Len(bits) + 7) \div 8) - Len(bits) |-> 0],
         len |-> HEADER_BYTES + 4 * item.csrcs + ext + 2 + (Len(bits) + 7) \div 8 + data + pad]

AudioInit ==
    /\ served \in Descriptions
    /\ described = "asked" /\ lines = served.lines
    /\ player = [widths |-> GLASSES_WIDTHS, asc |-> GLASSES_ASC, payload_type |-> 97]
    /\ onair = {} /\ arrivals = <<>> /\ adts = <<>>
    /\ aac = [frames |-> 0, bytes |-> 0, errors |-> 0]

AudioIdle ==
    /\ described = "idle" /\ served = <<>> /\ lines = <<>> /\ player = <<>>
    /\ onair = {} /\ arrivals = <<>> /\ aac = <<>> /\ adts = <<>>

\* A server that writes a line without some of its words, or one no client knows.
Mangle ==
    /\ described = "asked" /\ lines = served.lines
    /\ \E i \in DOMAIN lines :
          \/ \E n \in 0 .. Len(lines[i].words) - 1 :
                lines' = [lines EXCEPT ![i].words = SubSeq(@, 1, n)]
          \/ \E k \in DOMAIN lines[i].words :
                lines' = [lines EXCEPT ![i].words[k] = Word("gibberish")]
          \/ \E x \in {BlankLine, BadLine, Line("z", "", <<Word("x")>>, <<>>)} :
                lines' = InsertAt(lines, i, x)
    /\ UNCHANGED <<described, served, player, onair, arrivals, aac, adts>>

\* Event::Described, and the session plays on.
Describe ==
    /\ described = "asked"
    /\ LET sd == sdp_parse(lines)
       IN  IF sd.fault # "" THEN described' = "refused" /\ UNCHANGED <<player, onair>>
           ELSE /\ described' = "yes"
                /\ player' = Chosen(sd)
                /\ onair' = IF lines = served.lines THEN DOMAIN Script ELSE {}
    /\ UNCHANGED <<served, lines, arrivals, aac, adts>>

\* One turn of the media loop: a datagram, its frames, and those that fit in the file.
Receive(i) ==
    LET d == Datagram(Script[i], served.widths)
        out == Frames(d, player.widths)
        Written(f) == [header |-> adts_header(player.asc, f.to - f.from),
                       frame |-> [packet |-> i, from |-> f.from, to |-> f.to]]
        all == [k \in DOMAIN out.frames |-> Written(out.frames[k])]
    IN  /\ onair' = onair \ {i}
        /\ arrivals' = Append(arrivals, i)
        /\ aac' = [frames |-> aac.frames + Len(out.frames),
                   bytes |-> aac.bytes + Sum([k \in DOMAIN out.frames |->
                                                out.frames[k].to - out.frames[k].from]),
                   errors |-> aac.errors + (IF out.ok THEN 0 ELSE 1)]
        /\ adts' = adts \o SelectSeq(all, LAMBDA f : f.header # <<>>)
        /\ UNCHANGED <<described, served, lines, player>>

Lost(i) ==
    /\ onair' = onair \ {i}
    /\ UNCHANGED <<described, served, lines, player, arrivals, aac, adts>>

AudioNext == Mangle \/ Describe \/ \E i \in onair : Receive(i) \/ Lost(i)

-----------------------------------------------------------------------------
\* The sections and attribute lines of a kind that the description has.
Lines(letter, name) ==
    SelectSeq(lines, LAMBDA x : x.letter = letter /\ x.name = name /\ x.words # <<>>)

\* A track is never silently dropped (sdp.rs:283): what the app is handed has every
\* section of the description in order, with its payload type, and every map,
\* track and parameter set the server wrote, however it spells its keys; if it
\* cannot, there is no session.
TracksAreDescribed ==
    LET app == glasses_parse_sdp(lines)
        sections == SelectSeq(lines, LAMBDA x : x.letter = "m")
        Maps == SelectSeq(app.media, LAMBDA m : m.rtpmap # <<>>)
    IN  described = "yes" =>
        /\ app.ok /\ Len(app.media) = Len(sections)
        /\ \A i \in DOMAIN sections :
              /\ app.media[i].kind = sections[i].words[1].text
              /\ app.media[i].payload_type = sections[i].words[4].num
        /\ Len(Maps) = Len(Lines("a", "rtpmap"))
        /\ lines = served.lines =>
             /\ player = [widths |-> served.widths, asc |-> served.asc,
                          payload_type |-> served.payload_type]
             /\ \E i \in DOMAIN app.media : app.media[i].sprop_nal_units = served.sets
             /\ LET sd == sdp_parse(lines)
                IN  /\ is_h264(section(sd, "video")[1]) /\ is_mpeg4_audio(section(sd, "audio")[1])
                    /\ setup_url(section(sd, "audio")[1], "base") = served.url

\* The units of a datagram that arrive whole, as the glasses put them there.
SentUnits(i) ==
    LET item == Script[i]
        d == Datagram(item, served.widths)
        pad == IF item.padding = None THEN 0 ELSE item.padding
        end == d.len - pad
        From(k) == end - Sum(SubSeq(item.units, k, Len(item.units)))
    IN  IF item.version # 2 \/ item.part # None THEN <<>>
        ELSE [k \in DOMAIN item.units |->
                [packet |-> i, from |-> From(k), to |-> From(k) + item.units[k]]]

\* A frame that a player finds by the length in its header, and plays at the rate
\* and with the channels of the stream.
Playable(f) ==
    LET h == f.header
    IN  /\ adts_frame_length(h) = ADTS_HEADER_BYTES + f.frame.to - f.frame.from
        /\ Bits(h[3], 6, 2) + 1 = served.asc.object_type
        /\ SAMPLE_RATES[Bits(h[3], 2, 4) + 1] = served.asc.sample_rate_hz
        /\ Bits(h[3], 0, 1) * 4 + Bits(h[4], 6, 2) = served.asc.channels
        /\ served.asc = GLASSES_ASC => h = glasses_adts_header(f.frame.to - f.frame.from)

\* The file holds exactly the units of the datagrams that arrived, each with its
\* own bytes and in order of arrival, less those too long for ADTS; a player that
\* knows nothing but the file finds and plays each; and what gives no frame is
\* counted as an error.
FileIsWhatWasSent ==
    described = "yes" =>
        LET units == FlattenSeq([k \in DOMAIN arrivals |-> SentUnits(arrivals[k])])
            Fits(f) == f.to - f.from + ADTS_HEADER_BYTES <= MAX_ADTS_FRAME_BYTES
        IN  /\ [k \in DOMAIN adts |-> adts[k].frame] = SelectSeq(units, Fits)
            /\ \A k \in DOMAIN adts : Playable(adts[k])
            /\ aac.frames = Len(units)
            /\ aac.errors = Cardinality({k \in DOMAIN arrivals : SentUnits(arrivals[k]) = <<>>})
=============================================================================
