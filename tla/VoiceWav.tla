------------------------------- MODULE VoiceWav -------------------------------
(***************************************************************************)
(* From the packets of a capture to a file that plays: the packet header   *)
(* (OpusToc of src/voice.rs), the decoder and WAV writer of                *)
(* src/client/opus.rs, and what a caller does with them.  libopus is       *)
(* external: it refuses what RFC 6716 calls malformed, and any packet that *)
(* does not fit the buffer it is given.                                    *)
(***************************************************************************)
EXTENDS Integers, Sequences

CONSTANTS
    Captures,   \* sequences of [bytes, sound, lost]: sent, decodable, missed by the receiver
    Rates,      \* the output rates a decoder is made with
    U32_MAX     \* 2^32 - 1; a small one lets a capture outgrow its file

VARIABLE recording

\* A voice packet is never empty: an empty payload is the start of a capture.
VoicePackets == [bytes : Seq(0 .. 255) \ {<<>>}, sound : BOOLEAN, lost : BOOLEAN]

\* The rates libopus has a decoder for.
OpusRates == {8000, 12000, 16000, 24000, 48000}

ASSUME PlayerAssumption ==
    Captures \subseteq Seq(VoicePackets) /\ Rates \subseteq OpusRates /\ U32_MAX \in Nat

NoToc == [config |-> -1]

REQUESTED_SAMPLE_RATE_HZ == 16000
SAMPLES_PER_FRAME == REQUESTED_SAMPLE_RATE_HZ \div 50
MAX_SAMPLES_PER_PACKET == (REQUESTED_SAMPLE_RATE_HZ * 120) \div 1000

-----------------------------------------------------------------------------
(* OpusToc.                                                                *)

\* Code 3 has its frame count, and two flags, in a byte of its own.
OpusToc(bytes) ==
    LET toc == bytes[1]
        code == toc % 4
        count == bytes[2]
        Toc(frames, vbr, padding) ==
            [config |-> toc \div 8, stereo |-> (toc \div 4) % 2 = 1, code |-> code,
             frames |-> frames, vbr |-> vbr, padding |-> padding]
    IN  IF bytes = <<>> THEN NoToc
        ELSE CASE code \in {0, 1} -> Toc(code + 1, FALSE, FALSE)
               [] code = 2 -> Toc(2, TRUE, FALSE)
               [] code = 3 /\ Len(bytes) < 2 -> NoToc
               [] OTHER -> Toc(count % 64, count \div 128 = 1, (count \div 64) % 2 = 1)

mode(toc) ==
    CASE toc.config <= 11 -> "Silk" [] toc.config \in 12 .. 15 -> "Hybrid" [] OTHER -> "Celt"

bandwidth(toc) ==
    CASE toc.config \in (0 .. 3) \cup (16 .. 19) -> "Narrow"
      [] toc.config \in 4 .. 7 -> "Medium"
      [] toc.config \in (8 .. 11) \cup (20 .. 23) -> "Wide"
      [] toc.config \in (12 .. 13) \cup (24 .. 27) -> "SuperWide"
      [] OTHER -> "Full"

nominal_rate_hz ==
    [Narrow |-> 8000, Medium |-> 12000, Wide |-> 16000, SuperWide |-> 24000, Full |-> 48000]

\* Fault: the hybrid configurations have the durations of SILK.
frame_duration_us_hybrid_as_silk(toc) ==
    IF mode(toc) = "Celt"
    THEN <<2500, 5000, 10000, 20000>>[(toc.config % 4) + 1]
    ELSE <<10000, 20000, 40000, 60000>>[(toc.config % 4) + 1]

frame_duration_us(toc) ==
    CASE mode(toc) = "Silk" -> <<10000, 20000, 40000, 60000>>[(toc.config % 4) + 1]
      [] mode(toc) = "Hybrid" -> <<10000, 20000>>[(toc.config % 2) + 1]
      [] OTHER -> <<2500, 5000, 10000, 20000>>[(toc.config % 4) + 1]

\* 0 is None: a frame count of zero is malformed.
total_duration_us(toc) == frame_duration_us(toc) * toc.frames

\* us * rate / 1000000, in the u64 of the code: every duration is a multiple of
\* 500 us and every rate one of 1000 Hz.
decoded_samples(toc, rate) == ((total_duration_us(toc) \div 500) * (rate \div 1000)) \div 2

\* FfiGlassesOpusToc: what an app with a platform decoder is told of a packet.
FfiToc(toc) ==
    [mode |-> mode(toc), bandwidth |-> bandwidth(toc),
     nominal_rate_hz |-> nominal_rate_hz[bandwidth(toc)],
     total_duration_us |-> total_duration_us(toc), channels |-> IF toc.stereo THEN 2 ELSE 1]

-----------------------------------------------------------------------------
(* libopus: RFC 6716, in samples of 48 kHz.                                *)

FrameAt48k(config) ==
    CASE config <= 11 -> <<480, 960, 1920, 2880>>[(config % 4) + 1]
      [] config \in 12 .. 15 -> <<480, 960>>[(config % 2) + 1]
      [] OTHER -> <<120, 240, 480, 960>>[(config % 4) + 1]

FramesOf(bytes) ==
    CASE bytes[1] % 4 = 0 -> 1
      [] bytes[1] % 4 \in {1, 2} -> 2
      [] OTHER -> IF Len(bytes) < 2 THEN 0 ELSE bytes[2] % 64

SamplesAt48k(bytes) == FramesOf(bytes) * FrameAt48k(bytes[1] \div 8)

\* At least one frame, at most 120 ms, and a payload that makes sense.
Decodable(packet) == packet.sound /\ SamplesAt48k(packet.bytes) \in 1 .. 5760

NoSamples == -1

\* opus_decode: the samples returned, or an error for a buffer too short.
Libopus(packet, rate, room) ==
    LET samples == SamplesAt48k(packet.bytes) \div (48000 \div rate)
    IN  IF Decodable(packet) /\ samples <= room THEN samples ELSE NoSamples

\* No packet at all: it conceals as much as it is given room for, in steps of 2.5 ms.
Conceal(rate, room) == IF room % (rate \div 400) = 0 THEN room ELSE NoSamples

-----------------------------------------------------------------------------
(* VoiceDecoder and wav_bytes.                                             *)

decode_packet(packet) == Libopus(packet, recording.rate, MAX_SAMPLES_PER_PACKET)
decode_lost == Conceal(recording.rate, SAMPLES_PER_FRAME)

\* Fault: the header's own bytes after the size field are not counted.
wav_bytes_no_margin(samples, rate) ==
    IF samples * 2 > U32_MAX THEN [kind |-> "TooLong"]
    ELSE [kind |-> "Wav", riff |-> (36 + samples * 2) % (U32_MAX + 1), rate |-> rate,
          byte_rate |-> rate * 2, data |-> samples * 2, bytes |-> 44 + samples * 2]

\* RIFF, 16 bit mono PCM: sizes are 32 bits, and one that would not fit is an error.
wav_bytes(samples, rate) ==
    IF samples * 2 > U32_MAX - 36 THEN [kind |-> "TooLong"]
    ELSE [kind |-> "Wav", riff |-> (36 + samples * 2) % (U32_MAX + 1), rate |-> rate,
          byte_rate |-> rate * 2, data |-> samples * 2, bytes |-> 44 + samples * 2]

PlayerInit ==
    \E capture \in Captures, rate \in Rates, conceals \in BOOLEAN :
        recording = [capture |-> capture, next |-> 1, rate |-> rate, conceals |-> conceals,
                     pcm |-> 0, skipped |-> 0, file |-> [kind |-> "None"]]

PlayerIdle == recording = [next |-> 1, capture |-> <<>>, file |-> [kind |-> "Idle"]]

Writing == recording.file.kind = "None"
At(i) == recording.capture[i]

\* A sample count taken into the capture's buffer, or a packet skipped.
Take(samples) ==
    recording' = IF samples = NoSamples
                 THEN [recording EXCEPT !.next = @ + 1, !.skipped = @ + 1]
                 ELSE [recording EXCEPT !.next = @ + 1, !.pcm = @ + samples]

\* decode_all_counted: one packet libopus refuses costs that packet.
DecodeNext ==
    /\ Writing /\ recording.next <= Len(recording.capture) /\ ~ At(recording.next).lost
    /\ Take(decode_packet(At(recording.next)))

\* A packet comes at the i-th or after it, which shows that it is missing.
Resumes(capture, i) == \E j \in i .. Len(capture) : ~ capture[j].lost

\* A packet the receiver missed: a caller that sees the gap in the indices, once a
\* later packet has come, may have it concealed; decode_all never does.
PassGap ==
    /\ Writing /\ recording.next <= Len(recording.capture) /\ At(recording.next).lost
    /\ IF recording.conceals /\ Resumes(recording.capture, recording.next)
       THEN Take(decode_lost)
       ELSE recording' = [recording EXCEPT !.next = @ + 1]

\* write_voice: the PCM goes into a file of the decoder's rate.
WriteWav ==
    /\ Writing /\ recording.next > Len(recording.capture)
    /\ recording' = [recording EXCEPT !.file = wav_bytes(recording.pcm, recording.rate)]

PlayerNext == DecodeNext \/ PassGap \/ WriteWav

PlayerSpec == PlayerInit /\ [][PlayerNext]_recording

-----------------------------------------------------------------------------
\* An app that sizes its own buffer from the header is never short of room: every
\* packet a decoder accepts has a header, whose length at any rate is the one
\* that comes out, which its microseconds and channels agree with.
AnnouncedIsDecoded ==
    Writing /\ recording.next <= Len(recording.capture) /\ Decodable(At(recording.next)) =>
        LET packet == At(recording.next)
            toc == OpusToc(packet.bytes)
        IN  /\ toc # NoToc
            /\ \A rate \in OpusRates :
                    decoded_samples(toc, rate) = SamplesAt48k(packet.bytes) \div (48000 \div rate)
            /\ (FfiToc(toc).total_duration_us \div 500) * 24 = SamplesAt48k(packet.bytes)

\* Tenths of a millisecond that should be heard of a packet.
Heard(packet, concealed) ==
    CASE packet.lost -> IF concealed THEN 200 ELSE 0
      [] ~ packet.lost /\ Decodable(packet) -> (SamplesAt48k(packet.bytes) * 5) \div 24
      [] OTHER -> 0

HeardTurns(capture, conceals) ==
    LET heard[i \in 0 .. Len(capture)] ==
            IF i = 0 THEN 0
            ELSE heard[i - 1] + Heard(capture[i], conceals /\ Resumes(capture, i))
    IN  heard

\* Of a capture, and of what of it has been decoded.
HeardUpTo(i) == HeardTurns(recording.capture, recording.conceals)[i]

\* A voice file plays exactly as long as the capture did: at the rate the crate
\* asks for, every packet a decoder can make something of is in it, a damaged one
\* costs itself only, a concealed one lasts its 20 ms; and at any rate the sizes in
\* the header are those of the file, or there is no file.
WavPlaysTheCapture ==
    recording.file.kind = "Wav" =>
        /\ recording.file.riff + 8 = recording.file.bytes
        /\ recording.file.data + 44 = recording.file.bytes
        /\ recording.rate = REQUESTED_SAMPLE_RATE_HZ =>
             recording.file.data * 10000 =
                 recording.file.byte_rate * HeardUpTo(Len(recording.capture))
=============================================================================
