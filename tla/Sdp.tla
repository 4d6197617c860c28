----------------------------------- MODULE Sdp -----------------------------------
(***************************************************************************)
(* The session descriptions of src/sdp.rs, a line at a time.  A word has   *)
(* its spelling, the lower case of it and its value as a number; a line    *)
(* has the letter before the first "=", the name of an attribute, and the  *)
(* words of its value.                                                     *)
(***************************************************************************)
EXTENDS Integers, FiniteSetsExt, SequencesExt

None == -1                      \* also the number of a word that is none

Spelled(text, low) == [text |-> text, low |-> low, num |-> None, sets |-> <<>>]
Word(text) == Spelled(text, text)
Num(n) == [Word("number") EXCEPT !.num = n]
Base64(sets) == [Word("base64") EXCEPT !.sets = sets]
Absolute == {"rtsp://other/track1"}

\* params: the fmtp parameters, [key, value] with a word each.
Line(letter, name, words, params) ==
    [letter |-> letter, name |-> name, words |-> words, params |-> params]
BlankLine == Line("blank", "", <<>>, <<>>)
BadLine == Line("bad", "", <<>>, <<>>)      \* no "=", or more than a letter before it

Bytes8 == 0 .. 255
IsU8(word) == word.num \in Bytes8

-----------------------------------------------------------------------------
(* A parsed m= section and what is asked of it.                            *)

eq_ignore_ascii_case(word, low) == word.low = low

\* The first parameter of that name, whatever its case.
get(fmtp, low) ==
    LET found == {i \in DOMAIN fmtp.params : eq_ignore_ascii_case(fmtp.params[i].key, low)}
    IN  IF found = {} THEN Word("absent") ELSE fmtp.params[Min(found)].value
get_u32(fmtp, low) == get(fmtp, low).num

\* A character stands for six bits; Pad is "=" or a blank, None outside the alphabet.
Pad == 64

base64_decode(sixes) ==
    LET Take(s, six) ==
            LET acc == (s.acc * 64 + six) % 16384
            IN  IF s.bits + 6 < 8 THEN [s EXCEPT !.acc = acc, !.bits = @ + 6]
                ELSE [acc |-> acc, bits |-> s.bits - 2,
                      out |-> Append(s.out, (acc \div 2 ^ (s.bits - 2)) % 256)]
    IN  FoldLeft(Take, [acc |-> 0, bits |-> 0, out |-> <<>>],
                 SelectSeq(sixes, LAMBDA six : six # Pad)).out

\* sprop-parameter-sets; a set that does not decode is left out.
sprop_nal_units(fmtp) ==
    LET sets == SelectSeq(get(fmtp, "sprop-parameter-sets").sets, LAMBDA x : None \notin ToSet(x))
    IN  [i \in DOMAIN sets |-> base64_decode(sets[i])]

setup_url(m, base) ==
    CASE m.control \in {"", "*"} -> <<base>>
      [] m.control \in Absolute -> <<m.control>>
      [] OTHER -> <<base, m.control>>

is_h264(m) == m.rtpmap # <<>> /\ eq_ignore_ascii_case(m.rtpmap[1].encoding, "h264")
is_mpeg4_audio(m) == m.rtpmap # <<>> /\ eq_ignore_ascii_case(m.rtpmap[1].encoding, "mpeg4-generic")

-----------------------------------------------------------------------------
(* What is wrong with a line, "" for nothing, and what it says if nothing. *)

MediaLineFault(w) ==
    CASE Len(w) < 2 -> "BadMediaLine"
      [] Len(w) >= 2 /\ w[2].num \notin 0 .. 65535 -> "BadNumber"
      [] OTHER -> CASE Len(w) < 3 -> "BadMediaLine"
                    [] \E i \in 4 .. Len(w) : ~ IsU8(w[i]) -> "BadNumber"
                    [] Len(w) = 3 -> "BadMediaLine"
                    [] OTHER -> ""

parse_media_line(w) ==
    [kind |-> w[1].text, port |-> w[2].num, protocol |-> w[3].text,
     formats |-> [i \in 1 .. Len(w) - 3 |-> w[i + 3].num], payload_type |-> w[4].num,
     rtpmap |-> <<>>, fmtp |-> <<>>, control |-> "", attributes |-> <<>>]

\* <pt> <encoding>/<clock>[/<channels>]
RtpMapFault(w) ==
    CASE Len(w) < 2 -> "BadRtpMap"
      [] Len(w) >= 2 /\ ~ IsU8(w[1]) -> "BadNumber"
      [] OTHER -> CASE Len(w) = 2 -> "BadRtpMap"
                    [] w[3].num = None \/ (Len(w) > 3 /\ ~ IsU8(w[4])) -> "BadNumber"
                    [] OTHER -> ""

parse_rtpmap(w) ==
    [payload_type |-> w[1].num, encoding |-> w[2], clock_rate |-> w[3].num,
     channels |-> IF Len(w) > 3 THEN w[4].num ELSE None]

FmtpFault(line) ==
    CASE line.params = <<>> -> "BadLine"
      [] line.params # <<>> /\ ~ IsU8(line.words[1]) -> "BadNumber"
      [] OTHER -> ""

parse_fmtp(line) == [payload_type |-> line.words[1].num, params |-> line.params]

AttributeFault(line) ==
    CASE line.name = "rtpmap" /\ line.words # <<>> -> RtpMapFault(line.words)
      [] line.name = "fmtp" /\ line.words # <<>> -> FmtpFault(line)
      [] OTHER -> ""

\* An attribute without a colon has no words and is only kept.
apply_media_attribute(m, line) ==
    LET kept == [m EXCEPT !.attributes = Append(@, <<line.name, line.words>>)]
    IN  CASE line.words = <<>> -> kept
          [] line.words # <<>> /\ line.name = "rtpmap" ->
               [kept EXCEPT !.rtpmap = <<parse_rtpmap(line.words)>>]
          [] line.words # <<>> /\ line.name = "fmtp" -> [kept EXCEPT !.fmtp = <<parse_fmtp(line)>>]
          [] line.words # <<>> /\ line.name = "control" ->
               [kept EXCEPT !.control = line.words[1].text]
          [] OTHER -> kept

\* Fault: a section that makes no sense is left out.
SkipsBadMedia(line, inside) ==
    CASE line.letter = "bad" -> "BadLine"
      [] line.letter = "a" /\ inside -> AttributeFault(line)
      [] OTHER -> ""

LineFault(line, inside) ==
    CASE line.letter = "bad" -> "BadLine"
      [] line.letter = "m" -> MediaLineFault(line.words)
      [] line.letter = "a" /\ inside -> AttributeFault(line)
      [] OTHER -> ""

\* What a line without fault adds; the section being read is the last one.
ReadLine(sd, line) ==
    LET inside == sd.media # <<>>
    IN  CASE line.letter \in {"v", "o", "s"} -> [sd EXCEPT !.session[line.letter] = line.words]
          [] line.letter = "c" /\ ~ inside -> [sd EXCEPT !.session.c = line.words]
          [] line.letter = "c" /\ inside ->
               [sd EXCEPT !.media[Len(sd.media)].attributes = Append(@, <<"c", line.words>>)]
          [] line.letter = "m" /\ MediaLineFault(line.words) = "" ->
               [sd EXCEPT !.media = Append(@, parse_media_line(line.words))]
          [] line.letter = "a" /\ ~ inside ->
               [sd EXCEPT !.attributes = Append(@, <<line.name, line.words>>)]
          [] line.letter = "a" /\ inside ->
               [sd EXCEPT !.media[Len(sd.media)] = apply_media_attribute(@, line)]
          [] OTHER -> sd

sdp_parse(lines) ==
    LET Take(sd, line) ==
            IF sd.fault # "" THEN sd
            ELSE LET fault == LineFault(line, sd.media # <<>>)
                 IN  IF fault # "" THEN [sd EXCEPT !.fault = fault] ELSE ReadLine(sd, line)
        empty == [fault |-> "", session |-> [v |-> <<>>, o |-> <<>>, s |-> <<>>, c |-> <<>>],
                  attributes |-> <<>>, media |-> <<>>]
        sd == FoldLeft(Take, empty, lines)
    IN  IF sd.fault = "" /\ sd.media = <<>> THEN [sd EXCEPT !.fault = "NoMedia"] ELSE sd

\* SessionDescription::video and audio: the first section of the kind.
section(sd, kind) ==
    LET found == {i \in DOMAIN sd.media : sd.media[i].kind = kind}
    IN  IF found = {} THEN <<>> ELSE <<sd.media[Min(found)]>>

\* What the foreign interface hands over: of a section the map and the parameters.
FfiMedia(m) ==
    [kind |-> m.kind, port |-> m.port, protocol |-> m.protocol, payload_type |-> m.payload_type,
     rtpmap |-> m.rtpmap, control |-> m.control,
     fmtp |-> IF m.fmtp = <<>> THEN <<>> ELSE m.fmtp[1].params,
     sprop_nal_units |-> IF m.fmtp = <<>> THEN <<>> ELSE sprop_nal_units(m.fmtp[1])]

glasses_parse_sdp(lines) ==
    LET sd == sdp_parse(lines)
    IN  IF sd.fault # "" THEN [ok |-> FALSE, media |-> <<>>]
        ELSE [ok |-> TRUE, media |-> [i \in DOMAIN sd.media |-> FfiMedia(sd.media[i])]]
=============================================================================
