------------------------------- MODULE MCReaders -------------------------------
(***************************************************************************)
(* The readers of what the glasses say, one at a time: a reply of the web  *)
(* server, a description and the audio it announces, a capture of the      *)
(* microphone, or the responses of the RTSP server.                        *)
(***************************************************************************)
EXTENDS FileApi, LiveAudio, VoiceWav, RtspMessage

Day(s) == <<2026, 7, 27, 22, 37, s>>
File(folder, base, bytes, second) == [name |-> <<folder, base>>, bytes |-> bytes, when |-> Day(second)]

MCContents ==
    {<<[folder |-> "EVENT", files |-> <<File("EVENT", "a b", 5, 16), File("EVENT", "c", 23, 60)>>]>>,
     <<[folder |-> "AAC", files |-> <<>>],
       [folder |-> "LOOP", files |-> <<File("EMR", "c", 1, 0)>>]>>}

MCStyles ==
    {[reversed |-> FALSE, unknown |-> FALSE, miscount |-> FALSE, gap |-> <<>>],
     [reversed |-> TRUE, unknown |-> TRUE, miscount |-> TRUE, gap |-> <<Blank>>]}

MCEscape == [x \in {"a b"} |-> "a%20b"]

MCJunk == {Lexeme("junk"), Lexeme("{"), Lexeme("["), Lexeme("}"), Lexeme(","), Blank,
           Fraction, Key("result"), CutString}

\* A description as the glasses write it, and its audio.
Param(text, low, v) == [key |-> Spelled(text, low), value |-> v]
Attribute(name, words, params) == Line("a", name, words, params)
Head_ == <<Line("v", "", <<Num(0)>>, <<>>), Line("s", "", <<Word("Test")>>, <<>>),
           Line("c", "", <<Word("IN")>>, <<>>), Attribute("decode_buf=300", <<>>, <<>>)>>
Video ==
    <<Line("m", "", <<Word("video"), Num(0), Word("RTP/AVP"), Num(96)>>, <<>>),
      Attribute("rtpmap", <<Num(96), Spelled("H264", "h264"), Num(90000)>>, <<>>),
      Attribute("fmtp", <<Num(96)>>,
        <<Param("packetization-mode", "packetization-mode", Num(1)),
          Param("sprop-parameter-sets", "sprop-parameter-sets",
                Base64(<<<<25, 52, 8, None>>, <<25, 52, 8, 40, Pad>>, <<26, 14, Pad, Pad>>>>))>>),
      Attribute("control", <<Word("track0")>>, <<>>)>>
Audio(fmtp, control) ==
    <<Line("m", "", <<Word("audio"), Num(0), Word("RTP/AVP"), Num(97)>>, <<>>),
      Line("c", "", <<Word("IN")>>, <<>>),
      Attribute("rtpmap", <<Num(97), Word("mpeg4-generic"), Num(16000), Num(1)>>, <<>>)>>
    \o (IF fmtp = <<>> THEN <<>> ELSE <<Attribute("fmtp", <<Num(97)>>, fmtp)>>)
    \o <<Attribute("control", <<Word(control)>>, <<>>)>>

\* "Z0I?" is no base64, "Z0Io=" is 103 66 40, "aO==" is 104.
MCSets == <<<<103, 66, 40>>, <<104>>>>
Fmtp(widths, config) ==
    <<Param("mode", "mode", Word("AAC-hbr")),
      Param("sizeLength", "sizelength", Num(widths[1])),
      Param("indexlength", "indexlength", Num(widths[2])),
      Param("indexdeltalength", "indexdeltalength", Num(widths[3])),
      Param("config", "config", Num(config))>>
Widths(w) == [size_length |-> w[1], index_length |-> w[2], index_delta_length |-> w[3]]
Stereo == [object_type |-> 4, frequency_index |-> 4, channels |-> 2, sample_rate_hz |-> 44100]

Says(some, widths, asc, url) ==
    [lines |-> some, widths |-> widths, asc |-> asc, payload_type |-> 97, sets |-> MCSets, url |-> url]
MCDescriptions ==
    {Says(Head_ \o Video \o Audio(Fmtp(<<13, 3, 3>>, 5128), "track1"),
          GLASSES_WIDTHS, GLASSES_ASC, <<"base", "track1">>),
     Says(Head_ \o Audio(Fmtp(<<13, 3, 1>>, 8720), "*") \o Video,
          Widths(<<13, 3, 1>>), Stereo, <<"base">>),
     Says(Head_ \o Video \o Audio(<<>>, "rtsp://other/track1"),
          GLASSES_WIDTHS, GLASSES_ASC, <<"rtsp://other/track1">>)}

Item(units) ==
    [version |-> 2, csrcs |-> 0, extension |-> None, padding |-> None, units |-> units, part |-> None]
MCScript ==
    <<Item(<<5, 8184>>),
      [Item(<<8185, 3, 2>>) EXCEPT !.csrcs = 1, !.extension = 2, !.padding = 4],
      [Item(<<300>>) EXCEPT !.part = 100],
      [Item(<<3>>) EXCEPT !.version = 1],
      [Item(<<4>>) EXCEPT !.extension = 0]>>

Packet(bytes) == [bytes |-> bytes, sound |-> TRUE, lost |-> FALSE]

\* Every header there is, with frame counts about the limits of each duration.
MCHeaders ==
    {<<toc>> : toc \in 0 .. 255}
        \cup {<<toc, count>> : toc \in {t \in 0 .. 255 : t % 4 = 3}, count \in {0, 1, 65, 130, 3, 12, 48, 49, 63}}

\* Captures of the packets the glasses send, of long ones, with a packet damaged
\* or lost in every place.
Sent == {Packet(<<72>>), Packet(<<75, 65>>), Packet(<<89>>),
         [Packet(<<72>>) EXCEPT !.sound = FALSE], [Packet(<<72>>) EXCEPT !.lost = TRUE]}
MCCaptures == {<<Packet(h)>> : h \in MCHeaders} \cup [1 .. 2 -> Sent] \cup [1 .. 3 -> Sent]

\* Answers to a SETUP and a DESCRIBE, a body that looks like a header, and flaws.
Reply(status, session, ports, body, flaw) ==
    [status |-> status, cseq |-> 2, session |-> session, ports |-> ports, body |-> body, flaw |-> flaw]
Id == Part("id", Absent)
MCReplies ==
    {Reply(200, <<Id>>, <<9000, 9001>>, <<>>, Absent),
     Reply(200, <<Id, Part("timeout=60", Absent)>>, <<9000>>, <<>>, Absent),
     Reply(201, <<Id>>, <<65535>>, <<>>, Absent),
     Reply(200, Absent, Absent, <<LF, LF, CR, LF, CR, LF, Status("RTSP/", 200)>>, Absent),
     Reply(461, Absent, Absent, <<>>, Absent),
     Reply(NaN, Absent, Absent, <<>>, Absent),
     Reply(200, Absent, Absent, <<LF>>, <<Header("date", NaN, Absent), Status("X", NaN)>>),
     Reply(200, <<Id>>, Absent, <<>>, <<Header("content-length", NaN, Absent)>>)}
MCBreaks == {[line |-> <<CR, LF>>, blank |-> <<CR, LF>>], [line |-> <<LF>>, blank |-> <<LF>>],
             [line |-> <<CR, LF>>, blank |-> <<LF>>]}

readers == <<web, audio, recording, talk>>
Init ==
    \/ WebInit /\ AudioIdle /\ PlayerIdle /\ ControlIdle
    \/ WebIdle /\ AudioInit /\ PlayerIdle /\ ControlIdle
    \/ WebIdle /\ AudioIdle /\ PlayerInit /\ ControlIdle
    \/ WebIdle /\ AudioIdle /\ PlayerIdle /\ ControlInit
Next ==
    \/ WebNext /\ UNCHANGED <<audio, recording, talk>>
    \/ AudioNext /\ UNCHANGED <<web, recording, talk>>
    \/ PlayerNext /\ UNCHANGED <<web, audio, talk>>
    \/ ControlNext /\ UNCHANGED <<web, audio, recording>>
Spec == Init /\ [][Next]_readers
=============================================================================
