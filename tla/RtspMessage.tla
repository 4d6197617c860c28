------------------------------ MODULE RtspMessage ------------------------------
(***************************************************************************)
(* The responses of src/rtsp.rs as they come off the socket: where one     *)
(* ends and the next begins, and what the caller is told of it.  The text  *)
(* of a line is one unit of the stream, a line break is a CR and an LF or  *)
(* an LF alone, and a body is as many units as its Content-Length says.    *)
(***************************************************************************)
EXTENDS Integers, FiniteSetsExt, SequencesExt

CONSTANTS
    Replies,     \* what the server may say: see Spoken
    Breaks,      \* [line, blank]: how it ends a line, and the headers
    MaxReplies   \* bound on how many it says

VARIABLE talk

NaN == -1        \* the number of a text that is none
Nothing == ""    \* no name, no fault
Absent == <<>>
U16 == 0 .. 65535

Unit(kind) == [kind |-> kind, name |-> Nothing, num |-> NaN, parts |-> Absent]
CR == Unit("CR")
LF == Unit("LF")
Status(version, code) == [Unit("text") EXCEPT !.name = version, !.num = code]

\* A header by its name in lower case; its value as a number and split at ";".
Header(name, num, parts) == [Unit("header") EXCEPT !.name = name, !.num = num, !.parts = parts]
Part(key, ports) == [key |-> key, ports |-> ports]

-----------------------------------------------------------------------------
(* take_response.                                                          *)

StartsAt(b, i, units) == IsPrefix(units, SubSeq(b, i, Len(b)))

\* The position of the blank line, 0 if none came yet.
find_header_end(b) ==
    LET at == {i \in DOMAIN b : \/ StartsAt(b, i, <<CR, LF, CR, LF>>)
                                \/ StartsAt(b, i, <<LF, LF>>)}
    IN  IF at = {} THEN 0 ELSE Min(at)

\* Fault: every blank line is taken for a CRLF one.
header_terminator_len_crlf(b, at) == 4

header_terminator_len(b, at) == IF StartsAt(b, at, <<CR, LF, CR, LF>>) THEN 4 ELSE 2

\* What is wrong with a status line or a header.
StatusFault(unit) ==
    IF unit.kind = "text" /\ unit.name = "RTSP/" /\ unit.num \in U16 THEN Nothing ELSE "BadStatusLine"
HeaderFault(unit) ==
    CASE unit.kind # "header" -> "BadHeader"
      [] unit.kind = "header" /\ unit.name = "content-length" /\ unit.num = NaN -> "BadContentLength"
      [] OTHER -> Nothing

\* The headers of that name, the number of the last of them, the value of the first.
Headers(b, end) == {i \in 2 .. end - 1 : b[i] \notin {CR, LF}}
Named(b, end, name) == {i \in Headers(b, end) : b[i].name = name}
LastNumber(b, own, default) == IF own = {} THEN default ELSE b[Max(own)].num
Value(b, own) == IF own = {} THEN Absent ELSE b[Min(own)].parts

Wait == [kind |-> "Wait"]
Failed(fault) == [kind |-> "Failed", fault |-> fault]

\* One response off the front of the buffer: Wait, an error, or the response and
\* the units it took.
take_response(b) ==
    LET end == find_header_end(b)
        first == IF end <= 1 THEN CR ELSE b[1]
        wrong == {i \in Headers(b, end) : HeaderFault(b[i]) # Nothing}
        body == end + header_terminator_len(b, end)
        length == LastNumber(b, Named(b, end, "content-length"), 0)
    IN  CASE end = 0 -> Wait
          [] end > 0 /\ StatusFault(first) # Nothing -> Failed(StatusFault(first))
          [] end > 0 /\ StatusFault(first) = Nothing /\ wrong # {} -> Failed(HeaderFault(b[Min(wrong)]))
          [] OTHER ->
               IF Len(b) + 1 < body + length THEN Wait
               ELSE [kind |-> "Response", taken |-> body + length - 1, status |-> first.num,
                     cseq |-> LastNumber(b, Named(b, end, "cseq"), NaN),
                     session |-> Value(b, Named(b, end, "session")),
                     transport |-> Value(b, Named(b, end, "transport")),
                     body |-> SubSeq(b, body, body + length - 1)]

-----------------------------------------------------------------------------
(* What the session makes of it.                                           *)

is_ok(response) == response.status \in 200 .. 299

\* A single port means the next one up for RTCP.
parse_port_pair(ports) ==
    CASE Len(ports) = 2 /\ ToSet(ports) \subseteq U16 -> ports
      [] Len(ports) = 1 /\ ports[1] \in U16 /\ ports[1] + 1 \in U16 -> <<ports[1], ports[1] + 1>>
      [] OTHER -> Absent

\* The first part is the protocol, whatever it says; the last of a key counts.
parse_transport(parts) ==
    LET own(key) == {i \in 2 .. Len(parts) : parts[i].key = key}
        pair(key) == IF own(key) = {} THEN Absent ELSE parse_port_pair(parts[Max(own(key))].ports)
    IN  [unicast |-> own("unicast") # {},
         client_ports |-> pair("client_port"), server_ports |-> pair("server_port")]

\* What comes before the first ";".
session_id_of(parts) == SubSeq(parts, 1, 1)

\* FfiGlassesRtspEvent: what an app is told of the answer to a SETUP, and of
\* any other one that is handed over.
RtspEvent(response) ==
    LET ports == IF response.transport = Absent THEN Absent
                 ELSE parse_transport(response.transport).server_ports
    IN  CASE is_ok(response) /\ response.session # Absent ->
               [kind |-> "SetUp", cseq |-> response.cseq, status |-> response.status,
                session_id |-> session_id_of(response.session), server_ports |-> ports,
                body |-> response.body]
          [] ~ is_ok(response) \/ response.session = Absent ->
               [kind |-> IF is_ok(response) THEN "Other" ELSE "SetUpRefused",
                cseq |-> response.cseq, status |-> response.status,
                session_id |-> Absent, server_ports |-> Absent, body |-> response.body]

-----------------------------------------------------------------------------
(* The server, and the socket.                                             *)

\* Each unit with a line break behind it.
Broken(units, break) ==
    LET width == 1 + Len(break)
    IN  [p \in 1 .. Len(units) * width |->
            IF (p - 1) % width = 0 THEN units[(p - 1) \div width + 1] ELSE break[(p - 1) % width]]

\* A reply: status, cseq, session (the id and its parameters, or Absent), ports of
\* the server (or Absent), body, and flaw, lines put among its headers.
Optional(parts, name) == IF parts = Absent THEN <<>> ELSE <<Header(name, NaN, parts)>>
TransportOf(ports) ==
    IF ports = Absent THEN Absent
    ELSE <<Part("RTP/AVP", Absent), Part("unicast", Absent),
           Part("client_port", <<8712, 8713>>), Part("server_port", ports)>>
LengthOf(body) ==
    IF body = <<>> THEN <<>> ELSE <<Header("content-length", Len(body), Absent)>>
HeadOf(reply) ==
    <<Status("RTSP/", reply.status), Header("cseq", reply.cseq, Absent)>> \o reply.flaw
        \o Optional(reply.session, "session") \o Optional(TransportOf(reply.ports), "transport")
        \o LengthOf(reply.body)

Spoken(reply, break) == Broken(HeadOf(reply), break.line) \o break.blank \o reply.body

Flawed(reply) == reply.status \notin U16 \/ reply.flaw # Absent

\* Any text, among them the server's own.
Texts ==
    {Nothing, "RTSP/", "cseq", "session", "transport", "content-length",
     "RTP/AVP", "unicast", "client_port", "server_port"} \cup STRING
Parts == Seq([key : Texts, ports : Seq(Int)])
Units == [kind : {"CR", "LF", "text", "header"}, name : Texts, num : Int, parts : Parts]

\* A server ends its lines alike, though not with a CR after a bare LF, names its RTP
\* port and perhaps the next one up, and what is flawed about a header is in its line.
ASSUME RepliesAssumption ==
    /\ MaxReplies \in Nat
    /\ Breaks \subseteq {[line |-> <<CR, LF>>, blank |-> <<CR, LF>>],
                         [line |-> <<CR, LF>>, blank |-> <<LF>>],
                         [line |-> <<LF>>, blank |-> <<LF>>]}
    /\ \A r \in Replies :
          /\ r \in [status : Int, cseq : Nat, session : Parts, ports : Seq(U16),
                    flaw : Seq(Units), body : Seq(Units)]
          /\ r.ports # Absent =>
                \/ Len(r.ports) = 1
                \/ Len(r.ports) = 2 /\ r.ports[2] = r.ports[1] + 1
          /\ \A i \in DOMAIN r.flaw : r.flaw[i].kind \in {"text", "header"}
          /\ r.flaw # Absent => \E i \in DOMAIN r.flaw : HeaderFault(r.flaw[i]) # Nothing

\* sent: the replies; stream: their units; arrived and drained count them.
ControlInit ==
    \E reply \in Replies, break \in Breaks :
        talk = [sent |-> <<reply>>, stream |-> Spoken(reply, break),
                arrived |-> 0, drained |-> 0, told |-> <<>>, fault |-> Nothing]
ControlIdle == talk = [sent |-> <<>>]

Talking == talk.sent # <<>> /\ talk.fault = Nothing
Buffer == SubSeq(talk.stream, talk.drained + 1, talk.arrived)

\* The server goes on, whatever of its replies has been read.
Speak ==
    /\ Talking
    /\ Len(talk.sent) < MaxReplies
    /\ \E reply \in Replies, break \in Breaks :
          talk' = [talk EXCEPT !.sent = Append(@, reply), !.stream = @ \o Spoken(reply, break)]

\* A read ends anywhere.
ReadSocket ==
    /\ Talking
    /\ talk.arrived < Len(talk.stream)
    /\ talk' = [talk EXCEPT !.arrived = @ + 1]

\* A round of feed() that finds a response, which leaves the buffer; or an error,
\* which leaves everything where it is.
FeedRound ==
    /\ Talking
    /\ LET r == take_response(Buffer)
       IN  \/ r.kind = "Response"
              /\ talk' = [talk EXCEPT !.drained = @ + r.taken, !.told = Append(@, RtspEvent(r))]
           \/ r.kind = "Failed"
              /\ talk' = [talk EXCEPT !.fault = r.fault]

ControlNext == Speak \/ ReadSocket \/ FeedRound
ControlSpec == ControlInit /\ [][ControlNext]_talk

-----------------------------------------------------------------------------
\* The event tells of this reply: its own number, status and body, the bare id of the
\* session it set up, and the server's ports, of which the second is the next one up.
Tells(event, reply) ==
    LET set_up == reply.status \in 200 .. 299 /\ reply.session # Absent
    IN  /\ <<event.cseq, event.status, event.body>> = <<reply.cseq, reply.status, reply.body>>
        /\ event.session_id = IF set_up THEN <<reply.session[1]>> ELSE Absent
        /\ event.server_ports # Absent =>
              /\ set_up /\ event.server_ports[1] = reply.ports[1]
              /\ event.server_ports[2] = event.server_ports[1] + 1
        /\ set_up /\ reply.ports # Absent =>
              event.server_ports # Absent \/ 65535 \in ToSet(reply.ports)

\* However the socket cuts the stream, and however the server breaks its lines,
\* the caller is told of the replies the server sent, whole, in order and with
\* their own bodies, ports and bare session ids, and of none that is flawed; an
\* error means a flawed reply; and once everything has come, no reply is waited for.
RepliesAreWhole ==
    talk.sent # <<>> =>
        /\ Len(talk.told) <= Len(talk.sent)
        /\ \A i \in DOMAIN talk.told : ~ Flawed(talk.sent[i]) /\ Tells(talk.told[i], talk.sent[i])
        /\ talk.fault # Nothing => Len(talk.told) < Len(talk.sent) /\ Flawed(talk.sent[Len(talk.told) + 1])
        /\ talk.arrived = Len(talk.stream) /\ Talking /\ take_response(Buffer) = Wait =>
              Len(talk.told) = Len(talk.sent)
=============================================================================
