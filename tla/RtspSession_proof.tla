--------------------------- MODULE RtspSession_proof ---------------------------
(***************************************************************************)
(* For every number of requests, and whatever the caller and the server    *)
(* do: a request outstanding is one the state awaits, and a stream is      *)
(* declared playing only behind a description with a video track and a     *)
(* SETUP that named the session.  Both need the states before PLAY to be   *)
(* reached in order, and both need the answers on the wire to be typed.    *)
(* And feed() drops no event it collected, as long as requests are not     *)
(* overlapped: one reply at most is on the wire (LoneInv).                 *)
(* And however many replies the server sends, and wherever the socket cuts *)
(* them, each is read off the stream whole (ControlInv): the caller stands *)
(* at the start of a reply, whose blank line is where its headers end.     *)
(***************************************************************************)
EXTENDS RtspSession, RtspMessage, SequenceTheorems, TLAPS

Answer == [cseq : Nat, ok : BOOLEAN, session : {"id", None},
           body : {"video", "both", "audio", "junk", None}]

Piece == [part : {"head"}, answer : Answer] \cup [part : {"rest", "$", "garbled"}]

WireOK ==
    /\ requests \in Seq([cseq : Nat, method : States])
    /\ responses \in Seq(Piece)
    /\ buffer \in Seq(Piece)

\* What each state has behind it.
Progress ==
    /\ state \in {Video, Audio, "AwaitingPlay", "Playing"} => sdp # None
    /\ state \in {Audio, "AwaitingPlay", "Playing"} => session_id # None
    /\ state = Audio => want_audio /\ sdp = "both"
    /\ audio_set_up => want_audio /\ sdp = "both"
    /\ state \in {"Init", "AwaitingOptions", "AwaitingDescribe", Video, Audio} => ~ audio_set_up

RtspInv == TypeOK /\ WireOK /\ PendingIsAwaited /\ Progress

-----------------------------------------------------------------------------
\* Whatever the server answers is an answer.
LEMMA AnswerTyped ==
    ASSUME NEW request \in [cseq : Nat, method : States], NEW a \in Answers(request)
    PROVE  a \in Answer
  <1>1. \A S : Faults(S) \subseteq S
    BY DEF Faults
  <1> DEFINE Cseqs == {request.cseq} \cup Faults({NoCseq})
             Sessions == IF request.method \in {Video, Audio}
                         THEN {"id"} \cup Faults({None}) ELSE {None}
             Bodies == IF request.method = "AwaitingDescribe"
                       THEN Descriptions \cup Faults({"audio", "junk"}) ELSE {None}
  <1>2. Cseqs \subseteq Nat
    BY <1>1 DEF NoCseq
  <1>3. Sessions \subseteq {"id", None}
    BY <1>1
  <1>4. Bodies \subseteq {"video", "both", "audio", "junk", None}
    BY <1>1 DEF Descriptions
  <1>5. \/ a \in [cseq : Cseqs, ok : {FALSE}, session : {None}, body : {None}]
        \/ a \in [cseq : Cseqs, ok : {TRUE}, session : Sessions, body : Bodies]
    BY DEF Answers
  <1> HIDE DEF Cseqs, Sessions, Bodies
  <1> QED
    BY <1>2, <1>3, <1>4, <1>5 DEF Answer

\* The first response of a buffer that holds a whole one is typed.
LEMMA FirstAnswer ==
    ASSUME buffer \in Seq(Piece), Complete
    PROVE  buffer[1].answer \in Answer
  <1>1. buffer[1] \in Piece /\ buffer[1].part = "head"
    BY DEF Complete
  <1> QED
    BY <1>1 DEF Piece

\* A suffix of a typed sequence is typed.
LEMMA Suffix ==
    ASSUME NEW S, NEW s \in Seq(S), NEW n \in Nat \ {0}
    PROVE  SubSeq(s, n, Len(s)) \in Seq(S)
  OBVIOUS

\* The first element and the rest of a typed sequence are typed.
LEMMA HeadTail ==
    ASSUME NEW S, NEW s \in Seq(S), s # <<>>
    PROVE  Head(s) \in S /\ Tail(s) \in Seq(S)
  OBVIOUS

\* Two more elements leave a sequence typed.
LEMMA TwoMore ==
    ASSUME NEW S, NEW s \in Seq(S), NEW x \in S, NEW y \in S
    PROVE  s \o <<x, y>> \in Seq(S)
  <1>1. <<x, y>> \in Seq(S)
    OBVIOUS
  <1> QED
    BY <1>1

-----------------------------------------------------------------------------
LEMMA InitInv == Init => RtspInv
  <1> SUFFICES ASSUME Init PROVE RtspInv
    OBVIOUS
  <1>1. 0 \in 0 .. MaxRequests /\ 0 \in 0 .. 0
    BY RtspAssumption
  <1>2. TypeOK
    BY <1>1 DEF Init, TypeOK, States, NoCseq
  <1>3. WireOK
    BY DEF Init, WireOK
  <1>4. PendingIsAwaited /\ Progress
    BY DEF Init, PendingIsAwaited, Progress, Video, Audio
  <1> QED
    BY <1>2, <1>3, <1>4 DEF RtspInv

\* The server touches the wire only.
LEMMA ServeInv == RtspInv /\ Serve => RtspInv'
  <1> SUFFICES ASSUME RtspInv, Serve PROVE RtspInv'
    OBVIOUS
  <1> USE DEF RtspInv
  <1>1. Head(requests) \in [cseq : Nat, method : States] /\ requests' \in Seq([cseq : Nat, method : States])
    BY HeadTail DEF WireOK, Serve
  <1>2. responses' \in Seq(Piece)
    <2>1. CASE responses' = Append(responses, Garbled)
      BY <2>1 DEF WireOK, Garbled, Piece
    <2>2. ASSUME NEW a \in Answers(Head(requests)),
                 responses' = responses \o <<[part |-> "head", answer |-> a], [part |-> "rest"]>>
          PROVE  responses' \in Seq(Piece)
      <3>1. [part |-> "head", answer |-> a] \in Piece /\ [part |-> "rest"] \in Piece
        BY <1>1, AnswerTyped DEF Piece
      <3> QED
        BY <2>2, <3>1, TwoMore DEF WireOK
    <2> QED
      BY <2>1, <2>2 DEF Serve
  <1>3. WireOK'
    BY <1>1, <1>2 DEF WireOK, Serve
  <1>4. TypeOK' /\ PendingIsAwaited' /\ Progress'
    BY DEF Serve, session, history, TypeOK, PendingIsAwaited, Progress
  <1> QED
    BY <1>3, <1>4

LEMMA InterleaveInv == RtspInv /\ InterleaveMedia => RtspInv'
  <1> SUFFICES ASSUME RtspInv, InterleaveMedia PROVE RtspInv'
    OBVIOUS
  <1> USE DEF RtspInv
  <1>1. Dollar \in Piece
    BY DEF Dollar, Piece
  <1>2. WireOK'
    BY <1>1 DEF WireOK, InterleaveMedia
  <1>3. TypeOK' /\ PendingIsAwaited' /\ Progress'
    BY DEF InterleaveMedia, session, history, TypeOK, PendingIsAwaited, Progress
  <1> QED
    BY <1>2, <1>3

-----------------------------------------------------------------------------
\* A request leaves a typed wire, and is outstanding.
LEMMA RequestWire ==
    ASSUME TypeOK, WireOK, NEW method \in States, Request(method)
    PROVE  WireOK' /\ cseq' \in 0 .. MaxRequests /\ pending' \in 0 .. cseq'
  <1>1. cseq' \in 0 .. MaxRequests /\ pending' \in 0 .. cseq'
    BY RtspAssumption DEF Request, TypeOK
  <1>2. [cseq |-> cseq', method |-> method] \in [cseq : Nat, method : States]
    BY <1>1
  <1>3. WireOK'
    BY <1>2 DEF Request, WireOK
  <1> QED
    BY <1>1, <1>3

\* A request built for the state it moves to, when nothing before PLAY is skipped.
LEMMA SendInv ==
    ASSUME RtspInv, NEW from \in States, NEW to \in Awaiting, Send({from}, to),
           to = from \/ (from = "Init" /\ to = "AwaitingOptions")
    PROVE  RtspInv'
  <1> USE DEF RtspInv
  <1>1. to \in States /\ state = from /\ state' = to /\ Request(to)
    BY DEF Send, States
  <1>2. WireOK' /\ cseq' \in 0 .. MaxRequests /\ pending' \in 0 .. cseq'
    BY <1>1, RequestWire
  <1>3. TypeOK'
    BY <1>1, <1>2 DEF Send, Request, history, TypeOK
  <1>4. PendingIsAwaited'
    BY <1>1 DEF PendingIsAwaited
  <1>5. Progress'
    BY <1>1 DEF Progress, Request, Video, Audio
  <1> QED
    BY <1>2, <1>3, <1>4, <1>5

LEMMA PendingRequestInv == RtspInv /\ PendingRequest => RtspInv'
  <1> SUFFICES ASSUME RtspInv, PendingRequest PROVE RtspInv'
    OBVIOUS
  <1>1. CASE NextRequest
    BY <1>1, SendInv DEF NextRequest, States, Awaiting
  <1>2. CASE Advance
    <2>1. PICK s \in {"AwaitingDescribe", Video, Audio, "AwaitingPlay"} : Send({s}, s)
      BY <1>2 DEF Advance
    <2>2. s \in States /\ s \in Awaiting
      BY DEF States, Awaiting
    <2> QED
      BY <2>1, <2>2, SendInv
  <1> QED
    BY <1>1, <1>2 DEF PendingRequest

LEMMA TeardownInv == RtspInv /\ Teardown => RtspInv'
  <1> SUFFICES ASSUME RtspInv, Teardown PROVE RtspInv'
    OBVIOUS
  <1> USE DEF RtspInv
  <1>1. state' = "AwaitingTeardown" /\ Request("AwaitingTeardown")
    BY DEF Teardown
  <1>2. "AwaitingTeardown" \in States /\ "AwaitingTeardown" \in Awaiting
    BY DEF States, Awaiting
  <1>3. WireOK' /\ cseq' \in 0 .. MaxRequests /\ pending' \in 0 .. cseq'
    BY <1>1, <1>2, RequestWire
  <1>4. overlapped' \in BOOLEAN /\ UNCHANGED failed
    BY DEF Teardown, End, TypeOK
  <1>5. TypeOK'
    BY <1>1, <1>2, <1>3, <1>4 DEF Request, TypeOK
  <1>6. PendingIsAwaited'
    BY <1>1, <1>2 DEF PendingIsAwaited
  <1>7. Progress'
    BY <1>1 DEF Progress, Request, Video, Audio
  <1> QED
    BY <1>3, <1>5, <1>6, <1>7

LEMMA CloseInv == RtspInv /\ Close => RtspInv'
  <1> SUFFICES ASSUME RtspInv, Close PROVE RtspInv'
    OBVIOUS
  <1> USE DEF RtspInv
  <1>1. state' = "Closed" /\ pending' = NoCseq
    BY DEF Close
  <1>2. overlapped' \in BOOLEAN
    BY DEF Close, End, TypeOK
  <1>3. NoCseq \in 0 .. cseq
    BY RtspAssumption DEF NoCseq, TypeOK
  <1>4. TypeOK'
    BY <1>1, <1>2, <1>3 DEF Close, TypeOK, States
  <1>5. WireOK'
    BY DEF Close, WireOK, wire
  <1>6. PendingIsAwaited' /\ Progress'
    BY <1>1 DEF Close, PendingIsAwaited, Progress, Video, Audio
  <1> QED
    BY <1>4, <1>5, <1>6

-----------------------------------------------------------------------------
LEMMA FeedInv == RtspInv /\ Feed => RtspInv'
  <1> SUFFICES ASSUME RtspInv, Feed PROVE RtspInv'
    OBVIOUS
  <1> USE DEF RtspInv
  <1>1. PICK n \in 0 .. Len(responses) :
            /\ buffer' = buffer \o SubSeq(responses, 1, n)
            /\ responses' = SubSeq(responses, n + 1, Len(responses))
    BY DEF Feed
  <1>2. SubSeq(responses, 1, n) \in Seq(Piece) /\ SubSeq(responses, n + 1, Len(responses)) \in Seq(Piece)
    BY DEF WireOK
  <1>3. WireOK'
    BY <1>1, <1>2 DEF Feed, WireOK
  <1>4. TypeOK' /\ PendingIsAwaited' /\ Progress'
    BY DEF Feed, session, history, TypeOK, PendingIsAwaited, Progress
  <1> QED
    BY <1>3, <1>4

\* feed() ends, with or without an error, and leaves the conversation where it was.
LEMMA FeedEndsInv == RtspInv /\ (FeedUnparsable \/ FeedReturns) => RtspInv'
  <1> SUFFICES ASSUME RtspInv, FeedUnparsable \/ FeedReturns PROVE RtspInv'
    OBVIOUS
  <1>1. UNCHANGED <<session, want_audio, buffer, wire>>
    BY DEF FeedUnparsable, FeedReturns
  <1>2. feeding' = FALSE /\ events' = <<>> /\ failed' \in BOOLEAN /\ overlapped' \in BOOLEAN
    BY DEF FeedUnparsable, FeedReturns, Fail, history, RtspInv, TypeOK
  <1>3. TypeOK'
    BY <1>1, <1>2 DEF session, RtspInv, TypeOK
  <1>4. WireOK' /\ PendingIsAwaited' /\ Progress'
    BY <1>1 DEF session, wire, RtspInv, WireOK, PendingIsAwaited, Progress
  <1> QED
    BY <1>3, <1>4 DEF RtspInv

\* Every taken response leaves the rest of the buffer, and nothing outstanding.
LEMMA TakenWire ==
    ASSUME RtspInv, TakeResponse, pending' = NoCseq, UNCHANGED <<cseq, wire>>
    PROVE  /\ WireOK' /\ PendingIsAwaited'
           /\ cseq' \in 0 .. MaxRequests /\ pending' \in 0 .. cseq'
  <1>1. buffer' \in Seq(Piece)
    BY Suffix DEF RtspInv, WireOK, TakeResponse
  <1> QED
    BY <1>1, RtspAssumption DEF RtspInv, TypeOK, WireOK, wire, PendingIsAwaited, NoCseq

LEMMA HandleUnexpectedInv == RtspInv /\ HandleUnexpected => RtspInv'
  <1> SUFFICES ASSUME RtspInv, HandleUnexpected PROVE RtspInv'
    OBVIOUS
  <1>1. WireOK' /\ PendingIsAwaited' /\ cseq' \in 0 .. MaxRequests /\ pending' \in 0 .. cseq'
    BY TakenWire DEF HandleUnexpected
  <1>2. TypeOK' /\ Progress'
    BY <1>1 DEF HandleUnexpected, Fail, RtspInv, TypeOK, Progress
  <1> QED
    BY <1>1, <1>2 DEF RtspInv

\* One step per arm of handle(): each moves on from a state whose progress is known.
LEMMA HandleExpectedInv == RtspInv /\ HandleExpected => RtspInv'
  <1> SUFFICES ASSUME RtspInv, HandleExpected PROVE RtspInv'
    OBVIOUS
  <1> DEFINE answer == buffer[1].answer
  <1>1. WireOK' /\ PendingIsAwaited' /\ cseq' \in 0 .. MaxRequests /\ pending' \in 0 .. cseq'
    BY TakenWire DEF HandleExpected
  <1>2. answer \in Answer
    BY FirstAnswer DEF RtspInv, WireOK, HandleExpected
  <1>3. feeding /\ UNCHANGED want_audio
    BY DEF HandleExpected
  <1> HIDE DEF answer
  <1>4. answer.session \in {"id", None}
    BY <1>2 DEF Answer
  <1>5. ASSUME NEW event, Emit(event)
        PROVE  feeding' /\ failed' \in BOOLEAN /\ overlapped' \in BOOLEAN
    BY <1>3, <1>5 DEF Emit, history, RtspInv, TypeOK
  <1> DEFINE Advanced ==
        /\ state' \in States /\ session_id' \in {"id", None} /\ sdp' \in Descriptions \cup {None}
        /\ audio_set_up' \in BOOLEAN /\ feeding' \in BOOLEAN
        /\ failed' \in BOOLEAN /\ overlapped' \in BOOLEAN
        /\ ~ feeding' => events' = <<>>
        /\ Progress'
  <1>6. ASSUME HandleOptions(answer) PROVE Advanced
    BY <1>3, <1>5, <1>6 DEF HandleOptions, RtspInv, TypeOK, Progress, States, Awaiting, Video, Audio
  <1>7. ASSUME HandleDescribe(answer) PROVE Advanced
    <2>1. sdp' \in Descriptions /\ sdp' # None
      BY <1>7 DEF HandleDescribe, Descriptions, None
    <2> QED
      BY <1>3, <1>5, <1>7, <2>1
         DEF HandleDescribe, RtspInv, TypeOK, Progress, States, Awaiting, Video, Audio
  <1>8. ASSUME HandleVideo(answer) PROVE Advanced
    BY <1>3, <1>4, <1>5, <1>8
       DEF HandleVideo, RtspInv, TypeOK, Progress, States, Awaiting, Video, Audio
  <1>9. ASSUME HandleAudio(answer) PROVE Advanced
    BY <1>3, <1>4, <1>5, <1>9
       DEF HandleAudio, RtspInv, TypeOK, Progress, States, Awaiting, Video, Audio
  <1>10. ASSUME HandleAudioRefused(answer) PROVE Advanced
    BY <1>3, <1>5, <1>10
       DEF HandleAudioRefused, RtspInv, TypeOK, Progress, States, Awaiting, Video, Audio
  <1>11. ASSUME HandlePlay(answer) PROVE Advanced
    BY <1>3, <1>5, <1>11
       DEF HandlePlay, RtspInv, TypeOK, Progress, States, Awaiting, Video, Audio
  <1>12. ASSUME HandleTeardown(answer) PROVE Advanced
    BY <1>3, <1>5, <1>12
       DEF HandleTeardown, RtspInv, TypeOK, Progress, States, Awaiting, Video, Audio
  <1>13. ASSUME HandleOther(answer) PROVE Advanced
    BY <1>3, <1>5, <1>13 DEF HandleOther, RtspInv, TypeOK, Progress
  <1>14. ASSUME HandleRejected(answer) PROVE Advanced
    BY <1>3, <1>14 DEF HandleRejected, Fail, RtspInv, TypeOK, Progress
  <1>15. Advanced
    BY <1>6, <1>7, <1>8, <1>9, <1>10, <1>11, <1>12, <1>13, <1>14 DEF HandleExpected, answer
  <1>16. TypeOK'
    BY <1>1, <1>3, <1>15 DEF RtspInv, TypeOK
  <1> QED
    BY <1>1, <1>15, <1>16 DEF RtspInv

-----------------------------------------------------------------------------
\* The invariant is inductive.
LEMMA NextInv == RtspInv /\ [Next]_vars => RtspInv'
  <1> SUFFICES ASSUME RtspInv, [Next]_vars PROVE RtspInv'
    OBVIOUS
  <1>1. CASE UNCHANGED vars
    BY <1>1 DEF vars, session, wire, history, RtspInv, TypeOK, WireOK, PendingIsAwaited, Progress
  <1>2. CASE FeedStep
    BY <1>2, FeedEndsInv, HandleExpectedInv, HandleUnexpectedInv DEF FeedStep
  <1> QED
    BY <1>1, <1>2, ServeInv, InterleaveInv, PendingRequestInv, TeardownInv, CloseInv, FeedInv DEF Next

LEMMA SpecInv == Spec => []RtspInv
  BY InitInv, NextInv, PTL DEF Spec

\* The variables of RtspSession keep their types.
THEOREM TypeCorrect == Spec => []TypeOK
  <1>1. RtspInv => TypeOK
    BY DEF RtspInv
  <1> QED
    BY <1>1, SpecInv, PTL

\* RtspSession::handle never meets an answer in a state that asked for nothing, so
\* Event::Other is never made.
THEOREM Awaited == Spec => []PendingIsAwaited
  <1>1. RtspInv => PendingIsAwaited
    BY DEF RtspInv
  <1> QED
    BY <1>1, SpecInv, PTL

\* PLAY is asked for, and the stream declared playing, only behind a video track and
\* a session id, whatever was refused, retried, torn down or closed on the way.
THEOREM SetUpBeforePlay == Spec => []PlayIsSetUp
  <1>1. RtspInv => PlayIsSetUp
    BY DEF RtspInv, TypeOK, Progress, PlayIsSetUp
  <1> QED
    BY <1>1, SpecInv, PTL

-----------------------------------------------------------------------------
(* Why feed() drops no event: there is one reply at most.                 *)

\* What is asked of the server.
Requests == [cseq : Nat, method : States]

\* At most one reply is still to come, a half of it never without the other, and what
\* feed() has collected answered the last request.
OneReply(w, asked, awaited, collected) ==
    /\ Len(asked) <= 1
    /\ \A i, j \in DOMAIN w : IsReply(w[i]) /\ IsReply(w[j]) => i = j
    /\ asked # <<>> => \A i \in DOMAIN w : ~ IsReply(w[i])
    /\ awaited = NoCseq => asked = <<>> /\ \A i \in DOMAIN w : ~ IsReply(w[i])
    /\ \A i \in DOMAIN w : w[i].part = "rest" => i > 1 /\ w[i - 1].part = "head"
    /\ collected # <<>> => awaited = NoCseq

\* All that is on its way to the caller.
Wire == buffer \o responses

\* Until requests overlap or a feed() fails, there is one reply at most.
LoneInv == overlapped \/ failed \/ OneReply(Wire, requests, pending, events)

\* The wire is the buffer and what follows it.
LEMMA WireTyped ==
    ASSUME WireOK
    PROVE  /\ Wire \in Seq(Piece) /\ Len(Wire) = Len(buffer) + Len(responses)
           /\ \A i \in 1 .. Len(buffer) : i \in DOMAIN Wire /\ Wire[i] = buffer[i]
           /\ DOMAIN buffer = 1 .. Len(buffer)
  BY ConcatProperties DEF WireOK, Wire

\* Who holds what of the wire does not matter.
LEMMA MovedWire ==
    ASSUME NEW b \in Seq(Piece), NEW r \in Seq(Piece), NEW n \in 0 .. Len(r)
    PROVE  (b \o SubSeq(r, 1, n)) \o SubSeq(r, n + 1, Len(r)) = b \o r
  <1> DEFINE p == SubSeq(r, 1, n)
             q == SubSeq(r, n + 1, Len(r))
  <1>1. p \in Seq(Piece) /\ Len(p) = n /\ \A i \in 1 .. n : p[i] = r[i]
    BY SubSeqProperties
  <1>2. q \in Seq(Piece) /\ Len(q) = Len(r) - n /\ \A i \in 1 .. Len(r) - n : q[i] = r[n + i]
    BY SubSeqProperties
  <1> HIDE DEF p, q
  <1>3. (b \o p) \o q = b \o (p \o q)
    BY <1>1, <1>2, ConcatAssociative, SMTT(20)
  <1>4. p \o q = r
    <2>1. Len(r) \in Nat /\ p \o q \in Seq(Piece) /\ Len(p \o q) = n + (Len(r) - n)
      <3>1. p \o q \in Seq(Piece) /\ Len(p \o q) = Len(p) + Len(q)
        BY <1>1, <1>2, ConcatProperties
      <3>2. Len(r) \in Nat
        BY LenProperties
      <3> QED
        BY <1>1, <1>2, <3>1, <3>2
    <2>2. \A i \in 1 .. Len(r) : (p \o q)[i] = IF i <= n THEN p[i] ELSE q[i - n]
      BY <1>1, <1>2, <2>1, ConcatProperties
    <2>3. \A i \in 1 .. Len(r) : (p \o q)[i] = r[i]
      <3> SUFFICES ASSUME NEW i \in 1 .. Len(r) PROVE (p \o q)[i] = r[i]
        OBVIOUS
      <3>1. i > n => i - n \in 1 .. Len(r) - n /\ n + (i - n) = i
        BY <2>1
      <3>2. CASE i <= n
        <4>1. i \in 1 .. n
          BY <3>2, <2>1
        <4> QED
          BY <3>2, <4>1, <1>1, <2>2
      <3>3. CASE ~ (i <= n)
        <4>1. i > n
          BY <3>3, <2>1
        <4> QED
          BY <3>1, <3>3, <4>1, <1>2, <2>2
      <3> QED
        BY <3>2, <3>3
    <2> DEFINE pq == p \o q
    <2>4. pq \in Seq(Piece) /\ Len(pq) = Len(r) /\ \A i \in 1 .. Len(r) : pq[i] = r[i]
      BY <2>1, <2>3
    <2> HIDE DEF pq
    <2>5. pq = r
      BY <2>4, SeqEqual
    <2> QED
      BY <2>5 DEF pq
  <1> QED
    BY <1>3, <1>4 DEF p, q

\* Two parts of a reply, to the one request there is.
LEMMA Replied ==
    ASSUME NEW w \in Seq(Piece), NEW asked \in Seq(Requests), NEW awaited, NEW collected,
           OneReply(w, asked, awaited, collected), asked # <<>>,
           NEW a
    PROVE  OneReply(w \o <<[part |-> "head", answer |-> a], [part |-> "rest"]>>, Tail(asked),
                    awaited, collected)
  <1> DEFINE h == [part |-> "head", answer |-> a]
             r == [part |-> "rest"]
             v == w \o <<h, r>>
             n == Len(w)
  <1>1. n \in Nat /\ Len(v) = n + 2 /\ DOMAIN v = 1 .. n + 2 /\ DOMAIN w = 1 .. n
    OBVIOUS
  <1>2. (\A i \in 1 .. n : v[i] = w[i]) /\ v[n + 1] = h /\ v[n + 2] = r
    OBVIOUS
  <1>3. Len(Tail(asked)) = 0 /\ Tail(asked) = <<>> /\ awaited # NoCseq
    <2>1. Len(asked) \in Nat /\ Len(asked) # 0 /\ Len(asked) <= 1 /\ awaited # NoCseq
      BY EmptySeq DEF OneReply
    <2>2. Tail(asked) \in Seq(Requests) /\ Len(Tail(asked)) = Len(asked) - 1
      BY HeadTailProperties
    <2>3. Len(Tail(asked)) = 0
      BY <2>1, <2>2
    <2> QED
      BY <2>1, <2>2, <2>3, EmptySeq
  <1>4. h.part = "head" /\ r.part = "rest"
    OBVIOUS
  <1>5. \A i \in 1 .. n : ~ IsReply(w[i])
    BY <1>1 DEF OneReply
  <1>6. ~ IsReply(r)
    BY <1>4 DEF IsReply
  <1> HIDE DEF h, r, v, n
  <1>7. \A i \in DOMAIN v : IsReply(v[i]) => i = n + 1
    BY <1>1, <1>2, <1>5, <1>6
  <1>8. \A i \in DOMAIN v : v[i].part = "rest" => i > 1 /\ v[i - 1].part = "head"
    <2> SUFFICES ASSUME NEW i \in DOMAIN v, v[i].part = "rest"
                 PROVE  i > 1 /\ v[i - 1].part = "head"
      OBVIOUS
    <2>1. CASE i \in 1 .. n
      <3>1. w[i].part = "rest"
        BY <1>2, <2>1
      <3>2. i > 1 /\ w[i - 1].part = "head"
        BY <1>1, <2>1, <3>1 DEF OneReply
      <3> QED
        BY <1>1, <1>2, <2>1, <3>2
    <2>2. CASE i = n + 1
      BY <1>2, <1>4, <2>2
    <2>3. CASE i = n + 2
      BY <1>1, <1>2, <1>4, <2>3
    <2> QED
      BY <1>1, <2>1, <2>2, <2>3
  <1>9. collected # <<>> => awaited = NoCseq
    BY DEF OneReply
  <1>10. OneReply(v, Tail(asked), awaited, collected)
    BY <1>3, <1>7, <1>8, <1>9 DEF OneReply
  <1> QED
    BY <1>10 DEF v, h, r

\* One part more that is no half of a reply.
LEMMA OneMore ==
    ASSUME NEW w \in Seq(Piece), NEW x, x.part \in {"$", "garbled"},
           NEW asked, NEW left, NEW awaited, NEW collected,
           OneReply(w, asked, awaited, collected), Len(left) <= 1,
           \/ ~ IsReply(x) /\ left = asked
           \/ asked # <<>> /\ left = <<>>
    PROVE  OneReply(Append(w, x), left, awaited, collected)
  <1> DEFINE v == Append(w, x)
             n == Len(w)
  <1>1. n \in Nat /\ Len(v) = n + 1 /\ DOMAIN v = 1 .. n + 1 /\ DOMAIN w = 1 .. n
    OBVIOUS
  <1>2. (\A i \in 1 .. n : v[i] = w[i]) /\ v[n + 1] = x
    OBVIOUS
  <1> HIDE DEF v, n
  <1>3. \A i \in DOMAIN v : v[i].part = "rest" => i > 1 /\ v[i - 1].part = "head"
    <2> SUFFICES ASSUME NEW i \in DOMAIN v, v[i].part = "rest"
                 PROVE  i > 1 /\ v[i - 1].part = "head"
      OBVIOUS
    <2>1. i \in 1 .. n
      BY <1>1, <1>2
    <2>2. i > 1 /\ w[i - 1].part = "head"
      BY <1>1, <1>2, <2>1 DEF OneReply
    <2> QED
      BY <1>1, <1>2, <2>1, <2>2
  <1>4. collected # <<>> => awaited = NoCseq
    BY DEF OneReply
  <1>5. CASE ~ IsReply(x) /\ left = asked
    <2>1. \A i \in DOMAIN v : IsReply(v[i]) => i \in DOMAIN w /\ IsReply(w[i])
      BY <1>1, <1>2, <1>5
    <2>2. /\ \A i, j \in DOMAIN v : IsReply(v[i]) /\ IsReply(v[j]) => i = j
          /\ left # <<>> => \A i \in DOMAIN v : ~ IsReply(v[i])
          /\ awaited = NoCseq => left = <<>> /\ \A i \in DOMAIN v : ~ IsReply(v[i])
      BY <1>5, <2>1 DEF OneReply
    <2> HIDE DEF IsReply
    <2>3. OneReply(v, left, awaited, collected)
      BY <1>3, <1>4, <2>2 DEF OneReply
    <2> QED
      BY <2>3 DEF v
  <1>6. CASE asked # <<>> /\ left = <<>>
    <2>1. awaited # NoCseq /\ \A i \in DOMAIN w : ~ IsReply(w[i])
      BY <1>6 DEF OneReply
    <2>2. \A i \in DOMAIN v : IsReply(v[i]) => i = n + 1
      BY <1>1, <1>2, <2>1
    <2>3. OneReply(v, left, awaited, collected)
      BY <1>3, <1>4, <1>6, <2>1, <2>2 DEF OneReply
    <2> QED
      BY <2>3 DEF v
  <1> QED
    BY <1>5, <1>6

\* What is left when the one reply there was has been read.
LEMMA Drained ==
    ASSUME NEW w \in Seq(Piece), Len(w) >= 2, w[1].part = "head",
           NEW asked, NEW awaited, NEW collected, OneReply(w, asked, awaited, collected),
           NEW left
    PROVE  asked = <<>> /\ OneReply(SubSeq(w, 3, Len(w)), asked, NoCseq, left)
  <1> DEFINE v == SubSeq(w, 3, Len(w))
             n == Len(w) - 2
  <1>1. n \in Nat /\ DOMAIN w = 1 .. n + 2 /\ Len(w) = n + 2
    OBVIOUS
  <1>2. DOMAIN v = 1 .. n /\ \A i \in 1 .. n : v[i] = w[i + 2]
    OBVIOUS
  <1>3. 1 \in DOMAIN w /\ IsReply(w[1])
    BY <1>1 DEF IsReply
  <1>4. asked = <<>> /\ Len(asked) <= 1
    BY <1>3 DEF OneReply
  <1> HIDE DEF v, n
  <1>5. \A i \in DOMAIN w : i # 1 => ~ IsReply(w[i])
    BY <1>3 DEF OneReply
  <1>6. \A i \in 1 .. n :
            /\ i + 2 \in DOMAIN w /\ i + 1 \in DOMAIN w
            /\ i + 2 # 1 /\ i + 1 # 1 /\ (i + 2) - 1 = i + 1
    BY <1>1
  <1>7. \A i \in DOMAIN v : ~ IsReply(v[i])
    BY <1>2, <1>5, <1>6
  <1>8. \A i \in DOMAIN v : v[i].part # "rest"
    <2> SUFFICES ASSUME NEW i \in DOMAIN v, v[i].part = "rest" PROVE FALSE
      OBVIOUS
    <2>1. w[i + 2].part = "rest" /\ i + 2 \in DOMAIN w /\ i + 1 \in DOMAIN w /\ i + 1 # 1
      BY <1>2, <1>6
    <2>2. w[(i + 2) - 1].part = "head"
      BY <2>1 DEF OneReply
    <2>3. IsReply(w[i + 1])
      BY <1>2, <1>6, <2>2 DEF IsReply
    <2> QED
      BY <1>5, <2>1, <2>3
  <1>9. OneReply(v, asked, NoCseq, left)
    BY <1>4, <1>7, <1>8 DEF OneReply
  <1> QED
    BY <1>4, <1>9 DEF v

\* When no reply is to come, half a one is not either: only a `$` may be.
LEMMA NothingToCome ==
    ASSUME NEW w \in Seq(Piece), NEW asked, NEW awaited, NEW collected,
           OneReply(w, asked, awaited, collected), \A i \in DOMAIN w : ~ IsReply(w[i])
    PROVE  \A i \in DOMAIN w : w[i] = Dollar
  <1> SUFFICES ASSUME NEW i \in DOMAIN w PROVE w[i] = Dollar
    OBVIOUS
  <1>0. DOMAIN w = 1 .. Len(w) /\ Len(w) \in Nat /\ w[i] \in Piece
    OBVIOUS
  <1>1. w[i].part # "rest"
    <2> SUFFICES ASSUME w[i].part = "rest" PROVE FALSE
      OBVIOUS
    <2>1. i > 1 /\ w[i - 1].part = "head"
      BY DEF OneReply
    <2>2. i - 1 \in DOMAIN w
      BY <1>0, <2>1
    <2> QED
      BY <2>1, <2>2 DEF IsReply
  <1>2. w[i].part \notin {"head", "garbled"}
    BY DEF IsReply
  <1>3. w[i] \in [part : {"rest", "$", "garbled"}] /\ w[i].part = "$"
    BY <1>0, <1>1, <1>2 DEF Piece
  <1> QED
    BY <1>3 DEF Dollar

\* Whoever asks when nothing is to come has one reply to come.
LEMMA Asked ==
    ASSUME NEW w \in Seq(Piece), NEW request, NEW awaited, awaited # NoCseq,
           NEW asked, NEW before, NEW collected,
           OneReply(w, asked, before, collected), asked = <<>>, \A i \in DOMAIN w : ~ IsReply(w[i])
    PROVE  OneReply(w, Append(asked, request), awaited, <<>>)
  <1>1. Append(asked, request) = <<request>>
    OBVIOUS
  <1>2. Len(<<request>>) = 1
    OBVIOUS
  <1>3. \A i \in DOMAIN w : w[i].part = "rest" => i > 1 /\ w[i - 1].part = "head"
    BY DEF OneReply
  <1> QED
    BY <1>1, <1>2, <1>3 DEF OneReply

\* Wires of `$` alone.
LEMMA OnlyDollars ==
    ASSUME NEW w \in Seq(Piece), \A i \in DOMAIN w : w[i] = Dollar, NEW awaited
    PROVE  OneReply(w, <<>>, awaited, <<>>)
  <1>1. \A i \in DOMAIN w : w[i].part = "$" /\ ~ IsReply(w[i])
    BY DEF Dollar, IsReply
  <1>2. Len(<<>>) = 0
    OBVIOUS
  <1> QED
    BY <1>1, <1>2 DEF OneReply

\* The invariant behind NoEventLost.
EventInv == RtspInv /\ LoneInv

\* At the start nothing was asked.
LEMMA EventInit == Init => EventInv
  <1> SUFFICES ASSUME Init PROVE EventInv
    OBVIOUS
  <1>1. RtspInv
    BY InitInv
  <1>2. Wire = <<>> /\ DOMAIN Wire = {} /\ requests = <<>> /\ events = <<>>
    BY DEF Init, Wire
  <1>3. Len(<<>>) <= 1
    OBVIOUS
  <1>4. OneReply(Wire, requests, pending, events)
    BY <1>2, <1>3 DEF OneReply
  <1> QED
    BY <1>1, <1>4 DEF EventInv, LoneInv

\* The server answers the one request, or garbles the answer.
LEMMA ServeLone ==
    ASSUME EventInv, Serve
    PROVE  LoneInv'
  <1>1. CASE overlapped \/ failed
    BY <1>1 DEF Serve, history, LoneInv
  <1>2. CASE OneReply(Wire, requests, pending, events)
    <2>1. /\ requests # <<>> /\ requests' = Tail(requests)
          /\ UNCHANGED <<buffer, pending, events>>
      BY DEF Serve, session
    <2>2. /\ WireOK /\ requests \in Seq(Requests) /\ Wire \in Seq(Piece)
          /\ buffer \in Seq(Piece) /\ responses \in Seq(Piece)
      BY WireTyped DEF EventInv, RtspInv, WireOK, Requests
    <2>3. ASSUME NEW a \in Answers(Head(requests)),
                 responses' = responses \o <<[part |-> "head", answer |-> a], [part |-> "rest"]>>
          PROVE  OneReply(Wire', requests', pending', events')
      <3> DEFINE new == <<[part |-> "head", answer |-> a], [part |-> "rest"]>>
      <3>0. Head(requests) \in [cseq : Nat, method : States]
        BY <2>1, <2>2, HeadTailProperties DEF Requests
      <3>1. a \in Answer
        BY <3>0, AnswerTyped
      <3>2. [part |-> "head", answer |-> a] \in Piece /\ [part |-> "rest"] \in Piece
        BY <3>1 DEF Piece
      <3>3. new \in Seq(Piece)
        BY <3>2
      <3> HIDE DEF new
      <3>4. buffer \o (responses \o new) = (buffer \o responses) \o new
        <4>1. buffer \in Seq(Piece) /\ responses \in Seq(Piece) /\ new \in Seq(Piece)
          BY <2>2, <3>3
        <4>2. \A s, t, u \in Seq(Piece) : s \o (t \o u) = (s \o t) \o u
          BY ConcatAssociative, SMTT(20)
        <4> QED
          BY <4>1, <4>2, Zenon
      <3>5. Wire' = Wire \o new
        BY <2>1, <2>3, <3>4 DEF Wire, new
      <3>6. OneReply(Wire \o new, Tail(requests), pending, events)
        BY <1>2, <2>1, <2>2, Replied DEF new
      <3> QED
        BY <2>1, <3>5, <3>6
    <2>4. ASSUME responses' = Append(responses, Garbled)
          PROVE  OneReply(Wire', requests', pending', events')
      <3>1. Wire' = Append(Wire, Garbled)
        <4>1. Garbled \in Piece
          BY DEF Garbled, Piece
        <4> HIDE DEF Garbled
        <4>2. \A x \in Piece : \A s, t \in Seq(Piece) : s \o Append(t, x) = Append(s \o t, x)
          OBVIOUS
        <4> QED
          BY <2>1, <2>2, <2>4, <4>1, <4>2 DEF Wire
      <3>2. Garbled.part = "garbled"
        BY DEF Garbled
      <3>3. Tail(requests) = <<>> /\ Len(<<>>) <= 1
        <4>1. Len(requests) \in Nat \ {0} /\ Len(requests) <= 1
          BY <1>2, <2>1, <2>2, EmptySeq DEF OneReply
        <4>2. Tail(requests) \in Seq(Requests) /\ Len(Tail(requests)) = Len(requests) - 1
          BY <2>1, <2>2, HeadTailProperties
        <4>3. Len(Tail(requests)) = 0
          BY <4>1, <4>2
        <4>4. Len(<<>>) = 0 /\ 0 <= 1
          OBVIOUS
        <4>5. Tail(requests) = <<>>
          BY <4>2, <4>3, EmptySeq
        <4> QED
          BY <4>4, <4>5
      <3> HIDE DEF Garbled
      <3>4. OneReply(Append(Wire, Garbled), <<>>, pending, events)
        BY <1>2, <2>1, <2>2, <3>2, <3>3, OneMore
      <3> QED
        BY <2>1, <3>1, <3>3, <3>4
    <2> QED
      BY <2>3, <2>4 DEF Serve, LoneInv
  <1> QED
    BY <1>1, <1>2 DEF EventInv, LoneInv

\* A packet of RTP is no reply.
LEMMA InterleaveLone ==
    ASSUME EventInv, InterleaveMedia
    PROVE  LoneInv'
  <1>1. CASE overlapped \/ failed
    BY <1>1 DEF InterleaveMedia, history, LoneInv
  <1>2. CASE OneReply(Wire, requests, pending, events)
    <2>1. UNCHANGED <<buffer, pending, events, requests>> /\ responses' = Append(responses, Dollar)
      BY DEF InterleaveMedia, session
    <2>2. Wire \in Seq(Piece) /\ buffer \in Seq(Piece) /\ responses \in Seq(Piece)
      BY WireTyped DEF EventInv, RtspInv, WireOK
    <2>3. Dollar \in Piece /\ Dollar.part = "$" /\ ~ IsReply(Dollar)
      BY DEF Dollar, Piece, IsReply
    <2> HIDE DEF Dollar
    <2>4. \A x \in Piece : \A s, t \in Seq(Piece) : s \o Append(t, x) = Append(s \o t, x)
      OBVIOUS
    <2>5. Wire' = Append(Wire, Dollar)
      BY <2>1, <2>2, <2>3, <2>4 DEF Wire
    <2>6. Len(requests) <= 1
      BY <1>2 DEF OneReply
    <2>7. OneReply(Append(Wire, Dollar), requests, pending, events)
      BY <1>2, <2>2, <2>3, <2>6, OneMore
    <2> QED
      BY <2>1, <2>5, <2>7 DEF LoneInv
  <1> QED
    BY <1>1, <1>2 DEF EventInv, LoneInv

\* A request when nothing is to come.
LEMMA RequestLone ==
    ASSUME EventInv, ~ feeding, NEW method, Request(method),
           ~ overlapped /\ ~ failed => ~ Unanswered
    PROVE  ~ overlapped /\ ~ failed => OneReply(Wire', requests', pending', events')
  <1> SUFFICES ASSUME ~ overlapped, ~ failed PROVE OneReply(Wire', requests', pending', events')
    OBVIOUS
  <1>1. /\ requests = <<>> /\ \A i \in DOMAIN Wire : ~ IsReply(Wire[i])
        /\ OneReply(Wire, requests, pending, events)
    BY DEF Unanswered, Wire, EventInv, LoneInv
  <1>2. Wire \in Seq(Piece) /\ events = <<>> /\ cseq \in Nat
    BY WireTyped DEF EventInv, RtspInv, TypeOK
  <1>3. /\ Wire' = Wire /\ events' = <<>> /\ pending' = cseq + 1
        /\ requests' = Append(requests, [cseq |-> cseq + 1, method |-> method])
    BY <1>2 DEF Request, Wire
  <1>4. cseq + 1 # NoCseq
    BY <1>2 DEF NoCseq
  <1>5. OneReply(Wire, Append(requests, [cseq |-> cseq + 1, method |-> method]), cseq + 1, <<>>)
    BY <1>1, <1>2, <1>4, Asked
  <1> QED
    BY <1>3, <1>5

\* next_request and pending_request ask only when nothing is outstanding; a TEARDOWN that does
\* not overlap comes when nothing is to come.
LEMMA AskLone ==
    ASSUME EventInv, PendingRequest \/ Teardown
    PROVE  LoneInv'
  <1>1. CASE PendingRequest
    <2>1. ASSUME NEW from, NEW to, Send(from, to)
          PROVE  LoneInv'
      <3>1. ~ feeding /\ pending = NoCseq /\ Request(to) /\ UNCHANGED history
        BY <2>1 DEF Send
      <3>2. ~ overlapped /\ ~ failed => ~ Unanswered
        BY <3>1 DEF EventInv, LoneInv, OneReply, Unanswered, Wire
      <3>3. ~ overlapped /\ ~ failed => OneReply(Wire', requests', pending', events')
        BY <3>1, <3>2, RequestLone
      <3> QED
        BY <3>1, <3>3 DEF history, LoneInv
    <2> QED
      BY <1>1, <2>1 DEF PendingRequest, NextRequest, Advance
  <1>2. CASE Teardown
    <2>1. ~ feeding /\ Request("AwaitingTeardown") /\ failed' = failed
          /\ overlapped' = (overlapped \/ Unanswered)
      BY <1>2 DEF Teardown, End
    <2>2. CASE overlapped' \/ failed'
      BY <2>2 DEF LoneInv
    <2>3. CASE ~ overlapped' /\ ~ failed'
      <3>1. ~ overlapped /\ ~ failed /\ ~ Unanswered
        BY <2>1, <2>3
      <3>2. OneReply(Wire', requests', pending', events')
        BY <2>1, <3>1, RequestLone
      <3> QED
        BY <3>2 DEF LoneInv
    <2> QED
      BY <2>2, <2>3
  <1> QED
    BY <1>1, <1>2

\* A close that does not overlap leaves at most a `$`.
LEMMA CloseLone ==
    ASSUME EventInv, Close
    PROVE  LoneInv'
  <1>1. CASE overlapped' \/ failed'
    BY <1>1 DEF LoneInv
  <1>2. CASE ~ overlapped' /\ ~ failed'
    <2>1. /\ ~ overlapped /\ ~ failed /\ ~ Unanswered /\ events = <<>>
          /\ buffer' = <<>> /\ pending' = NoCseq /\ UNCHANGED <<requests, responses, events>>
      BY <1>2 DEF Close, End, wire, EventInv, RtspInv, TypeOK
    <2>2. /\ requests = <<>> /\ \A i \in DOMAIN Wire : ~ IsReply(Wire[i])
          /\ OneReply(Wire, requests, pending, events)
      BY <2>1 DEF Unanswered, Wire, EventInv, LoneInv
    <2>3. Wire \in Seq(Piece) /\ buffer \in Seq(Piece) /\ responses \in Seq(Piece)
      BY WireTyped DEF EventInv, RtspInv, WireOK
    <2>4. \A i \in DOMAIN Wire : Wire[i] = Dollar
      BY <2>2, <2>3, NothingToCome
    <2>5. \A i \in DOMAIN responses : responses[i] = Dollar
      <3> SUFFICES ASSUME NEW i \in DOMAIN responses PROVE responses[i] = Dollar
        OBVIOUS
      <3>1. Len(buffer) + i \in DOMAIN Wire /\ Wire[Len(buffer) + i] = responses[i]
        BY <2>3, ConcatProperties DEF Wire
      <3> QED
        BY <2>4, <3>1
    <2>6. Wire' = responses
      <3>1. \A s \in Seq(Piece) : <<>> \o s = s
        BY ConcatEmptySeq
      <3> QED
        BY <2>1, <2>3, <3>1 DEF Wire
    <2>7. OneReply(responses, <<>>, NoCseq, <<>>)
      BY <2>3, <2>5, OnlyDollars
    <2> QED
      BY <2>1, <2>2, <2>6, <2>7 DEF LoneInv
  <1> QED
    BY <1>1, <1>2

\* Reading moves the wire on.
LEMMA FeedLone ==
    ASSUME EventInv, Feed
    PROVE  LoneInv'
  <1>1. PICK n \in 0 .. Len(responses) :
            /\ buffer' = buffer \o SubSeq(responses, 1, n)
            /\ responses' = SubSeq(responses, n + 1, Len(responses))
    BY DEF Feed
  <1>2. buffer \in Seq(Piece) /\ responses \in Seq(Piece)
    BY DEF EventInv, RtspInv, WireOK
  <1>3. Wire' = Wire
    BY <1>1, <1>2, MovedWire DEF Wire
  <1>4. UNCHANGED <<requests, pending, events, overlapped, failed>>
    BY DEF Feed, session, history
  <1> QED
    BY <1>3, <1>4 DEF EventInv, LoneInv

\* The response that is taken is the one there was.
LEMMA TakenLone ==
    ASSUME EventInv, feeding, Complete, TakeResponse, pending' = NoCseq,
           UNCHANGED <<wire, overlapped, failed>>
    PROVE  LoneInv'
  <1>1. CASE overlapped \/ failed
    BY <1>1 DEF LoneInv
  <1>2. CASE OneReply(Wire, requests, pending, events)
    <2>1. buffer \in Seq(Piece) /\ responses \in Seq(Piece) /\ Wire \in Seq(Piece)
      BY WireTyped DEF EventInv, RtspInv, WireOK
    <2>2. Len(buffer) \in Nat /\ Len(buffer) >= 2 /\ buffer[1].part = "head"
      BY <2>1 DEF Complete
    <2>3. Len(Wire) = Len(buffer) + Len(responses) /\ Wire[1] = buffer[1]
      BY <2>1, <2>2, WireTyped DEF EventInv, RtspInv
    <2>4. Len(Wire) >= 2 /\ Wire[1].part = "head"
      BY <2>1, <2>2, <2>3, LenProperties
    <2>5. requests = <<>> /\ OneReply(SubSeq(Wire, 3, Len(Wire)), requests, NoCseq, events')
      BY <1>2, <2>1, <2>4, Drained
    <2>6. Wire' = SubSeq(Wire, 3, Len(Wire))
      <3> DEFINE m == Len(buffer)
                 n == Len(responses)
                 b == SubSeq(buffer, 3, m)
                 v == b \o responses
                 w == SubSeq(Wire, 3, m + n)
      <3>1. m \in Nat /\ n \in Nat /\ m >= 2 /\ Len(buffer) = m /\ Len(responses) = n /\ Len(Wire) = m + n
        BY <2>1, <2>2, <2>3, LenProperties
      <3>2. \A i \in 1 .. m + n : Wire[i] = IF i <= m THEN buffer[i] ELSE responses[i - m]
        BY <2>1, ConcatProperties DEF Wire
      <3> HIDE DEF m, n
      <3>3. b \in Seq(Piece) /\ Len(b) = m - 2 /\ \A i \in 1 .. m - 2 : b[i] = buffer[i + 2]
        BY <2>1, <3>1
      <3>4. w \in Seq(Piece) /\ Len(w) = m + n - 2 /\ \A i \in 1 .. m + n - 2 : w[i] = Wire[i + 2]
        BY <2>1, <3>1
      <3> HIDE DEF b, w
      <3>5. v \in Seq(Piece) /\ Len(v) = (m - 2) + n
            /\ \A i \in 1 .. (m - 2) + n : v[i] = IF i <= m - 2 THEN b[i] ELSE responses[i - (m - 2)]
        <4>1. \A s, t \in Seq(Piece) :
                  /\ s \o t \in Seq(Piece) /\ Len(s \o t) = Len(s) + Len(t)
                  /\ \A i \in 1 .. Len(s) + Len(t) :
                        (s \o t)[i] = IF i <= Len(s) THEN s[i] ELSE t[i - Len(s)]
          BY ConcatProperties
        <4>2. /\ v \in Seq(Piece) /\ Len(v) = Len(b) + Len(responses)
              /\ \A i \in 1 .. Len(b) + Len(responses) :
                    v[i] = IF i <= Len(b) THEN b[i] ELSE responses[i - Len(b)]
          BY <2>1, <3>3, <4>1
        <4> QED
          BY <3>1, <3>3, <4>2
      <3> HIDE DEF v
      <3>6. \A i \in 1 .. m + n - 2 : v[i] = w[i]
        <4> SUFFICES ASSUME NEW i \in 1 .. m + n - 2 PROVE v[i] = w[i]
          OBVIOUS
        <4>1. i + 2 \in 1 .. m + n /\ i \in 1 .. (m - 2) + n /\ (i <= m - 2 <=> i + 2 <= m)
              /\ (i + 2) - m = i - (m - 2)
          BY <3>1
        <4>2. CASE i <= m - 2
          BY <3>1, <3>2, <3>3, <3>4, <3>5, <4>1, <4>2
        <4>3. CASE ~ (i <= m - 2)
          BY <3>2, <3>4, <3>5, <4>1, <4>3
        <4> QED
          BY <4>2, <4>3
      <3>7. Len(v) = Len(w)
        BY <3>1, <3>4, <3>5
      <3>8. v = w
        <4>1. Len(v) = m + n - 2
          BY <3>4, <3>7
        <4> QED
          BY <3>4, <3>5, <3>6, <3>7, <4>1, SeqEqual
      <3>9. Wire' = v
        BY DEF TakeResponse, wire, Wire, v, b, m
      <3> QED
        BY <3>1, <3>8, <3>9 DEF w
    <2>7. UNCHANGED requests
      BY DEF wire
    <2> QED
      BY <2>5, <2>6, <2>7 DEF LoneInv
  <1> QED
    BY <1>1, <1>2 DEF EventInv, LoneInv

\* Every turn of feed(): what fails says so, and what is taken was the reply.
LEMMA FeedStepLone ==
    ASSUME EventInv, FeedStep
    PROVE  LoneInv'
  <1>1. ASSUME Fail PROVE LoneInv'
    BY <1>1 DEF Fail, LoneInv
  <1>2. CASE FeedUnparsable \/ HandleUnexpected
    BY <1>1, <1>2 DEF FeedUnparsable, HandleUnexpected
  <1>3. CASE FeedReturns
    <2>1. UNCHANGED <<buffer, responses, requests, pending, overlapped, failed>> /\ events' = <<>>
      BY <1>3 DEF FeedReturns, session, wire, history
    <2>2. OneReply(Wire, requests, pending, events) => OneReply(Wire, requests, pending, <<>>)
      BY DEF OneReply
    <2>3. Wire' = Wire
      BY <2>1 DEF Wire
    <2> QED
      BY <2>1, <2>2, <2>3 DEF EventInv, LoneInv
  <1>4. CASE HandleExpected
    <2>1. CASE Fail
      BY <1>1, <2>1
    <2>2. ASSUME NEW event, Emit(event) PROVE LoneInv'
      BY <1>4, <2>2, TakenLone DEF HandleExpected, Emit, history
    <2> QED
      BY <1>4, <2>1, <2>2 DEF HandleExpected, HandleOptions, HandleDescribe, HandleVideo, HandleAudio,
         HandleAudioRefused, HandlePlay, HandleTeardown, HandleOther, HandleRejected
  <1> QED
    BY <1>2, <1>3, <1>4 DEF FeedStep

\* The invariant is inductive.
LEMMA EventNext == EventInv /\ [Next]_vars => EventInv'
  <1> SUFFICES ASSUME EventInv, [Next]_vars PROVE EventInv'
    OBVIOUS
  <1>1. RtspInv'
    BY NextInv DEF EventInv
  <1>2. CASE UNCHANGED vars
    <2>1. LoneInv'
      BY <1>2 DEF vars, session, wire, history, EventInv, LoneInv, Wire
    <2> QED
      BY <1>1, <2>1 DEF EventInv
  <1>3. CASE Next
    <2>1. LoneInv'
      BY <1>3, ServeLone, InterleaveLone, AskLone, CloseLone, FeedLone, FeedStepLone DEF Next
    <2> QED
      BY <1>1, <2>1 DEF EventInv
  <1> QED
    BY <1>2, <1>3

\* Under the invariant a feed() that has collected something fails only on a `$`.
LEMMA FailsOnDollar ==
    ASSUME EventInv, [Next]_vars, feeding, ~ feeding', buffer # <<>>, failed', events # <<>>
    PROVE  overlapped \/ failed \/ buffer[1] = Dollar
  <1> SUFFICES ASSUME OneReply(Wire, requests, pending, events), ~ failed
               PROVE  buffer[1] = Dollar
    BY DEF EventInv, LoneInv
  <1>1. pending = NoCseq /\ \A i \in DOMAIN Wire : ~ IsReply(Wire[i])
    BY DEF OneReply
  <1>2. buffer \in Seq(Piece) /\ Wire \in Seq(Piece) /\ Len(buffer) \in Nat \ {0}
    BY WireTyped, EmptySeq DEF EventInv, RtspInv, WireOK
  <1>3. \A i \in DOMAIN Wire : Wire[i] = Dollar
    BY <1>1, <1>2, NothingToCome
  <1>4. 1 \in DOMAIN Wire /\ Wire[1] = buffer[1]
    BY <1>2, WireTyped DEF EventInv, RtspInv
  <1> QED
    BY <1>3, <1>4

\* Events that feed() has collected are dropped with its error only when requests were
\* overlapped, after an earlier failure, or when the server interleaves RTP: a single
\* request's answer is always reported before anything can fail (RtspSession::feed).
THEOREM EventsArrive == Spec => NoEventLost
  <1>1. EventInv /\ [Next]_vars =>
            [ feeding /\ ~ feeding' /\ buffer # <<>> /\ failed' /\ events # <<>> =>
                 overlapped \/ failed \/ buffer[1] = Dollar ]_vars
    BY FailsOnDollar
  <1> QED
    BY <1>1, EventInit, EventNext, PTL DEF Spec, NoEventLost

-----------------------------------------------------------------------------
(* The units of a reply, and the lines they make.                          *)

LEMMA NothingIs == Absent \in Parts /\ NaN \in Int
<1>1. NaN \in Int
  BY DEF NaN
<1>2. Absent \in Parts
  BY EmptySeq DEF Absent, Parts
<1> QED
  BY <1>1, <1>2

\* Line breaks are units, and no line is one.
LEMMA UnitsAre ==
    /\ CR \in Units /\ LF \in Units /\ CR # LF
    /\ \A u \in Units : u.kind \in {"text", "header"} => u # CR /\ u # LF
<1>1. Absent \in Parts /\ NaN \in Int
  BY NothingIs
<1>2. \A kind \in {"CR", "LF"} : Unit(kind) \in Units
  <2>1. Nothing \in Texts
    BY DEF Texts
  <2>2. \A kind, name, num, parts :
          (/\ kind \in {"CR", "LF", "text", "header"} /\ name \in Texts /\ num \in Int
           /\ parts \in Parts) =>
             [kind |-> kind, name |-> name, num |-> num, parts |-> parts] \in Units
    BY DEF Units
  <2> QED
    BY <1>1, <2>1, <2>2 DEF Unit
<1>3. CR.kind = "CR" /\ LF.kind = "LF"
  BY DEF CR, LF, Unit
<1> QED
  BY <1>2, <1>3 DEF CR, LF

LEMMA StatusIs ==
    ASSUME NEW version \in Texts, NEW code \in Int
    PROVE  /\ Status(version, code) \in Units /\ Status(version, code).kind = "text"
           /\ Status(version, code).name = version /\ Status(version, code).num = code
<1>1. Absent \in Parts /\ NaN \in Int
  BY NothingIs
<1> QED
  BY <1>1 DEF Status, Units, Unit

LEMMA HeaderIs ==
    ASSUME NEW name \in Texts, NEW num \in Int, NEW parts \in Parts
    PROVE  /\ Header(name, num, parts) \in Units /\ Header(name, num, parts).kind = "header"
           /\ Header(name, num, parts).name = name /\ Header(name, num, parts).num = num
           /\ Header(name, num, parts).parts = parts
BY DEF Header, Units, Unit

\* Lines and their breaks, one after the other.
LEMMA BrokenIs ==
    ASSUME NEW lines \in Seq(Units), NEW line \in {<<CR, LF>>, <<LF>>}
    PROVE  /\ Broken(lines, line) \in Seq(Units)
           /\ Len(Broken(lines, line)) = Len(lines) * (1 + Len(line))
           /\ line = <<CR, LF>> => \A i \in 1 .. Len(lines) :
                /\ Broken(lines, line)[3 * i - 2] = lines[i]
                /\ Broken(lines, line)[3 * i - 1] = CR
                /\ Broken(lines, line)[3 * i] = LF
           /\ line = <<LF>> => \A i \in 1 .. Len(lines) :
                /\ Broken(lines, line)[2 * i - 1] = lines[i]
                /\ Broken(lines, line)[2 * i] = LF
<1> DEFINE k == Len(lines)
<1>k. k \in Nat /\ \A i \in 1 .. k : lines[i] \in Units
  OBVIOUS
<1>1. CASE line = <<CR, LF>>
  <2>1. Len(line) = 2 /\ line[1] = CR /\ line[2] = LF
    BY <1>1
  <2> DEFINE f == [p \in 1 .. k * 3 |->
                     IF (p - 1) % 3 = 0 THEN lines[(p - 1) \div 3 + 1] ELSE line[(p - 1) % 3]]
  <2>2. Broken(lines, line) = f
    BY <2>1 DEF Broken
  <2>3. \A p \in 1 .. k * 3 : f[p] \in Units
    <3> TAKE p \in 1 .. k * 3
    <3>1. (p - 1) % 3 = 0 => (p - 1) \div 3 + 1 \in 1 .. k
      BY <1>k
    <3>2. (p - 1) % 3 # 0 => (p - 1) % 3 \in {1, 2}
      BY <1>k
    <3>3. f[p] = IF (p - 1) % 3 = 0 THEN lines[(p - 1) \div 3 + 1] ELSE line[(p - 1) % 3]
      OBVIOUS
    <3> HIDE DEF f, k
    <3> QED
      BY <3>1, <3>2, <3>3, <1>k, <2>1, UnitsAre
  <2>4. k * 3 \in Nat
    BY <1>k
  <2>5. f \in Seq(Units) /\ Len(f) = k * 3
    <3>1. f = [p \in 1 .. k * 3 |-> f[p]]
      OBVIOUS
    <3> HIDE DEF f, k
    <3>2. f \in [1 .. k * 3 -> Units]
      BY <2>3, <3>1
    <3> QED
      BY <3>2, <2>4, SeqDef, LenProperties
  <2>6. ASSUME NEW i \in 1 .. k
        PROVE  f[3 * i - 2] = lines[i] /\ f[3 * i - 1] = CR /\ f[3 * i] = LF
    <3>1. 3 * i - 2 \in 1 .. k * 3 /\ 3 * i - 1 \in 1 .. k * 3 /\ 3 * i \in 1 .. k * 3
      BY <1>k
    <3>2. (3 * i - 2 - 1) % 3 = 0 /\ (3 * i - 2 - 1) \div 3 + 1 = i
      BY <1>k
    <3>3. (3 * i - 1 - 1) % 3 = 1 /\ (3 * i - 1) % 3 = 2
      BY <1>k
    <3> QED
      BY <3>1, <3>2, <3>3, <2>1
  <2> HIDE DEF f
  <2> QED
    BY <2>1, <2>2, <2>5, <2>6, <1>1
<1>2. CASE line = <<LF>>
  <2>1. Len(line) = 1 /\ line[1] = LF
    BY <1>2
  <2> DEFINE f == [p \in 1 .. k * 2 |->
                     IF (p - 1) % 2 = 0 THEN lines[(p - 1) \div 2 + 1] ELSE line[(p - 1) % 2]]
  <2>2. Broken(lines, line) = f
    BY <2>1 DEF Broken
  <2>3. \A p \in 1 .. k * 2 : f[p] \in Units
    <3> TAKE p \in 1 .. k * 2
    <3>1. (p - 1) % 2 = 0 => (p - 1) \div 2 + 1 \in 1 .. k
      BY <1>k
    <3>2. (p - 1) % 2 # 0 => (p - 1) % 2 = 1
      BY <1>k
    <3>3. f[p] = IF (p - 1) % 2 = 0 THEN lines[(p - 1) \div 2 + 1] ELSE line[(p - 1) % 2]
      OBVIOUS
    <3> HIDE DEF f, k
    <3> QED
      BY <3>1, <3>2, <3>3, <1>k, <2>1, UnitsAre
  <2>4. k * 2 \in Nat
    BY <1>k
  <2>5. f \in Seq(Units) /\ Len(f) = k * 2
    <3>1. f = [p \in 1 .. k * 2 |-> f[p]]
      OBVIOUS
    <3> HIDE DEF f, k
    <3>2. f \in [1 .. k * 2 -> Units]
      BY <2>3, <3>1
    <3> QED
      BY <3>2, <2>4, SeqDef, LenProperties
  <2>6. ASSUME NEW i \in 1 .. k
        PROVE  f[2 * i - 1] = lines[i] /\ f[2 * i] = LF
    <3>1. 2 * i - 1 \in 1 .. k * 2 /\ 2 * i \in 1 .. k * 2
      BY <1>k
    <3>2. (2 * i - 1 - 1) % 2 = 0 /\ (2 * i - 1 - 1) \div 2 + 1 = i
      BY <1>k
    <3>3. (2 * i - 1) % 2 = 1
      BY <1>k
    <3> QED
      BY <3>1, <3>2, <3>3, <2>1
  <2> HIDE DEF f
  <2>7. <<CR, LF>> # <<LF>>
    OBVIOUS
  <2> QED
    BY <2>1, <2>2, <2>5, <2>6, <2>7, <1>2
<1> QED
  BY <1>1, <1>2


-----------------------------------------------------------------------------
\* A line end and the blank line of one server.
Styles ==
    {[line |-> <<CR, LF>>, blank |-> <<CR, LF>>], [line |-> <<CR, LF>>, blank |-> <<LF>>],
     [line |-> <<LF>>, blank |-> <<LF>>]}

\* How long the headers of k lines are, the blank line included, and where that is found.
Upto(break, k) == k * (1 + Len(break.line)) + Len(break.blank)
BlankAt(break, k) == IF break.blank = <<CR, LF>> THEN k * (1 + Len(break.line)) - 1
                     ELSE k * (1 + Len(break.line))

\* b begins with the headers of these lines, as far as it goes.
Begins(b, lines, break) ==
    /\ b \in Seq(Units) /\ lines \in Seq(Units) /\ break \in Styles
    /\ \A i \in DOMAIN lines : lines[i].kind \in {"text", "header"}
    /\ \A p \in DOMAIN b :
          p <= Upto(break, Len(lines)) => b[p] = (Broken(lines, break.line) \o break.blank)[p]

LEMMA StylesAre ==
    ASSUME NEW break \in Styles
    PROVE  \/ /\ break.line = <<CR, LF>> /\ break.blank = <<CR, LF>>
              /\ \A k : Upto(break, k) = k * 3 + 2 /\ BlankAt(break, k) = k * 3 - 1
           \/ /\ break.line = <<CR, LF>> /\ break.blank = <<LF>>
              /\ \A k : Upto(break, k) = k * 3 + 1 /\ BlankAt(break, k) = k * 3
           \/ /\ break.line = <<LF>> /\ break.blank = <<LF>>
              /\ \A k : Upto(break, k) = k * 2 + 1 /\ BlankAt(break, k) = k * 2
<1>1. Len(<<CR, LF>>) = 2 /\ Len(<<LF>>) = 1 /\ <<CR, LF>> # <<LF>>
  OBVIOUS
<1>2. CASE break = [line |-> <<CR, LF>>, blank |-> <<CR, LF>>]
  BY <1>1, <1>2 DEF Upto, BlankAt
<1>3. CASE break = [line |-> <<CR, LF>>, blank |-> <<LF>>]
  BY <1>1, <1>3 DEF Upto, BlankAt
<1>4. CASE break = [line |-> <<LF>>, blank |-> <<LF>>]
  BY <1>1, <1>4 DEF Upto, BlankAt
<1> QED
  BY <1>2, <1>3, <1>4 DEF Styles

\* What a blank line is, position by position.
LEMMA StartsAre ==
    ASSUME NEW b \in Seq(Units), NEW i \in 1 .. Len(b)
    PROVE  /\ StartsAt(b, i, <<CR, LF, CR, LF>>) <=>
                i + 3 <= Len(b) /\ b[i] = CR /\ b[i + 1] = LF /\ b[i + 2] = CR /\ b[i + 3] = LF
           /\ StartsAt(b, i, <<LF, LF>>) <=> i + 1 <= Len(b) /\ b[i] = LF /\ b[i + 1] = LF
<1> DEFINE rest == SubSeq(b, i, Len(b))
<1>1. rest \in Seq(Units) /\ Len(rest) = Len(b) - i + 1 /\ \A j \in 1 .. Len(b) - i + 1 : rest[j] = b[i + j - 1]
  BY SubSeqProperties
<1>2. ASSUME NEW s \in Seq(Units), Len(s) <= Len(rest)
      PROVE  SubSeq(s, 1, Len(s)) = SubSeq(rest, 1, Len(s)) <=> \A j \in 1 .. Len(s) : s[j] = b[i + j - 1]
  <2>1. /\ SubSeq(s, 1, Len(s)) \in Seq(Units) /\ Len(SubSeq(s, 1, Len(s))) = Len(s)
        /\ \A j \in 1 .. Len(s) : SubSeq(s, 1, Len(s))[j] = s[j]
    BY SubSeqProperties
  <2>2. /\ SubSeq(rest, 1, Len(s)) \in Seq(Units) /\ Len(SubSeq(rest, 1, Len(s))) = Len(s)
        /\ \A j \in 1 .. Len(s) : SubSeq(rest, 1, Len(s))[j] = b[i + j - 1]
    <3> HIDE DEF rest
    <3>1. \A j \in 1 .. Len(s) : SubSeq(rest, 1, Len(s))[j] = rest[j] /\ j \in 1 .. Len(b) - i + 1
      BY <1>1, <1>2, SubSeqProperties
    <3>2. SubSeq(rest, 1, Len(s)) \in Seq(Units) /\ Len(SubSeq(rest, 1, Len(s))) = Len(s)
      BY <1>1, <1>2, SubSeqProperties
    <3> QED
      BY <3>1, <3>2, <1>1
  <2> HIDE DEF rest
  <2>3. SubSeq(s, 1, Len(s)) = SubSeq(rest, 1, Len(s)) <=>
           \A j \in 1 .. Len(s) : SubSeq(s, 1, Len(s))[j] = SubSeq(rest, 1, Len(s))[j]
    BY <2>1, <2>2, SeqEqual
  <2> QED
    BY <2>1, <2>2, <2>3
<1> HIDE DEF rest
<1>3. StartsAt(b, i, <<CR, LF, CR, LF>>) <=>
        i + 3 <= Len(b) /\ b[i] = CR /\ b[i + 1] = LF /\ b[i + 2] = CR /\ b[i + 3] = LF
  <2> DEFINE s == <<CR, LF, CR, LF>>
  <2>1. s \in Seq(Units) /\ Len(s) = 4 /\ s[1] = CR /\ s[2] = LF /\ s[3] = CR /\ s[4] = LF
    BY UnitsAre
  <2>2. StartsAt(b, i, s) <=> (Len(s) <= Len(rest) /\ SubSeq(s, 1, Len(s)) = SubSeq(rest, 1, Len(s)))
    BY DEF StartsAt, IsPrefix, rest
  <2> HIDE DEF s
  <2>3. StartsAt(b, i, s) <=> (Len(s) <= Len(rest) /\ \A j \in 1 .. Len(s) : s[j] = b[i + j - 1])
    BY <2>1, <2>2, <1>2
  <2>4. (\A j \in 1 .. 4 : s[j] = b[i + j - 1]) <=>
          (b[i] = CR /\ b[i + 1] = LF /\ b[i + 2] = CR /\ b[i + 3] = LF)
    BY <2>1
  <2>5. StartsAt(b, i, s) <=>
          i + 3 <= Len(b) /\ b[i] = CR /\ b[i + 1] = LF /\ b[i + 2] = CR /\ b[i + 3] = LF
    BY <2>1, <2>3, <2>4, <1>1
  <2> QED
    BY <2>5 DEF s
<1>4. StartsAt(b, i, <<LF, LF>>) <=> i + 1 <= Len(b) /\ b[i] = LF /\ b[i + 1] = LF
  <2> DEFINE s == <<LF, LF>>
  <2>1. s \in Seq(Units) /\ Len(s) = 2 /\ s[1] = LF /\ s[2] = LF
    BY UnitsAre
  <2>2. StartsAt(b, i, s) <=> (Len(s) <= Len(rest) /\ SubSeq(s, 1, Len(s)) = SubSeq(rest, 1, Len(s)))
    BY DEF StartsAt, IsPrefix, rest
  <2> HIDE DEF s
  <2>3. StartsAt(b, i, s) <=> (Len(s) <= Len(rest) /\ \A j \in 1 .. Len(s) : s[j] = b[i + j - 1])
    BY <2>1, <2>2, <1>2
  <2>4. (\A j \in 1 .. 2 : s[j] = b[i + j - 1]) <=> (b[i] = LF /\ b[i + 1] = LF)
    BY <2>1
  <2>5. StartsAt(b, i, s) <=> i + 1 <= Len(b) /\ b[i] = LF /\ b[i + 1] = LF
    BY <2>1, <2>3, <2>4, <1>1
  <2> QED
    BY <2>5 DEF s
<1> QED
  BY <1>3, <1>4


-----------------------------------------------------------------------------
CrlfLines(b, lines) ==
    \A i \in 1 .. Len(lines) :
        /\ 3 * i - 2 <= Len(b) => b[3 * i - 2] = lines[i]
        /\ 3 * i - 1 <= Len(b) => b[3 * i - 1] = CR
        /\ 3 * i <= Len(b) => b[3 * i] = LF

LfLines(b, lines) ==
    \A i \in 1 .. Len(lines) :
        /\ 2 * i - 1 <= Len(b) => b[2 * i - 1] = lines[i]
        /\ 2 * i <= Len(b) => b[2 * i] = LF

LEMMA BrokenAt ==
    ASSUME NEW b, NEW lines, NEW break, Begins(b, lines, break)
    PROVE  /\ Len(b) \in Nat /\ Len(lines) \in Nat
           /\ \A i \in 1 .. Len(lines) : lines[i] \in Units /\ lines[i] # CR /\ lines[i] # LF
           /\ break.line = <<CR, LF>> => CrlfLines(b, lines)
           /\ break.line = <<LF>> => LfLines(b, lines)
           /\ \A j \in 1 .. Len(break.blank) :
                Len(lines) * (1 + Len(break.line)) + j <= Len(b) =>
                    b[Len(lines) * (1 + Len(break.line)) + j] = break.blank[j]
<1> DEFINE w == 1 + Len(break.line)
           k == Len(lines)
           B == Broken(lines, break.line)
           s == B \o break.blank
<1>1. b \in Seq(Units) /\ lines \in Seq(Units) /\ break \in Styles
  BY DEF Begins
<1>2. Len(b) \in Nat /\ k \in Nat /\ DOMAIN b = 1 .. Len(b) /\ DOMAIN lines = 1 .. k
  BY <1>1, LenProperties
<1>3. \A i \in 1 .. k : lines[i] \in Units /\ lines[i] # CR /\ lines[i] # LF
  <2> TAKE i \in 1 .. k
  <2>1. lines[i] \in Units
    BY <1>1, ElementOfSeq
  <2>2. lines[i].kind \in {"text", "header"}
    BY <1>2 DEF Begins
  <2> QED
    BY <2>1, <2>2, UnitsAre
<1>4. /\ break.line \in {<<CR, LF>>, <<LF>>} /\ break.blank \in {<<CR, LF>>, <<LF>>}
      /\ Len(break.blank) \in {1, 2} /\ w \in {2, 3}
      /\ break.line = <<CR, LF>> => w = 3
      /\ break.line = <<LF>> => w = 2
  <2>1. Len(<<CR, LF>>) = 2 /\ Len(<<LF>>) = 1
    OBVIOUS
  <2>2. /\ break.line = <<CR, LF>> \/ break.line = <<LF>>
        /\ break.blank = <<CR, LF>> \/ break.blank = <<LF>>
    BY <1>1 DEF Styles
  <2>3. Len(break.line) \in {1, 2} /\ Len(break.blank) \in {1, 2}
    BY <2>1, <2>2
  <2>4. (break.line = <<CR, LF>> => Len(break.line) = 2) /\ (break.line = <<LF>> => Len(break.line) = 1)
    BY <2>1
  <2> HIDE DEF k, B, s
  <2>5. w \in {2, 3}
    <3>1. \A x \in {1, 2} : 1 + x \in {2, 3}
      OBVIOUS
    <3> QED
      BY <3>1, <2>3
  <2>6. break.line = <<CR, LF>> => w = 3
    BY <2>4
  <2>7. break.line = <<LF>> => w = 2
    BY <2>4
  <2> HIDE DEF w
  <2> QED
    BY <2>2, <2>3, <2>5, <2>6, <2>7
<1>5. break.blank \in Seq(Units)
  <2>1. <<CR, LF>> \in Seq(Units) /\ <<LF>> \in Seq(Units)
    BY UnitsAre
  <2> QED
    BY <2>1, <1>4
<1> DEFINE M == k * w
<1>7. /\ M \in Nat
      /\ break.line = <<CR, LF>> => M = 3 * k
      /\ break.line = <<LF>> => M = 2 * k
  <2> HIDE DEF k, w
  <2>1. w = 2 \/ w = 3
    BY <1>4
  <2>2. CASE w = 2
    BY <2>2, <1>2, <1>4
  <2>3. CASE w = 3
    BY <2>3, <1>2, <1>4
  <2> QED
    BY <2>1, <2>2, <2>3
<1>6. /\ B \in Seq(Units) /\ Len(B) = M
      /\ break.line = <<CR, LF>> => \A i \in 1 .. k :
            B[3 * i - 2] = lines[i] /\ B[3 * i - 1] = CR /\ B[3 * i] = LF
      /\ break.line = <<LF>> => \A i \in 1 .. k : B[2 * i - 1] = lines[i] /\ B[2 * i] = LF
  <2>1. lines \in Seq(Units) /\ break.line \in {<<CR, LF>>, <<LF>>}
    BY <1>1, <1>4
  <2>2. B \in Seq(Units) /\ Len(B) = M
    BY <2>1, BrokenIs
  <2>3. break.line = <<CR, LF>> => \A i \in 1 .. k :
            B[3 * i - 2] = lines[i] /\ B[3 * i - 1] = CR /\ B[3 * i] = LF
    BY <2>1, BrokenIs
  <2>4. break.line = <<LF>> => \A i \in 1 .. k : B[2 * i - 1] = lines[i] /\ B[2 * i] = LF
    BY <2>1, BrokenIs
  <2> QED
    BY <2>2, <2>3, <2>4
<1> DEFINE n == Len(break.blank)
<1>n. n \in Nat
  BY <1>4
<1> HIDE DEF B
<1>8. /\ \A p \in 1 .. M : s[p] = B[p]
      /\ \A j \in 1 .. n : s[M + j] = break.blank[j]
  <2> HIDE DEF M
  <2>1. \A i \in 1 .. Len(B) + n :
          s[i] = IF i <= Len(B) THEN B[i] ELSE break.blank[i - Len(B)]
    BY <1>5, <1>6, ConcatProperties
  <2> HIDE DEF s, n
  <2>2. Len(B) = M
    BY <1>6
  <2> DEFINE blank == break.blank
  <2>3. \A i \in 1 .. M + n : s[i] = IF i <= M THEN B[i] ELSE blank[i - M]
    BY <2>1, <2>2
  <2> HIDE DEF blank
  <2>4. \A p \in 1 .. M : s[p] = B[p]
    BY <2>3, <1>7, <1>n
  <2>5. ASSUME NEW j \in 1 .. n
        PROVE  s[M + j] = blank[j]
    <3> DEFINE p == M + j
    <3>1. p \in 1 .. M + n /\ ~ (p <= M) /\ p - M = j
      BY <1>7, <1>n
    <3> HIDE DEF p
    <3>2. s[p] = blank[p - M]
      BY <3>1, <2>3
    <3> QED
      BY <3>1, <3>2 DEF p
  <2> QED
    BY <2>4, <2>5 DEF blank
<1>9. \A p \in 1 .. Len(b) : p <= M + n => b[p] = s[p]
  BY <1>2 DEF Begins, Upto, B
<1> HIDE DEF s, M, n
<1>10. break.line = <<CR, LF>> => \A i \in 1 .. k :
          /\ 3 * i - 2 <= Len(b) => b[3 * i - 2] = lines[i]
          /\ 3 * i - 1 <= Len(b) => b[3 * i - 1] = CR
          /\ 3 * i <= Len(b) => b[3 * i] = LF
  <2> SUFFICES ASSUME break.line = <<CR, LF>>, NEW i \in 1 .. k
               PROVE  /\ 3 * i - 2 <= Len(b) => b[3 * i - 2] = lines[i]
                      /\ 3 * i - 1 <= Len(b) => b[3 * i - 1] = CR
                      /\ 3 * i <= Len(b) => b[3 * i] = LF
    OBVIOUS
  <2>0. M = 3 * k
    BY <1>7
  <2> HIDE DEF k, w
  <2>1. ASSUME NEW p \in {3 * i - 2, 3 * i - 1, 3 * i}, p <= Len(b)
        PROVE  b[p] = B[p]
    <3>0. k \in Nat /\ n \in Nat /\ Len(b) \in Nat /\ i \in Int /\ 1 <= i /\ i <= k
      BY <1>2, <1>n
    <3>1. p \in Int /\ 1 <= p /\ p <= 3 * k
      BY <3>0, <2>1
    <3>2. p \in 1 .. M
      BY <3>0, <3>1, <2>0
    <3>3. p \in 1 .. Len(b)
      BY <3>0, <3>1, <2>1
    <3>4. p <= M + n
      BY <3>0, <3>1, <2>0
    <3> QED
      BY <3>2, <3>3, <3>4, <1>8, <1>9
  <2> QED
    BY <2>1, <1>6
<1>11. break.line = <<LF>> => \A i \in 1 .. k :
          /\ 2 * i - 1 <= Len(b) => b[2 * i - 1] = lines[i]
          /\ 2 * i <= Len(b) => b[2 * i] = LF
  <2> SUFFICES ASSUME break.line = <<LF>>, NEW i \in 1 .. k
               PROVE  /\ 2 * i - 1 <= Len(b) => b[2 * i - 1] = lines[i]
                      /\ 2 * i <= Len(b) => b[2 * i] = LF
    OBVIOUS
  <2>0. M = 2 * k
    BY <1>7
  <2> HIDE DEF k, w
  <2>1. ASSUME NEW p \in {2 * i - 1, 2 * i}, p <= Len(b)
        PROVE  b[p] = B[p]
    <3>1. p \in 1 .. M /\ p \in 1 .. Len(b) /\ p <= M + n
      BY <2>0, <2>1, <1>2, <1>n
    <3> QED
      BY <3>1, <1>8, <1>9
  <2> QED
    BY <2>1, <1>6
<1>12. \A j \in 1 .. n : M + j <= Len(b) => b[M + j] = break.blank[j]
  <2> TAKE j \in 1 .. n
  <2> HAVE M + j <= Len(b)
  <2>1. M + j \in 1 .. Len(b) /\ M + j <= M + n
    BY <1>2, <1>7, <1>n
  <2> QED
    BY <2>1, <1>8, <1>9
<1> QED
  BY <1>2, <1>3, <1>10, <1>11, <1>12 DEF M, n, CrlfLines, LfLines

\* The blank line is found as soon as it is there, and nothing else is taken for it.
LEMMA BlankIs ==
    ASSUME NEW b, NEW lines, NEW break, Begins(b, lines, break), Len(lines) >= 2
    PROVE  /\ Len(b) < Upto(break, Len(lines)) => find_header_end(b) = 0
           /\ Len(b) >= Upto(break, Len(lines)) =>
                /\ find_header_end(b) = BlankAt(break, Len(lines))
                /\ BlankAt(break, Len(lines)) + header_terminator_len(b, BlankAt(break, Len(lines)))
                      = Upto(break, Len(lines)) + 1
<1> DEFINE k == Len(lines)
           four == <<CR, LF, CR, LF>>
           two == <<LF, LF>>
           at == {i \in DOMAIN b : StartsAt(b, i, four) \/ StartsAt(b, i, two)}
           e == BlankAt(break, k)
<1>1. b \in Seq(Units) /\ break \in Styles
  BY DEF Begins
<1>2. Len(b) \in Nat /\ DOMAIN b = 1 .. Len(b) /\ k \in Nat /\ k >= 2
  BY <1>1, LenProperties, BrokenAt
<1>3. \A i \in 1 .. k : lines[i] # CR /\ lines[i] # LF
  BY BrokenAt
<1>4. \A i \in 1 .. Len(b) : i \in at <=>
        \/ i + 3 <= Len(b) /\ b[i] = CR /\ b[i + 1] = LF /\ b[i + 2] = CR /\ b[i + 3] = LF
        \/ i + 1 <= Len(b) /\ b[i] = LF /\ b[i + 1] = LF
  BY <1>1, <1>2, StartsAre
<1>5. CR # LF
  BY UnitsAre
<1>6. /\ e \in 1 .. Upto(break, k) /\ Upto(break, k) \in Nat
      /\ Len(b) >= Upto(break, k) => e \in at
      /\ \A i \in at : Len(b) >= Upto(break, k) /\ e <= i
      /\ Len(b) >= Upto(break, k) => (StartsAt(b, e, four) <=> break.blank = <<CR, LF>>)
      /\ Upto(break, k) + 1 - e = IF break.blank = <<CR, LF>> THEN 4 ELSE 2
  <2> DEFINE Goal ==
         /\ e \in 1 .. Upto(break, k) /\ Upto(break, k) \in Nat
         /\ Len(b) >= Upto(break, k) => e \in at
         /\ \A i \in at : Len(b) >= Upto(break, k) /\ e <= i
         /\ Len(b) >= Upto(break, k) => (StartsAt(b, e, four) <=> break.blank = <<CR, LF>>)
         /\ Upto(break, k) + 1 - e = IF break.blank = <<CR, LF>> THEN 4 ELSE 2
  <2>0. <<CR, LF>> # <<LF>>
    OBVIOUS
  <2>a. at \subseteq 1 .. Len(b)
    BY <1>2
  <2>b. Len(<<CR, LF>>) = 2 /\ Len(<<LF>>) = 1 /\ <<CR, LF>>[1] = CR /\ <<CR, LF>>[2] = LF /\ <<LF>>[1] = LF
    <3> HIDE DEF at, e, k, Goal
    <3> QED
      OBVIOUS
  <2>c. \A j \in 1 .. Len(break.blank) :
            k * (1 + Len(break.line)) + j <= Len(b) => b[k * (1 + Len(break.line)) + j] = break.blank[j]
    BY BrokenAt
  <2>d. break.line = <<CR, LF>> => \A i \in 1 .. k :
            /\ 3 * i - 2 <= Len(b) => b[3 * i - 2] = lines[i]
            /\ 3 * i - 1 <= Len(b) => b[3 * i - 1] = CR
            /\ 3 * i <= Len(b) => b[3 * i] = LF
    <3> HIDE DEF at, e, four, two, Goal
    <3>1. break.line = <<CR, LF>> => CrlfLines(b, lines)
      BY BrokenAt
    <3> QED
      BY <3>1 DEF CrlfLines
  <2>e. break.line = <<LF>> => \A i \in 1 .. k :
            /\ 2 * i - 1 <= Len(b) => b[2 * i - 1] = lines[i]
            /\ 2 * i <= Len(b) => b[2 * i] = LF
    <3>1. break.line = <<LF>> => LfLines(b, lines)
      BY BrokenAt
    <3> QED
      BY <3>1 DEF LfLines
  <2>1. CASE /\ break.line = <<CR, LF>> /\ break.blank = <<CR, LF>>
             /\ Upto(break, k) = k * 3 + 2 /\ e = k * 3 - 1
    <3>1. (k * 3 + 1 <= Len(b) => b[k * 3 + 1] = CR) /\ (k * 3 + 2 <= Len(b) => b[k * 3 + 2] = LF)
      BY <2>1, <2>b, <2>c
    <3>2. \A i \in 1 .. k :
            /\ 3 * i - 2 <= Len(b) => b[3 * i - 2] = lines[i]
            /\ 3 * i - 1 <= Len(b) => b[3 * i - 1] = CR
            /\ 3 * i <= Len(b) => b[3 * i] = LF
      BY <2>1, <2>d
    <3> HIDE DEF at, e, k, four
    <3>3. e \in 1 .. Upto(break, k) /\ Upto(break, k) \in Nat /\ Upto(break, k) + 1 - e = 4
      BY <2>1, <1>2
    <3>4. ASSUME Len(b) >= Upto(break, k)
          PROVE  e \in 1 .. Len(b) /\ e + 3 <= Len(b) /\ b[e] = CR /\ b[e + 1] = LF /\ b[e + 2] = CR /\ b[e + 3] = LF
      <4>1. 3 * k - 1 <= Len(b) /\ 3 * k <= Len(b) /\ k \in 1 .. k /\ e = 3 * k - 1
            /\ k * 3 + 1 <= Len(b) /\ k * 3 + 2 <= Len(b)
        BY <2>1, <3>4, <1>2
      <4>2. b[3 * k - 1] = CR /\ b[3 * k] = LF
        BY <4>1, <3>2
      <4>3. e + 1 = 3 * k /\ e + 2 = k * 3 + 1 /\ e + 3 = k * 3 + 2
        BY <2>1, <1>2
      <4> QED
        BY <4>1, <4>2, <4>3, <3>1, <1>2
    <3>5. Len(b) >= Upto(break, k) => (StartsAt(b, e, four) /\ e \in at)
      BY <3>4, <1>1, <1>4, StartsAre DEF four
    <3>6. ASSUME NEW i \in at
          PROVE  Len(b) >= Upto(break, k) /\ e <= i
      <4>1. i \in 1 .. Len(b)
        BY <2>a
      <4>2. \/ i + 3 <= Len(b) /\ b[i] = CR /\ b[i + 1] = LF /\ b[i + 2] = CR /\ b[i + 3] = LF
            \/ i + 1 <= Len(b) /\ b[i] = LF /\ b[i + 1] = LF
        BY <4>1, <1>4
      <4>3. CASE i > k * 3
        <5>1. i = k * 3 + 1 => b[i] = CR
          BY <3>1, <4>1
        <5>2. (i = k * 3 + 1 /\ i + 3 <= Len(b)) \/ (i >= k * 3 + 2 /\ i + 1 <= Len(b))
          BY <5>1, <4>2, <4>3, <4>1, <1>2, <1>5
        <5> QED
          BY <5>2, <4>3, <4>1, <2>1, <1>2
      <4>4. CASE i <= k * 3
        <5>1. PICK j \in 1 .. k : i = 3 * j - 2 \/ i = 3 * j - 1 \/ i = 3 * j
          <6>1. (i - 1) \div 3 + 1 \in 1 .. k
            BY <4>1, <4>4, <1>2
          <6>2. LET j == (i - 1) \div 3 + 1 IN i = 3 * j - 2 \/ i = 3 * j - 1 \/ i = 3 * j
            BY <4>1
          <6> QED
            BY <6>1, <6>2
        <5>2. lines[j] # CR /\ lines[j] # LF
          BY <1>3
        <5>3. i # 3 * j - 2
          <6>1. b[i] = CR \/ b[i] = LF
            BY <4>2
          <6>2. i = 3 * j - 2 => b[i] = lines[j]
            BY <4>1, <3>2
          <6> QED
            BY <5>2, <6>1, <6>2
        <5>4. CASE i = 3 * j - 1
          <6>1. b[i] = CR
            BY <5>4, <4>1, <3>2
          <6>2. i + 3 <= Len(b) /\ b[i + 2] = CR
            BY <6>1, <4>2, <1>5
          <6>3. j = k
            <7> SUFFICES ASSUME j # k PROVE FALSE
              OBVIOUS
            <7>1. j + 1 \in 1 .. k /\ 3 * (j + 1) - 2 = i + 2 /\ 3 * (j + 1) - 2 <= Len(b)
              BY <5>4, <6>2, <4>1, <1>2
            <7>2. b[i + 2] = lines[j + 1]
              BY <7>1, <3>2
            <7> QED
              BY <7>1, <7>2, <6>2, <1>3
          <6> QED
            BY <6>2, <6>3, <5>4, <4>1, <2>1, <1>2
        <5>5. CASE i = 3 * j
          <6>1. b[i] = LF
            BY <5>5, <4>1, <3>2
          <6>2. i + 1 <= Len(b) /\ b[i + 1] = LF
            BY <6>1, <4>2, <1>5
          <6>3. j = k
            <7> SUFFICES ASSUME j # k PROVE FALSE
              OBVIOUS
            <7>1. j + 1 \in 1 .. k /\ 3 * (j + 1) - 2 = i + 1 /\ 3 * (j + 1) - 2 <= Len(b)
              BY <5>5, <6>2, <4>1, <1>2
            <7>2. b[i + 1] = lines[j + 1]
              BY <7>1, <3>2
            <7> QED
              BY <7>1, <7>2, <6>2, <1>3
          <6>4. i + 1 = k * 3 + 1
            BY <6>3, <5>5, <1>2
          <6> QED
            BY <6>2, <6>4, <3>1, <1>5
        <5> QED
          BY <5>1, <5>3, <5>4, <5>5
      <4> QED
        BY <4>1, <4>3, <4>4, <1>2
    <3> QED
      BY <3>3, <3>5, <3>6, <2>1
  <2>2. CASE /\ break.line = <<CR, LF>> /\ break.blank = <<LF>>
             /\ Upto(break, k) = k * 3 + 1 /\ e = k * 3
    <3>1. k * 3 + 1 <= Len(b) => b[k * 3 + 1] = LF
      BY <2>2, <2>b, <2>c
    <3>2. \A i \in 1 .. k :
            /\ 3 * i - 2 <= Len(b) => b[3 * i - 2] = lines[i]
            /\ 3 * i - 1 <= Len(b) => b[3 * i - 1] = CR
            /\ 3 * i <= Len(b) => b[3 * i] = LF
      BY <2>2, <2>d
    <3> HIDE DEF at, e, k, four
    <3>3. e \in 1 .. Upto(break, k) /\ Upto(break, k) \in Nat /\ Upto(break, k) + 1 - e = 2
      BY <2>2, <1>2
    <3>4. ASSUME Len(b) >= Upto(break, k)
          PROVE  e \in 1 .. Len(b) /\ e + 1 <= Len(b) /\ b[e] = LF /\ b[e + 1] = LF
      <4>1. 3 * k <= Len(b) /\ k \in 1 .. k /\ e = 3 * k /\ k * 3 + 1 <= Len(b) /\ e + 1 = k * 3 + 1
        BY <2>2, <3>4, <1>2
      <4>2. e \in 1 .. Len(b) /\ e + 1 <= Len(b)
        BY <4>1, <1>2
      <4>3. b[e] = LF
        BY <4>1, <3>2
      <4>4. b[e + 1] = LF
        BY <4>1, <3>1
      <4> QED
        BY <4>2, <4>3, <4>4
    <3>5. Len(b) >= Upto(break, k) => (~ StartsAt(b, e, four) /\ e \in at)
      <4> SUFFICES ASSUME Len(b) >= Upto(break, k)
                   PROVE  ~ StartsAt(b, e, four) /\ e \in at
        OBVIOUS
      <4>1. e \in 1 .. Len(b) /\ e + 1 <= Len(b) /\ b[e] = LF /\ b[e + 1] = LF
        BY <3>4
      <4>2. e \in at
        BY <4>1, <1>4
      <4>3. StartsAt(b, e, four) => b[e] = CR
        BY <4>1, <1>1, StartsAre DEF four
      <4> QED
        BY <4>1, <4>2, <4>3, <1>5
    <3>6. ASSUME NEW i \in at
          PROVE  Len(b) >= Upto(break, k) /\ e <= i
      <4>1. i \in 1 .. Len(b)
        BY <2>a
      <4>2. \/ i + 3 <= Len(b) /\ b[i] = CR /\ b[i + 1] = LF /\ b[i + 2] = CR /\ b[i + 3] = LF
            \/ i + 1 <= Len(b) /\ b[i] = LF /\ b[i + 1] = LF
        BY <4>1, <1>4
      <4>3. CASE i > k * 3
        <5>1. i + 1 <= Len(b)
          BY <4>1, <4>2, <1>2
        <5> QED
          BY <5>1, <4>3, <4>1, <2>2, <1>2
      <4>4. CASE i <= k * 3
        <5>1. PICK j \in 1 .. k : i = 3 * j - 2 \/ i = 3 * j - 1 \/ i = 3 * j
          <6>1. (i - 1) \div 3 + 1 \in 1 .. k
            BY <4>1, <4>4, <1>2
          <6>2. LET j == (i - 1) \div 3 + 1 IN i = 3 * j - 2 \/ i = 3 * j - 1 \/ i = 3 * j
            BY <4>1
          <6> QED
            BY <6>1, <6>2
        <5>2. lines[j] # CR /\ lines[j] # LF
          BY <1>3
        <5>3. i # 3 * j - 2
          <6>1. b[i] = CR \/ b[i] = LF
            BY <4>2
          <6>2. i = 3 * j - 2 => b[i] = lines[j]
            BY <4>1, <3>2
          <6> QED
            BY <5>2, <6>1, <6>2
        <5>4. CASE i = 3 * j - 1
          <6>1. b[i] = CR
            BY <5>4, <4>1, <3>2
          <6>2. i + 3 <= Len(b) /\ b[i + 2] = CR
            BY <6>1, <4>2, <1>5
          <6>3. j = k
            <7> SUFFICES ASSUME j # k PROVE FALSE
              OBVIOUS
            <7>1. j + 1 \in 1 .. k /\ 3 * (j + 1) - 2 = i + 2 /\ 3 * (j + 1) - 2 <= Len(b)
              BY <5>4, <6>2, <4>1, <1>2
            <7>2. b[i + 2] = lines[j + 1]
              BY <7>1, <3>2
            <7> QED
              BY <7>1, <7>2, <6>2, <1>3
          <6>4. i + 2 = k * 3 + 1 /\ i + 2 <= Len(b)
            BY <6>2, <6>3, <5>4, <4>1, <1>2
          <6> QED
            BY <6>2, <6>4, <3>1, <1>5
        <5>5. CASE i = 3 * j
          <6>1. b[i] = LF
            BY <5>5, <4>1, <3>2
          <6>2. i + 1 <= Len(b) /\ b[i + 1] = LF
            BY <6>1, <4>2, <1>5
          <6>3. j = k
            <7> SUFFICES ASSUME j # k PROVE FALSE
              OBVIOUS
            <7>1. j + 1 \in 1 .. k /\ 3 * (j + 1) - 2 = i + 1 /\ 3 * (j + 1) - 2 <= Len(b)
              BY <5>5, <6>2, <4>1, <1>2
            <7>2. b[i + 1] = lines[j + 1]
              BY <7>1, <3>2
            <7> QED
              BY <7>1, <7>2, <6>2, <1>3
          <6> QED
            BY <6>2, <6>3, <5>5, <4>1, <2>2, <1>2
        <5> QED
          BY <5>1, <5>3, <5>4, <5>5
      <4> QED
        BY <4>1, <4>3, <4>4, <1>2
    <3>7. break.blank # <<CR, LF>>
      BY <2>2, <2>0
    <3> HIDE DEF two
    <3> QED
      BY <3>3, <3>5, <3>6, <3>7
  <2>3. CASE /\ break.line = <<LF>> /\ break.blank = <<LF>>
             /\ Upto(break, k) = k * 2 + 1 /\ e = k * 2
    <3>1. k * 2 + 1 <= Len(b) => b[k * 2 + 1] = LF
      BY <2>3, <2>b, <2>c
    <3>2. \A i \in 1 .. k :
            /\ 2 * i - 1 <= Len(b) => b[2 * i - 1] = lines[i]
            /\ 2 * i <= Len(b) => b[2 * i] = LF
      BY <2>3, <2>e
    <3> HIDE DEF at, e, k, four
    <3>3. e \in 1 .. Upto(break, k) /\ Upto(break, k) \in Nat /\ Upto(break, k) + 1 - e = 2
      BY <2>3, <1>2
    <3>4. ASSUME Len(b) >= Upto(break, k)
          PROVE  e \in 1 .. Len(b) /\ e + 1 <= Len(b) /\ b[e] = LF /\ b[e + 1] = LF
      <4>1. 2 * k <= Len(b) /\ k \in 1 .. k /\ e = 2 * k /\ k * 2 + 1 <= Len(b) /\ e + 1 = k * 2 + 1
        BY <2>3, <3>4, <1>2
      <4>2. e \in 1 .. Len(b) /\ e + 1 <= Len(b)
        BY <4>1, <1>2
      <4>3. b[e] = LF
        BY <4>1, <3>2
      <4>4. b[e + 1] = LF
        BY <4>1, <3>1
      <4> QED
        BY <4>2, <4>3, <4>4
    <3>5. Len(b) >= Upto(break, k) => (~ StartsAt(b, e, four) /\ e \in at)
      <4> SUFFICES ASSUME Len(b) >= Upto(break, k)
                   PROVE  ~ StartsAt(b, e, four) /\ e \in at
        OBVIOUS
      <4>1. e \in 1 .. Len(b) /\ e + 1 <= Len(b) /\ b[e] = LF /\ b[e + 1] = LF
        BY <3>4
      <4>2. e \in at
        BY <4>1, <1>4
      <4>3. StartsAt(b, e, four) => b[e] = CR
        BY <4>1, <1>1, StartsAre DEF four
      <4> QED
        BY <4>1, <4>2, <4>3, <1>5
    <3>6. ASSUME NEW i \in at
          PROVE  Len(b) >= Upto(break, k) /\ e <= i
      <4>1. i \in 1 .. Len(b)
        BY <2>a
      <4>2. \/ i + 3 <= Len(b) /\ b[i] = CR /\ b[i + 1] = LF /\ b[i + 2] = CR /\ b[i + 3] = LF
            \/ i + 1 <= Len(b) /\ b[i] = LF /\ b[i + 1] = LF
        BY <4>1, <1>4
      <4>3. CASE i > k * 2
        <5>1. i + 1 <= Len(b)
          BY <4>1, <4>2, <1>2
        <5> QED
          BY <5>1, <4>3, <4>1, <2>3, <1>2
      <4>4. CASE i <= k * 2
        <5>1. PICK j \in 1 .. k : i = 2 * j - 1 \/ i = 2 * j
          <6>1. (i - 1) \div 2 + 1 \in 1 .. k
            BY <4>1, <4>4, <1>2
          <6>2. LET j == (i - 1) \div 2 + 1 IN i = 2 * j - 1 \/ i = 2 * j
            BY <4>1
          <6> QED
            BY <6>1, <6>2
        <5>2. lines[j] # CR /\ lines[j] # LF
          BY <1>3
        <5>3. i # 2 * j - 1
          <6>1. b[i] = CR \/ b[i] = LF
            BY <4>2
          <6>2. i = 2 * j - 1 => b[i] = lines[j]
            BY <4>1, <3>2
          <6> QED
            BY <5>2, <6>1, <6>2
        <5>5. i = 2 * j
          BY <5>1, <5>3
        <5>6. b[i] = LF
          BY <5>5, <4>1, <3>2
        <5>7. i + 1 <= Len(b) /\ b[i + 1] = LF
          BY <5>6, <4>2, <1>5
        <5>8. j = k
          <7> SUFFICES ASSUME j # k PROVE FALSE
            OBVIOUS
          <7>1. j + 1 \in 1 .. k /\ 2 * (j + 1) - 1 = i + 1 /\ 2 * (j + 1) - 1 <= Len(b)
            BY <5>5, <5>7, <4>1, <1>2
          <7>2. b[i + 1] = lines[j + 1]
            BY <7>1, <3>2
          <7> QED
            BY <7>1, <7>2, <5>7, <1>3
        <5> QED
          BY <5>5, <5>7, <5>8, <4>1, <2>3, <1>2
      <4> QED
        BY <4>1, <4>3, <4>4, <1>2
    <3>7. break.blank # <<CR, LF>>
      BY <2>3, <2>0
    <3> HIDE DEF two
    <3> QED
      BY <3>3, <3>5, <3>6, <3>7
  <2>4. \/ /\ break.line = <<CR, LF>> /\ break.blank = <<CR, LF>>
           /\ Upto(break, k) = k * 3 + 2 /\ e = k * 3 - 1
        \/ /\ break.line = <<CR, LF>> /\ break.blank = <<LF>>
           /\ Upto(break, k) = k * 3 + 1 /\ e = k * 3
        \/ /\ break.line = <<LF>> /\ break.blank = <<LF>>
           /\ Upto(break, k) = k * 2 + 1 /\ e = k * 2
    BY StylesAre, <1>1
  <2> QED
    BY <2>1, <2>2, <2>3, <2>4
<1>7. at \subseteq 1 .. Len(b)
  BY <1>2
<1>8. find_header_end(b) = IF at = {} THEN 0 ELSE CHOOSE x \in at : \A y \in at : x <= y
  BY DEF find_header_end, Min
<1> HIDE DEF at, e, k
<1>9. Len(b) < Upto(break, k) => find_header_end(b) = 0
  BY <1>2, <1>6, <1>7, <1>8
<1>10. ASSUME Len(b) >= Upto(break, k)
       PROVE  find_header_end(b) = e
  <2>1. e \in at /\ \A y \in at : e <= y
    BY <1>6, <1>10
  <2>2. \A x \in at : (\A y \in at : x <= y) => x = e
    BY <2>1, <1>7, <1>2
  <2> QED
    BY <2>1, <2>2, <1>8
<1>11. ASSUME Len(b) >= Upto(break, k)
       PROVE  e + header_terminator_len(b, e) = Upto(break, k) + 1
  <2>1. header_terminator_len(b, e) = IF break.blank = <<CR, LF>> THEN 4 ELSE 2
    BY <1>6, <1>11 DEF header_terminator_len
  <2>2. e \in Int /\ Upto(break, k) \in Int
    BY <1>6
  <2> QED
    BY <2>1, <2>2, <1>6
<1> QED
  BY <1>9, <1>10, <1>11 DEF e, k


-----------------------------------------------------------------------------
\* Where the i-th line is.
At(break, i) == (i - 1) * (1 + Len(break.line)) + 1

LEMMA LinesAre ==
    ASSUME NEW b, NEW lines, NEW break, Begins(b, lines, break), Len(lines) >= 2,
           Len(b) >= Upto(break, Len(lines))
    PROVE  /\ BlankAt(break, Len(lines)) > 1 /\ b[1] = lines[1]
           /\ \A i \in 1 .. Len(lines) : At(break, i) \in 1 .. Len(b) /\ b[At(break, i)] = lines[i]
           /\ Headers(b, BlankAt(break, Len(lines))) = {At(break, i) : i \in 2 .. Len(lines)}
<1> DEFINE k == Len(lines)
           e == BlankAt(break, k)
<1>1. Len(b) \in Nat /\ k \in Nat /\ k >= 2
  BY BrokenAt
<1>2. break \in Styles
  BY DEF Begins
<1>3. \A i \in 1 .. k : lines[i] # CR /\ lines[i] # LF
  BY BrokenAt
<1>4. Len(<<CR, LF>>) = 2 /\ Len(<<LF>>) = 1 /\ <<CR, LF>> # <<LF>>
  OBVIOUS
<1>5. CASE break.line = <<CR, LF>>
  <2>1. \A i \in 1 .. k :
            /\ 3 * i - 2 <= Len(b) => b[3 * i - 2] = lines[i]
            /\ 3 * i - 1 <= Len(b) => b[3 * i - 1] = CR
            /\ 3 * i <= Len(b) => b[3 * i] = LF
    <3>1. CrlfLines(b, lines)
      BY <1>5, BrokenAt
    <3> QED
      BY <3>1 DEF CrlfLines
  <2>2. Len(b) > k * 3 /\ (e = k * 3 - 1 \/ e = k * 3)
    <3>1. (Upto(break, k) = k * 3 + 2 /\ e = k * 3 - 1) \/ (Upto(break, k) = k * 3 + 1 /\ e = k * 3)
      BY <1>2, <1>4, <1>5, StylesAre
    <3> HIDE DEF e
    <3> QED
      BY <3>1, <1>1
  <2>3. \A i \in Int : At(break, i) = 3 * i - 2
    <3>1. 1 + Len(break.line) = 3
      BY <1>4, <1>5
    <3>2. \A i \in Int : (i - 1) * 3 + 1 = 3 * i - 2
      OBVIOUS
    <3>3. \A i : At(break, i) = (i - 1) * 3 + 1
      BY <3>1 DEF At
    <3> QED
      BY <3>2, <3>3
  <2> HIDE DEF e, k
  <2>4. \A i \in 1 .. k : At(break, i) \in 1 .. Len(b) /\ b[At(break, i)] = lines[i]
    <3> TAKE i \in 1 .. k
    <3>0. i \in Int /\ 1 <= i /\ i <= k
      BY <1>1
    <3>1. 3 * i - 2 \in 1 .. Len(b)
      <4>1. \A len, n, j \in Int : len > n * 3 /\ 1 <= j /\ j <= n => 3 * j - 2 \in 1 .. len
        OBVIOUS
      <4> QED
        BY <3>0, <4>1, <1>1, <2>2
    <3>2. At(break, i) = 3 * i - 2
      BY <3>0, <2>3
    <3>3. b[3 * i - 2] = lines[i]
      <4>1. 3 * i - 2 <= Len(b)
        BY <3>1
      <4>2. i \in 1 .. k
        OBVIOUS
      <4> QED
        BY <4>1, <4>2, <2>1
    <3> QED
      BY <3>1, <3>2, <3>3
  <2>5. At(break, 1) = 1 /\ 1 \in 1 .. k
    BY <2>3, <1>1
  <2>6. ASSUME NEW p \in Headers(b, e)
        PROVE  p \in {At(break, i) : i \in 2 .. k}
    <3>1. p \in 2 .. e - 1 /\ b[p] # CR /\ b[p] # LF
      BY DEF Headers
    <3>2. p \in Int /\ 2 <= p /\ p <= 3 * k - 1 /\ p <= Len(b)
      BY <3>1, <2>2, <1>1
    <3>3. (p - 1) \div 3 + 1 \in 1 .. k
      BY <3>2, <1>1
    <3>4. LET j == (p - 1) \div 3 + 1 IN p = 3 * j - 2 \/ p = 3 * j - 1 \/ p = 3 * j
      BY <3>2
    <3>5. PICK j \in 1 .. k : p = 3 * j - 2 \/ p = 3 * j - 1 \/ p = 3 * j
      BY <3>3, <3>4
    <3>6. p # 3 * j - 1 /\ p # 3 * j
      BY <3>1, <3>2, <2>1
    <3>7. p = 3 * j - 2 /\ j \in 2 .. k
      BY <3>5, <3>6, <3>2
    <3>8. p = At(break, j)
      BY <3>7, <2>3
    <3> QED
      BY <3>7, <3>8
  <2>7. ASSUME NEW i \in 2 .. k
        PROVE  At(break, i) \in Headers(b, e)
    <3>1. At(break, i) = 3 * i - 2 /\ i \in 1 .. k
      BY <2>3, <1>1
    <3>2. At(break, i) \in 2 .. e - 1
      BY <3>1, <2>2, <1>1
    <3>3. b[At(break, i)] # CR /\ b[At(break, i)] # LF
      BY <3>1, <2>4, <1>3
    <3> QED
      BY <3>2, <3>3 DEF Headers
  <2>8. e > 1
    BY <2>2, <1>1
  <2> QED
    BY <2>4, <2>5, <2>6, <2>7, <2>8 DEF e, k
<1>6. CASE break.line = <<LF>>
  <2>1. \A i \in 1 .. k :
            /\ 2 * i - 1 <= Len(b) => b[2 * i - 1] = lines[i]
            /\ 2 * i <= Len(b) => b[2 * i] = LF
    <3>1. LfLines(b, lines)
      BY <1>6, BrokenAt
    <3> QED
      BY <3>1 DEF LfLines
  <2>2. Len(b) > k * 2 /\ e = k * 2
    <3>1. Upto(break, k) = k * 2 + 1 /\ e = k * 2
      BY <1>2, <1>4, <1>6, StylesAre
    <3> HIDE DEF e
    <3> QED
      BY <3>1, <1>1
  <2>3. \A i \in Int : At(break, i) = 2 * i - 1
    <3>1. 1 + Len(break.line) = 2
      BY <1>4, <1>6
    <3>2. \A i \in Int : (i - 1) * 2 + 1 = 2 * i - 1
      OBVIOUS
    <3>3. \A i : At(break, i) = (i - 1) * 2 + 1
      BY <3>1 DEF At
    <3> QED
      BY <3>2, <3>3
  <2> HIDE DEF e, k
  <2>4. \A i \in 1 .. k : At(break, i) \in 1 .. Len(b) /\ b[At(break, i)] = lines[i]
    <3> TAKE i \in 1 .. k
    <3>0. i \in Int /\ 1 <= i /\ i <= k
      BY <1>1
    <3>1. 2 * i - 1 \in 1 .. Len(b)
      <4>1. \A len, n, j \in Int : len > n * 2 /\ 1 <= j /\ j <= n => 2 * j - 1 \in 1 .. len
        OBVIOUS
      <4> QED
        BY <3>0, <4>1, <1>1, <2>2
    <3>2. At(break, i) = 2 * i - 1
      BY <3>0, <2>3
    <3>3. b[2 * i - 1] = lines[i]
      <4>1. 2 * i - 1 <= Len(b)
        BY <3>1
      <4>2. i \in 1 .. k
        OBVIOUS
      <4> QED
        BY <4>1, <4>2, <2>1
    <3> QED
      BY <3>1, <3>2, <3>3
  <2>5. At(break, 1) = 1 /\ 1 \in 1 .. k
    BY <2>3, <1>1
  <2>6. ASSUME NEW p \in Headers(b, e)
        PROVE  p \in {At(break, i) : i \in 2 .. k}
    <3>1. p \in 2 .. e - 1 /\ b[p] # CR /\ b[p] # LF
      BY DEF Headers
    <3>2. p \in Int /\ 2 <= p /\ p <= 2 * k - 1 /\ p <= Len(b)
      BY <3>1, <2>2, <1>1
    <3>3. (p - 1) \div 2 + 1 \in 1 .. k
      BY <3>2, <1>1
    <3>4. LET j == (p - 1) \div 2 + 1 IN p = 2 * j - 1 \/ p = 2 * j
      BY <3>2
    <3>5. PICK j \in 1 .. k : p = 2 * j - 1 \/ p = 2 * j
      BY <3>3, <3>4
    <3>6. p # 2 * j
      BY <3>1, <3>2, <2>1
    <3>7. p = 2 * j - 1 /\ j \in 2 .. k
      BY <3>5, <3>6, <3>2
    <3>8. p = At(break, j)
      BY <3>7, <2>3
    <3> QED
      BY <3>7, <3>8
  <2>7. ASSUME NEW i \in 2 .. k
        PROVE  At(break, i) \in Headers(b, e)
    <3>1. At(break, i) = 2 * i - 1 /\ i \in 1 .. k
      BY <2>3, <1>1
    <3>2. At(break, i) \in 2 .. e - 1
      BY <3>1, <2>2, <1>1
    <3>3. b[At(break, i)] # CR /\ b[At(break, i)] # LF
      BY <3>1, <2>4, <1>3
    <3> QED
      BY <3>2, <3>3 DEF Headers
  <2>8. e > 1
    BY <2>2, <1>1
  <2> QED
    BY <2>4, <2>5, <2>6, <2>7, <2>8 DEF e, k
<1> QED
  BY <1>2, <1>5, <1>6 DEF Styles

\* The lines of one name, and what is read off those of a buffer.
Where(h, name) == {i \in 2 .. Len(h) : h[i].name = name}
ReadsOff(b, own, lines, name, default) ==
    /\ Where(lines, name) = {} => LastNumber(b, own, default) = default /\ Value(b, own) = Absent
    /\ \A j : Where(lines, name) = {j} => /\ LastNumber(b, own, default) = lines[j].num
                                         /\ Value(b, own) = lines[j].parts

LEMMA OneNamed ==
    ASSUME NEW b, NEW lines, NEW break, Begins(b, lines, break), Len(lines) >= 2,
           Len(b) >= Upto(break, Len(lines)), NEW name, NEW default
    PROVE  ReadsOff(b, Named(b, BlankAt(break, Len(lines)), name), lines, name, default)
<1> DEFINE own == Named(b, BlankAt(break, Len(lines)), name)
           at == {i \in 2 .. Len(lines) : lines[i].name = name}
<1>1. /\ \A i \in 1 .. Len(lines) : At(break, i) \in 1 .. Len(b) /\ b[At(break, i)] = lines[i]
      /\ Headers(b, BlankAt(break, Len(lines))) = {At(break, i) : i \in 2 .. Len(lines)}
  BY LinesAre
<1>2. \A i \in 2 .. Len(lines) : i \in 1 .. Len(lines)
  BY BrokenAt
<1>3. own = {At(break, i) : i \in at}
  BY <1>1, <1>2 DEF Named
<1>4. ASSUME at = {}
      PROVE  LastNumber(b, own, default) = default /\ Value(b, own) = Absent
  <2>1. own = {}
    BY <1>3, <1>4
  <2> HIDE DEF own
  <2> QED
    BY <2>1 DEF LastNumber, Value
<1>5. ASSUME NEW j, at = {j}
      PROVE  LastNumber(b, own, default) = lines[j].num /\ Value(b, own) = lines[j].parts
  <2>1. own = {At(break, j)}
    BY <1>3, <1>5
  <2>2. j \in 1 .. Len(lines)
    BY <1>5, <1>2
  <2>3. At(break, j) \in Int /\ b[At(break, j)] = lines[j]
    BY <2>2, <1>1
  <2> HIDE DEF own, at
  <2>4. Max(own) = At(break, j) /\ Min(own) = At(break, j)
    BY <2>1, <2>3 DEF Max, Min
  <2> QED
    BY <2>1, <2>3, <2>4 DEF LastNumber, Value
<1> HIDE DEF own
<1> QED
  BY <1>4, <1>5 DEF ReadsOff, Where, own


-----------------------------------------------------------------------------
(* The headers of a reply.                                                 *)

LEMMA ReplyIs ==
    ASSUME NEW r \in Replies
    PROVE  /\ r.status \in Int /\ r.cseq \in Nat /\ r.session \in Parts /\ r.ports \in Seq(U16)
           /\ r.flaw \in Seq(Units) /\ r.body \in Seq(Units)
           /\ \A i \in DOMAIN r.flaw : r.flaw[i].kind \in {"text", "header"}
           /\ r.flaw # Absent => \E i \in DOMAIN r.flaw : HeaderFault(r.flaw[i]) # Nothing
           /\ r.ports # Absent =>
                (Len(r.ports) = 1 \/ (Len(r.ports) = 2 /\ r.ports[2] = r.ports[1] + 1))
<1>1. r \in [status : Int, cseq : Nat, session : Parts, ports : Seq(U16),
            flaw : Seq(Units), body : Seq(Units)]
  BY RepliesAssumption
<1>2. /\ r.status \in Int /\ r.cseq \in Nat /\ r.session \in Parts /\ r.ports \in Seq(U16)
      /\ r.flaw \in Seq(Units) /\ r.body \in Seq(Units)
  BY <1>1
<1>3. r.ports # Absent =>
        (Len(r.ports) = 1 \/ (Len(r.ports) = 2 /\ r.ports[2] = r.ports[1] + 1))
  BY RepliesAssumption
<1>4. \A i \in DOMAIN r.flaw : r.flaw[i].kind \in {"text", "header"}
  BY RepliesAssumption
<1>5. r.flaw # Absent => \E i \in DOMAIN r.flaw : HeaderFault(r.flaw[i]) # Nothing
  BY RepliesAssumption
<1> QED
  BY <1>2, <1>3, <1>4, <1>5

TopPort == 65535
LEMMA U16Is == U16 \subseteq Int /\ \A x \in U16 : x + 1 \notin U16 => x = TopPort
<1>1. U16 = 0 .. TopPort
  BY DEF U16, TopPort
<1>2. TopPort \in Nat
  BY DEF TopPort
<1>3. \A n \in Nat : 0 .. n \subseteq Int /\ \A x \in 0 .. n : x + 1 \notin 0 .. n => x = n
  OBVIOUS
<1> QED
  BY <1>1, <1>2, <1>3

LEMMA TransportIs ==
    ASSUME NEW ports \in Seq(U16)
    PROVE  TransportOf(ports) \in Parts
<1> DEFINE P == [key : Texts, ports : Seq(Int)]
<1>1. ASSUME NEW key \in Texts, NEW some \in Seq(Int)
      PROVE  Part(key, some) \in P
  BY DEF Part
<1>2. ports \in Seq(Int) /\ <<>> \in Seq(Int)
  <2>1. U16 \subseteq Int
    BY U16Is
  <2>2. ports \in Seq(Int)
    BY <2>1, SeqMonotonic
  <2> QED
    BY <2>2, EmptySeq
<1>3. <<8712, 8713>> \in Seq(Int)
  OBVIOUS
<1>4. {"RTP/AVP", "unicast", "client_port", "server_port"} \subseteq Texts
  BY DEF Texts
<1>5. /\ Part("RTP/AVP", Absent) \in P /\ Part("unicast", Absent) \in P
      /\ Part("client_port", <<8712, 8713>>) \in P /\ Part("server_port", ports) \in P
  <2> HIDE DEF P
  <2>1. Absent \in Seq(Int)
    BY <1>2 DEF Absent
  <2>2. Part("RTP/AVP", Absent) \in P /\ Part("unicast", Absent) \in P
    BY <1>1, <2>1, <1>4
  <2>3. Part("server_port", ports) \in P
    BY <1>1, <1>2, <1>4
  <2> DEFINE own == <<8712, 8713>>
  <2>4. own \in Seq(Int)
    BY <1>3
  <2> HIDE DEF own
  <2>5. Part("client_port", own) \in P
    BY <1>1, <2>4, <1>4
  <2> QED
    BY <2>2, <2>3, <2>5 DEF own
<1>6. \A w, x, y, z \in P : <<w, x, y, z>> \in Seq(P)
  OBVIOUS
<1> HIDE DEF P
<1>7. <<>> \in Seq(P)
  BY EmptySeq
<1>8. TransportOf(ports) \in Seq(P)
  <2>1. <<Part("RTP/AVP", Absent), Part("unicast", Absent),
          Part("client_port", <<8712, 8713>>), Part("server_port", ports)>> \in Seq(P)
    BY <1>5, <1>6
  <2> QED
    BY <2>1, <1>7 DEF TransportOf, Absent
<1> QED
  BY <1>8 DEF Parts, P

\* The parts a head is made of, typed.
LEMMA PiecesAre ==
    ASSUME NEW r \in Replies
    PROVE  /\ Status("RTSP/", r.status) \in Units /\ Header("cseq", r.cseq, Absent) \in Units
           /\ \A parts \in Parts : /\ Header("session", NaN, parts) \in Units
                                 /\ Header("transport", NaN, parts) \in Units
           /\ Header("content-length", Len(r.body), Absent) \in Units
<1>1. {"RTSP/", "cseq", "session", "transport", "content-length"} \subseteq Texts
  BY DEF Texts
<1>2. r.status \in Int /\ r.cseq \in Int /\ Len(r.body) \in Int
  <2>1. r.status \in Int /\ r.cseq \in Nat /\ r.body \in Seq(Units)
    BY ReplyIs
  <2>2. Len(r.body) \in Nat
    BY <2>1, LenProperties
  <2> QED
    BY <2>1, <2>2
<1> QED
  BY <1>1, <1>2, StatusIs, HeaderIs, NothingIs

\* Any head: its lines are lines, and its flaws are behind the second.
LEMMA HeadTyped ==
    ASSUME NEW r \in Replies
    PROVE  /\ HeadOf(r) \in Seq(Units) /\ Len(HeadOf(r)) >= 2
           /\ HeadOf(r)[1] = Status("RTSP/", r.status)
           /\ \A i \in DOMAIN HeadOf(r) : HeadOf(r)[i].kind \in {"text", "header"}
           /\ \A j \in DOMAIN r.flaw : 2 + j \in 2 .. Len(HeadOf(r)) /\ HeadOf(r)[2 + j] = r.flaw[j]
<1> DEFINE Lines == {u \in Units : u.kind \in {"text", "header"}}
           x == <<Status("RTSP/", r.status), Header("cseq", r.cseq, Absent)>>
           a == Optional(r.session, "session")
           t == Optional(TransportOf(r.ports), "transport")
           c == LengthOf(r.body)
<1>1. /\ Status("RTSP/", r.status) \in Lines /\ Header("cseq", r.cseq, Absent) \in Lines
      /\ \A parts \in Parts : Header("session", NaN, parts) \in Lines /\ Header("transport", NaN, parts) \in Lines
      /\ Header("content-length", Len(r.body), Absent) \in Lines
  <2>1. \A name, num, parts : Header(name, num, parts).kind = "header"
    BY DEF Header, Unit
  <2>2. Status("RTSP/", r.status).kind = "text"
    BY DEF Status, Unit
  <2> QED
    BY <2>1, <2>2, PiecesAre
<1>2. r.flaw \in Seq(Lines)
  <2>1. r.flaw \in Seq(Units) /\ \A i \in DOMAIN r.flaw : r.flaw[i].kind \in {"text", "header"}
    BY ReplyIs
  <2>2. \A i \in 1 .. Len(r.flaw) : r.flaw[i] \in Lines
    BY <2>1, LenProperties
  <2> HIDE DEF Lines
  <2>3. Len(r.flaw) \in Nat /\ r.flaw \in [1 .. Len(r.flaw) -> Lines]
    BY <2>1, <2>2, LenProperties
  <2> QED
    BY <2>3, SeqDef
<1> HIDE DEF Lines
<1>3. x \in Seq(Lines) /\ Len(x) = 2 /\ x[1] = Status("RTSP/", r.status)
  BY <1>1
<1>4. a \in Seq(Lines) /\ t \in Seq(Lines) /\ c \in Seq(Lines)
  <2>1. r.session \in Parts /\ TransportOf(r.ports) \in Parts
    BY ReplyIs, TransportIs
  <2>2. <<>> \in Seq(Lines) /\ \A u \in Lines : <<u>> \in Seq(Lines)
    BY EmptySeq
  <2> QED
    BY <2>1, <2>2, <1>1 DEF Optional, LengthOf
<1> HIDE DEF x, a, t, c
<1> DEFINE h1 == x \o r.flaw
           h2 == h1 \o a
           h3 == h2 \o t
           h4 == h3 \o c
<1>5. HeadOf(r) = h4
  BY DEF HeadOf, x, a, t, c
<1>6. /\ h1 \in Seq(Lines) /\ Len(h1) = 2 + Len(r.flaw) /\ h1[1] = x[1]
      /\ \A j \in 1 .. Len(r.flaw) : h1[2 + j] = r.flaw[j]
  <2>1. /\ h1 \in Seq(Lines) /\ Len(h1) = Len(x) + Len(r.flaw)
        /\ \A i \in 1 .. Len(x) + Len(r.flaw) : h1[i] = IF i <= Len(x) THEN x[i] ELSE r.flaw[i - Len(x)]
    BY <1>2, <1>3, ConcatProperties
  <2>2. Len(r.flaw) \in Nat
    BY <1>2, LenProperties
  <2> DEFINE flaw == r.flaw
  <2> HIDE DEF h1, flaw
  <2>3. \A i \in 1 .. 2 + Len(flaw) : h1[i] = IF i <= 2 THEN x[i] ELSE flaw[i - 2]
    BY <2>1, <1>3 DEF flaw
  <2>4. h1[1] = x[1]
    BY <2>3, <2>2 DEF flaw
  <2>5. \A j \in 1 .. Len(flaw) : h1[2 + j] = flaw[j]
    <3> TAKE j \in 1 .. Len(flaw)
    <3> DEFINE p == 2 + j
    <3>1. p \in 1 .. 2 + Len(flaw) /\ ~ (p <= 2) /\ p - 2 = j
      BY <2>2 DEF flaw
    <3> HIDE DEF p
    <3>2. h1[p] = flaw[p - 2]
      BY <3>1, <2>3
    <3> QED
      BY <3>1, <3>2 DEF p
  <2> QED
    BY <2>1, <2>4, <2>5, <1>3 DEF flaw
<1> HIDE DEF h1
<1>7. ASSUME NEW h \in Seq(Lines), NEW s \in Seq(Lines)
      PROVE  /\ h \o s \in Seq(Lines) /\ Len(h \o s) >= Len(h)
             /\ \A i \in 1 .. Len(h) : (h \o s)[i] = h[i]
  <2>1. /\ h \o s \in Seq(Lines) /\ Len(h \o s) = Len(h) + Len(s)
        /\ \A i \in 1 .. Len(h) + Len(s) : (h \o s)[i] = IF i <= Len(h) THEN h[i] ELSE s[i - Len(h)]
    BY <1>7, ConcatProperties
  <2>2. Len(h) \in Nat /\ Len(s) \in Nat
    BY <1>7, LenProperties
  <2> QED
    BY <2>1, <2>2
<1>8. /\ h2 \in Seq(Lines) /\ Len(h2) >= Len(h1)
      /\ \A i \in 1 .. Len(h1) : h2[i] = h1[i]
  BY <1>4, <1>6, <1>7
<1> HIDE DEF h2
<1>9. /\ h3 \in Seq(Lines) /\ Len(h3) >= Len(h2)
      /\ \A i \in 1 .. Len(h2) : h3[i] = h2[i]
  BY <1>4, <1>8, <1>7
<1> HIDE DEF h3
<1>10. /\ h4 \in Seq(Lines) /\ Len(h4) >= Len(h3)
       /\ \A i \in 1 .. Len(h3) : h4[i] = h3[i]
  BY <1>4, <1>9, <1>7
<1> HIDE DEF h4
<1>11. Len(h1) \in Nat /\ Len(h2) \in Nat /\ Len(h3) \in Nat /\ Len(h4) \in Nat /\ Len(r.flaw) \in Nat
  BY <1>2, <1>6, <1>8, <1>9, <1>10, LenProperties
<1>12. \A i \in 1 .. Len(h1) : i \in 1 .. Len(h4) /\ h4[i] = h1[i]
  BY <1>8, <1>9, <1>10, <1>11
<1>13. Len(h1) <= Len(h4)
  BY <1>8, <1>9, <1>10, <1>11
<1>14. h4 \in Seq(Units) /\ \A i \in DOMAIN h4 : h4[i].kind \in {"text", "header"}
  <2>1. Lines \subseteq Units /\ \A u \in Lines : u.kind \in {"text", "header"}
    BY DEF Lines
  <2>2. h4 \in Seq(Units)
    BY <2>1, <1>10, SeqMonotonic
  <2>3. \A i \in DOMAIN h4 : h4[i] \in Lines
    BY <1>10, LenProperties
  <2> QED
    BY <2>1, <2>2, <2>3
<1>15. h4[1] = Status("RTSP/", r.status) /\ Len(h4) >= 2
  BY <1>3, <1>6, <1>11, <1>12, <1>13
<1>16. \A j \in DOMAIN r.flaw : 2 + j \in 2 .. Len(h4) /\ h4[2 + j] = r.flaw[j]
  <2> TAKE j \in DOMAIN r.flaw
  <2>1. j \in 1 .. Len(r.flaw)
    BY <1>2, LenProperties
  <2>2. 2 + j \in 1 .. Len(h1) /\ 2 + j \in 2 .. Len(h4)
    BY <2>1, <1>6, <1>11, <1>13
  <2> QED
    BY <2>1, <2>2, <1>6, <1>12
<1> QED
  BY <1>5, <1>14, <1>15, <1>16

\* The one header there is of a name, and that none is amiss.
HasNum(h, name, num) == \E j \in 2 .. Len(h) : Where(h, name) = {j} /\ h[j].num = num
HasParts(h, name, parts) ==
    IF parts = Absent THEN Where(h, name) = {}
    ELSE \E j \in 2 .. Len(h) : Where(h, name) = {j} /\ h[j].parts = parts
Sound(h) ==
    /\ h \in Seq(Units) /\ Len(h) \in Nat \ {0}
    /\ \A i \in 2 .. Len(h) : HeaderFault(h[i]) = Nothing

\* One header more: those of the other names are where they were.
Grew(h, g, u) ==
    /\ Sound(g)
    /\ \A name : name # u.name => Where(g, name) = Where(h, name)
    /\ \A name, num : name # u.name /\ HasNum(h, name, num) => HasNum(g, name, num)
    /\ \A name, parts : name # u.name /\ HasParts(h, name, parts) => HasParts(g, name, parts)
    /\ Where(h, u.name) = {} =>
          (HasNum(g, u.name, u.num) /\ (u.parts # Absent => HasParts(g, u.name, u.parts)))

LEMMA Added ==
    ASSUME NEW h, Sound(h), NEW u \in Units, HeaderFault(u) = Nothing
    PROVE  Grew(h, h \o <<u>>, u)
<1> DEFINE s == <<u>>
           g == h \o s
           n == Len(h)
<1>1. h \in Seq(Units) /\ n \in Nat \ {0} /\ \A i \in 2 .. n : HeaderFault(h[i]) = Nothing
  BY DEF Sound
<1>2. s \in Seq(Units) /\ Len(s) = 1 /\ s[1] = u
  <2>1. Len(s) = 1 /\ s[1] = u
    OBVIOUS
  <2>2. s \in Seq(Units)
    OBVIOUS
  <2> QED
    BY <2>1, <2>2
<1> HIDE DEF s
<1>3. /\ g \in Seq(Units) /\ Len(g) = n + 1
      /\ \A i \in 1 .. n + 1 : g[i] = IF i <= n THEN h[i] ELSE s[i - n]
  <2>1. /\ g \in Seq(Units) /\ Len(g) = n + Len(s)
        /\ \A i \in 1 .. n + Len(s) : g[i] = IF i <= n THEN h[i] ELSE s[i - n]
    BY <1>1, <1>2, ConcatProperties
  <2> HIDE DEF g, n
  <2> QED
    BY <2>1, <1>2
<1> HIDE DEF g, n
<1>4. g[n + 1] = u
  <2> DEFINE p == n + 1
  <2>1. p \in 1 .. n + 1 /\ ~ (p <= n) /\ p - n = 1
    BY <1>1
  <2> HIDE DEF p
  <2>2. g[p] = s[p - n]
    BY <2>1, <1>3
  <2> QED
    BY <2>1, <2>2, <1>2 DEF p
<1>5. \A i \in 1 .. n : g[i] = h[i]
  BY <1>1, <1>3
<1>6. \A i : i \in 2 .. Len(g) <=> (i \in 2 .. n \/ i = n + 1)
  BY <1>1, <1>3
<1>7. \A i \in 2 .. n : g[i] = h[i] /\ i # n + 1
  BY <1>1, <1>5
<1>8. Sound(g)
  BY <1>1, <1>3, <1>4, <1>6, <1>7 DEF Sound
<1>9. \A name : name # u.name => Where(g, name) = Where(h, name)
  BY <1>4, <1>6, <1>7 DEF Where, n
<1>10. \A j \in 2 .. Len(h) : j \in 2 .. Len(g) /\ g[j] = h[j]
  BY <1>6, <1>7 DEF n
<1>11. \A name, num : name # u.name /\ HasNum(h, name, num) => HasNum(g, name, num)
  BY <1>9, <1>10 DEF HasNum
<1>12. \A name, parts : name # u.name /\ HasParts(h, name, parts) => HasParts(g, name, parts)
  BY <1>9, <1>10 DEF HasParts
<1>13. ASSUME Where(h, u.name) = {}
       PROVE  HasNum(g, u.name, u.num) /\ (u.parts # Absent => HasParts(g, u.name, u.parts))
  <2>1. Where(g, u.name) = {n + 1}
    BY <1>13, <1>4, <1>6, <1>7 DEF Where, n
  <2>2. n + 1 \in 2 .. Len(g)
    BY <1>6
  <2> QED
    BY <2>1, <2>2, <1>4 DEF HasNum, HasParts
<1> QED
  BY <1>8, <1>9, <1>11, <1>12, <1>13 DEF g, s, Grew


\* A header for these parts, if there are any.
LEMMA OptionalAdded ==
    ASSUME NEW h, Sound(h), NEW own \in {"session", "transport"}, NEW some \in Parts,
           Where(h, own) = {}
    PROVE  /\ Sound(h \o Optional(some, own)) /\ HasParts(h \o Optional(some, own), own, some)
           /\ \A name : name # own => Where(h \o Optional(some, own), name) = Where(h, name)
           /\ \A name, num : name # own /\ HasNum(h, name, num) => HasNum(h \o Optional(some, own), name, num)
           /\ \A name, parts : name # own /\ HasParts(h, name, parts) => HasParts(h \o Optional(some, own), name, parts)
<1>1. CASE some = Absent
  <2>1. Optional(some, own) = <<>>
    BY <1>1 DEF Optional
  <2>2. h \o <<>> = h
    BY ConcatEmptySeq DEF Sound
  <2>3. HasParts(h, own, some)
    BY <1>1 DEF HasParts
  <2> QED
    BY <2>1, <2>2, <2>3
<1>2. CASE some # Absent
  <2> DEFINE u == Header(own, NaN, some)
  <2>1. Optional(some, own) = <<u>>
    BY <1>2 DEF Optional
  <2>0. own \in Texts /\ NaN \in Int
    BY NothingIs DEF Texts
  <2>2. u \in Units /\ u.kind = "header" /\ u.name = own /\ u.parts = some
    BY <2>0, HeaderIs
  <2>3. HeaderFault(u) = Nothing
    BY <2>2 DEF HeaderFault
  <2> HIDE DEF u
  <2>4. Grew(h, h \o <<u>>, u)
    BY <2>2, <2>3, Added
  <2> DEFINE g == h \o <<u>>
  <2>5. Grew(h, g, u)
    BY <2>4
  <2> HIDE DEF g
  <2>6. /\ Sound(g) /\ HasParts(g, own, some)
        /\ \A name : name # own => Where(g, name) = Where(h, name)
        /\ \A name, num : name # own /\ HasNum(h, name, num) => HasNum(g, name, num)
        /\ \A name, parts : name # own /\ HasParts(h, name, parts) => HasParts(g, name, parts)
    <3> DEFINE name == u.name
               parts == u.parts
    <3>1. name = own /\ parts = some
      BY <2>2
    <3>2. Sound(g)
      BY <2>5 DEF Grew
    <3>3. \A n : n # name => Where(g, n) = Where(h, n)
      BY <2>5 DEF Grew
    <3>4. \A n, num : n # name /\ HasNum(h, n, num) => HasNum(g, n, num)
      BY <2>5 DEF Grew
    <3>5. \A n, p : n # name /\ HasParts(h, n, p) => HasParts(g, n, p)
      BY <2>5 DEF Grew
    <3>6. Where(h, name) = {} /\ parts # Absent => HasParts(g, name, parts)
      BY <2>5 DEF Grew
    <3> HIDE DEF name, parts
    <3> QED
      BY <3>1, <3>2, <3>3, <3>4, <3>5, <3>6, <1>2
  <2>7. h \o Optional(some, own) = g
    BY <2>1 DEF g
  <2> QED
    BY <2>6, <2>7
<1> QED
  BY <1>1, <1>2

\* A reply without a flaw has one header of each name it has something to say under.
LEMMA HeadSound ==
    ASSUME NEW r \in Replies, r.flaw = Absent
    PROVE  /\ Sound(HeadOf(r)) /\ HasNum(HeadOf(r), "cseq", r.cseq)
           /\ HasParts(HeadOf(r), "session", r.session)
           /\ HasParts(HeadOf(r), "transport", TransportOf(r.ports))
           /\ r.body = <<>> => Where(HeadOf(r), "content-length") = {}
           /\ r.body # <<>> => HasNum(HeadOf(r), "content-length", Len(r.body))
<1> DEFINE h0 == <<Status("RTSP/", r.status), Header("cseq", r.cseq, Absent)>>
           h1 == h0 \o Optional(r.session, "session")
           h2 == h1 \o Optional(TransportOf(r.ports), "transport")
           h3 == h2 \o LengthOf(r.body)
           u0 == Status("RTSP/", r.status)
           u1 == Header("cseq", r.cseq, Absent)
           u3 == Header("content-length", Len(r.body), Absent)
<1>1. /\ u0 \in Units /\ u1 \in Units /\ u1.kind = "header" /\ u1.name = "cseq" /\ u1.num = r.cseq
      /\ u3 \in Units /\ u3.kind = "header" /\ u3.name = "content-length" /\ u3.num = Len(r.body)
      /\ u3.num \in Nat
  <2>1. {"cseq", "content-length"} \subseteq Texts
    BY DEF Texts
  <2>2. r.cseq \in Int /\ r.body \in Seq(Units)
    BY ReplyIs
  <2>3. Len(r.body) \in Nat
    BY <2>2, LenProperties
  <2>4. u1.kind = "header" /\ u1.name = "cseq" /\ u1.num = r.cseq
    BY <2>1, <2>2, HeaderIs, NothingIs
  <2>5. u3.kind = "header" /\ u3.name = "content-length" /\ u3.num = Len(r.body)
    BY <2>1, <2>3, HeaderIs, NothingIs
  <2>6. u0 \in Units /\ u1 \in Units /\ u3 \in Units
    BY PiecesAre
  <2> HIDE DEF u0, u1, u3
  <2> QED
    BY <2>3, <2>4, <2>5, <2>6
<1>2. HeadOf(r) = h3
  <2>1. h0 \o r.flaw = h0
    <3>1. h0 \in Seq(Units)
      BY <1>1
    <3> HIDE DEF h0
    <3> QED
      BY <3>1, ConcatEmptySeq DEF Absent
  <2> QED
    BY <2>1 DEF HeadOf
<1> HIDE DEF u0, u1, u3
<1>3. HeaderFault(u1) = Nothing /\ HeaderFault(u3) = Nothing
  <2>1. u3.num # NaN
    BY <1>1 DEF NaN
  <2> QED
    BY <1>1, <2>1 DEF HeaderFault
<1>4. h0 = <<u0, u1>>
  BY DEF u0, u1
<1> HIDE DEF h0
<1>5. h0 \in Seq(Units) /\ Len(h0) = 2 /\ h0[2] = u1
  BY <1>1, <1>4
<1>6. Sound(h0) /\ HasNum(h0, "cseq", r.cseq) /\ \A name : name # "cseq" => Where(h0, name) = {}
  <2>1. 2 .. Len(h0) = {2}
    BY <1>5
  <2>2. Sound(h0)
    BY <2>1, <1>3, <1>5 DEF Sound
  <2>3. \A name : Where(h0, name) = IF name = "cseq" THEN {2} ELSE {}
    BY <2>1, <1>1, <1>5 DEF Where
  <2> QED
    BY <2>1, <2>2, <2>3, <1>1, <1>5 DEF HasNum
<1>7. r.session \in Parts /\ TransportOf(r.ports) \in Parts
  BY ReplyIs, TransportIs
<1>8. /\ Sound(h1) /\ HasNum(h1, "cseq", r.cseq) /\ HasParts(h1, "session", r.session)
      /\ \A name : name \notin {"cseq", "session"} => Where(h1, name) = {}
  BY <1>6, <1>7, OptionalAdded
<1> HIDE DEF h1
<1>9. /\ Sound(h2) /\ HasNum(h2, "cseq", r.cseq) /\ HasParts(h2, "session", r.session)
      /\ HasParts(h2, "transport", TransportOf(r.ports))
      /\ \A name : name \notin {"cseq", "session", "transport"} => Where(h2, name) = {}
  BY <1>8, <1>7, OptionalAdded
<1> HIDE DEF h2
<1>10. CASE r.body = <<>>
  <2>1. h3 = h2
    <3>1. h2 \in Seq(Units)
      BY <1>9 DEF Sound
    <3> QED
      BY <3>1, <1>10, ConcatEmptySeq DEF LengthOf
  <2> HIDE DEF h3
  <2> QED
    BY <2>1, <1>2, <1>9, <1>10
<1>11. CASE r.body # <<>>
  <2>1. h3 = h2 \o <<u3>>
    BY <1>11 DEF LengthOf, u3
  <2> HIDE DEF h3
  <2>2. /\ Sound(h3)
        /\ \A name, num : name # "content-length" /\ HasNum(h2, name, num) => HasNum(h3, name, num)
        /\ \A name, parts : name # "content-length" /\ HasParts(h2, name, parts) => HasParts(h3, name, parts)
        /\ Where(h2, "content-length") = {} => HasNum(h3, "content-length", Len(r.body))
    <3>1. Grew(h2, h3, u3)
      BY <2>1, <1>1, <1>3, <1>9, Added
    <3> DEFINE name == u3.name
               size == u3.num
    <3>2. name = "content-length" /\ size = Len(r.body)
      BY <1>1
    <3>3. Sound(h3)
      BY <3>1 DEF Grew
    <3>4. \A n, num : n # name /\ HasNum(h2, n, num) => HasNum(h3, n, num)
      BY <3>1 DEF Grew
    <3>5. \A n, p : n # name /\ HasParts(h2, n, p) => HasParts(h3, n, p)
      BY <3>1 DEF Grew
    <3>6. Where(h2, name) = {} => HasNum(h3, name, size)
      BY <3>1 DEF Grew
    <3> HIDE DEF name, size
    <3> QED
      BY <3>2, <3>3, <3>4, <3>5, <3>6
  <2> QED
    BY <2>2, <1>2, <1>9, <1>11
<1> QED
  BY <1>10, <1>11

-----------------------------------------------------------------------------
(* A reply on the stream, and what a round makes of it.                    *)

LEMMA SpokenIs ==
    ASSUME NEW r \in Replies, NEW break \in Breaks
    PROVE  LET s == Spoken(r, break)
               u == Upto(break, Len(HeadOf(r)))
           IN  /\ s \in Seq(Units) /\ u \in Nat /\ u >= 1 /\ Len(s) = u + Len(r.body)
               /\ \A p \in 1 .. u : s[p] = (Broken(HeadOf(r), break.line) \o break.blank)[p]
               /\ \A j \in 1 .. Len(r.body) : s[u + j] = r.body[j]
<1> DEFINE head == HeadOf(r)
           B == Broken(head, break.line)
           c == B \o break.blank
           body == r.body
           s == c \o body
           u == Upto(break, Len(head))
<1>1. break \in Styles
  BY RepliesAssumption DEF Styles
<1>2. head \in Seq(Units) /\ body \in Seq(Units)
  BY HeadTyped, ReplyIs
<1>3. break.line \in {<<CR, LF>>, <<LF>>} /\ break.blank \in {<<CR, LF>>, <<LF>>}
  BY <1>1 DEF Styles
<1>4. break.blank \in Seq(Units) /\ Len(break.blank) \in {1, 2}
  <2>1. <<CR, LF>> \in Seq(Units) /\ <<LF>> \in Seq(Units)
    BY UnitsAre
  <2>2. Len(<<CR, LF>>) = 2 /\ Len(<<LF>>) = 1
    OBVIOUS
  <2> QED
    BY <2>1, <2>2, <1>3
<1>5. B \in Seq(Units) /\ Len(B) = Len(head) * (1 + Len(break.line))
  BY <1>2, <1>3, BrokenIs
<1>6. s = Spoken(r, break)
  BY DEF Spoken
<1> HIDE DEF head, B, body
<1>7. c \in Seq(Units) /\ Len(c) = Len(B) + Len(break.blank)
  BY <1>4, <1>5, ConcatProperties
<1>8. u = Len(B) + Len(break.blank)
  BY <1>5 DEF Upto
<1>9. Len(B) \in Nat /\ Len(body) \in Nat
  BY <1>2, <1>5, LenProperties
<1> HIDE DEF c, u
<1>10. u \in Nat /\ u >= 1 /\ Len(c) = u
  <2> DEFINE m == Len(B)
             n == Len(break.blank)
  <2>1. m \in Nat /\ n \in Nat /\ n >= 1
    BY <1>4, <1>9
  <2>2. u = m + n /\ Len(c) = m + n
    BY <1>7, <1>8
  <2> HIDE DEF m, n
  <2> QED
    BY <2>1, <2>2
<1>11. /\ s \in Seq(Units) /\ Len(s) = Len(c) + Len(body)
       /\ \A i \in 1 .. Len(c) + Len(body) : s[i] = IF i <= Len(c) THEN c[i] ELSE body[i - Len(c)]
  BY <1>2, <1>7, ConcatProperties
<1> HIDE DEF s
<1>12. \A i \in 1 .. u + Len(body) : s[i] = IF i <= u THEN c[i] ELSE body[i - u]
  BY <1>10, <1>11
<1>13. \A p \in 1 .. u : s[p] = c[p]
  BY <1>9, <1>10, <1>12
<1>14. ASSUME NEW j \in 1 .. Len(body)
       PROVE  s[u + j] = body[j]
  <2> DEFINE p == u + j
  <2>1. p \in 1 .. u + Len(body) /\ ~ (p <= u) /\ p - u = j
    BY <1>9, <1>10
  <2> HIDE DEF p
  <2>2. s[p] = body[p - u]
    BY <2>1, <1>12
  <2> QED
    BY <2>1, <2>2 DEF p
<1>15. Len(s) = u + Len(body)
  BY <1>10, <1>11
<1>16. s \in Seq(Units)
  BY <1>11
<1> QED
  BY <1>6, <1>10, <1>13, <1>14, <1>15, <1>16 DEF c, B, u, body, head

\* The buffer holds what of this there is room for.
Holds(b, s) == b \in Seq(Units) /\ \A p \in 1 .. Len(b) : p <= Len(s) => b[p] = s[p]

LEMMA ShortIs ==
    \A arrived, drained, k, u, all \in Nat :
        u <= k /\ drained + k <= all /\ (arrived - drained < k \/ arrived - drained < u) => arrived < all
OBVIOUS

LEMMA HeldBegins ==
    ASSUME NEW r \in Replies, NEW break \in Breaks, NEW b, Holds(b, Spoken(r, break))
    PROVE  Begins(b, HeadOf(r), break)
<1> DEFINE s == Spoken(r, break)
           u == Upto(break, Len(HeadOf(r)))
           c == Broken(HeadOf(r), break.line) \o break.blank
<1>1. break \in Styles
  BY RepliesAssumption DEF Styles
<1>2. HeadOf(r) \in Seq(Units) /\ \A i \in DOMAIN HeadOf(r) : HeadOf(r)[i].kind \in {"text", "header"}
  BY HeadTyped
<1>3. u \in Nat /\ Len(s) = u + Len(r.body) /\ Len(r.body) \in Nat /\ \A p \in 1 .. u : s[p] = c[p]
  BY SpokenIs, ReplyIs, LenProperties
<1>4. b \in Seq(Units) /\ \A p \in 1 .. Len(b) : p <= Len(s) => b[p] = s[p]
  BY DEF Holds
<1>5. DOMAIN b = 1 .. Len(b) /\ Len(b) \in Nat
  BY <1>4, LenProperties
<1> HIDE DEF s, u, c
<1>6. \A p \in DOMAIN b : p <= u => b[p] = c[p]
  BY <1>3, <1>4, <1>5
<1> QED
  BY <1>1, <1>2, <1>4, <1>6 DEF u, c, Begins

\* Until the headers are there it waits.
LEMMA TakeWaits ==
    ASSUME NEW r \in Replies, NEW break \in Breaks, NEW b, Holds(b, Spoken(r, break)),
           Len(b) < Upto(break, Len(HeadOf(r)))
    PROVE  take_response(b) = Wait
<1>1. find_header_end(b) = 0
  BY HeldBegins, HeadTyped, BlankIs
<1> QED
  BY <1>1 DEF take_response

LEMMA TakeNothing == take_response(<<>>) = Wait
<1>1. find_header_end(<<>>) = 0
  <2>1. DOMAIN <<>> = {}
    OBVIOUS
  <2> QED
    BY <2>1 DEF find_header_end
<1> QED
  BY <1>1 DEF take_response

LEMMA StatusSound ==
    ASSUME NEW x \in Int
    PROVE  (StatusFault(Status("RTSP/", x)) = Nothing) <=> x \in U16
<1>1. "RTSP/" \in Texts
  BY DEF Texts
<1>2. /\ Status("RTSP/", x).kind = "text" /\ Status("RTSP/", x).name = "RTSP/"
      /\ Status("RTSP/", x).num = x
  BY <1>1, StatusIs
<1>3. "BadStatusLine" # Nothing
  BY Zenon DEF Nothing
<1> QED
  BY <1>2, <1>3 DEF StatusFault

\* A flawed reply is an error, once its headers are there.
LEMMA TakeFlawed ==
    ASSUME NEW r \in Replies, NEW break \in Breaks, NEW b, Holds(b, Spoken(r, break)),
           Len(b) >= Upto(break, Len(HeadOf(r))), Flawed(r)
    PROVE  take_response(b).kind = "Failed"
<1> DEFINE head == HeadOf(r)
           end == find_header_end(b)
           first == IF end <= 1 THEN CR ELSE b[1]
           wrong == {i \in Headers(b, end) : HeaderFault(b[i]) # Nothing}
<1>1. Begins(b, head, break) /\ head \in Seq(Units) /\ Len(head) >= 2
  BY HeldBegins, HeadTyped
<1>2. end = BlankAt(break, Len(head))
  BY <1>1, BlankIs
<1>3. /\ BlankAt(break, Len(head)) > 1 /\ b[1] = head[1]
      /\ \A i \in 1 .. Len(head) : At(break, i) \in 1 .. Len(b) /\ b[At(break, i)] = head[i]
      /\ Headers(b, BlankAt(break, Len(head))) = {At(break, i) : i \in 2 .. Len(head)}
  BY <1>1, LinesAre
<1>4. end \in Int /\ end > 1
  <2>1. BlankAt(break, Len(head)) \in Int
    <3>1. break \in Styles /\ Len(head) \in Nat
      BY <1>1, LenProperties DEF Begins
    <3> DEFINE k == Len(head)
    <3>2. \/ BlankAt(break, k) = k * 3 - 1
          \/ BlankAt(break, k) = k * 3
          \/ BlankAt(break, k) = k * 2
      BY <3>1, StylesAre
    <3>3. k \in Nat
      BY <3>1
    <3> HIDE DEF k
    <3>4. BlankAt(break, k) \in Int
      BY <3>2, <3>3
    <3> QED
      BY <3>4 DEF k
  <2> QED
    BY <2>1, <1>2, <1>3
<1>5. first = Status("RTSP/", r.status)
  BY <1>3, <1>4, HeadTyped
<1>6. ASSUME r.status \in U16
      PROVE  wrong # {}
  <2>1. r.flaw # Absent
    BY <1>6 DEF Flawed
  <2>2. PICK j \in DOMAIN r.flaw : HeaderFault(r.flaw[j]) # Nothing
    BY <2>1, ReplyIs
  <2>3. 2 + j \in 2 .. Len(head) /\ head[2 + j] = r.flaw[j]
    BY HeadTyped
  <2>4. 2 + j \in 1 .. Len(head)
    BY <2>3, <1>1, LenProperties, ReplyIs
  <2>5. At(break, 2 + j) \in Headers(b, end) /\ b[At(break, 2 + j)] = r.flaw[j]
    BY <2>3, <2>4, <1>2, <1>3
  <2> QED
    BY <2>2, <2>5
<1>7. StatusFault(first) = Nothing <=> r.status \in U16
  BY <1>5, ReplyIs, StatusSound
<1>8. StatusFault(first) # Nothing \/ wrong # {}
  BY <1>6, <1>7
<1> HIDE DEF end, first, wrong
<1>9. \A fault : Failed(fault).kind = "Failed"
  BY DEF Failed
<1>10. CASE StatusFault(first) # Nothing
  <2>1. take_response(b) = Failed(StatusFault(first))
    BY <1>4, <1>10 DEF take_response, end, first
  <2> QED
    BY <2>1, <1>9
<1>11. CASE StatusFault(first) = Nothing
  <2>1. take_response(b) = Failed(HeaderFault(b[Min(wrong)]))
    BY <1>4, <1>8, <1>11 DEF take_response, end, first, wrong
  <2> QED
    BY <2>1, <1>9
<1> QED
  BY <1>10, <1>11

\* The response that a reply is, of n units.
Heard(r, n) ==
    [kind |-> "Response", taken |-> n, status |-> r.status, cseq |-> r.cseq,
     session |-> r.session, transport |-> TransportOf(r.ports), body |-> r.body]

\* One without a flaw is waited for, and then read whole.
LEMMA TakeWhole ==
    ASSUME NEW r \in Replies, NEW break \in Breaks, NEW b, Holds(b, Spoken(r, break)),
           Len(b) >= Upto(break, Len(HeadOf(r))), ~ Flawed(r)
    PROVE  take_response(b) = IF Len(b) < Len(Spoken(r, break)) THEN Wait
                              ELSE Heard(r, Len(Spoken(r, break)))
<1> DEFINE head == HeadOf(r)
           s == Spoken(r, break)
           u == Upto(break, Len(head))
           end == find_header_end(b)
           first == IF end <= 1 THEN CR ELSE b[1]
           wrong == {i \in Headers(b, end) : HeaderFault(b[i]) # Nothing}
           from == end + header_terminator_len(b, end)
           length == LastNumber(b, Named(b, end, "content-length"), 0)
<1>1. Begins(b, head, break) /\ head \in Seq(Units) /\ Len(head) >= 2
  BY HeldBegins, HeadTyped
<1>2. end = BlankAt(break, Len(head)) /\ from = u + 1
  BY <1>1, BlankIs
<1>3. /\ BlankAt(break, Len(head)) > 1 /\ b[1] = head[1]
      /\ \A i \in 1 .. Len(head) : At(break, i) \in 1 .. Len(b) /\ b[At(break, i)] = head[i]
      /\ Headers(b, BlankAt(break, Len(head))) = {At(break, i) : i \in 2 .. Len(head)}
  BY <1>1, LinesAre
<1>4. end \in Int /\ end > 1
  <2>1. BlankAt(break, Len(head)) \in Int
    <3>1. break \in Styles /\ Len(head) \in Nat
      BY <1>1, LenProperties DEF Begins
    <3> DEFINE k == Len(head)
    <3>2. \/ BlankAt(break, k) = k * 3 - 1
          \/ BlankAt(break, k) = k * 3
          \/ BlankAt(break, k) = k * 2
      BY <3>1, StylesAre
    <3>3. k \in Nat
      BY <3>1
    <3> HIDE DEF k
    <3>4. BlankAt(break, k) \in Int
      BY <3>2, <3>3
    <3> QED
      BY <3>4 DEF k
  <2> QED
    BY <2>1, <1>2, <1>3
<1>5. first = Status("RTSP/", r.status)
  BY <1>3, <1>4, HeadTyped
<1>6. r.status \in U16 /\ r.flaw = Absent
  BY DEF Flawed
<1>7. StatusFault(first) = Nothing /\ first.num = r.status
  <2>1. "RTSP/" \in Texts
    BY DEF Texts
  <2> QED
    BY <2>1, <1>5, <1>6, ReplyIs, StatusSound, StatusIs
<1>8. /\ Sound(head) /\ HasNum(head, "cseq", r.cseq)
      /\ HasParts(head, "session", r.session) /\ HasParts(head, "transport", TransportOf(r.ports))
      /\ r.body = <<>> => Where(head, "content-length") = {}
      /\ r.body # <<>> => HasNum(head, "content-length", Len(r.body))
  BY <1>6, HeadSound
<1>9. wrong = {}
  <2> SUFFICES ASSUME NEW p \in Headers(b, end) PROVE HeaderFault(b[p]) = Nothing
    OBVIOUS
  <2>1. PICK i \in 2 .. Len(head) : p = At(break, i)
    BY <1>2, <1>3
  <2>2. i \in 1 .. Len(head)
    BY <1>1, LenProperties
  <2>3. b[p] = head[i]
    BY <2>1, <2>2, <1>3
  <2> QED
    BY <2>3, <1>8 DEF Sound
<1>10. ASSUME NEW name, NEW default
       PROVE  /\ Where(head, name) = {} => /\ LastNumber(b, Named(b, end, name), default) = default
                                         /\ Value(b, Named(b, end, name)) = Absent
              /\ \A j : Where(head, name) = {j} =>
                   /\ LastNumber(b, Named(b, end, name), default) = head[j].num
                   /\ Value(b, Named(b, end, name)) = head[j].parts
  <2> HIDE DEF head, end
  <2>1. Begins(b, head, break) /\ Len(head) >= 2 /\ Len(b) >= Upto(break, Len(head))
        /\ end = BlankAt(break, Len(head))
    BY <1>1, <1>2 DEF head
  <2>2. ReadsOff(b, Named(b, BlankAt(break, Len(head)), name), head, name, default)
    BY <2>1, OneNamed
  <2> QED
    BY <2>1, <2>2 DEF ReadsOff
<1>11. \A name, default, num : HasNum(head, name, num) =>
          LastNumber(b, Named(b, end, name), default) = num
  BY <1>10 DEF HasNum
<1>12. \A name, some : HasParts(head, name, some) => Value(b, Named(b, end, name)) = some
  BY <1>10 DEF HasParts
<1>13. length = Len(r.body)
  <2>1. CASE r.body = <<>>
    <3>1. Len(r.body) = 0
      BY <2>1
    <3>2. length = 0
      BY <2>1, <1>8, <1>10
    <3> QED
      BY <3>1, <3>2
  <2>2. CASE r.body # <<>>
    BY <2>2, <1>8, <1>11
  <2> QED
    BY <2>1, <2>2
<1>14. LastNumber(b, Named(b, end, "cseq"), NaN) = r.cseq
  BY <1>8, <1>11
<1>15. /\ Value(b, Named(b, end, "session")) = r.session
       /\ Value(b, Named(b, end, "transport")) = TransportOf(r.ports)
  BY <1>8, <1>12
<1>16. /\ s \in Seq(Units) /\ u \in Nat /\ u >= 1 /\ Len(s) = u + Len(r.body)
       /\ \A j \in 1 .. Len(r.body) : s[u + j] = r.body[j]
       /\ r.body \in Seq(Units) /\ Len(r.body) \in Nat
  <2>1. r.body \in Seq(Units) /\ Len(r.body) \in Nat
    BY ReplyIs, LenProperties
  <2> QED
    BY <2>1, SpokenIs
<1>17. /\ b \in Seq(Units) /\ Len(b) \in Nat
       /\ \A p \in 1 .. Len(b) : p <= Len(s) => b[p] = s[p]
  BY LenProperties DEF Holds
<1> DEFINE taken == from + length - 1
           rest == SubSeq(b, from, taken)
<1>18. take_response(b) =
          IF Len(b) + 1 < from + length THEN Wait
          ELSE [kind |-> "Response", taken |-> taken, status |-> first.num,
                cseq |-> LastNumber(b, Named(b, end, "cseq"), NaN),
                session |-> Value(b, Named(b, end, "session")),
                transport |-> Value(b, Named(b, end, "transport")),
                body |-> rest]
  <2> HIDE DEF first, wrong, length, from
  <2>1. ~ (end = 0) /\ ~ (end > 0 /\ StatusFault(first) # Nothing)
        /\ ~ (end > 0 /\ StatusFault(first) = Nothing /\ wrong # {})
    BY <1>4, <1>7, <1>9
  <2> HIDE DEF end
  <2> QED
    BY <2>1 DEF take_response, first, wrong, length, from, end
<1> HIDE DEF head, s, u, end, first, wrong, from, length
<1>19. taken = Len(s)
  <2> DEFINE n == Len(r.body)
  <2>1. from = u + 1 /\ length = n /\ n \in Nat /\ u \in Nat /\ Len(s) = u + n
    BY <1>2, <1>13, <1>16
  <2> HIDE DEF n
  <2> QED
    BY <2>1
<1>20. Len(b) + 1 < from + length <=> Len(b) < Len(s)
  <2> DEFINE n == Len(r.body)
  <2>1. from = u + 1 /\ length = n /\ n \in Nat /\ u \in Nat /\ Len(s) = u + n
    BY <1>2, <1>13, <1>16
  <2> HIDE DEF n
  <2> QED
    BY <2>1, <1>17
<1>21. ASSUME Len(b) >= Len(s)
       PROVE  rest = r.body
  <2> DEFINE body == r.body
             n == Len(body)
  <2>1. from = u + 1 /\ taken = u + n /\ n \in Nat /\ u \in Nat /\ Len(s) = u + n
    BY <1>2, <1>16, <1>19
  <2>2. \A j \in 1 .. n : s[u + j] = body[j]
    BY <1>16
  <2>3. body \in Seq(Units) /\ Len(body) = n
    BY <1>16
  <2> HIDE DEF taken, body, n
  <2>4. from \in 1 .. Len(b) + 1 /\ taken \in from - 1 .. Len(b) /\ taken - from + 1 = n
    BY <2>1, <1>17, <1>21
  <2>5. rest \in Seq(Units) /\ Len(rest) = n /\ \A j \in 1 .. n : rest[j] = b[from + j - 1]
    <3>1. \A i \in from .. taken : i \in 1 .. Len(b) /\ b[i] \in Units
      BY <2>4, <1>17, <2>1
    <3>2. from \in Int /\ taken \in Int /\ (from > taken => taken - from + 1 = 0) 
      BY <2>1, <2>4
    <3> QED
      BY <1>17, <2>1, <2>4, <3>1, <3>2, SubSeqProperties
  <2>6. ASSUME NEW j \in 1 .. n
        PROVE  rest[j] = body[j]
    <3> DEFINE p == u + j
    <3>1. p \in 1 .. Len(b) /\ p <= Len(s) /\ from + j - 1 = p
      BY <2>1, <1>17, <1>21
    <3>2. s[p] = body[j]
      BY <2>2
    <3> HIDE DEF p, rest
    <3>3. rest[j] = b[p]
      BY <2>5, <3>1
    <3> QED
      BY <3>1, <3>2, <3>3, <1>17
  <2> HIDE DEF rest
  <2>7. rest = body
    BY <2>3, <2>5, <2>6, SeqEqual
  <2> QED
    BY <2>7 DEF body
<1> HIDE DEF taken, rest
<1>22. CASE Len(b) < Len(s)
  BY <1>18, <1>20, <1>22 DEF s
<1>23. CASE ~ (Len(b) < Len(s))
  <2>1. Len(s) \in Nat
    BY <1>16, LenProperties
  <2>2. rest = r.body
    BY <2>1, <1>17, <1>21, <1>23
  <2> QED
    BY <2>2, <1>7, <1>14, <1>15, <1>18, <1>19, <1>20, <1>23 DEF s, Heard
<1> QED
  BY <1>22, <1>23

\* The ports of the server are the last part of its transport.
LEMMA PortsAre ==
    ASSUME NEW ports
    PROVE  ports # Absent => parse_transport(TransportOf(ports)).server_ports = parse_port_pair(ports)
<1> SUFFICES ASSUME ports # Absent
             PROVE  parse_transport(TransportOf(ports)).server_ports = parse_port_pair(ports)
  OBVIOUS
<1> DEFINE parts == TransportOf(ports)
           own == {i \in 2 .. Len(parts) : parts[i].key = "server_port"}
<1>1. /\ Len(parts) = 4 /\ parts[2] = Part("unicast", Absent)
      /\ parts[3] = Part("client_port", <<8712, 8713>>) /\ parts[4] = Part("server_port", ports)
  BY DEF TransportOf
<1>2. /\ parts[2].key = "unicast" /\ parts[3].key = "client_port"
      /\ parts[4].key = "server_port" /\ parts[4].ports = ports
  BY <1>1 DEF Part
<1> HIDE DEF parts
<1>3. own = {4}
  <2>1. 2 .. Len(parts) = {2, 3, 4}
    BY <1>1
  <2> QED
    BY <2>1, <1>2
<1>4. parse_transport(parts).server_ports =
        IF own = {} THEN Absent ELSE parse_port_pair(parts[Max(own)].ports)
  BY DEF parse_transport
<1> HIDE DEF own
<1>5. Max(own) = 4
  BY <1>3 DEF Max
<1>6. own # {}
  BY <1>3
<1> QED
  BY <1>2, <1>4, <1>5, <1>6 DEF parts

\* A pair of ports is the one named, and the next one up.
LEMMA PairIs ==
    ASSUME NEW ports \in Seq(U16),
           Len(ports) = 1 \/ (Len(ports) = 2 /\ ports[2] = ports[1] + 1)
    PROVE  /\ parse_port_pair(ports) # Absent =>
                /\ parse_port_pair(ports)[1] = ports[1]
                /\ parse_port_pair(ports)[2] = parse_port_pair(ports)[1] + 1
           /\ parse_port_pair(ports) # Absent \/ 65535 \in ToSet(ports)
<1>1. CASE Len(ports) = 1
  <2>1. ports[1] \in U16
    BY <1>1
  <2>2. CASE ports[1] + 1 \in U16
    <3>1. parse_port_pair(ports) = <<ports[1], ports[1] + 1>>
      BY <1>1, <2>1, <2>2 DEF parse_port_pair
    <3>2. <<ports[1], ports[1] + 1>> # Absent
      BY DEF Absent
    <3> QED
      BY <3>1, <3>2
  <2>3. CASE ports[1] + 1 \notin U16
    <3>1. parse_port_pair(ports) = Absent
      BY <1>1, <2>3 DEF parse_port_pair
    <3>2. ports[1] = TopPort
      BY <2>1, <2>3, U16Is
    <3>3. TopPort \in ToSet(ports)
      BY <3>2, <1>1 DEF ToSet
    <3> QED
      BY <3>1, <3>3 DEF TopPort
  <2> QED
    BY <2>2, <2>3
<1>2. CASE Len(ports) = 2 /\ ports[2] = ports[1] + 1
  <2>1. ToSet(ports) \subseteq U16
    BY DEF ToSet
  <2>2. parse_port_pair(ports) = ports
    BY <1>2, <2>1 DEF parse_port_pair
  <2>3. ports # Absent
    BY <1>2 DEF Absent
  <2> QED
    BY <1>2, <2>2, <2>3
<1> QED
  BY <1>1, <1>2

LEMMA HeardTells ==
    ASSUME NEW r \in Replies, NEW n
    PROVE  Tells(RtspEvent(Heard(r, n)), r)
<1> DEFINE h == Heard(r, n)
           transport == TransportOf(r.ports)
           ports == IF transport = Absent THEN Absent ELSE parse_transport(transport).server_ports
           set_up == r.status \in 200 .. 299 /\ r.session # Absent
           e == RtspEvent(h)
<1>1. /\ h.status = r.status /\ h.cseq = r.cseq /\ h.session = r.session
      /\ h.transport = transport /\ h.body = r.body
  BY DEF Heard
<1>2. is_ok(h) <=> r.status \in 200 .. 299
  BY <1>1 DEF is_ok
<1>3. r.session \in Parts /\ r.ports \in Seq(U16)
  BY ReplyIs
<1>4. r.session # Absent => session_id_of(r.session) = <<r.session[1]>>
  <2> SUFFICES ASSUME r.session # Absent PROVE session_id_of(r.session) = <<r.session[1]>>
    OBVIOUS
  <2> DEFINE P == [key : Texts, ports : Seq(Int)]
  <2>1. r.session \in Seq(P)
    BY <1>3 DEF Parts
  <2> HIDE DEF P
  <2>2. Len(r.session) \in Nat /\ Len(r.session) >= 1
    BY <2>1, EmptySeq, LenProperties DEF Absent
  <2> DEFINE s == r.session
             t == SubSeq(s, 1, 1)
  <2>3. s \in Seq(P) /\ Len(s) \in Nat /\ Len(s) >= 1
    BY <2>1, <2>2
  <2> HIDE DEF s
  <2>4. s[1] \in P
    BY <2>3, ElementOfSeq
  <2>5. t \in Seq(P) /\ Len(t) = 1 /\ t[1] = s[1]
    BY <2>3, <2>4, SubSeqProperties
  <2>6. <<s[1]>> \in Seq(P) /\ Len(<<s[1]>>) = 1 /\ <<s[1]>>[1] = s[1]
    BY <2>4
  <2> HIDE DEF t
  <2> DEFINE u == <<s[1]>>
  <2>7. u \in Seq(P) /\ Len(u) = 1 /\ u[1] = s[1]
    BY <2>6
  <2> HIDE DEF u
  <2>8. t = u
    <3>1. \A j \in 1 .. Len(t) : t[j] = u[j]
      BY <2>5, <2>7
    <3> QED
      BY <3>1, <2>5, <2>7, SeqEqual
  <2> QED
    BY <2>8 DEF session_id_of, s, t, u
<1>5. /\ r.ports = Absent => ports = Absent
      /\ r.ports # Absent => ports = parse_port_pair(r.ports)
  <2>1. r.ports = Absent => transport = Absent
    BY DEF TransportOf
  <2>2. r.ports # Absent => transport # Absent
    BY DEF TransportOf, Absent
  <2>3. r.ports # Absent => parse_transport(transport).server_ports = parse_port_pair(r.ports)
    BY PortsAre
  <2> QED
    BY <2>1, <2>2, <2>3
<1> HIDE DEF transport
<1>6. /\ ports # Absent => (ports[1] = r.ports[1] /\ ports[2] = ports[1] + 1)
      /\ r.ports # Absent => (ports # Absent \/ 65535 \in ToSet(r.ports))
  <2>1. r.ports # Absent => (Len(r.ports) = 1 \/ (Len(r.ports) = 2 /\ r.ports[2] = r.ports[1] + 1))
    BY ReplyIs
  <2> HIDE DEF ports
  <2> QED
    BY <2>1, <1>3, <1>5, PairIs
<1>7. set_up <=> is_ok(h) /\ h.session # Absent
  BY <1>1, <1>2
<1>8. CASE set_up
  <2>1. e = [kind |-> "SetUp", cseq |-> h.cseq, status |-> h.status,
             session_id |-> session_id_of(h.session), server_ports |-> ports, body |-> h.body]
    <3>1. h.transport = transport
      BY <1>1
    <3> HIDE DEF h, set_up
    <3> QED
      BY <1>7, <1>8, <3>1 DEF RtspEvent
  <2> HIDE DEF e, ports, h
  <2>2. /\ e.cseq = r.cseq /\ e.status = r.status /\ e.body = r.body
        /\ e.session_id = <<r.session[1]>> /\ e.server_ports = ports
    BY <2>1, <1>1, <1>4, <1>8
  <2>3. /\ e.server_ports # Absent =>
              /\ set_up /\ e.server_ports[1] = r.ports[1]
              /\ e.server_ports[2] = e.server_ports[1] + 1
        /\ set_up /\ r.ports # Absent => e.server_ports # Absent \/ 65535 \in ToSet(r.ports)
    BY <2>2, <1>6, <1>8
  <2> QED
    BY <2>2, <2>3, <1>8 DEF Tells, e, h
<1>9. CASE ~ set_up
  <2>1. e = [kind |-> IF is_ok(h) THEN "Other" ELSE "SetUpRefused", cseq |-> h.cseq, status |-> h.status,
             session_id |-> Absent, server_ports |-> Absent, body |-> h.body]
    <3> HIDE DEF h, set_up, ports
    <3> QED
      BY <1>7, <1>9 DEF RtspEvent
  <2> HIDE DEF e, ports, h
  <2>2. /\ e.cseq = r.cseq /\ e.status = r.status /\ e.body = r.body
        /\ e.session_id = Absent /\ e.server_ports = Absent
    BY <2>1, <1>1
  <2> QED
    BY <2>2, <1>9 DEF Tells, e, h
<1> QED
  BY <1>8, <1>9

-----------------------------------------------------------------------------
(* The stream is the replies, one after the other.                         *)

\* Where each reply starts, and how its lines end.
Laid(sent, stream, breaks, starts) ==
    /\ sent \in Seq(Replies) /\ stream \in Seq(Units)
    /\ breaks \in Seq(Breaks) /\ Len(breaks) = Len(sent)
    /\ starts \in Seq(Nat) /\ Len(starts) = Len(sent) + 1
    /\ starts[1] = 0 /\ starts[Len(sent) + 1] = Len(stream)
    /\ \A i \in 1 .. Len(sent) :
          /\ starts[i + 1] = starts[i] + Len(Spoken(sent[i], breaks[i]))
          /\ starts[i + 1] <= Len(stream)
          /\ \A p \in 1 .. Len(Spoken(sent[i], breaks[i])) :
                stream[starts[i] + p] = Spoken(sent[i], breaks[i])[p]

\* One reply more.
Longer(sent, stream, breaks, starts, reply, break) ==
    LET spoken == Spoken(reply, break)
        on == Append(starts, Len(stream) + Len(spoken))
    IN  /\ Laid(Append(sent, reply), stream \o spoken, Append(breaks, break), on)
        /\ Len(stream \o spoken) >= Len(stream)
        /\ \A i \in 1 .. Len(sent) + 1 : on[i] = starts[i]

LEMMA LaidOn ==
    ASSUME NEW sent, NEW stream, NEW breaks, NEW starts, Laid(sent, stream, breaks, starts),
           NEW reply \in Replies, NEW break \in Breaks
    PROVE  Longer(sent, stream, breaks, starts, reply, break)
<1> DEFINE spoken == Spoken(reply, break)
           n == Len(sent)
           m == Len(stream)
           k == Len(spoken)
           on == Append(starts, m + k)
           sent2 == Append(sent, reply)
           breaks2 == Append(breaks, break)
           stream2 == stream \o spoken
<1>1. /\ sent \in Seq(Replies) /\ stream \in Seq(Units)
      /\ breaks \in Seq(Breaks) /\ Len(breaks) = n
      /\ starts \in Seq(Nat) /\ Len(starts) = n + 1
      /\ starts[1] = 0 /\ starts[n + 1] = m
  BY DEF Laid
<1>2. \A i \in 1 .. n :
          /\ starts[i + 1] = starts[i] + Len(Spoken(sent[i], breaks[i]))
          /\ starts[i + 1] <= m
          /\ \A p \in 1 .. Len(Spoken(sent[i], breaks[i])) :
                stream[starts[i] + p] = Spoken(sent[i], breaks[i])[p]
  BY DEF Laid
<1>3. spoken \in Seq(Units) /\ n \in Nat /\ m \in Nat /\ k \in Nat
  BY <1>1, SpokenIs, LenProperties
<1> HIDE DEF spoken, n, m, k
<1>4. /\ sent2 \in Seq(Replies) /\ Len(sent2) = n + 1 /\ sent2[n + 1] = reply
      /\ \A i \in 1 .. n : sent2[i] = sent[i]
  BY <1>1, AppendProperties DEF n
<1>5. /\ breaks2 \in Seq(Breaks) /\ Len(breaks2) = n + 1 /\ breaks2[n + 1] = break
      /\ \A i \in 1 .. n : breaks2[i] = breaks[i]
  BY <1>1, AppendProperties
<1>6. /\ on \in Seq(Nat) /\ Len(on) = n + 2 /\ on[n + 2] = m + k
      /\ \A i \in 1 .. n + 1 : on[i] = starts[i]
  <2> DEFINE e == m + k
             q == n + 1
  <2>1. e \in Nat /\ q + 1 = n + 2
    BY <1>3
  <2> HIDE DEF e, q
  <2>2. /\ Append(starts, e) \in Seq(Nat) /\ Len(Append(starts, e)) = q + 1 /\ Append(starts, e)[q + 1] = e
        /\ \A i \in 1 .. q : Append(starts, e)[i] = starts[i]
    <3>1. Len(starts) = q
      BY <1>1 DEF q
    <3> QED
      BY <1>1, <2>1, <3>1, AppendProperties
  <2> QED
    BY <2>1, <2>2 DEF e, q
<1>7. /\ stream2 \in Seq(Units) /\ Len(stream2) = m + k
      /\ \A i \in 1 .. m + k : stream2[i] = IF i <= m THEN stream[i] ELSE spoken[i - m]
  BY <1>1, <1>3, ConcatProperties DEF m, k
<1> HIDE DEF sent2, breaks2, on, stream2
<1>8. ASSUME NEW i \in 1 .. n
      PROVE  /\ on[i + 1] = on[i] + Len(Spoken(sent2[i], breaks2[i]))
             /\ on[i + 1] <= Len(stream2)
             /\ \A p \in 1 .. Len(Spoken(sent2[i], breaks2[i])) :
                   stream2[on[i] + p] = Spoken(sent2[i], breaks2[i])[p]
  <2> DEFINE s == Spoken(sent[i], breaks[i])
             a == starts[i]
             z == starts[i + 1]
  <2>1. i \in 1 .. n + 1 /\ i + 1 \in 1 .. n + 1
    BY <1>3
  <2>2. on[i] = a /\ on[i + 1] = z /\ Spoken(sent2[i], breaks2[i]) = s
    BY <2>1, <1>4, <1>5, <1>6
  <2>3. z = a + Len(s) /\ z <= m /\ \A p \in 1 .. Len(s) : stream[a + p] = s[p]
    BY <1>2
  <2>4. a \in Nat /\ z \in Nat /\ Len(s) \in Nat
    <3>1. a \in Nat /\ z \in Nat
      BY <2>1, <1>1, ElementOfSeq
    <3>2. sent[i] \in Replies /\ breaks[i] \in Breaks
      BY <1>1, ElementOfSeq DEF n
    <3> QED
      BY <3>1, <3>2, SpokenIs, LenProperties
  <2> HIDE DEF s, a, z
  <2>5. z <= Len(stream2)
    BY <2>3, <2>4, <1>3, <1>7
  <2>6. ASSUME NEW p \in 1 .. Len(s)
        PROVE  stream2[a + p] = s[p]
    <3> DEFINE q == a + p
    <3>1. q \in 1 .. m + k /\ q <= m
      BY <2>3, <2>4, <1>3
    <3>2. stream[q] = s[p]
      BY <2>3
    <3> HIDE DEF q
    <3>3. stream2[q] = stream[q]
      BY <3>1, <1>7
    <3> QED
      BY <3>2, <3>3 DEF q
  <2> QED
    BY <2>2, <2>3, <2>5, <2>6
<1>9. /\ on[n + 2] = on[n + 1] + Len(spoken)
      /\ on[n + 2] <= Len(stream2)
      /\ \A p \in 1 .. Len(spoken) : stream2[on[n + 1] + p] = spoken[p]
  <2>1. on[n + 1] = m
    <3>1. n + 1 \in 1 .. n + 1
      BY <1>3
    <3> QED
      BY <3>1, <1>1, <1>6
  <2>2. on[n + 2] = m + k /\ m + k <= Len(stream2)
    BY <1>3, <1>6, <1>7
  <2>3. ASSUME NEW p \in 1 .. k
        PROVE  stream2[m + p] = spoken[p]
    <3> DEFINE q == m + p
    <3>1. q \in 1 .. m + k /\ ~ (q <= m) /\ q - m = p
      BY <1>3
    <3> HIDE DEF q
    <3>2. stream2[q] = spoken[q - m]
      BY <3>1, <1>7
    <3> QED
      BY <3>1, <3>2 DEF q
  <2> QED
    BY <2>1, <2>2, <2>3 DEF k
<1>10. /\ on[1] = 0 /\ on[Len(sent2) + 1] = Len(stream2) /\ Len(on) = Len(sent2) + 1
  <2>1. 1 \in 1 .. n + 1 /\ n + 1 + 1 = n + 2
    BY <1>3
  <2> QED
    BY <2>1, <1>1, <1>4, <1>6, <1>7
<1>11. \A i \in 1 .. Len(sent2) :
          /\ on[i + 1] = on[i] + Len(Spoken(sent2[i], breaks2[i]))
          /\ on[i + 1] <= Len(stream2)
          /\ \A p \in 1 .. Len(Spoken(sent2[i], breaks2[i])) :
                stream2[on[i] + p] = Spoken(sent2[i], breaks2[i])[p]
  <2> TAKE i \in 1 .. Len(sent2)
  <2>1. i \in 1 .. n \/ (i = n + 1 /\ i + 1 = n + 2)
    BY <1>3, <1>4
  <2>2. CASE i = n + 1 /\ i + 1 = n + 2
    <3>1. Spoken(sent2[i], breaks2[i]) = spoken
      BY <2>2, <1>4, <1>5 DEF spoken
    <3> QED
      BY <2>2, <3>1, <1>9
  <2> QED
    BY <2>1, <2>2, <1>8
<1>12. Laid(sent2, stream2, breaks2, on)
  BY <1>4, <1>5, <1>6, <1>7, <1>10, <1>11 DEF Laid
<1>13. Len(stream2) >= m /\ \A i \in 1 .. n + 1 : on[i] = starts[i]
  BY <1>3, <1>6, <1>7
<1> QED
  BY <1>12, <1>13 DEF Longer, sent2, stream2, breaks2, on, spoken, n, m, k

LEMMA LaidFirst ==
    ASSUME NEW reply \in Replies, NEW break \in Breaks
    PROVE  Laid(<<reply>>, Spoken(reply, break), <<break>>, <<0, Len(Spoken(reply, break))>>)
<1> DEFINE spoken == Spoken(reply, break)
           k == Len(spoken)
           starts == <<0, k>>
           sent == <<reply>>
           breaks == <<break>>
<1>1. spoken \in Seq(Units) /\ k \in Nat
  BY SpokenIs, LenProperties
<1> HIDE DEF k
<1>2. starts \in Seq(Nat) /\ Len(starts) = 2 /\ starts[1] = 0 /\ starts[2] = k
  BY <1>1
<1>3. sent \in Seq(Replies) /\ Len(sent) = 1 /\ sent[1] = reply
  OBVIOUS
<1>4. breaks \in Seq(Breaks) /\ Len(breaks) = 1 /\ breaks[1] = break
  OBVIOUS
<1> HIDE DEF starts, sent, breaks
<1>5. \A i \in 1 .. Len(sent) : i = 1 /\ i + 1 = 2
  BY <1>3
<1>6. Len(sent) + 1 = 2
  BY <1>3
<1>7. Spoken(sent[1], breaks[1]) = spoken
  BY <1>3, <1>4
<1> HIDE DEF spoken
<1>8. \A p \in 1 .. k : 0 + p = p
  BY <1>1
<1>9. Laid(sent, spoken, breaks, starts)
  <2>1. starts[2] = starts[1] + k /\ starts[2] <= k
    BY <1>1, <1>2
  <2>2. \A p \in 1 .. k : spoken[starts[1] + p] = spoken[p]
    BY <1>2, <1>8
  <2> QED
    BY <2>1, <2>2, <1>1, <1>2, <1>3, <1>4, <1>5, <1>6, <1>7 DEF Laid, k
<1> QED
  BY <1>9 DEF spoken, k, starts, sent, breaks

\* What a round makes of a buffer that starts where a reply does.
LEMMA RoundIs ==
    ASSUME NEW sent, NEW stream, NEW breaks, NEW starts, Laid(sent, stream, breaks, starts),
           NEW m \in 0 .. Len(sent), NEW drained, drained = starts[m + 1],
           NEW arrived \in Nat, drained <= arrived, arrived <= Len(stream)
    PROVE  LET r == sent[m + 1]
               k == Len(Spoken(r, breaks[m + 1]))
               take == take_response(SubSeq(stream, drained + 1, arrived))
           IN  \/ take = Wait /\ (m = Len(sent) \/ arrived < Len(stream))
               \/ m < Len(sent) /\ Flawed(r) /\ take.kind = "Failed"
               \/ /\ m < Len(sent) /\ ~ Flawed(r) /\ take = Heard(r, k)
                  /\ k \in Nat /\ starts[m + 2] = drained + k /\ drained + k <= arrived
<1> DEFINE n == Len(sent)
           i == m + 1
           r == sent[i]
           break == breaks[i]
           s == Spoken(r, break)
           k == Len(s)
           b == SubSeq(stream, drained + 1, arrived)
           take == take_response(b)
           u == Upto(break, Len(HeadOf(r)))
           end == starts[i + 1]
           all == Len(stream)
<1>1. /\ sent \in Seq(Replies) /\ stream \in Seq(Units) /\ n \in Nat /\ all \in Nat
      /\ breaks \in Seq(Breaks) /\ Len(breaks) = n
      /\ starts \in Seq(Nat) /\ Len(starts) = n + 1 /\ starts[n + 1] = all
  BY LenProperties DEF Laid
<1>2. m \in Nat /\ m <= n /\ i \in 1 .. n + 1
  BY <1>1
<1>3. drained \in Nat
  <2>1. i \in 1 .. Len(starts)
    BY <1>1, <1>2
  <2> HIDE DEF i
  <2>2. starts[i] \in Nat
    BY <2>1, <1>1, ElementOfSeq
  <2> QED
    BY <2>2 DEF i
<1>4. /\ b \in Seq(Units) /\ Len(b) = arrived - drained
      /\ \A p \in 1 .. Len(b) : b[p] = stream[drained + p]
  <2> DEFINE from == drained + 1
  <2>0. from \in Int /\ arrived \in Int /\ 1 <= from /\ from <= arrived + 1
    BY <1>3
  <2>1. /\ from \in Int /\ arrived \in Int /\ from <= arrived + 1
        /\ \A q \in from .. arrived : q \in 1 .. all
    <3> HIDE DEF from
    <3>1. all \in Nat /\ arrived <= all
      BY <1>1
    <3> HIDE DEF all
    <3> QED
      BY <2>0, <3>1
  <2>2. \A q \in from .. arrived : stream[q] \in Units
    BY <2>1, <1>1, ElementOfSeq
  <2> HIDE DEF from
  <2>3. /\ SubSeq(stream, from, arrived) \in Seq(Units)
        /\ Len(SubSeq(stream, from, arrived)) = IF from <= arrived THEN arrived - from + 1 ELSE 0
        /\ \A q \in 1 .. arrived - from + 1 : SubSeq(stream, from, arrived)[q] = stream[from + q - 1]
    BY <2>1, <2>2, SubSeqProperties
  <2>4. Len(b) = arrived - drained
    <3>1. from = drained + 1
      BY DEF from
    <3>2. \A a, d, f \in Int : f = d + 1 /\ f <= a + 1 => (IF f <= a THEN a - f + 1 ELSE 0) = a - d
      OBVIOUS
    <3>3. drained \in Int
      BY <1>3
    <3>4. Len(b) = IF from <= arrived THEN arrived - from + 1 ELSE 0
      BY <2>3 DEF from
    <3> QED
      BY <2>1, <3>1, <3>2, <3>3, <3>4
  <2> HIDE DEF b
  <2>6. arrived - from + 1 = arrived - drained /\ \A q \in Int : from + q - 1 = drained + q
    BY <1>3 DEF from
  <2>5. \A q \in 1 .. Len(b) : q \in 1 .. arrived - from + 1 /\ from + q - 1 = drained + q
    <3> TAKE q \in 1 .. Len(b)
    <3>1. q \in Int
      OBVIOUS
    <3>2. q \in 1 .. arrived - from + 1
      BY <2>4, <2>6
    <3> QED
      BY <3>1, <3>2, <2>6
  <2> HIDE DEF b
  <2> QED
    BY <2>3, <2>4, <2>5 DEF b, from
<1>5. CASE m = n
  <2>1. Len(b) = 0
    BY <1>1, <1>3, <1>4, <1>5
  <2>2. b = <<>>
    BY <2>1, <1>4, EmptySeq
  <2>3. take = Wait
    BY <2>2, TakeNothing
  <2> QED
    BY <2>3, <1>5
<1>6. CASE m < n
  <2>1. i \in 1 .. n /\ i + 1 = m + 2
    BY <1>1, <1>2, <1>6
  <2>2. /\ end = drained + k /\ end <= all
        /\ \A p \in 1 .. k : stream[drained + p] = s[p]
    BY <2>1 DEF Laid
  <2>3. r \in Replies /\ break \in Breaks
    BY <2>1, <1>1, ElementOfSeq
  <2> HIDE DEF i, r, break, b, n, all, end, take
  <2>4. k \in Nat /\ u \in Nat /\ u <= k
    <3>1. Len(r.body) \in Nat
      BY <2>3, ReplyIs, LenProperties
    <3>2. k = u + Len(r.body) /\ u \in Nat
      BY <2>3, SpokenIs
    <3> DEFINE body == Len(r.body)
    <3>3. k = u + body /\ body \in Nat
      BY <3>1, <3>2
    <3> HIDE DEF body, k, u
    <3> QED
      BY <3>2, <3>3
  <2> HIDE DEF s, k, u
  <2>5. Len(b) \in Nat
    BY <1>4, LenProperties
  <2>6. \A p \in 1 .. Len(b) : p <= k => b[p] = s[p]
    BY <2>2, <2>4, <2>5, <1>4
  <2>7. Holds(b, Spoken(r, break))
    BY <2>6, <1>4 DEF Holds, s, k
  <2>11. (Len(b) < k \/ Len(b) < u) => arrived < all
    <3> DEFINE len == Len(b)
    <3>1. len = arrived - drained /\ len \in Nat
      BY <2>5, <1>4
    <3>2. drained + k <= all
      BY <2>2
    <3>4. all \in Nat
      BY <1>1
    <3> HIDE DEF len
    <3>3. (len < k \/ len < u) => arrived < all
      BY <3>1, <3>2, <3>4, <2>4, <1>3, ShortIs
    <3> QED
      BY <3>3 DEF len
  <2>8. CASE Len(b) < u
    <3>1. take = Wait
      BY <2>3, <2>7, <2>8, TakeWaits DEF u, take
    <3>2. arrived < all
      BY <2>8, <2>11
    <3> QED
      BY <3>1, <3>2 DEF i, r, break, b, n, all, end, take, s, k
  <2>9. CASE ~ (Len(b) < u) /\ Flawed(r)
    <3>1. Len(b) >= u
      BY <2>4, <2>5, <2>9
    <3>2. take.kind = "Failed"
      BY <2>3, <2>7, <2>9, <3>1, TakeFlawed DEF u, take
    <3> QED
      BY <2>9, <3>2, <1>6 DEF i, r, break, b, n, all, end, take, s, k
  <2>10. CASE ~ (Len(b) < u) /\ ~ Flawed(r)
    <3>1. Len(b) >= u
      BY <2>4, <2>5, <2>10
    <3>2. take = IF Len(b) < k THEN Wait ELSE Heard(r, k)
      BY <2>3, <2>7, <2>10, <3>1, TakeWhole DEF u, take, s, k
    <3>3. CASE Len(b) < k
      <4>1. arrived < all
        BY <3>3, <2>4, <2>5, <2>11
      <4> QED
        BY <3>2, <3>3, <4>1 DEF i, r, break, b, n, all, end, take, s, k
    <3>4. CASE ~ (Len(b) < k)
      <4>1. drained + k <= arrived
        <5>1. \A len, from, size, upto \in Int : len = upto - from /\ ~ (len < size) => from + size <= upto
          OBVIOUS
        <5>2. Len(b) \in Int /\ drained \in Int /\ k \in Int /\ arrived \in Int
          BY <2>4, <2>5, <1>3
        <5>3. Len(b) = arrived - drained
          BY <1>4
        <5> QED
          BY <3>4, <5>1, <5>2, <5>3
      <4>2. end = starts[m + 2]
        BY <2>1 DEF end
      <4>3. take = Heard(r, k)
        BY <3>2, <3>4
      <4> QED
        BY <2>2, <2>4, <2>10, <4>1, <4>2, <4>3, <1>6 DEF i, r, break, b, n, take, s, k
    <3> QED
      BY <3>3, <3>4
  <2> QED
    BY <2>8, <2>9, <2>10
<1> QED
  BY <1>1, <1>2, <1>5, <1>6

-----------------------------------------------------------------------------
(* The invariant.                                                          *)

Events == {RtspEvent(Heard(r, n)) : r \in Replies, n \in Nat}

ControlOf(t) ==
    /\ t = [sent |-> t.sent, stream |-> t.stream, arrived |-> t.arrived, drained |-> t.drained,
            told |-> t.told, fault |-> t.fault]
    /\ t.sent \in Seq(Replies) /\ t.told \in Seq(Events) /\ Len(t.told) <= Len(t.sent)
    /\ \A i \in 1 .. Len(t.told) : ~ Flawed(t.sent[i]) /\ Tells(t.told[i], t.sent[i])
    /\ t.fault # Nothing => Len(t.told) < Len(t.sent) /\ Flawed(t.sent[Len(t.told) + 1])
    /\ t.arrived \in Nat /\ t.drained <= t.arrived /\ t.arrived <= Len(t.stream)
    /\ \E breaks \in Seq(Breaks), starts \in Seq(Nat) :
          Laid(t.sent, t.stream, breaks, starts) /\ t.drained = starts[Len(t.told) + 1]

ControlInv == ControlOf(talk)

LEMMA ControlStarts == ControlInit => ControlInv
<1> SUFFICES ASSUME NEW reply \in Replies, NEW break \in Breaks,
                    talk = [sent |-> <<reply>>, stream |-> Spoken(reply, break),
                            arrived |-> 0, drained |-> 0, told |-> <<>>, fault |-> Nothing]
             PROVE  ControlInv
  BY DEF ControlInit
<1> DEFINE spoken == Spoken(reply, break)
           k == Len(spoken)
           breaks == <<break>>
           starts == <<0, k>>
<1>1. spoken \in Seq(Units) /\ k \in Nat
  BY SpokenIs, LenProperties
<1>2. Laid(<<reply>>, spoken, breaks, starts)
  BY LaidFirst
<1> HIDE DEF k
<1>3. breaks \in Seq(Breaks) /\ starts \in Seq(Nat) /\ starts[1] = 0
  BY <1>1
<1> HIDE DEF spoken, breaks, starts
<1>4. /\ talk.sent = <<reply>> /\ talk.stream = spoken /\ talk.arrived = 0 /\ talk.drained = 0
      /\ talk.told = <<>> /\ talk.fault = Nothing
      /\ talk = [sent |-> talk.sent, stream |-> talk.stream, arrived |-> talk.arrived,
                 drained |-> talk.drained, told |-> talk.told, fault |-> talk.fault]
  BY DEF spoken
<1>5. <<reply>> \in Seq(Replies) /\ Len(<<reply>>) = 1
  OBVIOUS
<1>6. <<>> \in Seq(Events) /\ Len(<<>>) = 0
  BY EmptySeq
<1>7. k >= 0 /\ 0 + 1 = 1 /\ 1 .. 0 = {}
  BY <1>1
<1>8. \E bs \in Seq(Breaks), ss \in Seq(Nat) :
         Laid(talk.sent, talk.stream, bs, ss) /\ talk.drained = ss[Len(talk.told) + 1]
  <2>1. Len(talk.told) + 1 = 1
    BY <1>4, <1>6
  <2> QED
    BY <2>1, <1>2, <1>3, <1>4
<1>9. Len(talk.told) = 0 /\ Len(talk.sent) = 1 /\ Len(talk.stream) = k
  BY <1>4, <1>5, <1>6 DEF k
<1> QED
  BY <1>4, <1>5, <1>6, <1>7, <1>8, <1>9 DEF ControlInv, ControlOf

LEMMA SpeakKeeps == ControlInv /\ Speak => ControlInv'
<1> SUFFICES ASSUME ControlInv, NEW reply \in Replies, NEW break \in Breaks,
                    talk' = [talk EXCEPT !.sent = Append(@, reply), !.stream = @ \o Spoken(reply, break)],
                    Talking
             PROVE  ControlOf(talk')
  BY DEF Speak, ControlInv
<1> DEFINE t == talk
           sent == talk.sent
           told == talk.told
           stream == talk.stream
           spoken == Spoken(reply, break)
           m == Len(told)
           n == Len(sent)
           sent2 == Append(sent, reply)
<1>1. /\ talk = [sent |-> sent, stream |-> stream, arrived |-> talk.arrived, drained |-> talk.drained,
                 told |-> told, fault |-> talk.fault]
      /\ sent \in Seq(Replies) /\ told \in Seq(Events) /\ m <= n
      /\ \A i \in 1 .. m : ~ Flawed(sent[i]) /\ Tells(told[i], sent[i])
      /\ talk.arrived \in Nat /\ talk.drained <= talk.arrived /\ talk.arrived <= Len(stream)
      /\ \E breaks \in Seq(Breaks), starts \in Seq(Nat) :
            Laid(sent, stream, breaks, starts) /\ talk.drained = starts[m + 1]
      /\ talk.fault = Nothing
  BY DEF ControlInv, ControlOf, Talking
<1> DEFINE stream2 == stream \o spoken
<1>2. talk' = [sent |-> sent2, stream |-> stream2, arrived |-> talk.arrived,
               drained |-> talk.drained, told |-> told, fault |-> talk.fault]
  BY <1>1
<1>3. /\ talk'.sent = sent2 /\ talk'.stream = stream2 /\ talk'.arrived = talk.arrived
      /\ talk'.drained = talk.drained /\ talk'.told = told /\ talk'.fault = talk.fault
  BY <1>2
<1> HIDE DEF sent, told, stream, spoken, sent2, stream2
<1>4. n \in Nat /\ m \in Nat
  BY <1>1, LenProperties
<1>5. sent2 \in Seq(Replies) /\ Len(sent2) = n + 1 /\ \A i \in 1 .. n : sent2[i] = sent[i]
  BY <1>1, AppendProperties DEF sent2
<1>6. PICK breaks \in Seq(Breaks), starts \in Seq(Nat) :
         Laid(sent, stream, breaks, starts) /\ talk.drained = starts[m + 1]
  BY <1>1
<1> DEFINE on == Append(starts, Len(stream) + Len(spoken))
           breaks2 == Append(breaks, break)
<1>7. /\ Laid(sent2, stream2, breaks2, on)
      /\ Len(stream2) >= Len(stream)
      /\ \A i \in 1 .. n + 1 : on[i] = starts[i]
  <2>1. Longer(sent, stream, breaks, starts, reply, break)
    BY <1>6, LaidOn
  <2> QED
    BY <2>1 DEF Longer, sent2, stream2, spoken
<1>8. breaks2 \in Seq(Breaks) /\ on \in Seq(Nat)
  BY <1>7 DEF Laid
<1> HIDE DEF on, breaks2
<1>9. talk.drained = on[m + 1]
  <2>1. m + 1 \in 1 .. n + 1
    BY <1>1, <1>4
  <2> QED
    BY <2>1, <1>6, <1>7
<1>10. talk.arrived <= Len(stream2)
  <2>1. Len(stream) \in Nat /\ Len(stream2) \in Nat
    BY <1>6, <1>7, LenProperties DEF Laid
  <2> QED
    BY <2>1, <1>1, <1>7
<1>11. \A i \in 1 .. m : sent2[i] = sent[i]
  BY <1>1, <1>4, <1>5
<1>12. m <= Len(sent2)
  BY <1>1, <1>4, <1>5
<1>13. \E bs \in Seq(Breaks), ss \in Seq(Nat) :
          Laid(talk'.sent, talk'.stream, bs, ss) /\ talk'.drained = ss[Len(talk'.told) + 1]
  BY <1>3, <1>7, <1>8, <1>9
<1> QED
  BY <1>1, <1>2, <1>3, <1>5, <1>10, <1>11, <1>12, <1>13 DEF ControlOf

LEMMA ReadKeeps == ControlInv /\ ReadSocket => ControlInv'
<1> SUFFICES ASSUME ControlInv, Talking, talk.arrived < Len(talk.stream),
                    talk' = [talk EXCEPT !.arrived = @ + 1]
             PROVE  ControlOf(talk')
  BY DEF ReadSocket, ControlInv
<1> DEFINE arrived == talk.arrived
           drained == talk.drained
           all == Len(talk.stream)
<1>1. talk = [sent |-> talk.sent, stream |-> talk.stream, arrived |-> talk.arrived,
              drained |-> talk.drained, told |-> talk.told, fault |-> talk.fault]
  BY DEF ControlInv, ControlOf
<1>2. /\ talk' = [sent |-> talk.sent, stream |-> talk.stream, arrived |-> arrived + 1,
                  drained |-> talk.drained, told |-> talk.told, fault |-> talk.fault]
  BY <1>1
<1>3. /\ talk'.sent = talk.sent /\ talk'.stream = talk.stream /\ talk'.arrived = arrived + 1
      /\ talk'.drained = drained /\ talk'.told = talk.told /\ talk'.fault = talk.fault
  BY <1>2
<1>4. \E breaks \in Seq(Breaks), starts \in Seq(Nat) :
         Laid(talk.sent, talk.stream, breaks, starts) /\ talk.drained = starts[Len(talk.told) + 1]
  BY DEF ControlInv, ControlOf
<1>5. drained \in Int /\ all \in Nat
  <2>1. PICK breaks \in Seq(Breaks), starts \in Seq(Nat) :
           Laid(talk.sent, talk.stream, breaks, starts) /\ talk.drained = starts[Len(talk.told) + 1]
    BY <1>4
  <2> DEFINE m == Len(talk.told)
             n == Len(talk.sent)
  <2>2. m \in Nat /\ n \in Nat /\ m <= n /\ Len(starts) = n + 1
    BY <2>1, LenProperties DEF ControlInv, ControlOf, Laid
  <2> HIDE DEF m, n
  <2>3. m + 1 \in 1 .. Len(starts)
    BY <2>2
  <2>4. starts[m + 1] \in Nat
    BY <2>3, ElementOfSeq
  <2>5. all \in Nat
    BY <2>1, LenProperties DEF Laid
  <2> QED
    BY <2>1, <2>4, <2>5 DEF m
<1>6. arrived \in Nat /\ drained <= arrived /\ arrived < all
  BY DEF ControlInv, ControlOf
<1> HIDE DEF arrived, drained, all
<1>7. arrived + 1 \in Nat /\ drained <= arrived + 1 /\ arrived + 1 <= all
  BY <1>5, <1>6
<1>8. /\ talk.sent \in Seq(Replies) /\ talk.told \in Seq(Events) /\ Len(talk.told) <= Len(talk.sent)
      /\ \A i \in 1 .. Len(talk.told) : ~ Flawed(talk.sent[i]) /\ Tells(talk.told[i], talk.sent[i])
      /\ talk.fault # Nothing => Len(talk.told) < Len(talk.sent) /\ Flawed(talk.sent[Len(talk.told) + 1])
  BY DEF ControlInv, ControlOf
<1> QED
  BY <1>2, <1>3, <1>4, <1>7, <1>8 DEF ControlOf, all, drained

\* Where the invariant has the caller: a round of the buffer is one of three.
LEMMA RoundHere ==
    ASSUME NEW t, ControlOf(t)
    PROVE  \E breaks \in Seq(Breaks), starts \in Seq(Nat) :
              LET m == Len(t.told)
                  r == t.sent[m + 1]
                  k == Len(Spoken(r, breaks[m + 1]))
                  take == take_response(SubSeq(t.stream, t.drained + 1, t.arrived))
              IN  /\ Laid(t.sent, t.stream, breaks, starts) /\ t.drained = starts[m + 1]
                  /\ m \in Nat /\ Len(t.sent) \in Nat
                  /\ \/ take = Wait /\ (m = Len(t.sent) \/ t.arrived < Len(t.stream))
                     \/ m < Len(t.sent) /\ Flawed(r) /\ take.kind = "Failed"
                     \/ /\ m < Len(t.sent) /\ ~ Flawed(r) /\ take = Heard(r, k)
                        /\ k \in Nat /\ starts[m + 2] = t.drained + k /\ t.drained + k <= t.arrived
<1> DEFINE sent == t.sent
           stream == t.stream
           drained == t.drained
           arrived == t.arrived
           m == Len(t.told)
<1>1. PICK breaks \in Seq(Breaks), starts \in Seq(Nat) :
         Laid(sent, stream, breaks, starts) /\ drained = starts[m + 1]
  BY DEF ControlOf
<1>2. m \in Nat /\ Len(sent) \in Nat /\ m <= Len(sent)
  BY LenProperties DEF ControlOf
<1>3. arrived \in Nat /\ drained <= arrived /\ arrived <= Len(stream)
  BY DEF ControlOf
<1> HIDE DEF sent, stream, drained, arrived, m
<1>4. m \in 0 .. Len(sent)
  BY <1>2
<1>5. LET r == sent[m + 1]
          k == Len(Spoken(r, breaks[m + 1]))
          take == take_response(SubSeq(stream, drained + 1, arrived))
      IN  \/ take = Wait /\ (m = Len(sent) \/ arrived < Len(stream))
          \/ m < Len(sent) /\ Flawed(r) /\ take.kind = "Failed"
          \/ /\ m < Len(sent) /\ ~ Flawed(r) /\ take = Heard(r, k)
             /\ k \in Nat /\ starts[m + 2] = drained + k /\ drained + k <= arrived
  BY <1>1, <1>3, <1>4, RoundIs
<1> QED
  BY <1>1, <1>2, <1>5 DEF sent, stream, drained, arrived, m

LEMMA FeedKeeps == ControlInv /\ FeedRound => ControlInv'
<1> SUFFICES ASSUME ControlInv, FeedRound PROVE ControlOf(talk')
  BY DEF ControlInv
<1> DEFINE sent == talk.sent
           stream == talk.stream
           drained == talk.drained
           arrived == talk.arrived
           told == talk.told
           m == Len(told)
           r == sent[m + 1]
           take == take_response(Buffer)
<1>1. /\ talk = [sent |-> sent, stream |-> stream, arrived |-> arrived, drained |-> drained,
                 told |-> told, fault |-> talk.fault]
      /\ sent \in Seq(Replies) /\ told \in Seq(Events) /\ m <= Len(sent)
      /\ \A i \in 1 .. m : ~ Flawed(sent[i]) /\ Tells(told[i], sent[i])
      /\ arrived \in Nat /\ drained <= arrived /\ arrived <= Len(stream)
  BY DEF ControlInv, ControlOf
<1>2. talk.fault = Nothing
  BY DEF FeedRound, Talking
<1>3. \/ take.kind = "Response" /\ talk' = [talk EXCEPT !.drained = @ + take.taken, !.told = Append(@, RtspEvent(take))]
      \/ take.kind = "Failed" /\ talk' = [talk EXCEPT !.fault = take.fault]
  BY DEF FeedRound
<1>4. PICK breaks \in Seq(Breaks), starts \in Seq(Nat) :
         LET k == Len(Spoken(r, breaks[m + 1]))
         IN  /\ Laid(sent, stream, breaks, starts) /\ drained = starts[m + 1]
             /\ m \in Nat /\ Len(sent) \in Nat
             /\ \/ take = Wait
                \/ m < Len(sent) /\ Flawed(r) /\ take.kind = "Failed"
                \/ /\ m < Len(sent) /\ ~ Flawed(r) /\ take = Heard(r, k)
                   /\ k \in Nat /\ starts[m + 2] = drained + k /\ drained + k <= arrived
  <2>1. ControlOf(talk)
    BY DEF ControlInv
  <2> HIDE DEF ControlInv
  <2> QED
    BY <2>1, RoundHere DEF Buffer
<1>5. take # Wait
  BY <1>3 DEF Wait
<1>6. m < Len(sent)
  BY <1>4, <1>5
<1>7. CASE Flawed(r) /\ take.kind = "Failed"
  <2>1. take.kind # "Response"
    BY <1>7
  <2>2. talk' = [sent |-> sent, stream |-> stream, arrived |-> arrived, drained |-> drained,
                 told |-> told, fault |-> take.fault]
    <3> HIDE DEF take
    <3> QED
      BY <1>1, <1>3, <2>1
  <2>3. /\ talk'.sent = sent /\ talk'.stream = stream /\ talk'.arrived = arrived
        /\ talk'.drained = drained /\ talk'.told = told /\ talk'.fault = take.fault
    BY <2>2
  <2>4. \E bs \in Seq(Breaks), ss \in Seq(Nat) :
           Laid(talk'.sent, talk'.stream, bs, ss) /\ talk'.drained = ss[Len(talk'.told) + 1]
    BY <2>3, <1>4
  <2> HIDE DEF take
  <2> QED
    BY <1>1, <1>6, <1>7, <2>2, <2>3, <2>4 DEF ControlOf
<1>8. CASE ~ (Flawed(r) /\ take.kind = "Failed")
  <2> DEFINE k == Len(Spoken(r, breaks[m + 1]))
             event == RtspEvent(take)
             told2 == Append(told, event)
             drained2 == drained + k
  <2>1. /\ ~ Flawed(r) /\ take = Heard(r, k) /\ k \in Nat
        /\ starts[m + 2] = drained2 /\ drained2 <= arrived
    BY <1>4, <1>5, <1>8
  <2>2. take.kind = "Response" /\ take.taken = k
    BY <2>1 DEF Heard
  <2>3. talk' = [sent |-> sent, stream |-> stream, arrived |-> arrived, drained |-> drained2,
                 told |-> told2, fault |-> talk.fault]
    <3>1. take.kind # "Failed"
      BY <2>2
    <3> HIDE DEF take, k
    <3> QED
      BY <1>1, <1>3, <2>2, <3>1
  <2>4. /\ talk'.sent = sent /\ talk'.stream = stream /\ talk'.arrived = arrived
        /\ talk'.drained = drained2 /\ talk'.told = told2 /\ talk'.fault = talk.fault
    BY <2>3
  <2>5. m \in Nat /\ Len(sent) \in Nat
    BY <1>4
  <2>6. r \in Replies
    <3>1. m + 1 \in 1 .. Len(sent)
      BY <1>6, <2>5
    <3> QED
      BY <3>1, <1>1, ElementOfSeq
  <2>7. event \in Events /\ Tells(event, r)
    <3>1. event = RtspEvent(Heard(r, k))
      BY <2>1
    <3> QED
      BY <2>1, <2>6, <3>1, HeardTells DEF Events
  <2> HIDE DEF event
  <2>8. /\ told2 \in Seq(Events) /\ Len(told2) = m + 1 /\ told2[m + 1] = event
        /\ \A i \in 1 .. m : told2[i] = told[i]
    BY <1>1, <2>7, AppendProperties
  <2> HIDE DEF told2, drained2, k, take
  <2>9. \A i \in 1 .. Len(told2) : ~ Flawed(sent[i]) /\ Tells(told2[i], sent[i])
    <3> TAKE i \in 1 .. Len(told2)
    <3>1. i \in 1 .. m \/ i = m + 1
      BY <2>5, <2>8
    <3> QED
      BY <3>1, <1>1, <2>1, <2>7, <2>8
  <2>10. Len(told2) <= Len(sent)
    BY <1>6, <2>5, <2>8
  <2>11. \E bs \in Seq(Breaks), ss \in Seq(Nat) :
            Laid(talk'.sent, talk'.stream, bs, ss) /\ talk'.drained = ss[Len(talk'.told) + 1]
    <3>1. m + 1 + 1 = m + 2
      BY <2>5
    <3> QED
      BY <3>1, <1>4, <2>1, <2>4, <2>8
  <2> QED
    BY <1>1, <1>2, <2>1, <2>3, <2>4, <2>8, <2>9, <2>10, <2>11 DEF ControlOf
<1> QED
  BY <1>7, <1>8

LEMMA ControlKeeps == ControlInv /\ [ControlNext]_talk => ControlInv'
<1> SUFFICES ASSUME ControlInv, [ControlNext]_talk PROVE ControlInv'
  OBVIOUS
<1>1. CASE Speak
  BY <1>1, SpeakKeeps
<1>2. CASE ReadSocket
  BY <1>2, ReadKeeps
<1>3. CASE FeedRound
  BY <1>3, FeedKeeps
<1>4. CASE UNCHANGED talk
  BY <1>4 DEF ControlInv, ControlOf
<1> QED
  BY <1>1, <1>2, <1>3, <1>4 DEF ControlNext

LEMMA ControlMeans == ControlInv => RepliesAreWhole
<1> SUFFICES ASSUME ControlInv PROVE RepliesAreWhole
  OBVIOUS
<1> DEFINE sent == talk.sent
           told == talk.told
           m == Len(told)
<1>1. /\ told \in Seq(Events) /\ m <= Len(sent)
      /\ \A i \in 1 .. m : ~ Flawed(sent[i]) /\ Tells(told[i], sent[i])
      /\ talk.fault # Nothing => m < Len(sent) /\ Flawed(sent[m + 1])
  BY DEF ControlInv, ControlOf
<1>2. DOMAIN told = 1 .. m
  BY <1>1, LenProperties
<1>3. ASSUME talk.arrived = Len(talk.stream), take_response(Buffer) = Wait
      PROVE  m = Len(sent)
  <2>1. ControlOf(talk)
    BY DEF ControlInv
  <2> DEFINE r == sent[m + 1]
             take == take_response(Buffer)
  <2>2. PICK breaks \in Seq(Breaks), starts \in Seq(Nat) :
           LET k == Len(Spoken(r, breaks[m + 1]))
           IN  /\ Laid(sent, talk.stream, breaks, starts)
               /\ \/ m = Len(sent) \/ talk.arrived < Len(talk.stream)
                  \/ take.kind = "Failed"
                  \/ take = Heard(r, k)
    BY <2>1, RoundHere DEF Buffer
  <2>3. Wait.kind # "Failed" /\ \A x, n : Wait # Heard(x, n)
    <3>1. Wait.kind = "Wait" /\ \A x, n : Heard(x, n).kind = "Response"
      BY DEF Wait, Heard
    <3> QED
      BY <3>1
  <2>4. Len(talk.stream) \in Nat
    BY <2>2, LenProperties DEF Laid
  <2>5. ~ (talk.arrived < Len(talk.stream))
    BY <1>3, <2>4
  <2> QED
    BY <1>3, <2>2, <2>3, <2>5
<1> QED
  BY <1>1, <1>2, <1>3 DEF RepliesAreWhole

\* take_response and feed(): of any number of replies, however the socket cuts them
\* and the server breaks its lines, the caller is told whole, in order, each with its
\* own body, ports and session; an error is a flawed reply's, and none is waited for
\* that has come.
THEOREM RepliesComeWhole == ControlSpec => []RepliesAreWhole
<1>1. ControlInit => ControlInv
  BY ControlStarts
<1>2. ControlInv /\ [ControlNext]_talk => ControlInv'
  BY ControlKeeps
<1>3. ControlInv => RepliesAreWhole
  BY ControlMeans
<1> QED
  BY <1>1, <1>2, <1>3, PTL DEF ControlSpec
=============================================================================
