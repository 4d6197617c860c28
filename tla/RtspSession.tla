------------------------------ MODULE RtspSession ------------------------------
(***************************************************************************)
(* RtspSession of src/rtsp.rs: OPTIONS, DESCRIBE, SETUP, PLAY and TEARDOWN *)
(* as a state machine over bytes, between a caller that may use any method *)
(* at any time and a server at the other end of a TCP connection.  A reply *)
(* travels as two parts, so that a read may end inside it.  feed() is its  *)
(* loop: one step per response taken, and no other method meanwhile.       *)
(***************************************************************************)
EXTENDS Naturals, Sequences

CONSTANTS
    MaxRequests,   \* bound on cseq
    MaxEnds,       \* bound on the calls of teardown() and close()
    Fallible       \* the server may garble a reply, omit a header or interleave

ASSUME RtspAssumption == MaxRequests \in Nat /\ MaxEnds \in Nat /\ Fallible \in BOOLEAN

VARIABLES
    state, cseq, pending, session_id, sdp, want_audio, audio_set_up, buffer,
    feeding,      \* feed() is running
    events,       \* what it has collected
    requests,     \* written, not yet seen by the server
    responses,    \* parts on their way to the client
    failed,       \* some feed() returned an error
    overlapped,   \* teardown() or close() was called with a reply still to come
    ends          \* calls of teardown() and close()

session == <<state, cseq, pending, session_id, sdp, audio_set_up>>
wire == <<requests, responses>>
history == <<failed, overlapped, ends>>
vars == <<session, want_audio, buffer, feeding, events, wire, history>>

None == "none"
NoCseq == 0    \* pending or a CSeq header that is None; the first request has 1
Video == "AwaitingSetupVideo"
Audio == "AwaitingSetupAudio"
Awaiting == {"AwaitingOptions", "AwaitingDescribe", Video, Audio, "AwaitingPlay", "AwaitingTeardown"}
States == {"Init", "Playing", "Closed"} \cup Awaiting

Descriptions == {"video", "both"}    \* the SDP bodies that have a video track

Faults(S) == IF Fallible THEN S ELSE {}

Dollar == [part |-> "$"]
Garbled == [part |-> "garbled"]      \* no status line, no colon, no length

-----------------------------------------------------------------------------
Init ==
    /\ state = "Init" /\ cseq = 0 /\ pending = NoCseq
    /\ session_id = None /\ sdp = None /\ audio_set_up = FALSE
    /\ want_audio \in BOOLEAN
    /\ buffer = <<>>
    /\ feeding = FALSE /\ events = <<>>
    /\ requests = <<>> /\ responses = <<>>
    /\ failed = FALSE /\ overlapped = FALSE /\ ends = 0

(***************************************************************************)
(* The server.                                                             *)
(***************************************************************************)
\* What it may answer: a refusal, or what the method returns; a fallible server
\* leaves out the CSeq or the Session, or describes no video.
Answers(request) ==
    LET cseqs == {request.cseq} \cup Faults({NoCseq})
    IN  [cseq : cseqs, ok : {FALSE}, session : {None}, body : {None}]
        \cup [cseq : cseqs, ok : {TRUE},
              session : IF request.method \in {Video, Audio} THEN {"id"} \cup Faults({None}) ELSE {None},
              body : IF request.method = "AwaitingDescribe"
                     THEN Descriptions \cup Faults({"audio", "junk"}) ELSE {None}]

Serve ==
    /\ requests # <<>>
    /\ requests' = Tail(requests)
    /\ \/ \E a \in Answers(Head(requests)) :
            responses' = responses \o <<[part |-> "head", answer |-> a], [part |-> "rest"]>>
       \/ Fallible /\ responses' = Append(responses, Garbled)
    /\ UNCHANGED <<session, want_audio, buffer, feeding, events, history>>

\* RTP on the control connection, which the client never asks for; one packet of
\* it is enough to stop every later feed().
InterleaveMedia ==
    /\ Fallible
    /\ state = "Playing" \/ responses # <<>>
    /\ \A i \in DOMAIN (buffer \o responses) : (buffer \o responses)[i] # Dollar
    /\ responses' = Append(responses, Dollar)
    /\ UNCHANGED <<session, want_audio, buffer, feeding, events, requests, history>>

(***************************************************************************)
(* Requests.                                                               *)
(***************************************************************************)
Request(method) ==
    /\ cseq < MaxRequests
    /\ cseq' = cseq + 1
    /\ pending' = cseq'
    /\ requests' = Append(requests, [cseq |-> cseq', method |-> method])
    /\ UNCHANGED <<session_id, sdp, audio_set_up, want_audio, buffer, feeding, events, responses>>

\* What next_request and pending_request share: nothing while one is outstanding.
Send(from, to) ==
    /\ ~ feeding
    /\ pending = NoCseq
    /\ state \in from
    /\ state' = to
    /\ Request(to)
    /\ UNCHANGED history

\* next_request() in Init, which pending_request() falls back to.
NextRequest == Send({"Init"}, "AwaitingOptions")

\* Fault: the audio track's SETUP is never built.
AdvanceVideoOnly == \E s \in {"AwaitingDescribe", Video, "AwaitingPlay"} : Send({s}, s)

\* advance(): the request the last answer called for.
Advance == \E s \in {"AwaitingDescribe", Video, Audio, "AwaitingPlay"} : Send({s}, s)

PendingRequest == NextRequest \/ Advance

\* The client has replies still to see through.
IsReply(part) == part.part \in {"head", "garbled"}
Unanswered ==
    \/ requests # <<>>
    \/ \E i \in DOMAIN (buffer \o responses) : IsReply((buffer \o responses)[i])

End ==
    /\ ends < MaxEnds
    /\ ends' = ends + 1
    /\ overlapped' = (overlapped \/ Unanswered)

Teardown ==
    /\ ~ feeding
    /\ state' = "AwaitingTeardown"
    /\ End
    /\ Request("AwaitingTeardown")
    /\ UNCHANGED failed

Close ==
    /\ ~ feeding
    /\ state' = "Closed"
    /\ pending' = NoCseq
    /\ buffer' = <<>>
    /\ End
    /\ UNCHANGED <<cseq, session_id, sdp, audio_set_up, want_audio, feeding, events, wire, failed>>

(***************************************************************************)
(* feed().                                                                 *)
(***************************************************************************)
Unparsable == buffer # <<>> /\ buffer[1].part \in {"$", "garbled", "rest"}
Complete == Len(buffer) >= 2 /\ buffer[1].part = "head"

\* Fault: the body is left in the buffer.
TakeHeadOnly == buffer' = Tail(buffer)

\* take_response drains what it parsed.
TakeResponse == buffer' = SubSeq(buffer, 3, Len(buffer))

\* Bytes come off the socket, however it cut them, and the loop starts.  (A call
\* with none that would complete nothing either is left out: it changes nothing.)
Feed ==
    /\ ~ feeding
    /\ \E n \in 0 .. Len(responses) :
        /\ n = 0 => Complete
        /\ buffer' = buffer \o SubSeq(responses, 1, n)
        /\ responses' = SubSeq(responses, n + 1, Len(responses))
    /\ feeding' = TRUE
    /\ UNCHANGED <<session, want_audio, events, requests, history>>

\* The error is returned alone: what was collected before it is dropped.
Fail == feeding' = FALSE /\ failed' = TRUE /\ events' = <<>> /\ UNCHANGED <<overlapped, ends>>

Emit(event) == events' = Append(events, event) /\ UNCHANGED <<feeding, history>>

\* `$`, or take_response's errors: the bytes stay where they are.
FeedUnparsable ==
    /\ feeding
    /\ Unparsable
    /\ Fail
    /\ UNCHANGED <<session, want_audio, buffer, wire>>

\* Ok(events): no further response is complete.
FeedReturns ==
    /\ feeding
    /\ ~ Unparsable /\ ~ Complete
    /\ feeding' = FALSE /\ events' = <<>>
    /\ UNCHANGED <<session, want_audio, buffer, wire, history>>

\* The arms of handle() that report something; each leaves the rest alone.
HandleOptions(answer) ==
    /\ state = "AwaitingOptions" /\ answer.ok
    /\ state' = "AwaitingDescribe"
    /\ Emit("Options")
    /\ UNCHANGED <<session_id, sdp, audio_set_up>>

HandleDescribe(answer) ==
    /\ state = "AwaitingDescribe" /\ answer.ok
    /\ answer.body \in Descriptions
    /\ sdp' = answer.body
    /\ state' = Video
    /\ Emit("Described")
    /\ UNCHANGED <<session_id, audio_set_up>>

\* Fault: an answer without a Session header is taken for a set up track.
VideoWithoutSession(answer) ==
    /\ state = Video /\ answer.ok
    /\ session_id' = answer.session
    /\ state' = IF want_audio /\ sdp = "both" THEN Audio ELSE "AwaitingPlay"
    /\ Emit("SetUpVideo")
    /\ UNCHANGED <<sdp, audio_set_up>>

HandleVideo(answer) ==
    /\ state = Video /\ answer.ok
    /\ answer.session # None
    /\ session_id' = answer.session
    /\ state' = IF want_audio /\ sdp = "both" THEN Audio ELSE "AwaitingPlay"
    /\ Emit("SetUpVideo")
    /\ UNCHANGED <<sdp, audio_set_up>>

HandleAudio(answer) ==
    /\ state = Audio /\ answer.ok
    /\ answer.session # None
    /\ session_id' = answer.session
    /\ audio_set_up' = TRUE
    /\ state' = "AwaitingPlay"
    /\ Emit("SetUpAudio")
    /\ UNCHANGED sdp

HandleAudioRefused(answer) ==
    /\ state = Audio /\ ~ answer.ok
    /\ state' = "AwaitingPlay"
    /\ Emit("SetUpRefused")
    /\ UNCHANGED <<session_id, sdp, audio_set_up>>

HandlePlay(answer) ==
    /\ state = "AwaitingPlay" /\ answer.ok
    /\ state' = "Playing"
    /\ Emit("Playing")
    /\ UNCHANGED <<session_id, sdp, audio_set_up>>

\* Whatever its status.
HandleTeardown(answer) ==
    /\ state = "AwaitingTeardown"
    /\ state' = "Closed"
    /\ Emit("TornDown")
    /\ UNCHANGED <<session_id, sdp, audio_set_up>>

HandleOther(answer) ==
    /\ state \notin Awaiting
    /\ Emit("Other")
    /\ UNCHANGED <<state, session_id, sdp, audio_set_up>>

\* The early returns: Status, BadSdp, NoVideoTrack, NoSessionHeader.
Rejects(answer) ==
    \/ state \in {"AwaitingOptions", "AwaitingDescribe", Video, "AwaitingPlay"} /\ ~ answer.ok
    \/ state = "AwaitingDescribe" /\ answer.body \notin Descriptions
    \/ state \in {Video, Audio} /\ answer.ok /\ answer.session = None

HandleRejected(answer) ==
    /\ Rejects(answer)
    /\ Fail
    /\ UNCHANGED <<state, session_id, sdp, audio_set_up>>

\* take_response, then handle: the answer of the request in flight.
HandleExpected ==
    /\ feeding /\ Complete
    /\ pending # NoCseq /\ buffer[1].answer.cseq = pending
    /\ pending' = NoCseq
    /\ TakeResponse
    /\ LET answer == buffer[1].answer
       IN  \/ HandleOptions(answer) \/ HandleDescribe(answer)
           \/ HandleVideo(answer) \/ HandleAudio(answer) \/ HandleAudioRefused(answer)
           \/ HandlePlay(answer) \/ HandleTeardown(answer) \/ HandleOther(answer)
           \/ HandleRejected(answer)
    /\ UNCHANGED <<cseq, want_audio, wire>>

\* Unsolicited and CseqMismatch, both of which forget the request in flight.
HandleUnexpected ==
    /\ feeding /\ Complete
    /\ buffer[1].answer.cseq # pending \/ pending = NoCseq
    /\ pending' = NoCseq
    /\ TakeResponse
    /\ Fail
    /\ UNCHANGED <<state, cseq, session_id, sdp, audio_set_up, want_audio, wire>>

FeedStep == FeedUnparsable \/ FeedReturns \/ HandleExpected \/ HandleUnexpected

Next ==
    \/ Serve \/ InterleaveMedia
    \/ PendingRequest \/ Teardown \/ Close
    \/ Feed \/ FeedStep

\* The server answers, and the caller runs the documented loop: pending_request,
\* write, read, feed.
Fairness ==
    /\ WF_vars(Serve)
    /\ WF_vars(PendingRequest)
    /\ WF_vars(Feed)
    /\ WF_vars(FeedStep)

Spec == Init /\ [][Next]_vars /\ Fairness

-----------------------------------------------------------------------------
TypeOK ==
    /\ state \in States
    /\ cseq \in 0 .. MaxRequests
    /\ pending \in 0 .. cseq
    /\ session_id \in {"id", None}
    /\ sdp \in Descriptions \cup {None}
    /\ want_audio \in BOOLEAN /\ audio_set_up \in BOOLEAN
    /\ feeding \in BOOLEAN /\ failed \in BOOLEAN /\ overlapped \in BOOLEAN
    /\ ~ feeding => events = <<>>

\* A request outstanding means a state that awaits it: Event::Other is never made,
\* and no answer is taken for that of another method.
PendingIsAwaited == pending # NoCseq => state \in Awaiting

\* PLAY is sent, and the stream declared playing, only behind a description with a
\* video track and a video SETUP that named the session.
PlayIsSetUp ==
    state \in {"AwaitingPlay", "Playing"} =>
        /\ sdp \in Descriptions /\ session_id # None
        /\ audio_set_up => want_audio /\ sdp = "both"

\* feed() drops the events it has collected when it fails.  None are lost that way
\* as long as requests are not overlapped, unless the server interleaves.
NoEventLost ==
    [][ feeding /\ ~ feeding' /\ buffer # <<>> /\ failed' /\ events # <<>> =>
            overlapped \/ failed \/ buffer[1] = Dollar ]_vars

\* The documented loop never waits for an answer nobody will send: it reaches
\* Playing, or learns that it failed, or somebody ends the session.
LoopEnds == <>(state \in {"Playing", "Closed", "AwaitingTeardown"} \/ failed)

\* The doc of teardown(): the caller can drive the machine to a clean close.  Once
\* every answer has been read, TEARDOWN's included, the session is Closed.
TeardownCloses ==
    state = "AwaitingTeardown" => feeding \/ Unanswered
=============================================================================
