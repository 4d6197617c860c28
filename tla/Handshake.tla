------------------------------- MODULE Handshake -------------------------------
(***************************************************************************)
(* Glasses::handshake_within of src/client/ble.rs: eight reads written one *)
(* after the other, the device that answers them in its own time over a    *)
(* lossy link, the pump and its broadcast channel, and the loop that       *)
(* collects replies until Handshake::is_complete or the deadline.  Only    *)
(* the kind of a reply matters; the 0x48 read is answered by a burst of    *)
(* switch reports (SwitchStates of src/parser.rs).                         *)
(***************************************************************************)
EXTENDS EventChannel, SequencesExt

CONSTANTS
    Reads,      \* the reads, in the order they are written
    Burst,      \* the switch reports in the order the device sends them
    Budget,     \* the deadline of the collecting, in ticks
    MaxPushes   \* bound on the events nobody asked for

ASSUME HandshakeAssumption ==
    /\ Reads \in Seq(STRING) /\ Reads # <<>>
    /\ Burst \in Seq(STRING)
    /\ Budget \in Nat \ {0} /\ MaxPushes \in Nat

VARIABLES
    link,
    phase,        \* where handshake_within is
    written,      \* reads written by this call
    timer,        \* ticks left to the deadline
    got,          \* the fields that are Some
    believable,   \* the device's record duration is one SwitchStates adopts
    asked,        \* replies the device has still to send, in order
    lost,         \* replies the link lost
    overrun,      \* replies the channel overwrote before they were received
    pushes

device == <<believable, asked, lost, pushes>>
vars == <<link, phase, written, timer, got, overrun, device, channel>>

\* The eight frames handshake_within writes.
AllReads == <<"Versions", "Identity", "Battery", "Status", "Switches", "Volumes",
              "Capabilities", "VoiceFeatures">>

Replies(read) == IF read = "Switches" THEN Burst ELSE <<read>>

Fields == (ToSet(Reads) \ {"Status", "Switches"}) \cup ToSet(Burst)

Over == {"ok", "failed", "disconnected"}
Listening == phase \in {"writing", "collecting"}
Reply(name) == [kind |-> "Reply", name |-> name]

-----------------------------------------------------------------------------
Init ==
    /\ link = TRUE
    /\ phase = "idle" /\ written = 0 /\ timer = 0 /\ got = {}
    /\ believable \in BOOLEAN
    /\ asked = <<>> /\ lost = {} /\ overrun = {} /\ pushes = 0
    /\ inbox = <<>> /\ lagged = FALSE

Names(evts) == {evts[i].name : i \in {j \in DOMAIN evts : evts[j].kind = "Reply"}}

\* The pump broadcasts one event; what it pushes out of the channel is noted.
Send(event) ==
    /\ Publish(Listening, <<event>>)
    /\ overrun' = IF Listening /\ Len(inbox) = EventBuffer
                  THEN overrun \cup Names(<<Head(inbox)>>) ELSE overrun

DeviceReplies ==
    /\ link
    /\ asked # <<>>
    /\ asked' = Tail(asked)
    /\ Send(Reply(Head(asked)))
    /\ UNCHANGED <<link, phase, written, timer, got, believable, lost, pushes>>

LoseReply ==
    /\ asked # <<>>
    /\ asked' = Tail(asked)
    /\ lost' = lost \cup {Head(asked)}
    /\ UNCHANGED <<link, phase, written, timer, got, overrun, believable, pushes, channel>>

\* A gesture, a file event, or a battery report nobody read.
DevicePushes ==
    /\ link
    /\ pushes < MaxPushes
    /\ pushes' = pushes + 1
    /\ \E event \in {Other, Reply("Battery")} : Send(event)
    /\ UNCHANGED <<link, phase, written, timer, got, believable, asked, lost>>

LinkDrops ==
    /\ link
    /\ link' = FALSE
    /\ Send(Disconnected)
    /\ UNCHANGED <<phase, written, timer, got, device>>

-----------------------------------------------------------------------------
Call ==
    /\ phase = "idle"
    /\ phase' = "writing"
    /\ Subscribe
    /\ UNCHANGED <<link, written, timer, got, overrun, device>>

\* One write with response and the gap after it; the last starts the deadline.
WriteRead ==
    /\ phase = "writing"
    /\ link
    /\ written' = written + 1
    /\ asked' = asked \o Replies(Reads[written'])
    /\ IF written' = Len(Reads)
       THEN phase' = "collecting" /\ timer' = Budget
       ELSE UNCHANGED <<phase, timer>>
    /\ UNCHANGED <<link, got, overrun, believable, lost, pushes, channel>>

\* A failed write ends the call; the device may have seen the frame.
WriteFails ==
    /\ phase = "writing"
    /\ phase' = "failed"
    /\ asked' \in {asked} \cup (IF link THEN {asked \o Replies(Reads[written + 1])} ELSE {})
    /\ UNCHANGED <<link, written, timer, got, overrun, believable, lost, pushes, channel>>

\* Fault: an implausible duration is stored.
IngestAnything(name) == got' = got \cup ({name} \cap Fields)

\* Fault: each reply replaces what was collected.
IngestForgets(name) == got' = {name} \cap Fields

\* The match arms and SwitchStates::ingest: an implausible duration is left None.
Ingest(name) ==
    got' = IF name = "RecordSeconds" /\ ~ believable THEN got ELSE got \cup ({name} \cap Fields)

\* Handshake::is_complete, which does not ask for the voice features.
IsComplete(fields) == Fields \ {"VoiceFeatures"} \subseteq fields

\* The loop ends when every read it waits for answered, or past the deadline.
NextTurn(complete) ==
    /\ phase' = IF complete \/ timer = 0 THEN "ok" ELSE phase
    /\ UNCHANGED timer

ReceiveLagged ==
    /\ phase = "collecting"
    /\ RecvLagged
    /\ NextTurn(FALSE)
    /\ UNCHANGED <<link, written, got, overrun, device>>

Take(event) ==
    \/ /\ event.kind = "Reply"
       /\ Ingest(event.name)
       /\ NextTurn(IsComplete(got'))
    \/ /\ event.kind = "Disconnected"
       /\ phase' = "disconnected"
       /\ UNCHANGED <<timer, got>>
    \/ /\ event.kind = "Other"
       /\ NextTurn(IsComplete(got))
       /\ UNCHANGED got

Receive ==
    /\ phase = "collecting"
    /\ RecvEvent
    /\ Take(Head(inbox))
    /\ UNCHANGED <<link, written, overrun, device>>

Expire ==
    /\ phase = "collecting"
    /\ timer = 0 /\ NothingReady
    /\ phase' = "ok"
    /\ UNCHANGED <<link, written, timer, got, overrun, device, channel>>

Tick ==
    /\ phase = "collecting"
    /\ timer > 0
    /\ timer' = timer - 1
    /\ UNCHANGED <<link, phase, written, got, overrun, device, channel>>

ClientStep == WriteRead \/ WriteFails \/ ReceiveLagged \/ Receive \/ Expire

Next ==
    \/ DeviceReplies \/ LoseReply \/ DevicePushes \/ LinkDrops
    \/ Call \/ ClientStep
    \/ Tick

\* The runtime polls a ready task, a write ends, and time passes; the device owes nothing.
Fairness == WF_vars(ClientStep) /\ WF_vars(Tick)

Spec == Init /\ [][Next]_vars /\ Fairness

-----------------------------------------------------------------------------
TypeOK ==
    /\ ChannelTypeOK
    /\ phase \in Over \cup {"idle", "writing", "collecting"}
    /\ written \in 0 .. Len(Reads)
    /\ timer \in 0 .. Budget
    /\ got \subseteq Fields /\ lost \subseteq ToSet(Reads) \cup ToSet(Burst)

\* A field is None in the result only for a reason: its reply was lost, overwritten,
\* not believed, or had not been received when the collecting ended.
MissingHasCause ==
    [][ phase = "collecting" /\ phase' = "ok" =>
            \A f \in Fields \ got' :
                \/ f \in lost \cup overrun \cup ToSet(asked) \cup Names(inbox')
                \/ f = "RecordSeconds" /\ ~ believable ]_vars

\* The end of the link is never what the channel overwrote, however full it is: a
\* handshake that returns Ok over a dead link has yet to receive the pump's last
\* words.  They wait behind the events that came before them, among which the
\* collecting became complete or reached its deadline (ble.rs:406 asks for the
\* time before the next event); a call that had received them all would have said
\* that the link dropped.
DropIsNotLost ==
    [][ phase = "collecting" /\ phase' = "ok" /\ ~ link =>
            /\ inbox' # <<>> /\ Last(inbox') = Disconnected
            /\ timer = 0 \/ IsComplete(got') ]_vars

\* A device whose record duration the crate refuses to believe is never taken for
\* complete: its handshake, which has every answer, still waits out the whole budget.
RefusalCostsTheBudget == phase = "ok" /\ ~ believable => timer = 0

\* The doc of is_complete, "Whether every read answered": a call that returns before
\* its deadline has every field.
CompleteMeansEveryRead == phase = "ok" /\ timer > 0 => Fields \subseteq got
=============================================================================
