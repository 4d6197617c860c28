------------------------------ MODULE PhotoCapture ------------------------------
(***************************************************************************)
(* Glasses::take_photo_within of src/client/ble.rs, asking for AI images   *)
(* one after the other on one connection: the device that captures and     *)
(* pushes a file per request, the AA15 notifications in order but lossy,   *)
(* the pump task with its FileReassembler, the broadcast channel and the   *)
(* waiting loop with its deadline.  A photo's bytes are its own number, so *)
(* that a file made of two photos shows.                                   *)
(***************************************************************************)
EXTENDS Integers, FiniteSets, EventChannel

CONSTANTS
    Size,         \* bytes of a photo, one per 0x98 frame
    Pad,          \* FileReassembler's zero-fill
    Budget,       \* the deadline, in ticks
    MaxCalls

ASSUME PhotoAssumption ==
    /\ Size \in Nat \ {0} /\ Budget \in Nat \ {0}
    /\ MaxCalls \in Nat
    /\ Pad \notin 1 .. MaxCalls

VARIABLES
    declared_total, file_type, data, received, events,   \* the pump's FileReassembler
    pending,   \* requests the device has not begun to answer
    air,       \* frames on their way, in order
    lost,      \* <<photo, cmd>> of every frame the link lost
    link,
    phase, timer, result,
    outcomes,  \* how the calls before this one ended
    calls

Photos == 1 .. MaxCalls

Files == INSTANCE FileReassembler WITH
    Values <- Photos, FileTypes <- {1}, Totals <- {Size}, Addrs <- 0 .. Size - 1,
    Chunks <- {<<p>> : p \in Photos}, MaxFileBytes <- Size, MaxReceivedSpans <- Size + 1

files == <<declared_total, file_type, data, received, events>>
device == <<pending, air, lost>>
history == <<outcomes, calls>>
vars == <<files, device, link, phase, timer, result, channel, history>>

Over == {"photo", "aborted", "rejected", "timeout", "failed", "disconnected"}

HdImageFailed == [kind |-> "HdImageFailed"]
Listening == phase = "waiting"

-----------------------------------------------------------------------------
Init ==
    /\ Files!Init
    /\ pending = <<>> /\ air = <<>> /\ lost = {}
    /\ link = TRUE
    /\ phase = "idle" /\ timer = 0 /\ result = <<>>
    /\ inbox = <<>> /\ lagged = FALSE
    /\ outcomes = <<>> /\ calls = 0

\* The frames of one photo: the header, its bytes in order, the end.
FramesOf(p) ==
    <<[cmd |-> "Info", photo |-> p]>>
        \o [k \in 1 .. Size |-> [cmd |-> "Data", photo |-> p, addr |-> k - 1]]
        \o <<[cmd |-> "End", photo |-> p]>>

\* The device has captured the oldest request and begins to push it.
DevicePushes ==
    /\ pending # <<>> /\ air = <<>>
    /\ air' = FramesOf(Head(pending))
    /\ pending' = Tail(pending)
    /\ UNCHANGED <<files, lost, link, phase, timer, result, channel, history>>

\* 0x52 instead of a file.
DeviceFails ==
    /\ link
    /\ pending # <<>> /\ air = <<>>
    /\ pending' = Tail(pending)
    /\ Publish(Listening, <<HdImageFailed>>)
    /\ UNCHANGED <<files, air, lost, link, phase, timer, result, history>>

\* The pump pushes one notification through the reassembler and broadcasts the result.
PumpFile ==
    /\ link
    /\ air # <<>>
    /\ LET f == Head(air)
       IN  \/ f.cmd = "Info" /\ Files!OnInfo(Size, 1)
           \/ f.cmd = "Data" /\ Files!OnData(f.addr, <<f.photo>>)
           \/ f.cmd = "End" /\ Files!OnEnd
    /\ air' = Tail(air)
    /\ Publish(Listening, events')
    /\ UNCHANGED <<pending, lost, link, phase, timer, result, history>>

LoseFrame ==
    /\ air # <<>>
    /\ lost' = lost \cup {<<Head(air).photo, Head(air).cmd>>}
    /\ air' = Tail(air)
    /\ UNCHANGED <<files, pending, link, phase, timer, result, channel, history>>

\* An AA14 event of no interest here.
OtherEvent ==
    /\ link
    /\ phase = "waiting"
    /\ Publish(Listening, <<Other>>)
    /\ UNCHANGED <<files, device, link, phase, timer, result, history>>

LinkDrops ==
    /\ link
    /\ link' = FALSE
    /\ Publish(Listening, <<Disconnected>>)
    /\ UNCHANGED <<files, device, phase, timer, result, history>>

-----------------------------------------------------------------------------
\* Subscribe first, then write 0x22 31; a failed write may have reached the device.
Call ==
    /\ phase # "waiting"
    /\ calls < MaxCalls
    /\ calls' = calls + 1
    /\ outcomes' = IF calls = 0 THEN outcomes ELSE Append(outcomes, phase)
    /\ result' = <<>>
    /\ Subscribe
    /\ \/ /\ link
          /\ pending' = Append(pending, calls')
          /\ phase' = "waiting" /\ timer' = Budget
       \/ /\ phase' = "failed"
          /\ pending' \in {pending} \cup (IF link THEN {Append(pending, calls')} ELSE {})
          /\ UNCHANGED timer
    /\ UNCHANGED <<files, air, lost, link>>

\* Fault: every event gets a deadline of its own.
NextTurnRestarts == timer' = Budget /\ UNCHANGED phase

\* The top of the loop: an event that did not answer after the deadline is a timeout.
NextTurn ==
    /\ phase' = IF timer = 0 THEN "timeout" ELSE phase
    /\ UNCHANGED timer

ReceiveLagged ==
    /\ phase = "waiting"
    /\ RecvLagged
    /\ NextTurn
    /\ UNCHANGED <<files, device, link, result, history>>

Answer(event) ==
    \/ /\ event.kind = "Completed"
       /\ phase' = "photo" /\ result' = event.data
       /\ UNCHANGED timer
    \/ /\ event.kind \in Files!Aborts
       /\ phase' = "aborted"
       /\ UNCHANGED <<timer, result>>
    \/ /\ event.kind = "HdImageFailed"
       /\ phase' = "rejected"
       /\ UNCHANGED <<timer, result>>
    \/ /\ event.kind = "Disconnected"
       /\ phase' = "disconnected"
       /\ UNCHANGED <<timer, result>>
    \/ /\ event.kind \in {"Started", "Other"}
       /\ NextTurn
       /\ UNCHANGED result

Receive ==
    /\ phase = "waiting"
    /\ RecvEvent
    /\ Answer(Head(inbox))
    /\ UNCHANGED <<files, device, link, history>>

Expire ==
    /\ phase = "waiting"
    /\ timer = 0 /\ NothingReady
    /\ phase' = "timeout"
    /\ UNCHANGED <<files, device, link, timer, result, channel, history>>

Tick ==
    /\ phase = "waiting"
    /\ timer > 0
    /\ timer' = timer - 1
    /\ UNCHANGED <<files, device, link, phase, result, channel, history>>

ClientStep == ReceiveLagged \/ Receive \/ Expire

Next ==
    \/ DevicePushes \/ DeviceFails \/ PumpFile \/ LoseFrame \/ OtherEvent \/ LinkDrops
    \/ Call \/ ClientStep
    \/ Tick

\* The runtime polls a ready task, and time passes; nothing is owed by the device.
Fairness == WF_vars(ClientStep) /\ WF_vars(Tick)

Spec == Init /\ [][Next]_vars /\ Fairness

-----------------------------------------------------------------------------
TypeOK ==
    /\ Files!TypeOK
    /\ pending \in Seq(Photos)
    /\ phase \in Over \cup {"idle", "waiting"}
    /\ timer \in 0 .. Budget
    /\ ChannelTypeOK
    /\ Len(outcomes) < MaxCalls

Origins == {result[i] : i \in DOMAIN result}

\* When every earlier call got an answer, a call that returns a photo returns
\* its own, whatever frames of this and of earlier photos were lost.
OwnPhoto ==
    (phase = "photo" /\ \A k \in DOMAIN outcomes : outcomes[k] \in {"photo", "aborted", "rejected"})
        => Origins = {calls}

\* An abort is never made up: a frame of this very photo was lost, or an earlier
\* call gave up on a transfer the device was still busy with.
AbortHasCause ==
    phase = "aborted" =>
        \/ \E cmd \in {"Info", "Data", "End"} : <<calls, cmd>> \in lost
        \/ \E k \in DOMAIN outcomes : outcomes[k] \in {"timeout", "failed"}

\* A call of take_photo always returns.
CallReturns == phase = "waiting" ~> phase \in Over

\* src/timing.rs on FILE_STREAM_STALL: the client times the transfer and calls
\* FileReassembler::reset, so no transfer is left open behind a timeout.
TimeoutResets == [][ phase = "waiting" /\ phase' = "timeout" => ~ Files!IsOpen' ]_vars
=============================================================================
