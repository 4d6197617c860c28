------------------------------ MODULE VoiceCapture ------------------------------
(***************************************************************************)
(* Glasses::voice_capture of src/client/ble.rs on one connection: the      *)
(* device's microphone, the pump task with its Parser (module VoiceStream),*)
(* the broadcast channel, and the collecting loop with its two timers and  *)
(* the two 0x56 writes that follow it.  Time is counted in ticks; a tick   *)
(* never passes a timer that has expired, which is the runtime's promise   *)
(* to poll a task whose sleep is over.                                     *)
(***************************************************************************)
EXTENDS VoiceStream, EventChannel

CONSTANTS
    IdleGap,      \* the arguments of voice_capture, in ticks
    HardCap,
    RepeatGap,    \* VOICE_INTERRUPT_REPEAT_GAP
    MaxFrames,    \* bound on the voice frames the device sends
    MaxCalls      \* bound on the calls of voice_capture

ASSUME CaptureAssumption ==
    /\ IdleGap \in Nat \ {0} /\ HardCap \in Nat \ {0} /\ RepeatGap \in Nat \ {0}
    /\ MaxFrames \in Nat /\ MaxCalls \in Nat

VARIABLES
    mic,        \* the device is streaming
    opening,    \* of the device's capture: "announced", "lost" or, once heard, "none"
    micPhase,   \* the phase of the current call when the microphone was last opened
    link,       \* up
    phase,      \* where voice_capture is
    collected,  \* indices of the packets in the result
    hard,       \* ticks left to hard_deadline
    timer,      \* ticks left of the timeout or sleep being awaited
    quiet,      \* ticks since a 0x46 last reached the channel
    attempts,   \* 0x56 writes of this call
    frames, calls

device == <<mic, opening, micPhase>>
client == <<phase, collected, hard, timer, attempts>>
bounds == <<frames, calls>>
vars == <<voiceVars, device, link, client, channel, quiet, bounds>>

Busy == {"collecting", "interrupting", "pausing"}
Over == {"ok", "failed", "disconnected"}
Phases == {"idle"} \cup Busy \cup Over

Smaller(a, b) == IF a < b THEN a ELSE b

Listening == phase = "collecting"

-----------------------------------------------------------------------------
Init ==
    /\ VoiceInit
    /\ mic = FALSE /\ opening = "none" /\ micPhase = "idle"
    /\ link = TRUE
    /\ phase = "idle"
    /\ inbox = <<>> /\ lagged = FALSE
    /\ collected = <<>> /\ hard = 0 /\ timer = 0 /\ quiet = 0 /\ attempts = 0
    /\ frames = 0 /\ calls = 0

SendFrame ==
    /\ link
    /\ frames < MaxFrames
    /\ frames' = frames + 1
    /\ UNCHANGED <<link, client, calls>>

\* The wake word: the device opens its microphone and announces it, or the 0x97 is lost.
WakeHeard ==
    /\ SendFrame
    /\ mic' = TRUE /\ opening' = "announced" /\ micPhase' = phase
    /\ OnVoiceUploadStart
    /\ Publish(Listening, events')
    /\ UNCHANGED quiet

WakeLost ==
    /\ SendFrame
    /\ ~ mic
    /\ mic' = TRUE /\ opening' = "lost" /\ micPhase' = phase
    /\ UNCHANGED <<voiceVars, channel, quiet>>

\* One 0x46 from the open microphone.
Speak ==
    /\ SendFrame
    /\ mic
    /\ OnVoiceData
    /\ opening' = "none"
    /\ quiet' = 0
    /\ Publish(Listening, events')
    /\ UNCHANGED <<mic, micPhase>>

\* 0x99, which the client handles though this firmware never sends it.
DeviceEnds ==
    /\ SendFrame
    /\ mic
    /\ OnVoiceUploadEnd
    /\ mic' = FALSE
    /\ Publish(Listening, events')
    /\ UNCHANGED <<opening, micPhase, quiet>>

\* Anything else either characteristic carries: a gesture, a battery report, a file frame.
OtherEvent ==
    /\ link
    /\ phase = "collecting"
    /\ Publish(Listening, <<Other>>)
    /\ UNCHANGED <<voiceVars, device, link, client, quiet, bounds>>

\* The notification stream ends and the pump says so before it stops.
LinkDrops ==
    /\ link
    /\ link' = FALSE
    /\ Publish(Listening, <<Disconnected>>)
    /\ UNCHANGED <<voiceVars, device, client, quiet, bounds>>

-----------------------------------------------------------------------------
\* The top of the loop: past the hard deadline it breaks, else it waits again.
HardReached == hard = 0

Window == Smaller(IdleGap, hard)

\* Fault: only the idle timer ends the loop.
NextTurnNoCap ==
    /\ timer' = IdleGap
    /\ UNCHANGED phase

NextTurn ==
    \/ /\ HardReached
       /\ phase' = "interrupting"
       /\ UNCHANGED timer
    \/ /\ ~ HardReached
       /\ timer' = Window
       /\ UNCHANGED phase

Call ==
    /\ phase \in {"idle"} \cup Over
    /\ calls < MaxCalls
    /\ calls' = calls + 1
    /\ phase' = "collecting"
    /\ Subscribe                             \* self.events(): a new receiver
    /\ collected' = <<>>
    /\ hard' = HardCap
    /\ timer' = Smaller(IdleGap, HardCap)
    /\ quiet' = 0
    /\ attempts' = 0
    /\ micPhase' = "idle"
    /\ UNCHANGED <<voiceVars, mic, opening, link, frames>>

\* RecvError::Lagged falls through to the next turn.
ReceiveLagged ==
    /\ phase = "collecting"
    /\ RecvLagged
    /\ NextTurn
    /\ UNCHANGED <<voiceVars, device, link, collected, hard, quiet, attempts, bounds>>

\* Fault: a packet does not restart the idle timer.
TakePacketKeepsTimer(event) ==
    /\ event.kind = "Packet"
    /\ collected' = Append(collected, event.index)
    /\ IF HardReached THEN phase' = "interrupting" ELSE UNCHANGED phase
    /\ UNCHANGED timer

TakePacket(event) ==
    /\ event.kind = "Packet"
    /\ collected' = Append(collected, event.index)
    /\ NextTurn

TakeEnded(event) ==
    /\ event.kind = "Ended"
    /\ phase' = "interrupting"
    /\ UNCHANGED <<collected, timer>>

TakeDisconnected(event) ==
    /\ event.kind = "Disconnected"
    /\ phase' = "disconnected"
    /\ UNCHANGED <<collected, timer>>

TakeOther(event) ==
    /\ event.kind \notin {"Packet", "Ended", "Disconnected"}
    /\ NextTurn
    /\ UNCHANGED collected

Receive ==
    /\ phase = "collecting"
    /\ RecvEvent
    /\ \/ TakePacket(Head(inbox))
       \/ TakeEnded(Head(inbox))
       \/ TakeDisconnected(Head(inbox))
       \/ TakeOther(Head(inbox))
    /\ UNCHANGED <<voiceVars, device, link, hard, quiet, attempts, bounds>>

\* Fault: an expired window returns at once, without the 0x56 writes.
ExpireReturns ==
    /\ phase = "collecting"
    /\ timer = 0 /\ NothingReady
    /\ phase' = "ok"
    /\ UNCHANGED <<voiceVars, device, link, collected, hard, timer, attempts, channel, quiet, bounds>>

\* The timeout is over and nothing was ready to be received.
Expire ==
    /\ phase = "collecting"
    /\ timer = 0 /\ NothingReady
    /\ phase' = "interrupting"
    /\ UNCHANGED <<voiceVars, device, link, collected, hard, timer, attempts, channel, quiet, bounds>>

\* A write with response: the device stopped its microphone and said so, or the
\* call failed and the device may or may not have seen the frame.
WriteSucceeds == link /\ mic' = FALSE
WriteFails == mic' \in IF link THEN {mic, FALSE} ELSE {mic}

Interrupt ==
    /\ phase = "interrupting"
    /\ attempts' = attempts + 1
    /\ \/ WriteSucceeds /\ phase' = "pausing" /\ timer' = RepeatGap
       \/ WriteFails /\ phase' = "failed" /\ UNCHANGED timer
    /\ UNCHANGED <<voiceVars, opening, micPhase, link, collected, hard, channel, quiet, bounds>>

\* The second write's result is ignored.
InterruptAgain ==
    /\ phase = "pausing"
    /\ timer = 0
    /\ attempts' = attempts + 1
    /\ WriteSucceeds \/ WriteFails
    /\ phase' = "ok"
    /\ UNCHANGED <<voiceVars, opening, micPhase, link, collected, hard, timer, channel, quiet, bounds>>

Tick ==
    /\ phase \in {"collecting", "pausing"}
    /\ timer > 0
    /\ timer' = timer - 1
    /\ hard' = IF hard > 0 THEN hard - 1 ELSE 0
    /\ quiet' = Smaller(quiet + 1, HardCap)
    /\ UNCHANGED <<voiceVars, device, link, phase, collected, attempts, channel, bounds>>

ClientStep == ReceiveLagged \/ Receive \/ Expire \/ Interrupt \/ InterruptAgain

Next ==
    \/ WakeHeard \/ WakeLost \/ Speak \/ DeviceEnds \/ OtherEvent \/ LinkDrops
    \/ Call \/ ClientStep
    \/ Tick

\* The runtime polls a ready task, and time passes.
Fairness == WF_vars(ClientStep) /\ WF_vars(Tick)

Spec == Init /\ [][Next]_vars /\ Fairness

-----------------------------------------------------------------------------
TypeOK ==
    /\ VoiceTypeOK
    /\ phase \in Phases /\ micPhase \in Phases
    /\ ChannelTypeOK
    /\ collected \in Seq(0 .. MaxPackets)
    /\ hard \in 0 .. HardCap
    /\ timer \in 0 .. Smaller(IdleGap, HardCap) + RepeatGap
    /\ attempts \in 0 .. 2

\* The collecting loop never outlives hard_cap, whatever arrives meanwhile: no
\* timeout it awaits reaches past the hard deadline.
WithinHardCap == phase = "collecting" => timer <= hard

\* An utterance is never cut short: while 0x46 keep reaching the channel within
\* idle_gap of each other, only the hard cap, an end frame or the end of the
\* link stops the collecting.
NotCutShort ==
    [][ Expire => quiet >= IdleGap \/ hard = 0 ]_vars

\* Behind an Ok stand two 0x56 writes, and every capture that was open when the
\* collecting stopped is closed: only a wake word during the pause between them, or
\* later, can leave the microphone open.
OkClosesMic ==
    phase = "ok" => attempts = 2 /\ (mic => micPhase \in {"pausing"} \cup Over)

\* A call of voice_capture always returns.
CallReturns == phase \in Busy ~> phase \in Over

\* The doc of StartedRecovered: a 0x46 with no preceding 0x97 opens a capture.
LostStartIsRecovered ==
    [][ Speak /\ opening = "lost" => StartedRecovered \in {events'[i] : i \in DOMAIN events'} ]_vars
=============================================================================
