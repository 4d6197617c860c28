------------------------------ MODULE VoiceStream ------------------------------
(***************************************************************************)
(* The microphone capture state machine: VoiceStream of src/voice.rs, as   *)
(* Parser of src/parser.rs drives it.  Each action is one decoded AC 55    *)
(* frame, or one call of the shell.  "view" is what a caller who reads     *)
(* nothing but the returned events believes; the properties say when that  *)
(* belief can be trusted.                                                  *)
(***************************************************************************)
EXTENDS Naturals, Sequences

CONSTANTS
    EndCauses,    \* of enum EndCause
    MaxPackets    \* bound on the packet counter, a u64 in the code

ASSUME VoiceAssumption ==
    /\ "DeviceSignalled" \in EndCauses
    /\ MaxPackets \in Nat

VARIABLES
    capturing,
    packets,
    events,     \* returned by the last call
    view        \* [open, heard]: the caller's belief, from events alone

voice == <<capturing, packets>>
voiceVars == <<capturing, packets, events, view>>

Started == [kind |-> "Started"]
StartedRecovered == [kind |-> "StartedRecovered"]
Packet(index) == [kind |-> "Packet", index |-> index]
Ended(cause) == [kind |-> "Ended", cause |-> cause]
Ignored == [kind |-> "Ignored"]
VoiceAbandoned == [kind |-> "VoiceAbandoned"]

Closed == [open |-> FALSE, heard |-> 0]

\* What one event tells the caller.
After(belief, event) ==
    CASE event.kind \in {"Started", "StartedRecovered"} -> [open |-> TRUE, heard |-> 0]
      [] event.kind = "Packet" -> [belief EXCEPT !.heard = @ + 1]
      [] event.kind \in {"Ended", "VoiceAbandoned"} -> Closed
      [] OTHER -> belief

Return(evts) ==
    /\ events' = evts
    /\ view' = CASE Len(evts) = 1 -> After(view, evts[1])
                 [] Len(evts) = 2 -> After(After(view, evts[1]), evts[2])
                 [] OTHER -> view

-----------------------------------------------------------------------------
VoiceInit ==
    /\ capturing = FALSE
    /\ packets = 0
    /\ events = <<>>
    /\ view = Closed

\* 0x97: a start mid-capture restarts, and the old count is not carried over.
OnVoiceUploadStart ==
    /\ capturing' = TRUE
    /\ packets' = 0
    /\ Return(<<Started>>)

\* 0x46 with an empty payload: it can recover a lost start but is not a packet.
OnEmptyVoiceData ==
    \/ /\ capturing
       /\ UNCHANGED voice
       /\ Return(<<>>)
    \/ /\ ~ capturing
       /\ capturing' = TRUE
       /\ packets' = 0
       /\ Return(<<StartedRecovered>>)

\* 0x46: a packet, after the recovered start if the 0x97 was lost.
OnVoiceData ==
    \/ /\ capturing
       /\ packets < MaxPackets
       /\ packets' = packets + 1
       /\ UNCHANGED capturing
       /\ Return(<<Packet(packets)>>)
    \/ /\ ~ capturing
       /\ MaxPackets > 0
       /\ capturing' = TRUE
       /\ packets' = 1
       /\ Return(<<StartedRecovered, Packet(0)>>)

\* Fault: close() reports nothing, as both reference clients do.
CloseSilently(cause) ==
    /\ capturing' = FALSE
    /\ UNCHANGED packets
    /\ Return(<<Ignored>>)

\* close(): the packet count stays readable until the next start.
Close(cause) ==
    /\ capturing' = FALSE
    /\ UNCHANGED packets
    /\ Return(IF capturing THEN <<Ended(cause)>> ELSE <<Ignored>>)

\* 0x99, which this firmware never sends.
OnVoiceUploadEnd == Close("DeviceSignalled")

\* The parser resets the machine rather than closing it: this event is the end.
OnVoiceAbandoned ==
    /\ capturing' = FALSE
    /\ packets' = 0
    /\ Return(<<VoiceAbandoned>>)

\* Any other control frame passes the machine by.
OnOtherFrame ==
    /\ UNCHANGED voice
    /\ Return(<<Ignored>>)

\* close_voice(), for a reason only the shell knows.
CloseVoice == \E cause \in EndCauses \ {"DeviceSignalled"} : Close(cause)

\* Parser::reset(): the shell asked for silence, and knows what it discarded.
Reset ==
    /\ capturing' = FALSE
    /\ packets' = 0
    /\ events' = <<>>
    /\ view' = Closed

VoiceNext ==
    \/ OnVoiceUploadStart
    \/ OnEmptyVoiceData
    \/ OnVoiceData
    \/ OnVoiceUploadEnd
    \/ OnVoiceAbandoned
    \/ OnOtherFrame
    \/ CloseVoice
    \/ Reset

VoiceSpec == VoiceInit /\ [][VoiceNext]_voiceVars

-----------------------------------------------------------------------------
VoiceTypeOK ==
    /\ capturing \in BOOLEAN
    /\ packets \in 0 .. MaxPackets
    /\ view \in [open : BOOLEAN, heard : Nat]

\* A caller can follow the capture from the events alone: whatever frames were
\* lost, it believes a capture is open exactly when one is.
CallerKnowsCapture == view.open <=> capturing

\* A packet's index is its ordinal among the packets reported since the last
\* start event, recovered or not.
IndexIsOrdinal == capturing => packets = view.heard
=============================================================================
