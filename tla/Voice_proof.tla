------------------------------ MODULE Voice_proof ------------------------------
(***************************************************************************)
(* Listening, and the file of what was heard.                              *)
(*                                                                         *)
(* VoiceCapture, for every length of the two timers, every channel and any *)
(* number of calls: voice_capture never waits past its hard cap, and an Ok *)
(* means two 0x56 writes and a microphone closed since the collecting      *)
(* stopped.  The second needs to know, of each phase, how many writes are  *)
(* behind it and when the microphone can have been opened.  And it never   *)
(* cuts an utterance short: the window it waits in began no earlier than   *)
(* the silence (Patient).                                                  *)
(*                                                                         *)
(* VoiceWav, for every capture, rate and maximal size: a packet's header   *)
(* tells how many samples come out of a decoder, and the file plays as     *)
(* long as what can be heard of the capture, because after i packets the   *)
(* PCM is as long as what should be heard of i packets (PcmIsHeard).       *)
(***************************************************************************)
EXTENDS VoiceCapture, VoiceWav, SequenceTheorems, WellFoundedInduction, TLAPS

Timers ==
    /\ hard \in Nat /\ timer \in Nat
    /\ WithinHardCap

\* The 0x56 writes behind each phase.  The first closed the microphone, so that one
\* open after it was opened after it.
Writes ==
    /\ phase \in {"collecting", "interrupting"} => attempts = 0
    /\ phase = "pausing" => attempts = 1 /\ (mic => micPhase = "pausing")
    /\ OkClosesMic

CaptureInv == Timers /\ Writes

-----------------------------------------------------------------------------
LEMMA InitInv == Init => CaptureInv
  BY DEF Init, CaptureInv, Timers, Writes, WithinHardCap, OkClosesMic

\* The device, the link and the pump leave the call where it is: they may open the
\* microphone, in the phase the call is then in, or close it.
LEMMA WorldInv ==
    ASSUME CaptureInv, UNCHANGED client,
           \/ UNCHANGED <<mic, micPhase>>
           \/ mic' = TRUE /\ micPhase' = phase
           \/ mic' = FALSE /\ UNCHANGED micPhase
    PROVE  CaptureInv'
  <1>1. phase' = phase /\ hard' = hard /\ timer' = timer /\ attempts' = attempts
    BY DEF client
  <1>2. Timers'
    BY <1>1 DEF CaptureInv, Timers, WithinHardCap
  <1>3. Writes'
    BY <1>1 DEF CaptureInv, Writes, OkClosesMic, Over
  <1> QED
    BY <1>2, <1>3 DEF CaptureInv

\* A turn of the collecting loop waits for what is left of the cap, or ends it.
LEMMA TurnInv ==
    ASSUME CaptureInv, phase = "collecting", NextTurn, UNCHANGED <<device, hard, attempts>>
    PROVE  CaptureInv'
  <1>1. Window \in Nat /\ Window <= hard
    BY CaptureAssumption DEF Window, Smaller, CaptureInv, Timers
  <1>2. Timers'
    BY <1>1 DEF NextTurn, CaptureInv, Timers, WithinHardCap
  <1>3. Writes'
    BY DEF NextTurn, device, CaptureInv, Writes, OkClosesMic
  <1> QED
    BY <1>2, <1>3 DEF CaptureInv

\* The collecting ends, without having written anything.
LEMMA StopInv ==
    ASSUME CaptureInv, phase = "collecting", phase' \in {"interrupting", "disconnected"},
           UNCHANGED <<device, hard, timer, attempts>>
    PROVE  CaptureInv'
  BY DEF CaptureInv, Timers, WithinHardCap, Writes, OkClosesMic, device

-----------------------------------------------------------------------------
LEMMA CallInv == CaptureInv /\ Call => CaptureInv'
  <1> SUFFICES ASSUME CaptureInv, Call PROVE CaptureInv'
    OBVIOUS
  <1>1. timer' \in Nat /\ hard' \in Nat /\ timer' <= hard'
    BY CaptureAssumption DEF Call, Smaller
  <1>2. phase' = "collecting" /\ attempts' = 0
    BY DEF Call
  <1> QED
    BY <1>1, <1>2 DEF CaptureInv, Timers, WithinHardCap, Writes, OkClosesMic

LEMMA ReceiveInv == CaptureInv /\ (ReceiveLagged \/ Receive \/ Expire) => CaptureInv'
  <1> SUFFICES ASSUME CaptureInv, ReceiveLagged \/ Receive \/ Expire PROVE CaptureInv'
    OBVIOUS
  <1>1. CASE ReceiveLagged
    BY <1>1, TurnInv DEF ReceiveLagged
  <1>2. CASE Receive
    <2>1. phase = "collecting" /\ UNCHANGED <<device, hard, attempts>>
      BY <1>2 DEF Receive
    <2>2. CASE TakePacket(Head(inbox)) \/ TakeOther(Head(inbox))
      BY <2>1, <2>2, TurnInv DEF TakePacket, TakeOther
    <2>3. CASE TakeEnded(Head(inbox)) \/ TakeDisconnected(Head(inbox))
      BY <2>1, <2>3, StopInv DEF TakeEnded, TakeDisconnected
    <2> QED
      BY <1>2, <2>2, <2>3 DEF Receive
  <1>3. CASE Expire
    BY <1>3, StopInv DEF Expire
  <1> QED
    BY <1>1, <1>2, <1>3

LEMMA InterruptInv == CaptureInv /\ Interrupt => CaptureInv'
  <1> SUFFICES ASSUME CaptureInv, Interrupt PROVE CaptureInv'
    OBVIOUS
  <1>1. attempts = 0 /\ attempts' = 1 /\ hard' = hard
    BY DEF Interrupt, CaptureInv, Writes
  <1>2. CASE WriteSucceeds /\ phase' = "pausing" /\ timer' = RepeatGap
    BY <1>1, <1>2, CaptureAssumption
       DEF WriteSucceeds, CaptureInv, Timers, WithinHardCap, Writes, OkClosesMic
  <1>3. CASE phase' = "failed" /\ timer' = timer
    BY <1>1, <1>3 DEF CaptureInv, Timers, WithinHardCap, Writes, OkClosesMic
  <1> QED
    BY <1>2, <1>3 DEF Interrupt

LEMMA InterruptAgainInv == CaptureInv /\ InterruptAgain => CaptureInv'
  <1> SUFFICES ASSUME CaptureInv, InterruptAgain PROVE CaptureInv'
    OBVIOUS
  <1>1. attempts' = 2 /\ phase' = "ok" /\ UNCHANGED <<hard, timer, micPhase>>
    BY DEF InterruptAgain, CaptureInv, Writes
  <1>2. mic' => micPhase = "pausing"
    <2>1. mic' \in {mic, FALSE}
      BY DEF InterruptAgain, WriteSucceeds, WriteFails
    <2> QED
      BY <2>1 DEF InterruptAgain, CaptureInv, Writes
  <1> QED
    BY <1>1, <1>2 DEF CaptureInv, Timers, WithinHardCap, Writes, OkClosesMic

LEMMA TickInv == CaptureInv /\ Tick => CaptureInv'
  <1> SUFFICES ASSUME CaptureInv, Tick PROVE CaptureInv'
    OBVIOUS
  <1>1. UNCHANGED <<phase, mic, micPhase, attempts>>
    BY DEF Tick, device
  <1>2. Timers'
    BY <1>1 DEF Tick, CaptureInv, Timers, WithinHardCap
  <1>3. Writes'
    BY <1>1 DEF CaptureInv, Writes, OkClosesMic
  <1> QED
    BY <1>2, <1>3 DEF CaptureInv

-----------------------------------------------------------------------------
\* The invariant is inductive.
LEMMA NextInv == CaptureInv /\ [Next]_vars => CaptureInv'
  <1> SUFFICES ASSUME CaptureInv, [Next]_vars PROVE CaptureInv'
    OBVIOUS
  <1>1. CASE UNCHANGED vars
    BY <1>1, WorldInv DEF vars, device
  <1>2. CASE WakeHeard \/ WakeLost \/ Speak \/ DeviceEnds
    <2>1. UNCHANGED client
      BY <1>2 DEF WakeHeard, WakeLost, Speak, DeviceEnds, SendFrame
    <2>2. \/ UNCHANGED <<mic, micPhase>>
          \/ mic' = TRUE /\ micPhase' = phase
          \/ mic' = FALSE /\ UNCHANGED micPhase
      BY <1>2 DEF WakeHeard, WakeLost, Speak, DeviceEnds
    <2> QED
      BY <2>1, <2>2, WorldInv
  <1>3. CASE OtherEvent \/ LinkDrops
    BY <1>3, WorldInv DEF OtherEvent, LinkDrops, device
  <1>4. CASE ClientStep
    BY <1>4, ReceiveInv, InterruptInv, InterruptAgainInv DEF ClientStep
  <1> QED
    BY <1>1, <1>2, <1>3, <1>4, CallInv, TickInv DEF Next

LEMMA SpecInv == Spec => []CaptureInv
  BY InitInv, NextInv, PTL DEF Spec

\* Whatever events keep voice_capture busy, no timeout it awaits reaches past
\* hard_deadline.
THEOREM HardCapHolds == Spec => []WithinHardCap
  <1>1. CaptureInv => WithinHardCap
    BY DEF CaptureInv, Timers
  <1> QED
    BY <1>1, SpecInv, PTL

\* An Ok of voice_capture stands behind two 0x56 writes, and the captures open when
\* the collecting stopped are closed.
THEOREM MicClosed == Spec => []OkClosesMic
  <1>1. CaptureInv => OkClosesMic
    BY DEF CaptureInv, Writes
  <1> QED
    BY <1>1, SpecInv, PTL
-----------------------------------------------------------------------------
\* What the pump publishes.
CaptureEvents ==
    {Other, Disconnected, Started, StartedRecovered, Ignored}
        \cup {Packet(index) : index \in Nat} \cup {Ended(cause) : cause \in EndCauses}

\* The call waits for nothing, for the hard cap, or has been waiting since the last
\* packet: the window it awaits began no earlier than the silence.
Patient ==
    \/ inbox # <<>>
    \/ timer = hard
    \/ quiet + timer >= IdleGap

WaitInv ==
    /\ packets \in Nat
    /\ inbox \in Seq(CaptureEvents)
    /\ phase = "collecting" => quiet \in Nat /\ quiet + hard <= HardCap /\ Patient

\* What is published is there to be received, however full the channel is.
LEMMA PublishSome ==
    ASSUME NEW S, inbox \in Seq(S), NEW evts \in Seq(S), evts # <<>>, Publish(TRUE, evts)
    PROVE  inbox' \in Seq(S) /\ inbox' # <<>>
  <1> DEFINE all == inbox \o evts
             excess == IF Len(all) > EventBuffer THEN Len(all) - EventBuffer ELSE 0
             size == Len(all)
  <1>1. all \in Seq(S) /\ size \in Nat /\ size > 0
    <2>1. /\ all \in Seq(S) /\ Len(all) = Len(inbox) + Len(evts)
          /\ Len(inbox) \in Nat /\ Len(evts) \in Nat \ {0}
      BY ConcatProperties, EmptySeq, LenProperties
    <2> QED
      BY <2>1
  <1>2. inbox' = SubSeq(all, excess + 1, Len(all))
    BY DEF Publish
  <1> HIDE DEF all
  <1>3. size = Len(all) /\ \A i \in 1 .. size : all[i] \in S
    BY <1>1, ElementOfSeq
  <1> HIDE DEF size
  <1>4. excess \in Nat /\ excess < size
    BY <1>1, <1>3, ChannelAssumption
  <1> HIDE DEF excess
  <1>5. \A i \in excess + 1 .. size : all[i] \in S
    BY <1>1, <1>3, <1>4
  <1>6. inbox' \in Seq(S) /\ Len(inbox') = size - excess
    BY <1>1, <1>2, <1>3, <1>4, <1>5, SubSeqProperties
  <1>7. inbox' # <<>>
    <2>1. Len(<<>>) = 0
      OBVIOUS
    <2> QED
      BY <1>1, <1>4, <1>6, <2>1
  <1> QED
    BY <1>6, <1>7

\* The events a frame yields, if it yields any.
LEMMA FrameEvents ==
    ASSUME packets \in Nat, OnVoiceUploadStart \/ OnVoiceData \/ OnVoiceUploadEnd
    PROVE  events' \in Seq(CaptureEvents) /\ events' # <<>> /\ packets' \in Nat
  <1>1. /\ Started \in CaptureEvents /\ StartedRecovered \in CaptureEvents
        /\ Ignored \in CaptureEvents /\ Ended("DeviceSignalled") \in CaptureEvents
        /\ Packet(packets) \in CaptureEvents /\ Packet(0) \in CaptureEvents
    BY VoiceAssumption DEF CaptureEvents
  <1>2. CASE OnVoiceUploadStart
    BY <1>1, <1>2 DEF OnVoiceUploadStart, Return
  <1>3. CASE OnVoiceData
    <2>1. CASE events' = <<Packet(packets)>> /\ packets' = packets + 1
      BY <1>1, <2>1
    <2>2. CASE events' = <<StartedRecovered, Packet(0)>> /\ packets' = 1
      BY <1>1, <2>2
    <2> QED
      BY <1>3, <2>1, <2>2 DEF OnVoiceData, Return
  <1>4. CASE OnVoiceUploadEnd
    BY <1>1, <1>4 DEF OnVoiceUploadEnd, Close, Return
  <1> QED
    BY <1>2, <1>3, <1>4

\* Whatever the world publishes, a call that waits stays patient; only a packet ends
\* the silence, and it is there to be received.
LEMMA WorldWaits ==
    ASSUME Timers, WaitInv, UNCHANGED client, packets' \in Nat,
           NEW evts \in Seq(CaptureEvents), evts # <<>>, Publish(Listening, evts),
           quiet' \in {quiet, 0}
    PROVE  WaitInv'
  <1>1. UNCHANGED <<phase, hard, timer>>
    BY DEF client
  <1>2. CASE phase = "collecting"
    <2>1. inbox' \in Seq(CaptureEvents) /\ inbox' # <<>>
      BY <1>2, PublishSome DEF WaitInv, Listening
    <2>2. quiet' \in Nat /\ quiet' + hard <= HardCap
      <3>1. quiet \in Nat /\ hard \in Nat /\ quiet + hard <= HardCap
        BY <1>2 DEF WaitInv, Timers
      <3>2. CASE quiet' = quiet
        BY <3>1, <3>2
      <3>3. CASE quiet' = 0
        BY <3>1, <3>3, CaptureAssumption
      <3> QED
        BY <3>2, <3>3
    <2> QED
      BY <1>1, <2>1, <2>2 DEF WaitInv, Patient
  <1>3. CASE phase # "collecting"
    BY <1>1, <1>3 DEF WaitInv, Publish, Listening, channel
  <1> QED
    BY <1>2, <1>3

\* A turn of the loop begins a new window, or there is no more waiting.
LEMMA TurnWaits ==
    ASSUME Timers, WaitInv, phase = "collecting", NextTurn, UNCHANGED <<hard, quiet, packets>>,
           inbox' \in Seq(CaptureEvents)
    PROVE  WaitInv'
  <1>1. quiet \in Nat /\ hard \in Nat /\ quiet + hard <= HardCap
    BY DEF WaitInv, Timers
  <1>2. CASE phase' = "interrupting"
    BY <1>2 DEF WaitInv
  <1>3. CASE timer' = Window
    <2>1. timer' = hard' \/ quiet' + timer' >= IdleGap
      BY <1>1, <1>3, CaptureAssumption DEF Window, Smaller
    <2> QED
      BY <1>1, <2>1 DEF WaitInv, Patient
  <1> QED
    BY <1>2, <1>3 DEF NextTurn

\* The client's steps.
LEMMA ClientWaits ==
    ASSUME Timers, WaitInv, Call \/ ClientStep \/ Tick
    PROVE  WaitInv'
  <1>1. packets' = packets
    BY DEF Call, ClientStep, Tick, ReceiveLagged, Receive, Expire, Interrupt, InterruptAgain,
           voiceVars
  <1>2. CASE Call
    <2>1. /\ timer' = hard' \/ timer' = IdleGap
          /\ hard' = HardCap /\ quiet' = 0 /\ inbox' = <<>>
      BY <1>2 DEF Call, Subscribe, Smaller
    <2>2. quiet' \in Nat /\ quiet' + hard' <= HardCap
      BY <2>1, CaptureAssumption
    <2>3. timer' = hard' \/ quiet' + timer' >= IdleGap
      BY <2>1, CaptureAssumption
    <2> QED
      BY <1>1, <2>1, <2>2, <2>3 DEF WaitInv, Patient
  <1>3. CASE ReceiveLagged
    BY <1>1, <1>3, TurnWaits DEF ReceiveLagged, RecvLagged, WaitInv
  <1>4. CASE Receive
    <2>1. phase = "collecting" /\ inbox' \in Seq(CaptureEvents) /\ UNCHANGED <<hard, quiet>>
      BY <1>4, HeadTailProperties DEF Receive, RecvEvent, WaitInv
    <2>2. CASE TakePacket(Head(inbox)) \/ TakeOther(Head(inbox))
      BY <1>1, <2>1, <2>2, TurnWaits DEF TakePacket, TakeOther
    <2>3. CASE TakeEnded(Head(inbox)) \/ TakeDisconnected(Head(inbox))
      BY <1>1, <2>1, <2>3 DEF TakeEnded, TakeDisconnected, WaitInv
    <2> QED
      BY <1>4, <2>2, <2>3 DEF Receive
  <1>5. CASE Expire \/ Interrupt \/ InterruptAgain
    <2>1. phase' # "collecting" /\ inbox' = inbox
      BY <1>5 DEF Expire, Interrupt, InterruptAgain, channel
    <2> QED
      BY <1>1, <2>1 DEF WaitInv
  <1>6. CASE Tick
    <2>1. UNCHANGED <<phase, inbox>> /\ timer > 0 /\ timer' = timer - 1
      BY <1>6 DEF Tick, channel
    <2>2. CASE phase = "collecting"
      <3>1. /\ hard \in Nat /\ hard > 0 /\ timer \in Nat /\ quiet \in Nat
            /\ quiet + hard <= HardCap
        BY <2>1, <2>2 DEF Timers, WithinHardCap, WaitInv
      <3>2. hard' = hard - 1 /\ quiet' = quiet + 1
        BY <1>6, <3>1, CaptureAssumption DEF Tick, Smaller
      <3>3. quiet' \in Nat /\ quiet' + hard' <= HardCap
        BY <3>1, <3>2, CaptureAssumption
      <3>4. inbox' # <<>> \/ timer' = hard' \/ quiet' + timer' >= IdleGap
        BY <2>1, <2>2, <3>1, <3>2, CaptureAssumption DEF WaitInv, Patient
      <3> QED
        BY <1>1, <2>1, <3>3, <3>4 DEF WaitInv, Patient
    <2>3. CASE phase # "collecting"
      BY <1>1, <2>1, <2>3 DEF WaitInv
    <2> QED
      BY <2>2, <2>3
  <1> QED
    BY <1>2, <1>3, <1>4, <1>5, <1>6 DEF ClientStep

LEMMA NextWaits == CaptureInv /\ WaitInv /\ [Next]_vars => WaitInv'
  <1> SUFFICES ASSUME CaptureInv, WaitInv, [Next]_vars PROVE WaitInv'
    OBVIOUS
  <1>1. Timers
    BY DEF CaptureInv
  <1>2. CASE UNCHANGED vars \/ WakeLost
    <2>1. UNCHANGED <<packets, inbox, phase, quiet, hard, timer>>
      BY <1>2 DEF vars, voiceVars, channel, client, WakeLost, SendFrame
    <2> QED
      BY <2>1 DEF WaitInv, Patient
  <1>3. CASE WakeHeard \/ Speak \/ DeviceEnds
    <2>1. /\ events' \in Seq(CaptureEvents) /\ events' # <<>> /\ packets' \in Nat
          /\ UNCHANGED client /\ Publish(Listening, events') /\ quiet' \in {quiet, 0}
      BY <1>3, FrameEvents DEF WakeHeard, Speak, DeviceEnds, SendFrame, WaitInv
    <2> QED
      BY <1>1, <2>1, WorldWaits
  <1>4. CASE OtherEvent \/ LinkDrops
    <2>1. PICK event \in {Other, Disconnected} : Publish(Listening, <<event>>)
      BY <1>4 DEF OtherEvent, LinkDrops
    <2>2. <<event>> \in Seq(CaptureEvents) /\ <<event>> # <<>>
      BY DEF CaptureEvents
    <2>3. UNCHANGED <<client, quiet, packets>>
      BY <1>4 DEF OtherEvent, LinkDrops, voiceVars
    <2> QED
      BY <1>1, <2>1, <2>2, <2>3, WorldWaits DEF WaitInv
  <1> QED
    BY <1>1, <1>2, <1>3, <1>4, ClientWaits DEF Next

\* voice_capture stops an utterance on silence only when there was silence: while
\* packets keep reaching the channel within idle_gap, nothing but the hard cap, an end
\* frame or the end of the link stops the collecting.
THEOREM UtteranceKept == Spec => NotCutShort
  <1>1. Init => WaitInv
    BY DEF Init, VoiceInit, WaitInv
  <1>2. WaitInv /\ Timers => (Expire => quiet >= IdleGap \/ hard = 0)
    BY CaptureAssumption DEF WaitInv, Patient, Timers, Expire, NothingReady
  <1>3. CaptureInv => Timers
    BY DEF CaptureInv
  <1> QED
    BY <1>1, <1>2, <1>3, NextWaits, SpecInv, PTL DEF Spec, NotCutShort

-----------------------------------------------------------------------------
(* The file of a capture: how long a packet lasts.                         *)

\* The durations of a frame, in units of half a millisecond.
Durations == {5, 10, 20, 40, 80, 120}

\* Whatever the configuration, code and RFC give a frame the same length.
LEMMA FramesLast ==
    ASSUME NEW toc, toc.config \in 0 .. 31
    PROVE  \E d \in Durations : frame_duration_us(toc) = 500 * d /\ FrameAt48k(toc.config) = 24 * d
<1> DEFINE config == toc.config
           four == config % 4
           two == config % 2
<1>1. config \in 0 .. 31 /\ four \in 0 .. 3 /\ two \in 0 .. 1
  OBVIOUS
<1> HIDE DEF four, two
<1>2. CASE config <= 11
  <2>1. mode(toc) = "Silk"
    BY <1>2 DEF mode
  <2>2. frame_duration_us(toc) = <<10000, 20000, 40000, 60000>>[four + 1]
    BY <2>1 DEF frame_duration_us, four
  <2>3. FrameAt48k(config) = <<480, 960, 1920, 2880>>[four + 1]
    BY <1>1, <1>2 DEF FrameAt48k, four
  <2>4. four = 0 \/ four = 1 \/ four = 2 \/ four = 3
    BY <1>1
  <2> QED
    BY <2>2, <2>3, <2>4 DEF Durations
<1>3. CASE config \in 12 .. 15
  <2>1. mode(toc) = "Hybrid"
    BY <1>3 DEF mode
  <2>2. frame_duration_us(toc) = <<10000, 20000>>[two + 1]
    BY <2>1 DEF frame_duration_us, two
  <2>3. FrameAt48k(config) = <<480, 960>>[two + 1]
    BY <1>1, <1>3 DEF FrameAt48k, two
  <2>4. two = 0 \/ two = 1
    BY <1>1
  <2> QED
    BY <2>2, <2>3, <2>4 DEF Durations
<1>4. CASE config \in 16 .. 31
  <2>1. mode(toc) = "Celt"
    BY <1>4 DEF mode
  <2>2. frame_duration_us(toc) = <<2500, 5000, 10000, 20000>>[four + 1]
    BY <2>1 DEF frame_duration_us, four
  <2>3. FrameAt48k(config) = <<120, 240, 480, 960>>[four + 1]
    BY <1>1, <1>4 DEF FrameAt48k, four
  <2>4. four = 0 \/ four = 1 \/ four = 2 \/ four = 3
    BY <1>1
  <2> QED
    BY <2>2, <2>3, <2>4 DEF Durations
<1> QED
  BY <1>1, <1>2, <1>3, <1>4

\* A packet's length in units of half a millisecond: a decoder's, in samples of
\* 48 kHz, and the one its header announces, if it has one.
Lasts(bytes, n) ==
    /\ SamplesAt48k(bytes) = 24 * n
    /\ n > 0 => OpusToc(bytes) # NoToc /\ total_duration_us(OpusToc(bytes)) = 500 * n

\* Every packet lasts so.
LEMMA PacketLasts ==
    ASSUME NEW bytes \in Seq(0 .. 255) \ {<<>>}
    PROVE  \E n \in Nat : Lasts(bytes, n)
<1> DEFINE toc == OpusToc(bytes)
           config == bytes[1] \div 8
           code == bytes[1] % 4
           count == FramesOf(bytes)
<1>1. /\ Len(bytes) \in Nat \ {0} /\ bytes # <<>>
      /\ \A i \in 1 .. Len(bytes) : bytes[i] \in 0 .. 255
  <2> DEFINE B == 0 .. 255
  <2>1. bytes \in Seq(B) /\ bytes # <<>>
    OBVIOUS
  <2> HIDE DEF B
  <2>2. Len(bytes) \in Nat \ {0} /\ \A i \in 1 .. Len(bytes) : bytes[i] \in B
    BY <2>1, EmptySeq
  <2> QED
    BY <2>1, <2>2 DEF B
<1>2. config \in 0 .. 31 /\ code \in 0 .. 3
  <2>1. bytes[1] \in 0 .. 255
    BY <1>1
  <2>2. \A b \in 0 .. 255 : (b \div 8) \in 0 .. 31 /\ (b % 4) \in 0 .. 3
    OBVIOUS
  <2> QED
    BY <2>1, <2>2
<1>3. count \in Nat /\ (count > 0 => toc.config = config /\ toc.frames = count)
  <2>1. CASE code \in {0, 1}
    BY <2>1 DEF OpusToc, FramesOf
  <2>2. CASE code = 2
    BY <2>2 DEF OpusToc, FramesOf
  <2>3. CASE code = 3 /\ Len(bytes) < 2
    BY <2>3 DEF OpusToc, FramesOf
  <2>4. CASE code = 3 /\ Len(bytes) >= 2
    <3>1. bytes[2] \in 0 .. 255
      BY <1>1, <2>4
    <3>2. count = (bytes[2] % 64) /\ count \in Nat
      <4>1. count = (bytes[2] % 64)
        BY <1>1, <2>4 DEF FramesOf
      <4>2. \A b \in 0 .. 255 : (b % 64) \in Nat
        OBVIOUS
      <4> HIDE DEF count
      <4> QED
        BY <3>1, <4>1, <4>2
    <3>3. toc.config = config /\ toc.frames = (bytes[2] % 64)
      BY <1>1, <2>4 DEF OpusToc
    <3> QED
      BY <3>2, <3>3
  <2> QED
    BY <1>1, <1>2, <2>1, <2>2, <2>3, <2>4
<1> HIDE DEF count
<1>4. PICK d \in Durations : FrameAt48k(config) = 24 * d
                             /\ (count > 0 => frame_duration_us(toc) = 500 * d)
  <2>1. PICK d \in Durations : FrameAt48k(config) = 24 * d
    <3> DEFINE t == [config |-> config]
    <3>1. t.config = config /\ t.config \in 0 .. 31
      BY <1>2
    <3> HIDE DEF t, config
    <3> QED
      BY <3>1, FramesLast
  <2>2. count > 0 => \E e \in Durations : /\ frame_duration_us(toc) = 500 * e
                                         /\ FrameAt48k(config) = 24 * e
    BY <1>2, <1>3, FramesLast
  <2>3. \A e \in Durations : e \in Nat
    BY DEF Durations
  <2> HIDE DEF config, toc
  <2> QED
    BY <2>1, <2>2, <2>3
<1> DEFINE n == count * d
<1>5. d \in Nat \ {0}
  BY DEF Durations
<1> HIDE DEF toc, config, code
<1>6. n \in Nat /\ (n > 0 => count > 0)
  BY <1>3, <1>5
<1>7. SamplesAt48k(bytes) = 24 * n
  <2>1. SamplesAt48k(bytes) = count * (24 * d)
    BY <1>4 DEF SamplesAt48k, count, config
  <2> QED
    BY <1>3, <1>5, <2>1
<1>8. count > 0 => total_duration_us(toc) = 500 * n
  BY <1>3, <1>4, <1>5 DEF total_duration_us
<1>9. count > 0 => toc # NoToc
  <2>1. count > 0 => toc.config \in 0 .. 31
    BY <1>2, <1>3
  <2>2. NoToc.config = -1
    BY DEF NoToc
  <2>3. ~ (-1 \in 0 .. 31)
    OBVIOUS
  <2> HIDE DEF toc
  <2> QED
    BY <2>1, <2>2, <2>3
<1> QED
  BY <1>6, <1>7, <1>8, <1>9 DEF Lasts, toc

\* What is heard of a packet is a number of tenths.
LEMMA HeardTyped ==
    ASSUME NEW packet \in VoicePackets
    PROVE  Heard(packet, FALSE) \in Nat /\ Heard(packet, TRUE) \in Nat
<1>1. PICK n \in Nat : Lasts(packet.bytes, n)
  BY PacketLasts DEF VoicePackets
<1> DEFINE played == SamplesAt48k(packet.bytes)
<1>2. played = 24 * n
  BY <1>1 DEF Lasts
<1>3. (played * 5) \div 24 = 5 * n /\ 5 * n \in Nat
  <2>1. played * 5 = 24 * (5 * n) /\ 5 * n \in Nat
    BY <1>2
  <2>2. \A m \in Nat : (24 * m) \div 24 = m
    OBVIOUS
  <2> HIDE DEF played
  <2> QED
    BY <2>1, <2>2
<1> HIDE DEF played
<1>4. /\ Heard(packet, FALSE) \in {0, (played * 5) \div 24}
      /\ Heard(packet, TRUE) \in {200, 0, (played * 5) \div 24}
  BY DEF Heard, played
<1> DEFINE tenths == (played * 5) \div 24
           plain == Heard(packet, FALSE)
           concealed == Heard(packet, TRUE)
<1>5. tenths \in Nat
  BY <1>3
<1>6. plain \in {0, tenths} /\ concealed \in {200, 0, tenths}
  BY <1>4
<1> HIDE DEF tenths, plain, concealed
<1>7. plain \in Nat /\ concealed \in Nat
  BY <1>5, <1>6
<1> QED
  BY <1>7 DEF plain, concealed

\* What a decoder makes of a packet: at any rate a number of samples or none, and at
\* the rate the crate asks for 8 samples for every 5 tenths of a millisecond heard.
LEMMA PacketDecodes ==
    ASSUME NEW packet \in VoicePackets, NEW rate \in OpusRates
    PROVE  LET samples == Libopus(packet, rate, MAX_SAMPLES_PER_PACKET)
               heard == Heard(packet, FALSE)
           IN  /\ samples \in Nat \cup {NoSamples}
               /\ ~ packet.lost /\ rate = REQUESTED_SAMPLE_RATE_HZ =>
                    /\ heard \in Nat
                    /\ IF samples = NoSamples THEN heard = 0 ELSE samples * 5 = 8 * heard
<1> DEFINE samples == Libopus(packet, rate, MAX_SAMPLES_PER_PACKET)
           heard == Heard(packet, FALSE)
           played == SamplesAt48k(packet.bytes)
           out == played \div (48000 \div rate)
<1>1. PICK n \in Nat : Lasts(packet.bytes, n)
  BY PacketLasts DEF VoicePackets
<1>2. played = 24 * n
  BY <1>1 DEF Lasts
<1>3. MAX_SAMPLES_PER_PACKET = 1920 /\ REQUESTED_SAMPLE_RATE_HZ = 16000
  BY DEF MAX_SAMPLES_PER_PACKET, REQUESTED_SAMPLE_RATE_HZ
<1>4. samples = IF packet.sound /\ played \in 1 .. 5760 /\ out <= 1920 THEN out ELSE -1
  BY <1>3 DEF Libopus, Decodable, NoSamples
<1>5. ~ packet.lost => heard = IF packet.sound /\ played \in 1 .. 5760
                               THEN (played * 5) \div 24 ELSE 0
  BY DEF Heard, Decodable
<1>6. /\ out \in Nat
      /\ rate = 16000 => out = 8 * n
  <2>1. (48000 \div rate) \in {6, 4, 3, 2, 1} /\ (rate = 16000 => (48000 \div rate) = 3)
    BY DEF OpusRates
  <2>2. /\ (24 * n) \div 6 = 4 * n /\ (24 * n) \div 4 = 6 * n /\ (24 * n) \div 3 = 8 * n
        /\ (24 * n) \div 2 = 12 * n /\ (24 * n) \div 1 = 24 * n
    OBVIOUS
  <2>3. 4 * n \in Nat /\ 6 * n \in Nat /\ 8 * n \in Nat /\ 12 * n \in Nat /\ 24 * n \in Nat
    OBVIOUS
  <2> HIDE DEF played
  <2> QED
    BY <1>2, <2>1, <2>2, <2>3
<1>7. (played * 5) \div 24 = 5 * n /\ 5 * n \in Nat
  <2>1. played * 5 = 24 * (5 * n) /\ 5 * n \in Nat
    BY <1>2
  <2>2. \A m \in Nat : (24 * m) \div 24 = m
    OBVIOUS
  <2> HIDE DEF played
  <2> QED
    BY <2>1, <2>2
<1>8. played \in 1 .. 5760 => 8 * n <= 1920
  BY <1>2
<1> HIDE DEF samples, heard, played, out
<1>9. samples \in Nat \cup {NoSamples}
  BY <1>4, <1>6 DEF NoSamples
<1>10. ASSUME ~ packet.lost, rate = REQUESTED_SAMPLE_RATE_HZ
       PROVE  heard \in Nat /\ (IF samples = NoSamples THEN heard = 0 ELSE samples * 5 = 8 * heard)
  <2>1. out = 8 * n /\ rate = 16000
    BY <1>3, <1>6, <1>10
  <2>2. CASE packet.sound /\ played \in 1 .. 5760
    <3>1. 8 * n <= 1920 /\ 5 * n \in Nat /\ (played * 5) \div 24 = 5 * n
      BY <1>7, <1>8, <2>2
    <3>2. out <= 1920
      BY <2>1, <3>1
    <3>3. samples = out
      BY <1>4, <2>2, <3>2
    <3>4. heard = (played * 5) \div 24
      BY <1>5, <1>10, <2>2
    <3> DEFINE a == 8 * n
               b == 5 * n
    <3>5. a * 5 = 8 * b /\ a # -1
      OBVIOUS
    <3>6. samples = a /\ heard = b /\ b \in Nat
      BY <2>1, <3>1, <3>3, <3>4
    <3> HIDE DEF a, b
    <3>7. samples # NoSamples
      BY <3>5, <3>6 DEF NoSamples
    <3>8. samples * 5 = 8 * heard /\ heard \in Nat
      BY <3>5, <3>6
    <3> QED
      BY <3>7, <3>8
  <2>3. CASE ~ (packet.sound /\ played \in 1 .. 5760)
    BY <1>4, <1>5, <1>10, <2>3 DEF NoSamples
  <2> QED
    BY <2>2, <2>3
<1> QED
  BY <1>9, <1>10 DEF samples, heard

\* The same of a packet that never came, and what is heard if nothing is made of it.
Concealed(packet, rate, samples) ==
    /\ samples \in Nat \cup {NoSamples}
    /\ rate = REQUESTED_SAMPLE_RATE_HZ =>
         samples # NoSamples /\ samples * 5 = 8 * Heard(packet, TRUE)
    /\ Heard(packet, FALSE) = 0

\* A decoder always conceals a packet that never came.
LEMMA LossDecodes ==
    ASSUME NEW packet, packet.lost, NEW rate \in OpusRates
    PROVE  Concealed(packet, rate, Conceal(rate, SAMPLES_PER_FRAME))
<1>1. SAMPLES_PER_FRAME = 320 /\ REQUESTED_SAMPLE_RATE_HZ = 16000
  BY DEF SAMPLES_PER_FRAME, REQUESTED_SAMPLE_RATE_HZ
<1>2. Heard(packet, FALSE) = 0 /\ Heard(packet, TRUE) = 200
  BY DEF Heard
<1>3. Conceal(rate, 320) \in {320, -1}
  BY DEF Conceal, NoSamples
<1>4. Conceal(16000, 320) = 320
  <2>1. 16000 \div 400 = 40 /\ (320 % 40) = 0
    OBVIOUS
  <2> QED
    BY <2>1 DEF Conceal
<1> DEFINE samples == Conceal(rate, SAMPLES_PER_FRAME)
<1>5. samples \in {320, -1} /\ (rate = 16000 => samples = 320)
  BY <1>1, <1>3, <1>4
<1> HIDE DEF samples
<1>6. samples \in Nat \cup {NoSamples}
  BY <1>5 DEF NoSamples
<1>7. rate = REQUESTED_SAMPLE_RATE_HZ =>
        samples # NoSamples /\ samples * 5 = 8 * Heard(packet, TRUE)
  <2>1. SUFFICES ASSUME rate = REQUESTED_SAMPLE_RATE_HZ
                 PROVE  samples # NoSamples /\ samples * 5 = 8 * Heard(packet, TRUE)
    OBVIOUS
  <2>2. samples = 320
    BY <1>1, <1>5, <2>1
  <2>3. 320 # NoSamples /\ 320 * 5 = 8 * 200
    BY DEF NoSamples
  <2> DEFINE heard == Heard(packet, TRUE)
  <2>4. heard = 200
    BY <1>2
  <2> HIDE DEF heard
  <2>5. samples # NoSamples /\ samples * 5 = 8 * heard
    BY <2>2, <2>3, <2>4
  <2> QED
    BY <2>5 DEF heard
<1> QED
  BY <1>2, <1>6, <1>7 DEF samples, Concealed

\* A set of numbers that is not empty has a least one.
LEMMA Least ==
    ASSUME NEW T, T \subseteq Nat, T # {}
    PROVE  \E m \in T : \A n \in T : m <= n
  <1> DEFINE R == {ss \in Nat \X Nat : ss[1] < ss[2]}
  <1>1. IsWellFoundedOn(R, Nat)
    BY NatLessThanWellFounded DEF OpToRel
  <1> HIDE DEF R
  <1>2. \E x \in T : \A y \in T : ~ (<<y, x>> \in R)
    BY <1>1, WFMin
  <1>3. \A x, y \in Nat : ~ (<<y, x>> \in R) => x <= y
    BY DEF R
  <1> QED
    BY <1>2, <1>3

\* Induction up to n, the induction hypothesis as a set.
LEMMA UpTo ==
    ASSUME NEW n \in Nat, NEW T, 0 \in T, \A i \in 1 .. n : i - 1 \in T => i \in T
    PROVE  \A i \in 0 .. n : i \in T
  <1> DEFINE missing == {i \in 0 .. n : i \notin T}
  <1> SUFFICES ASSUME missing # {} PROVE FALSE
    OBVIOUS
  <1>0. missing \subseteq Nat
    OBVIOUS
  <1>1. PICK m \in missing : \A i \in missing : m <= i
    <2> HIDE DEF missing
    <2> QED
      BY <1>0, Least
  <1>2. m \in 1 .. n
    BY <1>1
  <1>3. m - 1 \in 0 .. n /\ ~ (m <= m - 1)
    BY <1>2
  <1>4. m - 1 \in T
    BY <1>1, <1>3
  <1> QED
    BY <1>1, <1>2, <1>4

\* f runs through a loop of n turns, from base on: turn i makes step[i][x] of x.
RunsThrough(f, n, S, base, step) ==
    /\ f \in [0 .. n -> S]
    /\ f[0] = base
    /\ \A i \in 1 .. n : f[i] = step[i][f[i - 1]]

\* There is such a function.
LEMMA Turns ==
    ASSUME NEW n \in Nat, NEW S, NEW base \in S,
           NEW step, \A i \in 1 .. n : \A x \in S : step[i][x] \in S
    PROVE  \E f : RunsThrough(f, n, S, base, step)
  <1> DEFINE Runs(m, g) == g[0] = base /\ \A i \in 1 .. m : g[i] = step[i][g[i - 1]]
             T == {m \in 0 .. n : \E g \in [0 .. m -> S] : Runs(m, g)}
  <1>1. 0 \in T
    <2> DEFINE g == [i \in 0 .. 0 |-> base]
    <2>1. g \in [0 .. 0 -> S] /\ g[0] = base
      OBVIOUS
    <2>2. Runs(0, g)
      BY <2>1
    <2> HIDE DEF Runs, g
    <2> QED
      BY <2>1, <2>2
  <1>2. ASSUME NEW m \in 1 .. n, m - 1 \in T PROVE m \in T
    <2>1. PICK g \in [0 .. m - 1 -> S] : Runs(m - 1, g)
      BY <1>2
    <2> DEFINE x == step[m][g[m - 1]]
               h == [i \in 0 .. m |-> IF i = m THEN x ELSE g[i]]
    <2>2. m - 1 \in 0 .. m - 1 /\ m \in 0 .. n /\ 0 \in 0 .. m - 1 /\ m # 0
      OBVIOUS
    <2>3. x \in S
      BY <2>1, <2>2
    <2> HIDE DEF x
    <2>4. \A i \in 0 .. m : i # m => i \in 0 .. m - 1
      OBVIOUS
    <2>5. h \in [0 .. m -> S]
      BY <2>3, <2>4
    <2>6. h[0] = base
      BY <2>1, <2>2
    <2>7. ASSUME NEW i \in 1 .. m PROVE h[i] = step[i][h[i - 1]]
      <3>1. i \in 0 .. m /\ i - 1 \in 0 .. m /\ i - 1 # m
        OBVIOUS
      <3>2. h[i - 1] = g[i - 1]
        BY <3>1
      <3>3. CASE i = m
        BY <3>1, <3>2, <3>3 DEF x
      <3>4. CASE i # m
        <4>1. i \in 1 .. m - 1
          BY <3>4
        <4> QED
          BY <2>1, <3>1, <3>2, <3>4, <4>1
      <3> QED
        BY <3>3, <3>4
    <2>8. Runs(m, h)
      BY <2>6, <2>7
    <2> HIDE DEF h, Runs
    <2> QED
      BY <2>2, <2>5, <2>8
  <1> HIDE DEF T
  <1>3. \A i \in 0 .. n : i \in T
    BY <1>1, <1>2, UpTo
  <1>4. n \in T
    BY <1>3
  <1>5. PICK g \in [0 .. n -> S] : Runs(n, g)
    BY <1>4 DEF T
  <1>6. RunsThrough(g, n, S, base, step)
    BY <1>5 DEF RunsThrough
  <1> QED
    BY <1>6

\* What should be heard of i packets is what should be heard of i - 1 and of the next.
Accumulates(capture, conceals, heard) ==
    /\ heard \in [0 .. Len(capture) -> Nat]
    /\ heard[0] = 0
    /\ \A i \in 1 .. Len(capture) :
           heard[i] = heard[i - 1] + Heard(capture[i], conceals /\ Resumes(capture, i))

\* What is added is a number.
LEMMA MoreTyped ==
    ASSUME NEW capture \in Seq(VoicePackets), NEW conceals \in BOOLEAN, NEW i \in 1 .. Len(capture)
    PROVE  Heard(capture[i], conceals /\ Resumes(capture, i)) \in Nat
<1>1. Heard(capture[i], FALSE) \in Nat /\ Heard(capture[i], TRUE) \in Nat
  <2>1. capture[i] \in VoicePackets
    OBVIOUS
  <2> QED
    BY <2>1, HeardTyped
<1>2. (conceals /\ Resumes(capture, i)) \in BOOLEAN
  BY DEF Resumes
<1> QED
  BY <1>1, <1>2

\* HeardTurns accumulates so, over any capture.
LEMMA HeardRuns ==
    ASSUME NEW capture \in Seq(VoicePackets), NEW conceals \in BOOLEAN
    PROVE  Accumulates(capture, conceals, HeardTurns(capture, conceals))
<1> DEFINE n == Len(capture)
           more == [i \in 1 .. n |-> Heard(capture[i], conceals /\ Resumes(capture, i))]
           step == [i \in 1 .. n |-> [x \in Nat |-> x + more[i]]]
           IsRun(g) == g = [i \in 0 .. n |-> IF i = 0 THEN 0
                              ELSE g[i - 1] + Heard(capture[i], conceals /\ Resumes(capture, i))]
           heard == HeardTurns(capture, conceals)
<1>1. n \in Nat /\ \A i \in 1 .. n : capture[i] \in VoicePackets
  OBVIOUS
<1>2. \A i \in 1 .. n : /\ more[i] = Heard(capture[i], conceals /\ Resumes(capture, i))
                        /\ more[i] \in Nat
  BY MoreTyped
<1> HIDE DEF more
<1>3. \A i \in 1 .. n : \A x \in Nat : step[i][x] = x + more[i] /\ step[i][x] \in Nat
  BY <1>2
<1>4. PICK f : f \in [0 .. n -> Nat] /\ f[0] = 0 /\ \A i \in 1 .. n : f[i] = step[i][f[i - 1]]
  <2> HIDE DEF n, step
  <2>1. \A i \in 1 .. n : \A x \in Nat : step[i][x] \in Nat
    BY <1>3
  <2>2. n \in Nat /\ 0 \in Nat
    BY <1>1
  <2>3. \E f : RunsThrough(f, n, Nat, 0, step)
    BY <2>1, <2>2, Turns
  <2> QED
    BY <2>3 DEF RunsThrough
<1>5. \A i \in 1 .. n : i - 1 \in 0 .. n /\ f[i] = f[i - 1] + more[i]
  <2> SUFFICES ASSUME NEW i \in 1 .. n PROVE i - 1 \in 0 .. n /\ f[i] = f[i - 1] + more[i]
    OBVIOUS
  <2>1. i - 1 \in 0 .. n
    BY <1>1
  <2>2. f[i - 1] \in Nat
    BY <1>4, <2>1
  <2> HIDE DEF n, step
  <2> QED
    BY <1>3, <1>4, <2>1, <2>2
<1>6. IsRun(f)
  <2>1. \A i \in 0 .. n : i # 0 => i \in 1 .. n
    BY <1>1
  <2> HIDE DEF n
  <2>2. \A i \in 0 .. n : f[i] = IF i = 0 THEN 0
                           ELSE f[i - 1] + Heard(capture[i], conceals /\ Resumes(capture, i))
    BY <1>2, <1>4, <1>5, <2>1
  <2> QED
    BY <1>4, <2>2
<1>7. heard = CHOOSE g : IsRun(g)
  BY DEF HeardTurns
<1>8. IsRun(heard)
  <2> HIDE DEF IsRun, heard
  <2> QED
    BY <1>6, <1>7
<1> HIDE DEF heard
<1>9. heard[0] = 0 /\ \A i \in 1 .. n : heard[i] = heard[i - 1] + more[i]
  <2>1. 0 \in 0 .. n /\ \A i \in 1 .. n : i \in 0 .. n /\ i # 0
    BY <1>1
  <2> HIDE DEF n
  <2>2. \A i \in 0 .. n : heard[i] = IF i = 0 THEN 0
                           ELSE heard[i - 1] + Heard(capture[i], conceals /\ Resumes(capture, i))
    BY <1>8
  <2> QED
    BY <1>2, <2>1, <2>2
<1> DEFINE T == {i \in 0 .. n : heard[i] \in Nat}
<1>10. \A i \in 0 .. n : i \in T
  <2>1. 0 \in T
    BY <1>1, <1>9
  <2>2. \A i \in 1 .. n : i - 1 \in T => i \in T
    <3> SUFFICES ASSUME NEW i \in 1 .. n, i - 1 \in T PROVE i \in T
      OBVIOUS
    <3>1. i \in 0 .. n /\ heard[i - 1] \in Nat
      BY <1>1
    <3>2. heard[i] = heard[i - 1] + more[i] /\ more[i] \in Nat
      BY <1>2, <1>9
    <3> HIDE DEF n
    <3> QED
      BY <3>1, <3>2
  <2> HIDE DEF T, n
  <2> QED
    BY <1>1, <2>1, <2>2, UpTo
<1>11. heard \in [0 .. n -> Nat]
  <2> HIDE DEF n
  <2>1. DOMAIN heard = 0 .. n /\ heard = [i \in 0 .. n |-> heard[i]]
    BY <1>8
  <2>2. \A i \in 0 .. n : heard[i] \in Nat
    BY <1>10
  <2> QED
    BY <2>1, <2>2
<1> QED
  BY <1>2, <1>9, <1>11 DEF Accumulates, heard

-----------------------------------------------------------------------------
(* The recording.                                                             *)

Files == {wav_bytes(n, rate) : n \in Nat, rate \in Rates}

Players ==
    [capture : Captures, next : Nat, rate : Rates, conceals : BOOLEAN, pcm : Nat,
     skipped : Nat, file : Files \cup {[kind |-> "None"]}]

PlayerTypeOK ==
    /\ recording \in Players
    /\ recording.next \in 1 .. Len(recording.capture) + 1

\* The PCM so far is as long as what should be heard so far; the file is of all of it.
PcmIsHeard ==
    recording.rate = REQUESTED_SAMPLE_RATE_HZ =>
        recording.pcm * 5 = 8 * HeardUpTo(recording.next - 1)

FileIsPcm ==
    ~ Writing => /\ recording.next = Len(recording.capture) + 1
                 /\ recording.file = wav_bytes(recording.pcm, recording.rate)

PlayerInv == PlayerTypeOK /\ PcmIsHeard /\ FileIsPcm

\* w is the player v a packet later.
Passes(v, samples, w) ==
    \/ w = [v EXCEPT !.next = @ + 1, !.pcm = @ + samples]
    \/ samples = 0 /\ w = [v EXCEPT !.next = @ + 1, !.skipped = @ + 1]
    \/ samples = 0 /\ w = [v EXCEPT !.next = @ + 1]

Passed(v, samples, w) ==
    /\ w.capture = v.capture /\ w.next = v.next + 1 /\ w.rate = v.rate
    /\ w.conceals = v.conceals /\ w.file = v.file /\ w.pcm = v.pcm + samples
    /\ w \in Players

\* Such a player is still one.
LEMMA Counted ==
    ASSUME NEW v \in Players, NEW samples \in Nat, NEW w, Passes(v, samples, w)
    PROVE  Passed(v, samples, w)
<1> DEFINE next == v.next + 1
           pcm == v.pcm + samples
           skipped == v.skipped + 1
           F == Files \cup {[kind |-> "None"]}
           R == [capture : Captures, next : Nat, rate : Rates, conceals : BOOLEAN, pcm : Nat,
                 skipped : Nat, file : F]
<1>1. v.pcm \in Nat /\ next \in Nat /\ pcm \in Nat /\ skipped \in Nat
      /\ (samples = 0 => pcm = v.pcm)
  BY DEF Players
<1>2. v \in R /\ Players = R
  BY DEF Players
<1>3. \/ w = [v EXCEPT !.next = next, !.pcm = pcm]
      \/ samples = 0 /\ w = [v EXCEPT !.next = next, !.skipped = skipped]
      \/ samples = 0 /\ w = [v EXCEPT !.next = next]
  BY DEF Passes
<1> HIDE DEF next, pcm, skipped, F
<1>4. CASE w = [v EXCEPT !.next = next, !.pcm = pcm]
  BY <1>1, <1>2, <1>4 DEF next, pcm, Passed
<1>5. CASE samples = 0 /\ w = [v EXCEPT !.next = next, !.skipped = skipped]
  BY <1>1, <1>2, <1>5 DEF next, pcm, Passed
<1>6. CASE samples = 0 /\ w = [v EXCEPT !.next = next]
  BY <1>1, <1>2, <1>6 DEF next, pcm, Passed
<1> QED
  BY <1>3, <1>4, <1>5, <1>6

\* Eight samples are five tenths of a millisecond.
LEMMA InTenths ==
    \A p, q, m, h \in Nat : p * 5 = 8 * h /\ q * 5 = 8 * m => (p + q) * 5 = 8 * (h + m)
  OBVIOUS

\* The turn of one packet: the samples it comes to, and what should be heard of it.
LEMMA TurnKeeps ==
    ASSUME PlayerInv, Writing, recording.next <= Len(recording.capture), NEW samples \in Nat,
           recording.rate = REQUESTED_SAMPLE_RATE_HZ =>
               samples * 5 =
                   8 * Heard(At(recording.next),
                             recording.conceals /\ Resumes(recording.capture, recording.next)),
           Passes(recording, samples, recording')
    PROVE  PlayerInv'
<1> DEFINE capture == recording.capture
           i == recording.next
           heard == HeardTurns(capture, recording.conceals)
           more == Heard(capture[i], recording.conceals /\ Resumes(capture, i))
<1>1. /\ recording \in Players
      /\ i \in 1 .. Len(capture) /\ capture \in Seq(VoicePackets) /\ Len(capture) \in Nat
      /\ recording.rate \in Rates /\ recording.conceals \in BOOLEAN /\ recording.pcm \in Nat
  BY PlayerAssumption DEF PlayerInv, PlayerTypeOK, Players
<1>2. /\ recording'.capture = capture /\ recording'.next = i + 1 /\ recording'.rate = recording.rate
      /\ recording'.conceals = recording.conceals /\ recording'.file = recording.file
      /\ recording'.pcm = recording.pcm + samples /\ recording' \in Players
  BY <1>1, Counted DEF Passed
<1>3. PlayerTypeOK'
  <2>2. recording'.next \in 1 .. Len(recording'.capture) + 1
    BY <1>1, <1>2
  <2> QED
    BY <1>2, <2>2 DEF PlayerTypeOK
<1>4. Accumulates(capture, recording.conceals, heard)
  <2> HIDE DEF capture
  <2> QED
    BY <1>1, HeardRuns
<1>5. heard[i] = heard[i - 1] + more /\ heard[i - 1] \in Nat /\ heard[i] \in Nat
  <2>1. i - 1 \in 0 .. Len(capture) /\ i \in 0 .. Len(capture)
    BY <1>1
  <2> HIDE DEF heard, more
  <2>2. heard[i] = heard[i - 1] + more
    BY <1>1, <1>4 DEF Accumulates, more
  <2> QED
    BY <1>4, <2>1, <2>2 DEF Accumulates
<1> HIDE DEF more, heard
<1>6. ASSUME recording.rate = REQUESTED_SAMPLE_RATE_HZ PROVE recording'.pcm * 5 = 8 * heard[i]
  <2>1. recording.pcm * 5 = 8 * heard[i - 1]
    BY <1>6 DEF PlayerInv, PcmIsHeard, HeardUpTo, heard
  <2>2. samples * 5 = 8 * more
    BY <1>6 DEF At, more
  <2> DEFINE a == heard[i - 1]
             b == heard[i]
             pcm == recording.pcm
  <2>4. a \in Nat /\ b \in Nat /\ pcm \in Nat /\ b = a + more /\ pcm * 5 = 8 * a
    BY <1>1, <1>5, <2>1
  <2>5. recording'.pcm = pcm + samples
    BY <1>2
  <2>6. more \in Nat
    BY <1>1, MoreTyped DEF more
  <2> HIDE DEF a, b, pcm
  <2>7. (pcm + samples) * 5 = 8 * b
    <3> HIDE DEF more
    <3> QED
      BY <2>2, <2>4, <2>6, InTenths
  <2> QED
    BY <2>5, <2>7 DEF b
<1>7. PcmIsHeard'
  <2>1. (i + 1) - 1 = i
    BY <1>1
  <2>2. HeardTurns(recording'.capture, recording'.conceals) = heard
    BY <1>2 DEF heard
  <2> QED
    BY <1>2, <1>6, <2>1, <2>2 DEF PcmIsHeard, HeardUpTo
<1>8. FileIsPcm'
  BY <1>2 DEF FileIsPcm, Writing
<1> QED
  BY <1>3, <1>7, <1>8 DEF PlayerInv

\* A packet that came: decoded, or refused and skipped.
LEMMA DecodeKeeps == PlayerInv /\ DecodeNext => PlayerInv'
<1> SUFFICES ASSUME PlayerInv, DecodeNext PROVE PlayerInv'
  OBVIOUS
<1> DEFINE packet == At(recording.next)
           samples == decode_packet(packet)
           made == IF samples = NoSamples THEN 0 ELSE samples
           marked == recording.conceals /\ Resumes(recording.capture, recording.next)
<1>1. /\ Writing /\ recording.next <= Len(recording.capture) /\ ~ packet.lost /\ Take(samples)
  BY DEF DecodeNext
<1>2. packet \in VoicePackets /\ recording.rate \in OpusRates
  <2>1. recording \in Players /\ recording.next \in 1 .. Len(recording.capture) + 1
    BY DEF PlayerInv, PlayerTypeOK
  <2>2. recording.capture \in Seq(VoicePackets) /\ recording.rate \in OpusRates
    BY <2>1, PlayerAssumption DEF Players
  <2>3. recording.next \in 1 .. Len(recording.capture)
    BY <1>1, <2>1, <2>2
  <2> QED
    BY <2>2, <2>3 DEF At
<1>3. /\ samples \in Nat \cup {NoSamples}
      /\ recording.rate = REQUESTED_SAMPLE_RATE_HZ =>
           /\ Heard(packet, FALSE) \in Nat
           /\ IF samples = NoSamples THEN Heard(packet, FALSE) = 0
              ELSE samples * 5 = 8 * Heard(packet, FALSE)
  <2> HIDE DEF packet
  <2> QED
    BY <1>1, <1>2, PacketDecodes DEF decode_packet
<1>4. Heard(packet, marked) = Heard(packet, FALSE)
  BY <1>1 DEF Heard
<1> HIDE DEF packet, samples, marked
<1>5. made \in Nat /\ Passes(recording, made, recording')
  <2>1. CASE samples = NoSamples
    BY <1>1, <2>1 DEF Take, Passes
  <2>2. CASE samples # NoSamples
    BY <1>1, <1>3, <2>2 DEF Take, Passes
  <2> QED
    BY <2>1, <2>2
<1>6. recording.rate = REQUESTED_SAMPLE_RATE_HZ => made * 5 = 8 * Heard(packet, marked)
  <2> DEFINE heard == Heard(packet, FALSE)
  <2>1. heard \in Nat => 8 * heard \in Nat /\ (heard = 0 => 8 * heard = 0) /\ 0 * 5 = 0
    <3> HIDE DEF heard
    <3> QED
      OBVIOUS
  <2> QED
    BY <1>3, <1>4, <2>1
<1> HIDE DEF made
<1> QED
  BY <1>1, <1>5, <1>6, TurnKeeps DEF packet, marked

\* A packet that did not: concealed, or passed over.
LEMMA GapKeeps == PlayerInv /\ PassGap => PlayerInv'
<1> SUFFICES ASSUME PlayerInv, PassGap PROVE PlayerInv'
  OBVIOUS
<1> DEFINE packet == At(recording.next)
           marked == recording.conceals /\ Resumes(recording.capture, recording.next)
           samples == decode_lost
           made == IF marked /\ samples # NoSamples THEN samples ELSE 0
<1>1. /\ Writing /\ recording.next <= Len(recording.capture) /\ packet.lost
      /\ IF marked THEN Take(samples) ELSE recording' = [recording EXCEPT !.next = @ + 1]
  BY DEF PassGap
<1>2. recording.rate \in OpusRates /\ recording.conceals \in BOOLEAN
  BY PlayerAssumption DEF PlayerInv, PlayerTypeOK, Players
<1>3. /\ samples \in Nat \cup {NoSamples}
      /\ recording.rate = REQUESTED_SAMPLE_RATE_HZ =>
           samples # NoSamples /\ samples * 5 = 8 * Heard(packet, TRUE)
      /\ Heard(packet, FALSE) = 0
  <2> HIDE DEF packet
  <2>1. Concealed(packet, recording.rate, Conceal(recording.rate, SAMPLES_PER_FRAME))
    BY <1>1, <1>2, LossDecodes
  <2> QED
    BY <2>1 DEF Concealed, decode_lost
<1>4. Heard(packet, marked) = IF marked THEN Heard(packet, TRUE) ELSE Heard(packet, FALSE)
  BY <1>1 DEF Heard
<1> HIDE DEF packet, samples, marked
<1>5. made \in Nat /\ Passes(recording, made, recording')
  <2>1. CASE ~ marked
    BY <1>1, <2>1 DEF Passes
  <2>2. CASE marked /\ samples = NoSamples
    BY <1>1, <2>2 DEF Take, Passes
  <2>3. CASE marked /\ samples # NoSamples
    BY <1>1, <1>3, <2>3 DEF Take, Passes
  <2> QED
    BY <2>1, <2>2, <2>3
<1>6. recording.rate = REQUESTED_SAMPLE_RATE_HZ => made * 5 = 8 * Heard(packet, marked)
  <2>1. CASE marked
    BY <1>3, <1>4, <2>1
  <2>2. CASE ~ marked
    <3>1. Heard(packet, marked) = 0 /\ made = 0
      BY <1>3, <1>4, <2>2
    <3>2. 0 * 5 = 8 * 0
      OBVIOUS
    <3> QED
      BY <3>1, <3>2
  <2> QED
    BY <2>1, <2>2
<1> HIDE DEF made
<1> QED
  BY <1>1, <1>5, <1>6, TurnKeeps DEF packet, marked

\* The file, of all of the PCM.
LEMMA WriteKeeps == PlayerInv /\ WriteWav => PlayerInv'
<1> SUFFICES ASSUME PlayerInv, WriteWav PROVE PlayerInv'
  OBVIOUS
<1> DEFINE F == Files \cup {[kind |-> "None"]}
           wav == wav_bytes(recording.pcm, recording.rate)
<1>1. /\ recording \in Players /\ recording.next \in 1 .. Len(recording.capture) + 1
      /\ recording.next > Len(recording.capture) /\ recording' = [recording EXCEPT !.file = wav]
  BY DEF PlayerInv, PlayerTypeOK, WriteWav
<1>2. recording.capture \in Seq(VoicePackets) /\ recording.pcm \in Nat /\ recording.rate \in Rates
  BY <1>1, PlayerAssumption DEF Players
<1>3. wav \in F
  BY <1>2 DEF Files
<1> HIDE DEF F, wav
<1>4. /\ recording' \in Players
      /\ recording'.capture = recording.capture /\ recording'.next = recording.next
      /\ recording'.rate = recording.rate /\ recording'.conceals = recording.conceals
      /\ recording'.pcm = recording.pcm /\ recording'.file = wav
  <2> DEFINE R == [capture : Captures, next : Nat, rate : Rates, conceals : BOOLEAN, pcm : Nat,
                   skipped : Nat, file : F]
  <2>1. recording \in R /\ Players = R
    BY <1>1 DEF Players, F
  <2> QED
    BY <1>1, <1>3, <2>1
<1>5. PlayerTypeOK'
  BY <1>1, <1>4 DEF PlayerTypeOK
<1>6. PcmIsHeard'
  BY <1>4 DEF PlayerInv, PcmIsHeard, HeardUpTo
<1>7. recording.next = Len(recording.capture) + 1
  BY <1>1, <1>2
<1>8. FileIsPcm'
  BY <1>4, <1>7 DEF FileIsPcm, wav
<1> QED
  BY <1>5, <1>6, <1>8 DEF PlayerInv

\* PcmIsHeard and FileIsPcm, of every capture, however long.
THEOREM PlayerInvariant == PlayerSpec => []PlayerInv
<1>1. PlayerInit => PlayerInv
  <2> SUFFICES ASSUME NEW capture \in Captures, NEW rate \in Rates, NEW conceals \in BOOLEAN,
                      recording = [capture |-> capture, next |-> 1, rate |-> rate,
                                   conceals |-> conceals, pcm |-> 0, skipped |-> 0,
                                   file |-> [kind |-> "None"]]
               PROVE  PlayerInv
    BY DEF PlayerInit
  <2>1. capture \in Seq(VoicePackets) /\ Len(capture) \in Nat
    BY PlayerAssumption
  <2>2. PlayerTypeOK
    <3> DEFINE F == Files \cup {[kind |-> "None"]}
    <3>1. [kind |-> "None"] \in F
      OBVIOUS
    <3> HIDE DEF F
    <3>2. recording \in [capture : Captures, next : Nat, rate : Rates, conceals : BOOLEAN,
                         pcm : Nat, skipped : Nat, file : F]
      BY <3>1
    <3> QED
      BY <2>1, <3>2 DEF PlayerTypeOK, Players, F
  <2>3. PcmIsHeard
    <3>1. HeardTurns(capture, conceals)[0] = 0
      BY <2>1, HeardRuns DEF Accumulates
    <3> QED
      BY <3>1 DEF PcmIsHeard, HeardUpTo
  <2>4. FileIsPcm
    BY DEF FileIsPcm, Writing
  <2> QED
    BY <2>2, <2>3, <2>4 DEF PlayerInv
<1>2. ASSUME PlayerInv, UNCHANGED recording PROVE PlayerInv'
  BY <1>2 DEF PlayerInv, PlayerTypeOK, PcmIsHeard, FileIsPcm, HeardUpTo, Writing
<1>3. PlayerInv /\ [PlayerNext]_recording => PlayerInv'
  BY <1>2, DecodeKeeps, GapKeeps, WriteKeeps DEF PlayerNext
<1> QED
  BY <1>1, <1>3, PTL DEF PlayerSpec

\* WavPlaysTheCapture: of any capture the file that is written plays, at the rate the
\* crate asks for, exactly what can be heard of it, and its header is true at any rate.
THEOREM FilePlaysCapture == PlayerSpec => []WavPlaysTheCapture
<1>1. PlayerInv => WavPlaysTheCapture
  <2> SUFFICES ASSUME PlayerInv, recording.file.kind = "Wav"
               PROVE  /\ recording.file.riff + 8 = recording.file.bytes
                      /\ recording.file.data + 44 = recording.file.bytes
                      /\ recording.rate = REQUESTED_SAMPLE_RATE_HZ =>
                           recording.file.data * 10000
                             = recording.file.byte_rate * HeardUpTo(Len(recording.capture))
    BY DEF WavPlaysTheCapture
  <2> DEFINE pcm == recording.pcm
             rate == recording.rate
             file == recording.file
             heard == HeardUpTo(Len(recording.capture))
  <2>1. /\ recording \in Players /\ recording.next = Len(recording.capture) + 1
        /\ file = wav_bytes(pcm, rate)
        /\ rate = REQUESTED_SAMPLE_RATE_HZ => pcm * 5 = 8 * HeardUpTo(recording.next - 1)
    BY DEF PlayerInv, PlayerTypeOK, PcmIsHeard, FileIsPcm, Writing
  <2>2. /\ pcm \in Nat /\ rate \in OpusRates /\ U32_MAX \in Nat /\ recording.conceals \in BOOLEAN
        /\ recording.capture \in Seq(VoicePackets) /\ Len(recording.capture) \in Nat
    BY <2>1, PlayerAssumption DEF Players
  <2>3. heard \in Nat
    <3> DEFINE n == Len(recording.capture)
    <3>1. HeardTurns(recording.capture, recording.conceals) \in [0 .. n -> Nat]
      BY <2>2, HeardRuns DEF Accumulates
    <3>2. n \in 0 .. n
      BY <2>2
    <3> HIDE DEF n
    <3>3. HeardTurns(recording.capture, recording.conceals)[n] \in Nat
      BY <3>1, <3>2
    <3> QED
      BY <3>3 DEF HeardUpTo, n
  <2>4. rate = REQUESTED_SAMPLE_RATE_HZ => pcm * 5 = 8 * heard
    <3>1. recording.next - 1 = Len(recording.capture)
      BY <2>1, <2>2
    <3> QED
      BY <2>1, <3>1
  <2> HIDE DEF pcm, rate, heard
  <2>5. ~ (pcm * 2 > U32_MAX - 36)
    BY <2>1 DEF wav_bytes
  <2>6. /\ file.riff = (36 + pcm * 2) % (U32_MAX + 1) /\ file.byte_rate = rate * 2
        /\ file.data = pcm * 2 /\ file.bytes = 44 + pcm * 2
    BY <2>1, <2>5 DEF wav_bytes
  <2>7. file.riff = 36 + pcm * 2
    <3> DEFINE x == 36 + pcm * 2
               m == U32_MAX + 1
    <3>1. x \in Nat /\ m \in Nat \ {0} /\ x < m
      BY <2>2, <2>5
    <3>2. file.riff = (x % m)
      BY <2>6
    <3> HIDE DEF x, m
    <3>3. (x % m) = x
      BY <3>1, SMT
    <3> QED
      BY <3>2, <3>3 DEF x
  <2> HIDE DEF file
  <2>8. file.riff + 8 = file.bytes /\ file.data + 44 = file.bytes
    BY <2>2, <2>6, <2>7
  <2>9. ASSUME rate = REQUESTED_SAMPLE_RATE_HZ PROVE file.data * 10000 = file.byte_rate * heard
    <3>1. rate = 16000 /\ pcm * 5 = 8 * heard
      BY <2>4, <2>9 DEF REQUESTED_SAMPLE_RATE_HZ
    <3>2. \A h, p \in Nat : p * 5 = 8 * h => (p * 2) * 10000 = 32000 * h
      OBVIOUS
    <3>3. (pcm * 2) * 10000 = 32000 * heard
      BY <2>2, <2>3, <3>1, <3>2
    <3>4. file.byte_rate = 32000 /\ file.data = pcm * 2
      BY <2>6, <3>1
    <3> QED
      BY <3>3, <3>4
  <2> QED
    BY <2>8, <2>9 DEF file, rate, heard
<1> QED
  BY <1>1, PlayerInvariant, PTL

\* AnnouncedIsDecoded: of every packet a decoder accepts, its header says at every
\* rate how many samples come out, and in microseconds how long they last.
THEOREM HeaderTellsLength == PlayerSpec => []AnnouncedIsDecoded
<1>1. PlayerInv => AnnouncedIsDecoded
  <2> SUFFICES ASSUME PlayerInv, recording.next <= Len(recording.capture),
                      Decodable(At(recording.next))
               PROVE  LET packet == At(recording.next)
                          toc == OpusToc(packet.bytes)
                      IN  /\ toc # NoToc
                          /\ \A rate \in OpusRates :
                                 decoded_samples(toc, rate)
                                   = SamplesAt48k(packet.bytes) \div (48000 \div rate)
                          /\ (FfiToc(toc).total_duration_us \div 500) * 24
                               = SamplesAt48k(packet.bytes)
    BY DEF AnnouncedIsDecoded
  <2> DEFINE packet == At(recording.next)
             bytes == packet.bytes
             toc == OpusToc(bytes)
  <2>1. bytes \in Seq(0 .. 255) \ {<<>>}
    <3>1. recording \in Players /\ recording.next \in 1 .. Len(recording.capture) + 1
      BY DEF PlayerInv, PlayerTypeOK
    <3>2. recording.capture \in Seq(VoicePackets)
      BY <3>1, PlayerAssumption DEF Players
    <3>3. recording.next \in 1 .. Len(recording.capture)
      BY <3>1, <3>2
    <3>4. packet \in VoicePackets
      BY <3>2, <3>3 DEF At
    <3> HIDE DEF packet
    <3> QED
      BY <3>4 DEF VoicePackets
  <2>2. PICK n \in Nat : Lasts(bytes, n)
    <3> HIDE DEF bytes
    <3> QED
      BY <2>1, PacketLasts
  <2>3. SamplesAt48k(bytes) = 24 * n /\ n > 0
    <3>1. SamplesAt48k(bytes) = 24 * n /\ SamplesAt48k(bytes) \in 1 .. 5760
      BY <2>2 DEF Lasts, Decodable
    <3> DEFINE played == SamplesAt48k(bytes)
    <3>2. played = 24 * n /\ played >= 1
      BY <3>1
    <3> HIDE DEF played
    <3>3. n > 0
      BY <3>2
    <3> QED
      BY <3>1, <3>3
  <2>4. toc # NoToc /\ total_duration_us(toc) = 500 * n
    BY <2>2, <2>3 DEF Lasts
  <2> HIDE DEF bytes, toc
  <2>5. (500 * n) \div 500 = n
    OBVIOUS
  <2>6. ASSUME NEW rate \in OpusRates
        PROVE  decoded_samples(toc, rate) = SamplesAt48k(bytes) \div (48000 \div rate)
    <3>1. decoded_samples(toc, rate) = (n * (rate \div 1000)) \div 2
      BY <2>4, <2>5 DEF decoded_samples
    <3>2. SamplesAt48k(bytes) \div (48000 \div rate) = (24 * n) \div (48000 \div rate)
      BY <2>3
    <3>3. \/ rate \div 1000 = 8 /\ 48000 \div rate = 6
          \/ rate \div 1000 = 12 /\ 48000 \div rate = 4
          \/ rate \div 1000 = 16 /\ 48000 \div rate = 3
          \/ rate \div 1000 = 24 /\ 48000 \div rate = 2
          \/ rate \div 1000 = 48 /\ 48000 \div rate = 1
      BY DEF OpusRates
    <3>4. /\ (n * 8) \div 2 = (24 * n) \div 6 /\ (n * 12) \div 2 = (24 * n) \div 4
          /\ (n * 16) \div 2 = (24 * n) \div 3 /\ (n * 24) \div 2 = (24 * n) \div 2
          /\ (n * 48) \div 2 = (24 * n) \div 1
      OBVIOUS
    <3> QED
      BY <3>1, <3>2, <3>3, <3>4
  <2>7. (FfiToc(toc).total_duration_us \div 500) * 24 = SamplesAt48k(bytes)
    <3>1. FfiToc(toc).total_duration_us = 500 * n
      BY <2>4 DEF FfiToc
    <3>2. n * 24 = 24 * n
      OBVIOUS
    <3> QED
      BY <2>3, <2>5, <3>1, <3>2
  <2> QED
    BY <2>4, <2>6, <2>7 DEF toc, bytes
<1> QED
  BY <1>1, PlayerInvariant, PTL
=============================================================================
