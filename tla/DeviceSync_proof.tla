--------------------------- MODULE DeviceSync_proof ---------------------------
(***************************************************************************)
(* For every set of units, every bound and every loss: a settings screen   *)
(* that is complete tells the truth, what it writes back is legal, battery *)
(* and volume readings are the unit's, and a caller that reads only events *)
(* knows whether the microphone is open.  The invariant, DeviceInv, is     *)
(* that of every subject the app is either up to date, or marked stale, or *)
(* about to be: the last frame in the air that speaks of the subject is    *)
(* the unit's present report of it.                                        *)
(***************************************************************************)
EXTENDS DeviceSync, SequenceTheorems, TLAPS

-----------------------------------------------------------------------------
(* The voice machine.                                                      *)

VoiceInv == VoiceTypeOK /\ CallerKnowsCapture /\ IndexIsOrdinal

\* One returned event moves the caller's belief by After.
LEMMA ReturnOne ==
    ASSUME NEW e, Return(<<e>>)
    PROVE  view' = After(view, e)
  BY DEF Return

\* Two returned events move it twice.
LEMMA ReturnTwo ==
    ASSUME NEW e, NEW f, Return(<<e, f>>)
    PROVE  view' = After(After(view, e), f)
  BY DEF Return

\* What each event does to a belief.
LEMMA AfterEvents ==
    ASSUME NEW belief \in [open : BOOLEAN, heard : Nat], NEW index, NEW cause
    PROVE  /\ After(belief, Started) = [open |-> TRUE, heard |-> 0]
           /\ After(belief, StartedRecovered) = [open |-> TRUE, heard |-> 0]
           /\ After(belief, Packet(index)) = [belief EXCEPT !.heard = @ + 1]
           /\ After(belief, Ended(cause)) = Closed
           /\ After(belief, VoiceAbandoned) = Closed
           /\ After(belief, Ignored) = belief
  <1>1. /\ Started.kind = "Started"
        /\ StartedRecovered.kind = "StartedRecovered"
        /\ Packet(index).kind = "Packet"
        /\ Ended(cause).kind = "Ended"
        /\ VoiceAbandoned.kind = "VoiceAbandoned"
        /\ Ignored.kind = "Ignored"
    BY DEF Started, StartedRecovered, Packet, Ended, VoiceAbandoned, Ignored
  <1> QED
    BY <1>1 DEF After

\* A packet adds one to what an open capture has heard.
LEMMA AnotherPacket ==
    ASSUME NEW belief \in [open : BOOLEAN, heard : Nat], belief.open = TRUE, NEW index
    PROVE  After(belief, Packet(index)) = [open |-> TRUE, heard |-> belief.heard + 1]
  <1>1. After(belief, Packet(index)) = [belief EXCEPT !.heard = @ + 1]
    BY AfterEvents
  <1> QED
    BY <1>1

\* A belief written out as a record is one.
LEMMA Belief ==
    ASSUME NEW open \in BOOLEAN, NEW heard \in Nat
    PROVE  /\ [open |-> open, heard |-> heard] \in [open : BOOLEAN, heard : Nat]
           /\ [open |-> open, heard |-> heard].open = open
           /\ [open |-> open, heard |-> heard].heard = heard
  OBVIOUS

\* No capture, and a caller that knows it.
LEMMA BothClosed ==
    ASSUME capturing = FALSE, packets \in 0 .. MaxPackets, view = Closed
    PROVE  VoiceInv
  <1>1. view \in [open : BOOLEAN, heard : Nat] /\ view.open = FALSE
    BY Belief DEF Closed
  <1> QED
    BY <1>1 DEF VoiceInv, VoiceTypeOK, CallerKnowsCapture, IndexIsOrdinal

\* The same of a next state.
LEMMA BothClosedNext ==
    ASSUME capturing' = FALSE, packets' \in 0 .. MaxPackets, view' = Closed
    PROVE  VoiceInv'
  <1>1. view' \in [open : BOOLEAN, heard : Nat] /\ view'.open = FALSE
    BY Belief DEF Closed
  <1> QED
    BY <1>1 DEF VoiceInv, VoiceTypeOK, CallerKnowsCapture, IndexIsOrdinal

\* A capture of n packets, and a caller that counted them.
LEMMA BothOpenNext ==
    ASSUME NEW n \in 0 .. MaxPackets,
           capturing' = TRUE, packets' = n, view' = [open |-> TRUE, heard |-> n]
    PROVE  VoiceInv'
  <1>1. n \in Nat
    BY VoiceAssumption
  <1>2. view' \in [open : BOOLEAN, heard : Nat] /\ view'.open = TRUE /\ view'.heard = n
    BY <1>1, Belief
  <1> QED
    BY <1>2 DEF VoiceInv, VoiceTypeOK, CallerKnowsCapture, IndexIsOrdinal

\* No capture is open at the start, and the caller knows it.
LEMMA VoiceInitInv == VoiceInit => VoiceInv
  <1>1. 0 \in 0 .. MaxPackets
    BY VoiceAssumption
  <1> QED
    BY <1>1, BothClosed DEF VoiceInit

\* close() with any cause keeps the caller's belief right.
LEMMA CloseInv ==
    ASSUME VoiceInv, NEW cause, Close(cause)
    PROVE  VoiceInv'
  <1>1. packets \in 0 .. MaxPackets /\ view \in [open : BOOLEAN, heard : Nat]
    BY DEF VoiceInv, VoiceTypeOK
  <1>2. CASE capturing
    <2>1. view' = Closed
      BY <1>1, <1>2, ReturnOne, AfterEvents DEF Close
    <2> QED
      BY <1>1, <2>1, BothClosedNext DEF Close
  <1>3. CASE ~ capturing
    <2>1. view' = view
      BY <1>1, <1>3, ReturnOne, AfterEvents DEF Close
    <2> QED
      BY <1>3, <2>1 DEF Close, VoiceInv, VoiceTypeOK, CallerKnowsCapture, IndexIsOrdinal
  <1> QED
    BY <1>2, <1>3

\* Every decoded frame and every call of the shell keeps the belief right.
LEMMA VoiceNextInv == VoiceInv /\ [VoiceNext]_voiceVars => VoiceInv'
  <1> SUFFICES ASSUME VoiceInv, [VoiceNext]_voiceVars PROVE VoiceInv'
    OBVIOUS
  <1> DEFINE started == [open |-> TRUE, heard |-> 0]
  <1>t. /\ packets \in 0 .. MaxPackets
        /\ view \in [open : BOOLEAN, heard : Nat]
        /\ 0 \in 0 .. MaxPackets
    BY VoiceAssumption DEF VoiceInv, VoiceTypeOK
  <1>1. CASE OnVoiceUploadStart
    <2>1. view' = started
      BY <1>t, <1>1, ReturnOne, AfterEvents DEF OnVoiceUploadStart
    <2> QED
      BY <1>t, <1>1, <2>1, BothOpenNext DEF OnVoiceUploadStart
  <1>2. CASE OnEmptyVoiceData
    <2>1. CASE capturing
      <3>1. UNCHANGED <<capturing, packets, view>>
        BY <1>2, <2>1 DEF OnEmptyVoiceData, voice, Return
      <3> QED
        BY <3>1 DEF VoiceInv, VoiceTypeOK, CallerKnowsCapture, IndexIsOrdinal
    <2>2. CASE ~ capturing
      <3>1. view' = started
        BY <1>t, <1>2, <2>2, ReturnOne, AfterEvents DEF OnEmptyVoiceData
      <3> QED
        BY <1>t, <1>2, <2>2, <3>1, BothOpenNext DEF OnEmptyVoiceData
    <2> QED
      BY <2>1, <2>2
  <1>3. CASE OnVoiceData
    <2>1. CASE capturing
      <3>1. /\ packets' = packets + 1
            /\ capturing' = TRUE
            /\ packets < MaxPackets
            /\ Return(<<Packet(packets)>>)
        BY <1>3, <2>1 DEF OnVoiceData, VoiceInv, VoiceTypeOK
      <3>2. view.open = TRUE /\ view.heard = packets
        BY <2>1, <1>t DEF VoiceInv, CallerKnowsCapture, IndexIsOrdinal
      <3>3. view' = [open |-> TRUE, heard |-> packets + 1]
        BY <1>t, <3>1, <3>2, ReturnOne, AnotherPacket
      <3>4. packets + 1 \in 0 .. MaxPackets
        BY <1>t, <3>1, VoiceAssumption
      <3> QED
        BY <3>1, <3>3, <3>4, BothOpenNext
    <2>2. CASE ~ capturing
      <3>1. /\ capturing' = TRUE
            /\ packets' = 1
            /\ MaxPackets > 0
            /\ Return(<<StartedRecovered, Packet(0)>>)
        BY <1>3, <2>2 DEF OnVoiceData
      <3>2. view' = [open |-> TRUE, heard |-> 1]
        <4>1. After(view, StartedRecovered) = started
          BY <1>t, AfterEvents
        <4>2. /\ started \in [open : BOOLEAN, heard : Nat]
              /\ started.open = TRUE
              /\ started.heard = 0
          BY Belief
        <4> HIDE DEF started
        <4>3. After(started, Packet(0)) = [open |-> TRUE, heard |-> 0 + 1]
          BY <4>2, AnotherPacket
        <4> QED
          BY <3>1, <4>1, <4>3, ReturnTwo
      <3>3. 1 \in 0 .. MaxPackets
        BY <3>1, VoiceAssumption
      <3> QED
        BY <3>1, <3>2, <3>3, BothOpenNext
    <2> QED
      BY <2>1, <2>2
  <1>4. CASE OnVoiceUploadEnd
    BY <1>4, CloseInv DEF OnVoiceUploadEnd
  <1>5. CASE OnVoiceAbandoned
    <2>1. view' = Closed
      BY <1>t, <1>5, ReturnOne, AfterEvents DEF OnVoiceAbandoned
    <2> QED
      BY <1>t, <1>5, <2>1, BothClosedNext DEF OnVoiceAbandoned
  <1>6. CASE OnOtherFrame
    <2>1. view' = view
      BY <1>t, <1>6, ReturnOne, AfterEvents DEF OnOtherFrame
    <2> QED
      BY <1>6, <2>1
         DEF OnOtherFrame, voice, VoiceInv, VoiceTypeOK, CallerKnowsCapture, IndexIsOrdinal
  <1>7. CASE CloseVoice
    BY <1>7, CloseInv DEF CloseVoice
  <1>8. CASE Reset
    BY <1>t, <1>8, BothClosedNext DEF Reset
  <1>9. CASE UNCHANGED voiceVars
    BY <1>9 DEF voiceVars, VoiceInv, VoiceTypeOK, CallerKnowsCapture, IndexIsOrdinal
  <1> QED
    BY <1>1, <1>2, <1>3, <1>4, <1>5, <1>6, <1>7, <1>8, <1>9 DEF VoiceNext

\* From the events alone a caller always knows whether the microphone capture
\* is open.
THEOREM CallerKnows == VoiceSpec => []CallerKnowsCapture
  <1>1. VoiceInv => CallerKnowsCapture
    BY DEF VoiceInv
  <1> QED
    BY <1>1, VoiceInitInv, VoiceNextInv, PTL DEF VoiceSpec

\* Packet indices are ordinals within the capture the caller knows about.
THEOREM PacketOrdinals == VoiceSpec => []IndexIsOrdinal
  <1>1. VoiceInv => IndexIsOrdinal
    BY DEF VoiceInv
  <1> QED
    BY <1>1, VoiceInitInv, VoiceNextInv, PTL DEF VoiceSpec

-----------------------------------------------------------------------------
(* Opcodes and settings: which frame sets what.                            *)

\* The numbers behind the opcodes this proof tells apart.
LEMMA Codes ==
    /\ A.SetLed = 1 /\ A.SetRecordDuration = 2 /\ A.WearDetection = 4 /\ A.VoiceCommand = 6
    /\ A.SetGestureSwipeForward = 7 /\ A.SetGestureSwipeBack = 8 /\ A.SetGestureSingleTap = 9
    /\ A.SetGestureDoubleTap = 16 /\ A.SetGestureTripleTap = 17 /\ A.Orientation = 97
    /\ A.GetBattery = 23 /\ A.GetVolumes = 105 /\ A.SetVolume = 112
    /\ A.GetVersions = 85 /\ A.GetProjectName = 100 /\ A.GetFileCount = 64
    /\ A.GetCapabilities = 149 /\ A.GetVoiceDisableState = 113 /\ A.GetDeviceStatus = 69
    /\ A.OpenWifiFiles = 57 /\ A.OpenWifiLive = 103
    /\ U.ChargeBattery = 83 /\ U.ThumbnailCount = 66 /\ U.WifiName = 37 /\ U.ActionSync = 69
    /\ U.VoiceData = 70 /\ U.VoiceUploadStart = 151 /\ U.VoiceUploadEnd = 153 /\ U.AbandonVoice = 73
    /\ U.CancelAiBroadcast = 81 /\ U.HdImageFailed = 82 /\ U.IspUpgradeDone = 150
  BY DEF A, U, AppCommand, DeviceUpload

\* The five gesture slots.
LEMMA Slots ==
    /\ GestureSlots = <<7, 8, 9, 16, 17>>
    /\ Len(GestureSlots) = 5
    /\ DOMAIN GestureSlots = 1 .. 5
    /\ ToSet(GestureSlots) = {7, 8, 9, 16, 17}
  <1>1. GestureSlots = <<7, 8, 9, 16, 17>>
    BY Codes DEF GestureSlots, A
  <1>2. ToSet(GestureSlots) = {7, 8, 9, 16, 17}
    BY <1>1 DEF ToSet
  <1> QED
    BY <1>1, <1>2

\* The ten settings, in the order a burst reports them.
LEMMA Order ==
    /\ SWITCH_STATE_BURST_ORDER = <<1, 2, 4, 6, 7, 8, 9, 16, 17, 97>>
    /\ Settings = {1, 2, 4, 6, 7, 8, 9, 16, 17, 97}
  <1> DEFINE first == <<1, 2, 4, 6>>
             slots == <<7, 8, 9, 16, 17>>
             nine == <<1, 2, 4, 6, 7, 8, 9, 16, 17>>
             last == <<97>>
             ten == <<1, 2, 4, 6, 7, 8, 9, 16, 17, 97>>
  <1>l. /\ first \in Seq(Nat) /\ slots \in Seq(Nat) /\ nine \in Seq(Nat) /\ ten \in Seq(Nat)
        /\ last \in Seq(Nat)
        /\ Len(first) = 4 /\ Len(slots) = 5 /\ Len(nine) = 9 /\ Len(ten) = 10 /\ Len(last) = 1
    OBVIOUS
  <1> HIDE DEF first, slots, nine, last, ten
  <1>1. first \o slots = nine
    <2>0. /\ first \o slots \in Seq(Nat)
          /\ Len(first \o slots) = Len(first) + Len(slots)
          /\ \A i \in 1 .. Len(first) + Len(slots) :
                 (first \o slots)[i] = IF i <= Len(first) THEN first[i] ELSE slots[i - Len(first)]
      BY <1>l, ConcatProperties
    <2>1. /\ first \o slots \in Seq(Nat)
          /\ Len(first \o slots) = 4 + 5
          /\ \A i \in 1 .. 4 + 5 : (first \o slots)[i] = IF i <= 4 THEN first[i] ELSE slots[i - 4]
      BY <1>l, <2>0
    <2> DEFINE both == first \o slots
    <2> HIDE DEF both
    <2>2. \A i \in 1 .. 9 : both[i] = nine[i]
      BY <2>1 DEF both, first, slots, nine, last, ten
    <2>3. both \in Seq(Nat) /\ Len(both) = 9
      BY <2>1 DEF both
    <2>4. both = nine
      BY <1>l, <2>2, <2>3, SeqEqual
    <2> QED
      BY <2>4 DEF both
  <1>2. nine \o last = ten
    <2>0. /\ nine \o last \in Seq(Nat)
          /\ Len(nine \o last) = Len(nine) + Len(last)
          /\ \A i \in 1 .. Len(nine) + Len(last) :
                 (nine \o last)[i] = IF i <= Len(nine) THEN nine[i] ELSE last[i - Len(nine)]
      BY <1>l, ConcatProperties
    <2>1. /\ nine \o last \in Seq(Nat)
          /\ Len(nine \o last) = 9 + 1
          /\ \A i \in 1 .. 9 + 1 : (nine \o last)[i] = IF i <= 9 THEN nine[i] ELSE last[i - 9]
      BY <1>l, <2>0
    <2> DEFINE both == nine \o last
    <2> HIDE DEF both
    <2>2. \A i \in 1 .. 10 : both[i] = ten[i]
      BY <2>1 DEF both, first, slots, nine, last, ten
    <2>3. both \in Seq(Nat) /\ Len(both) = 10
      BY <2>1 DEF both
    <2>4. both = ten
      BY <1>l, <2>2, <2>3, SeqEqual
    <2> QED
      BY <2>4 DEF both
  <1>3. SWITCH_STATE_BURST_ORDER = <<1, 2, 4, 6, 7, 8, 9, 16, 17, 97>>
    BY <1>1, <1>2, Slots, Codes DEF SWITCH_STATE_BURST_ORDER, A, first, slots, nine, last, ten
  <1>4. Settings = {1, 2, 4, 6, 7, 8, 9, 16, 17, 97}
    BY <1>3 DEF Settings, ToSet
  <1> QED
    BY <1>3, <1>4

\* No payload is empty that has a byte.
LEMMA OneByte == \A b, c : <<b>> # <<>> /\ <<b, c>> # <<>>
  <1>1. \A b, c : Len(<<b>>) = 1 /\ Len(<<b, c>>) = 2 /\ Len(<<>>) = 0
    OBVIOUS
  <1> QED
    BY <1>1

\* The frame each setter writes, in numbers.
LEMMA SetterFrames ==
    /\ \A v : set_led(v) = [cmd |-> 1, data |-> <<48 + v>>]
    /\ \A v : set_record_duration(v) = [cmd |-> 2, data |-> <<v \div 256, (v % 256)>>]
    /\ \A v : set_wear_detection(v) = [cmd |-> 4, data |-> <<ascii_flag(v)>>]
    /\ \A v : set_voice_command(v) = [cmd |-> 6, data |-> <<ascii_flag(v)>>]
    /\ \A v : set_orientation(v) = [cmd |-> 97, data |-> <<ascii_flag(v = "Landscape")>>]
    /\ \A s, a : set_gesture(s, a) = [cmd |-> s, data |-> <<48 + GestureAction[a]>>]
  <1>1. /\ AppCommand["SetLed"] = 1 /\ AppCommand["SetRecordDuration"] = 2
        /\ AppCommand["WearDetection"] = 4 /\ AppCommand["VoiceCommand"] = 6
        /\ AppCommand["Orientation"] = 97
    BY DEF AppCommand
  <1> QED
    BY <1>1, OneByte DEF set_led, set_record_duration, set_wear_detection, set_voice_command,
           set_orientation, set_gesture, Command, Digit0

\* The frames that write back a held value.
Writes(setting, v) ==
    CASE setting = A.SetLed -> {set_led(x) : x \in {v} \ {None}}
      [] setting = A.SetRecordDuration -> {set_record_duration(x) : x \in {v} \ {None}}
      [] setting = A.WearDetection -> {set_wear_detection(x) : x \in {v} \ {None}}
      [] setting = A.VoiceCommand -> {set_voice_command(x) : x \in {v} \ {None}}
      [] setting = A.Orientation -> {set_orientation(x) : x \in {v} \ {None}}
      [] OTHER -> {set_gesture(setting, x) :
                       x \in {IF v = None THEN None ELSE ActionOption(v)} \ {None}}

\* A slot's index leads back to it.
LEMMA SlotIndices ==
    ASSUME NEW slot \in {7, 8, 9, 16, 17}
    PROVE  SlotIndex(slot) \in DOMAIN GestureSlots /\ GestureSlots[SlotIndex(slot)] = slot
  <1>1. \E i \in DOMAIN GestureSlots : GestureSlots[i] = slot
    BY Slots
  <1> QED
    BY <1>1 DEF SlotIndex

\* What the shell would write from the snapshot it is shown is Writes of what is held.
LEMMA SettersAre ==
    ASSUME NEW held, NEW setting \in Settings
    PROVE  Setters(setting, snapshot(held)) = Writes(setting, held[setting])
  <1> DEFINE shown == snapshot(held)
  <1>1. /\ shown.led = held[A.SetLed] /\ shown.record_seconds = held[A.SetRecordDuration]
        /\ shown.wear_detection = held[A.WearDetection] /\ shown.voice_command = held[A.VoiceCommand]
        /\ shown.orientation = held[A.Orientation]
    BY DEF snapshot
  <1>2. ASSUME NEW slot \in {7, 8, 9, 16, 17}
        PROVE  shown.gestures[SlotIndex(slot)] =
                   IF held[slot] = None THEN None ELSE ActionOption(held[slot])
    BY SlotIndices DEF snapshot
  <1> HIDE DEF shown
  <1>3. CASE setting \in {7, 8, 9, 16, 17}
    BY <1>2, <1>3, Codes DEF Setters, Writes, shown
  <1>4. CASE setting \in {1, 2, 4, 6, 97}
    <2> SUFFICES Setters(setting, shown) = Writes(setting, held[setting])
      BY DEF shown
    <2>1. CASE setting = A.SetLed
      <3>1. Setters(setting, shown) = {set_led(v) : v \in {shown.led} \ {None}}
        BY <2>1, Codes DEF Setters
      <3>2. Writes(setting, held[setting]) = {set_led(v) : v \in {held[A.SetLed]} \ {None}}
        BY <2>1, Codes DEF Writes
      <3> QED
        BY <3>1, <3>2, <1>1, Zenon
    <2>2. CASE setting = A.SetRecordDuration
      <3>1. Setters(setting, shown) = {set_record_duration(v) : v \in {shown.record_seconds} \ {None}}
        BY <2>2, Codes DEF Setters
      <3>2. Writes(setting, held[setting]) =
                {set_record_duration(v) : v \in {held[A.SetRecordDuration]} \ {None}}
        BY <2>2, Codes DEF Writes
      <3> QED
        BY <3>1, <3>2, <1>1, Zenon
    <2>3. CASE setting = A.WearDetection
      <3>1. Setters(setting, shown) = {set_wear_detection(v) : v \in {shown.wear_detection} \ {None}}
        BY <2>3, Codes DEF Setters
      <3>2. Writes(setting, held[setting]) = {set_wear_detection(v) : v \in {held[A.WearDetection]} \ {None}}
        BY <2>3, Codes DEF Writes
      <3> QED
        BY <3>1, <3>2, <1>1, Zenon
    <2>4. CASE setting = A.VoiceCommand
      <3>1. Setters(setting, shown) = {set_voice_command(v) : v \in {shown.voice_command} \ {None}}
        BY <2>4, Codes DEF Setters
      <3>2. Writes(setting, held[setting]) = {set_voice_command(v) : v \in {held[A.VoiceCommand]} \ {None}}
        BY <2>4, Codes DEF Writes
      <3> QED
        BY <3>1, <3>2, <1>1, Zenon
    <2>5. CASE setting = A.Orientation
      <3>1. Setters(setting, shown) = {set_orientation(v) : v \in {shown.orientation} \ {None}}
        BY <2>5, Codes DEF Setters
      <3>2. Writes(setting, held[setting]) = {set_orientation(v) : v \in {held[A.Orientation]} \ {None}}
        BY <2>5, Codes DEF Writes
      <3> QED
        BY <3>1, <3>2, <1>1, Zenon
    <2> QED
      BY <1>4, <2>1, <2>2, <2>3, <2>4, <2>5, Codes
  <1> QED
    BY <1>3, <1>4, Order

-----------------------------------------------------------------------------
(* The parser reads back what a setter wrote or the unit reported.         *)

\* The five gesture actions are numbered 0 to 4.
LEMMA Actions5 ==
    /\ DOMAIN GestureAction = {"VolumeDown", "VolumeUp", "PlayPause", "NextTrack", "PreviousTrack"}
    /\ \A a \in DOMAIN GestureAction : GestureAction[a] \in 0 .. 4
    /\ \A n \in 0 .. 4 : \E a \in DOMAIN GestureAction : GestureAction[a] = n
  <1>1. /\ DOMAIN GestureAction = {"VolumeDown", "VolumeUp", "PlayPause", "NextTrack", "PreviousTrack"}
        /\ GestureAction["VolumeDown"] = 0 /\ GestureAction["VolumeUp"] = 1
        /\ GestureAction["PlayPause"] = 2 /\ GestureAction["NextTrack"] = 3
        /\ GestureAction["PreviousTrack"] = 4
    BY DEF GestureAction
  <1> QED
    BY <1>1

\* Sequences of one element and of two.
LEMMA Payloads ==
    ASSUME NEW S
    PROVE  /\ \A n \in S : <<n>> \in Seq(S) /\ Len(<<n>>) = 1 /\ <<n>>[1] = n
           /\ \A m, n \in S :
                  /\ <<m, n>> \in Seq(S)
                  /\ Len(<<m, n>>) = 2
                  /\ <<m, n>>[1] = m /\ <<m, n>>[2] = n
  OBVIOUS

\* A payload of two bytes.
LEMMA TwoBytes ==
    ASSUME NEW m \in 0 .. 255, NEW n \in 0 .. 255
    PROVE  /\ <<m, n>> \in Seq(0 .. 255)
           /\ Len(<<m, n>>) = 2
           /\ <<m, n>>[1] = m /\ <<m, n>>[2] = n
  BY Payloads

\* A payload of one byte.
LEMMA AByte ==
    ASSUME NEW n \in 0 .. 255
    PROVE  <<n>> \in Seq(0 .. 255) /\ Len(<<n>>) = 1 /\ <<n>>[1] = n
  BY Payloads

\* A payload of one byte, and the one of two.
LEMMA LegalByte ==
    ASSUME NEW setting \in Settings, setting # 2, NEW b \in 0 .. 255,
           setting = 1 => b - 48 \in 0 .. 2,
           setting \in {4, 6, 97} => b - 48 \in {0, 1},
           setting \in {7, 8, 9, 16, 17} => b - 48 \in 0 .. 4
    PROVE  Legal(setting, <<b>>)
  <1> DEFINE d == <<b>>
  <1>1. d \in Seq(0 .. 255) /\ Len(d) = 1 /\ d[1] = b
    BY AByte
  <1> HIDE DEF d
  <1>2. Legal(setting, d)
    BY <1>1, Order, Codes, Slots DEF Legal, LedLevels, Digit0
  <1> QED
    BY <1>2 DEF d

\* Two bytes of a plausible duration are a legal payload.
LEMMA LegalDuration ==
    ASSUME NEW h \in 0 .. 255, NEW l \in 0 .. 255, h * 256 + l \in PLAUSIBLE_RECORD_SECONDS
    PROVE  Legal(2, <<h, l>>)
  <1> DEFINE d == <<h, l>>
  <1>1. d \in Seq(0 .. 255) /\ Len(d) = 2 /\ d[1] = h /\ d[2] = l
    BY TwoBytes
  <1> HIDE DEF d
  <1>2. d[1] * 256 + d[2] \in PLAUSIBLE_RECORD_SECONDS
    BY <1>1
  <1>3. /\ 2 = A.SetRecordDuration /\ 2 # A.SetLed
        /\ 2 \notin {A.WearDetection, A.VoiceCommand, A.Orientation} /\ 2 \notin ToSet(GestureSlots)
    BY Codes, Slots
  <1>4. Legal(2, d)
    BY <1>1, <1>2, <1>3 DEF Legal
  <1> QED
    BY <1>4 DEF d

\* Every payload a setter makes is legal.
LEMMA LegalPayloads ==
    /\ \A level \in LedLevels : Legal(1, <<48 + level>>)
    /\ \A seconds \in PLAUSIBLE_RECORD_SECONDS : Legal(2, <<seconds \div 256, (seconds % 256)>>)
    /\ \A on : Legal(4, <<ascii_flag(on)>>) /\ Legal(6, <<ascii_flag(on)>>) /\ Legal(97, <<ascii_flag(on)>>)
    /\ \A slot \in {7, 8, 9, 16, 17} : \A a \in DOMAIN GestureAction : Legal(slot, <<48 + GestureAction[a]>>)
  <1>0. 1 \in Settings /\ 1 # 2 /\ 1 \notin {4, 6, 97} /\ 1 \notin {7, 8, 9, 16, 17}
    BY Order
  <1>f. \A s \in {4, 6, 97} : s \in Settings /\ s # 2 /\ s # 1 /\ s \notin {7, 8, 9, 16, 17}
    BY Order
  <1>g. \A s \in {7, 8, 9, 16, 17} : s \in Settings /\ s # 2 /\ s # 1 /\ s \notin {4, 6, 97}
    BY Order
  <1>1. ASSUME NEW level \in LedLevels PROVE Legal(1, <<48 + level>>)
    <2>1. 48 + level \in 0 .. 255 /\ (48 + level) - 48 \in 0 .. 2
      BY DEF LedLevels
    <2> QED
      BY <1>0, <2>1, LegalByte
  <1>2. ASSUME NEW seconds \in PLAUSIBLE_RECORD_SECONDS
        PROVE  Legal(2, <<seconds \div 256, (seconds % 256)>>)
    <2>1. /\ (seconds \div 256) \in 0 .. 255 /\ (seconds % 256) \in 0 .. 255
          /\ (seconds \div 256) * 256 + (seconds % 256) = seconds
      BY DEF PLAUSIBLE_RECORD_SECONDS
    <2> DEFINE h == seconds \div 256
               l == (seconds % 256)
    <2>2. h \in 0 .. 255 /\ l \in 0 .. 255 /\ h * 256 + l \in PLAUSIBLE_RECORD_SECONDS
      BY <2>1
    <2> HIDE DEF h, l
    <2>3. Legal(2, <<h, l>>)
      BY <2>2, LegalDuration
    <2> QED
      BY <2>3 DEF h, l
  <1>3. ASSUME NEW on
        PROVE  Legal(4, <<ascii_flag(on)>>) /\ Legal(6, <<ascii_flag(on)>>) /\ Legal(97, <<ascii_flag(on)>>)
    <2>1. ascii_flag(on) \in 0 .. 255 /\ ascii_flag(on) - 48 \in {0, 1}
      BY DEF ascii_flag, Digit0
    <2>2. ASSUME NEW s \in {4, 6, 97} PROVE Legal(s, <<ascii_flag(on)>>)
      <3> DEFINE b == ascii_flag(on)
      <3>1. b \in 0 .. 255 /\ b - 48 \in {0, 1} /\ s \in Settings /\ s # 2 /\ s # 1
            /\ s \notin {7, 8, 9, 16, 17}
        BY <1>f, <2>1
      <3> HIDE DEF b
      <3>2. Legal(s, <<b>>)
        BY <3>1, LegalByte
      <3> QED
        BY <3>2 DEF b
    <2> QED
      BY <2>2
  <1>4. ASSUME NEW slot \in {7, 8, 9, 16, 17}, NEW a \in DOMAIN GestureAction
        PROVE  Legal(slot, <<48 + GestureAction[a]>>)
    <2>1. GestureAction[a] \in 0 .. 4
      BY Actions5
    <2>2. 48 + GestureAction[a] \in 0 .. 255 /\ (48 + GestureAction[a]) - 48 \in 0 .. 4
      BY <2>1
    <2> DEFINE b == 48 + GestureAction[a]
    <2>3. /\ b \in 0 .. 255 /\ b - 48 \in 0 .. 4
          /\ slot \in Settings /\ slot # 2 /\ slot # 1 /\ slot \notin {4, 6, 97}
      BY <1>g, <2>2
    <2> HIDE DEF b
    <2>4. Legal(slot, <<b>>)
      BY <2>3, LegalByte
    <2> QED
      BY <2>4 DEF b
  <1> QED
    BY <1>1, <1>2, <1>3, <1>4

\* A legal payload, byte by byte.
LEMMA PayloadShape ==
    ASSUME NEW setting \in Settings, NEW data, Legal(setting, data)
    PROVE  /\ data \in Seq(0 .. 255)
           /\ setting = 2 => /\ data = <<data[1], data[2]>>
                             /\ data[1] \in 0 .. 255 /\ data[2] \in 0 .. 255
                             /\ Len(data) = 2
                             /\ data[1] * 256 + data[2] \in PLAUSIBLE_RECORD_SECONDS
           /\ setting # 2 => /\ data = <<data[1]>> /\ Len(data) = 1
                             /\ data[1] \in 0 .. 255 /\ data[1] - 48 \in 0 .. 4
           /\ setting = 1 => data[1] - 48 \in 0 .. 2
           /\ setting \in {4, 6, 97} => data[1] \in {48, 49}
  <1>a. data \in Seq(0 .. 255) /\ Len(data) = IF setting = A.SetRecordDuration THEN 2 ELSE 1
    BY DEF Legal
  <1>1. data \in Seq(0 .. 255) /\ Len(data) = IF setting = 2 THEN 2 ELSE 1
    BY <1>a, Codes
  <1>2. CASE setting = 2
    <2>0. Len(data) = 2 /\ 1 \in 1 .. Len(data) /\ 2 \in 1 .. Len(data)
      BY <1>1, <1>2
    <2> DEFINE B == 0 .. 255
    <2>t. data \in Seq(B)
      BY <1>1
    <2> HIDE DEF B
    <2>b. data[1] \in B /\ data[2] \in B
      BY <2>t, <2>0
    <2>1. Len(data) = 2 /\ data[1] \in 0 .. 255 /\ data[2] \in 0 .. 255
      BY <2>0, <2>b DEF B
    <2>2. data = <<data[1], data[2]>>
      BY <1>1, <2>1
    <2>3. data[1] * 256 + data[2] \in PLAUSIBLE_RECORD_SECONDS
      BY <1>2, Codes DEF Legal
    <2> QED
      BY <1>1, <1>2, <2>1, <2>2, <2>3
  <1>3. CASE setting # 2
    <2>0. Len(data) = 1 /\ 1 \in 1 .. Len(data)
      BY <1>1, <1>3
    <2> DEFINE B == 0 .. 255
    <2>t. data \in Seq(B)
      BY <1>1
    <2> HIDE DEF B
    <2>b. data[1] \in B
      BY <2>t, <2>0
    <2>1. Len(data) = 1 /\ data[1] \in 0 .. 255
      BY <2>0, <2>b DEF B
    <2>2. data = <<data[1]>>
      BY <1>1, <2>1
    <2>3. /\ setting = 1 => data[1] - 48 \in 0 .. 2
          /\ setting \in {4, 6, 97} => data[1] - 48 \in {0, 1}
          /\ setting \in {7, 8, 9, 16, 17} => data[1] - 48 \in 0 .. 4
      BY Codes, Slots DEF Legal, LedLevels, Digit0
    <2>4. setting \in {1, 4, 6, 7, 8, 9, 16, 17, 97}
      BY <1>3, Order
    <2> DEFINE b == data[1]
    <2> HIDE DEF b
    <2>5. b \in 0 .. 255 /\ (setting = 1 => b - 48 \in 0 .. 2)
          /\ (setting \in {4, 6, 97} => b - 48 \in {0, 1})
          /\ (setting \in {7, 8, 9, 16, 17} => b - 48 \in 0 .. 4)
      BY <2>1, <2>3 DEF b
    <2>6. b - 48 \in 0 .. 4 /\ (setting \in {4, 6, 97} => b \in {48, 49})
      BY <2>4, <2>5
    <2> QED
      BY <1>1, <1>3, <2>1, <2>2, <2>3, <2>6 DEF b
  <1> QED
    BY <1>2, <1>3

\* parse on the opcodes of the settings, the battery and the volumes.
LEMMA ParseArms ==
    ASSUME NEW frame
    PROVE  /\ frame.cmd = 1 => parse(frame) = led(frame.data)
           /\ frame.cmd = 2 => parse(frame) = record_duration(frame.data)
           /\ frame.cmd \in {4, 6} => parse(frame) = switch_flag(frame.cmd, frame.data)
           /\ frame.cmd = 97 => parse(frame) = orientation(frame.data)
           /\ frame.cmd \in {7, 8, 9, 16, 17} => parse(frame) = gesture(frame.cmd, frame.data)
           /\ frame.cmd = 23 => parse(frame) = battery_read(frame.data)
           /\ frame.cmd = 83 => parse(frame) = battery_push(frame.data)
           /\ frame.cmd = 105 => parse(frame) = volumes(frame.data)
  <1>1. frame.cmd = 1 => parse(frame) = led(frame.data)
    BY Codes, Slots DEF parse
  <1>2. frame.cmd = 2 => parse(frame) = record_duration(frame.data)
    BY Codes, Slots DEF parse
  <1>3. frame.cmd \in {4, 6} => parse(frame) = switch_flag(frame.cmd, frame.data)
    <2>1. frame.cmd = 4 => parse(frame) = switch_flag(frame.cmd, frame.data)
      BY Codes, Slots DEF parse
    <2>2. frame.cmd = 6 => parse(frame) = switch_flag(frame.cmd, frame.data)
      BY Codes, Slots DEF parse
    <2> QED
      BY <2>1, <2>2
  <1>4. frame.cmd = 97 => parse(frame) = orientation(frame.data)
    BY Codes, Slots DEF parse
  <1>5. frame.cmd \in {7, 8, 9, 16, 17} => parse(frame) = gesture(frame.cmd, frame.data)
    <2>1. frame.cmd = 7 => parse(frame) = gesture(frame.cmd, frame.data)
      BY Codes, Slots DEF parse
    <2>2. frame.cmd = 8 => parse(frame) = gesture(frame.cmd, frame.data)
      BY Codes, Slots DEF parse
    <2>3. frame.cmd = 9 => parse(frame) = gesture(frame.cmd, frame.data)
      BY Codes, Slots DEF parse
    <2>4. frame.cmd = 16 => parse(frame) = gesture(frame.cmd, frame.data)
      BY Codes, Slots DEF parse
    <2>5. frame.cmd = 17 => parse(frame) = gesture(frame.cmd, frame.data)
      BY Codes, Slots DEF parse
    <2> QED
      BY <2>1, <2>2, <2>3, <2>4, <2>5
  <1>6. frame.cmd = 23 => parse(frame) = battery_read(frame.data)
    BY Codes, Slots DEF parse
  <1>7. frame.cmd = 83 => parse(frame) = battery_push(frame.data)
    BY Codes, Slots DEF parse
  <1>8. frame.cmd = 105 => parse(frame) = volumes(frame.data)
    BY Codes, Slots DEF parse
  <1> QED
    BY <1>1, <1>2, <1>3, <1>4, <1>5, <1>6, <1>7, <1>8

\* What is written back of each held value.
LEMMA WritesAre ==
    /\ \A v : v # None => Writes(1, v) = {[cmd |-> 1, data |-> <<48 + v>>]}
    /\ \A v : v # None => Writes(2, v) = {[cmd |-> 2, data |-> <<v \div 256, (v % 256)>>]}
    /\ \A s \in {4, 6} : \A v : v # None => Writes(s, v) = {[cmd |-> s, data |-> <<ascii_flag(v)>>]}
    /\ \A v : v # None => Writes(97, v) = {[cmd |-> 97, data |-> <<ascii_flag(v = "Landscape")>>]}
    /\ \A s \in {7, 8, 9, 16, 17} : \A v :
           v # None /\ ActionOption(v) # None =>
               Writes(s, v) = {[cmd |-> s, data |-> <<48 + GestureAction[ActionOption(v)]>>]}
    /\ \A s \in {1, 2, 4, 6, 97} : Writes(s, None) = {}
    /\ \A s \in {7, 8, 9, 16, 17} : \A v : v = None \/ ActionOption(v) = None => Writes(s, v) = {}
  <1>1. \A v : v # None => Writes(1, v) = {[cmd |-> 1, data |-> <<48 + v>>]}
    BY Codes, SetterFrames DEF Writes
  <1>2. \A v : v # None => Writes(2, v) = {[cmd |-> 2, data |-> <<v \div 256, (v % 256)>>]}
    BY Codes, SetterFrames DEF Writes
  <1>3. \A s \in {4, 6} : \A v : v # None => Writes(s, v) = {[cmd |-> s, data |-> <<ascii_flag(v)>>]}
    BY Codes, SetterFrames DEF Writes
  <1>4. \A v : v # None => Writes(97, v) = {[cmd |-> 97, data |-> <<ascii_flag(v = "Landscape")>>]}
    BY Codes, SetterFrames DEF Writes
  <1>5. \A s \in {7, 8, 9, 16, 17} : \A v :
           v # None /\ ActionOption(v) # None =>
               Writes(s, v) = {[cmd |-> s, data |-> <<48 + GestureAction[ActionOption(v)]>>]}
    BY Codes, SetterFrames DEF Writes
  <1>6. \A s \in {1, 2, 4, 6, 97} : Writes(s, None) = {}
    BY Codes DEF Writes
  <1>7. \A s \in {7, 8, 9, 16, 17} : \A v : v = None \/ ActionOption(v) = None => Writes(s, v) = {}
    BY Codes DEF Writes
  <1> QED
    BY <1>1, <1>2, <1>3, <1>4, <1>5, <1>6, <1>7

\* What the parser makes of a legal report can be written back as it came.
LEMMA ReportRead ==
    ASSUME NEW setting \in Settings, NEW data, Legal(setting, data)
    PROVE  LET frame == [cmd |-> setting, data |-> data]
               event == parse(frame)
           IN  \/ /\ event.kind = "Switch" /\ event.setting = setting
                  /\ setting = 2 => event.value \in PLAUSIBLE_RECORD_SECONDS
                  /\ Writes(setting, event.value) = {frame}
               \/ /\ event.kind = "GestureBinding" /\ event.slot = setting
                  /\ ActionOf(event.raw) # {}
                  /\ Writes(setting, event.raw) = {frame}
  <1> DEFINE frame == [cmd |-> setting, data |-> data]
             event == parse(frame)
  <1>1. frame.cmd = setting /\ frame.data = data
    OBVIOUS
  <1> HIDE DEF frame
  <1>s. setting \in {1, 2, 4, 6, 7, 8, 9, 16, 17, 97}
    BY Order
  <1>2. CASE setting = 1
    <2>0. setting # 2
      BY <1>2
    <2>1. data = <<data[1]>> /\ Len(data) = 1 /\ data[1] \in 0 .. 255 /\ data[1] - 48 \in 0 .. 2
      BY <1>2, <2>0, PayloadShape
    <2> DEFINE b == data[1]
    <2> HIDE DEF b
    <2>2. data = <<b>> /\ Len(data) = 1 /\ b \in 48 .. 50
      BY <2>1 DEF b
    <2>3. setting_digit(b) = b - 48
      BY <2>2 DEF setting_digit, IsDigit, Digit0
    <2>4. event = led(data)
      BY <1>1, <1>2, ParseArms
    <2>5. event = [kind |-> "Switch", setting |-> 1, value |-> b - 48]
      BY <2>2, <2>3, <2>4, Codes DEF led, Checked, Switch, LedLevels, b
    <2>6. Writes(1, b - 48) = {[cmd |-> 1, data |-> <<48 + (b - 48)>>]}
      BY <2>2, WritesAre, DeviceAssumption
    <2> QED
      BY <1>2, <2>2, <2>5, <2>6 DEF frame
  <1>3. CASE setting = 2
    <2>1. /\ data = <<data[1], data[2]>> /\ Len(data) = 2
          /\ data[1] \in 0 .. 255 /\ data[2] \in 0 .. 255
          /\ data[1] * 256 + data[2] \in PLAUSIBLE_RECORD_SECONDS
      BY <1>3, PayloadShape
    <2> DEFINE h == data[1]
               l == data[2]
               v == h * 256 + l
    <2>2. event = record_duration(data)
      BY <1>1, <1>3, ParseArms
    <2>3. event = [kind |-> "Switch", setting |-> 2, value |-> v]
      BY <2>1, <2>2, Codes DEF record_duration, Checked, Switch
    <2> HIDE DEF h, l
    <2>a. h \in 0 .. 255 /\ l \in 0 .. 255
      BY <2>1 DEF h, l
    <2>4. /\ v \in Nat
          /\ (v \div 256) = h /\ (v % 256) = l
      BY <2>a
    <2>5. v \in PLAUSIBLE_RECORD_SECONDS /\ data = <<h, l>>
      BY <2>1 DEF h, l
    <2> HIDE DEF v
    <2>6. Writes(2, v) = {[cmd |-> 2, data |-> <<h, l>>]}
      BY <2>4, WritesAre, DeviceAssumption
    <2> QED
      BY <1>3, <2>3, <2>5, <2>6 DEF frame
  <1>4. CASE setting \in {4, 6}
    <2>0. setting # 2
      BY <1>4
    <2>1. data = <<data[1]>> /\ Len(data) = 1 /\ data[1] \in {48, 49}
      BY <1>4, <2>0, PayloadShape
    <2> DEFINE b == data[1]
    <2>2. event = switch_flag(setting, data)
      BY <1>1, <1>4, ParseArms
    <2>3. setting_digit(b) = b - 48
      BY <2>1 DEF setting_digit, IsDigit, Digit0
    <2>4. event = [kind |-> "Switch", setting |-> setting, value |-> b - 48 = 1]
      BY <2>1, <2>2, <2>3 DEF switch_flag, Checked, Switch
    <2> HIDE DEF b
    <2>5. ascii_flag(b - 48 = 1) = b
      BY <2>1 DEF ascii_flag, Digit0, b
    <2>6. (b - 48 = 1) # None
      BY DeviceAssumption
    <2>7. Writes(setting, b - 48 = 1) = {[cmd |-> setting, data |-> <<b>>]}
      BY <1>4, <2>5, <2>6, WritesAre
    <2> QED
      BY <1>4, <2>0, <2>1, <2>4, <2>7 DEF frame, b
  <1>5. CASE setting = 97
    <2>0. setting # 2
      BY <1>5
    <2>1. data = <<data[1]>> /\ Len(data) = 1 /\ data[1] \in {48, 49}
      BY <1>5, <2>0, PayloadShape
    <2> DEFINE b == data[1]
               o == IF b = 49 THEN "Landscape" ELSE "Portrait"
    <2>2. event = orientation(data)
      BY <1>1, <1>5, ParseArms
    <2>3. setting_digit(b) = b - 48
      BY <2>1 DEF setting_digit, IsDigit, Digit0
    <2>4. event = [kind |-> "Switch", setting |-> 97, value |-> o]
      BY <2>1, <2>2, <2>3, Codes DEF orientation, Checked, Switch
    <2> HIDE DEF b
    <2>5. ascii_flag(o = "Landscape") = b
      BY <2>1 DEF ascii_flag, Digit0, b
    <2>6. o # None
      BY DeviceAssumption
    <2>7. Writes(97, o) = {[cmd |-> 97, data |-> <<b>>]}
      BY <2>5, <2>6, WritesAre
    <2> QED
      BY <1>5, <2>0, <2>1, <2>4, <2>7 DEF frame, b
  <1>6. CASE setting \in {7, 8, 9, 16, 17}
    <2>0. setting # 2
      BY <1>6
    <2>1. data = <<data[1]>> /\ Len(data) = 1 /\ data[1] \in 0 .. 255 /\ data[1] - 48 \in 0 .. 4
      BY <2>0, PayloadShape
    <2> DEFINE b == data[1]
    <2>2. event = gesture(setting, data)
      BY <1>1, <1>6, ParseArms
    <2>3. event = [kind |-> "GestureBinding", slot |-> setting, raw |-> b]
      BY <2>1, <2>2 DEF gesture, Checked
    <2> HIDE DEF b
    <2>4. b \in 48 .. 52 /\ setting_digit(b) = b - 48
      BY <2>1 DEF setting_digit, IsDigit, Digit0, b
    <2>5. ActionOf(b) # {} /\ b # None
      BY <2>4, Actions5, DeviceAssumption DEF ActionOf
    <2>6. ActionOption(b) \in ActionOf(b)
      BY <2>5 DEF ActionOption
    <2>7. /\ ActionOption(b) \in DOMAIN GestureAction
          /\ GestureAction[ActionOption(b)] = b - 48
          /\ 48 + GestureAction[ActionOption(b)] = b
          /\ ActionOption(b) # None
      BY <2>4, <2>6, DeviceAssumption DEF ActionOf
    <2>8. Writes(setting, b) = {[cmd |-> setting, data |-> <<b>>]}
      BY <1>6, <2>5, <2>7, WritesAre
    <2> QED
      BY <1>6, <2>0, <2>1, <2>3, <2>5, <2>8 DEF frame, b
  <1> QED
    BY <1>s, <1>2, <1>3, <1>4, <1>5, <1>6

\* The events that carry no state the app keeps.
OtherKinds == {"Malformed", "Versions", "Identity", "MediaCount", "Capabilities", "VoiceFeatures",
               "WifiCredentials", "WifiOpening", "ActionSync", "VoiceFrame", "VoiceAbandoned",
               "AiBroadcastCancelled", "HdImageFailed", "IspUpgradeFinished", "Ack", "Unrecognised"}

\* No frame but a setting's, the battery's and the volumes' makes their events.
LEMMA OtherFrames ==
    ASSUME NEW frame, frame.cmd \notin Settings \cup {23, 83, 105}
    PROVE  parse(frame).kind \in OtherKinds
  <1> DEFINE d == frame.data
             c == frame.cmd
  <1>1. \A x : Event(x).kind = x
    BY DEF Event
  <1>2. /\ versions(d).kind \in {"Malformed", "Versions"}
        /\ identity(d).kind \in {"Malformed", "Identity"}
        /\ media_count(c, d).kind \in {"Malformed", "MediaCount"}
        /\ capabilities(d).kind \in {"Malformed", "Capabilities"}
        /\ voice_features(d).kind \in {"Malformed", "VoiceFeatures"}
        /\ wifi_credentials(d).kind \in {"Malformed", "WifiCredentials"}
        /\ wifi_opening(c, d).kind \in {"Malformed", "WifiOpening"}
        /\ action_sync(d).kind \in {"Malformed", "ActionSync"}
    BY DEF Checked, Malformed, versions, identity, media_count, capabilities, voice_features,
           wifi_credentials, wifi_opening, action_sync
  <1>3. c \notin {A.GetBattery, U.ChargeBattery, A.SetLed, A.SetRecordDuration, A.WearDetection,
                  A.VoiceCommand, A.Orientation, A.GetVolumes} \cup ToSet(GestureSlots)
    BY Order, Codes, Slots
  <1>4. /\ Event("VoiceFrame").kind \in OtherKinds /\ Event("VoiceAbandoned").kind \in OtherKinds
        /\ Event("AiBroadcastCancelled").kind \in OtherKinds /\ Event("HdImageFailed").kind \in OtherKinds
        /\ Event(IF IsAppCommand(c) THEN "Ack" ELSE "Unrecognised").kind \in OtherKinds
        /\ [kind |-> "IspUpgradeFinished", ok |-> d # <<>> /\ d[1] = 1].kind \in OtherKinds
        /\ versions(d).kind \in OtherKinds /\ identity(d).kind \in OtherKinds
        /\ media_count(c, d).kind \in OtherKinds /\ capabilities(d).kind \in OtherKinds
        /\ voice_features(d).kind \in OtherKinds /\ wifi_credentials(d).kind \in OtherKinds
        /\ wifi_opening(c, d).kind \in OtherKinds /\ action_sync(d).kind \in OtherKinds
    BY <1>1, <1>2 DEF OtherKinds
  <1> QED
    BY <1>3, <1>4, Codes, Slots DEF parse

\* The conversion for the shell keeps the kind, and the two readings whole.
LEMMA AppEventKind ==
    ASSUME NEW event
    PROVE  /\ AppEvent(event).kind = event.kind
           /\ event.kind \in {"Battery", "Volumes"} => AppEvent(event) = event
  BY DEF AppEvent

-----------------------------------------------------------------------------
(* What the accumulator may hold.                                          *)

\* A value the accumulator may hold for a setting; of a gesture, any byte.
Holdable(setting, v) ==
    \/ v = None
    \/ setting = 1 /\ v \in LedLevels
    \/ setting = 2 /\ v \in PLAUSIBLE_RECORD_SECONDS
    \/ setting \in {4, 6} /\ v \in BOOLEAN
    \/ setting = 97 /\ v \in {"Portrait", "Landscape"}
    \/ setting \in {7, 8, 9, 16, 17}

Held ==
    /\ switches = [setting \in Settings |-> switches[setting]]
    /\ \A setting \in Settings : Holdable(setting, switches[setting])

\* What a setting's frame can report.
LEMMA SettingEvent ==
    ASSUME NEW frame, NEW event, event = parse(frame)
    PROVE  /\ event.kind = "Switch" => /\ event.setting = frame.cmd
                                       /\ frame.cmd \in {1, 2, 4, 6, 97}
                                       /\ frame.cmd # 2 => Holdable(frame.cmd, event.value)
           /\ event.kind = "GestureBinding" => event.slot = frame.cmd /\ frame.cmd \in {7, 8, 9, 16, 17}
           /\ event.kind = "Battery" => frame.cmd \in {23, 83}
           /\ event.kind = "Volumes" => frame.cmd = 105
           /\ event.kind \in OtherKinds \cup {"Switch", "GestureBinding", "Battery", "Volumes"}
  <1> DEFINE d == frame.data
             c == frame.cmd
  <1>1. CASE c = 1
    <2>0. event = led(d)
      BY <1>1, ParseArms
    <2>1. \/ event.kind = "Malformed"
          \/ event = [kind |-> "Switch", setting |-> 1, value |-> setting_digit(d[1])]
             /\ setting_digit(d[1]) \in LedLevels
      BY <2>0, Codes DEF led, Checked, Malformed, Switch
    <2> QED
      BY <1>1, <2>1 DEF Holdable, OtherKinds
  <1>2. CASE c = 2
    <2>0. event = record_duration(d)
      BY <1>2, ParseArms
    <2>1. \/ event.kind = "Malformed"
          \/ event = [kind |-> "Switch", setting |-> 2, value |-> d[1] * 256 + d[2]]
      BY <2>0, Codes DEF record_duration, Checked, Malformed, Switch
    <2> QED
      BY <1>2, <2>1 DEF OtherKinds
  <1>3. CASE c \in {4, 6}
    <2>1. \/ event.kind = "Malformed"
          \/ event = [kind |-> "Switch", setting |-> c, value |-> setting_digit(d[1]) = 1]
      BY <1>3, ParseArms DEF switch_flag, Checked, Malformed, Switch
    <2> DEFINE on == setting_digit(d[1]) = 1
    <2>2. on \in BOOLEAN
      OBVIOUS
    <2> HIDE DEF on
    <2>3. event.kind = "Malformed" \/ event = [kind |-> "Switch", setting |-> c, value |-> on]
      BY <2>1 DEF on
    <2> QED
      BY <1>3, <2>2, <2>3 DEF Holdable, OtherKinds
  <1>4. CASE c = 97
    <2>0. event = orientation(d)
      BY <1>4, ParseArms
    <2>1. \/ event.kind = "Malformed"
          \/ \E o \in {"Portrait", "Landscape"} : event = [kind |-> "Switch", setting |-> 97, value |-> o]
      BY <2>0, Codes DEF orientation, Checked, Malformed, Switch
    <2> QED
      BY <1>4, <2>1 DEF Holdable, OtherKinds
  <1>5. CASE c \in {7, 8, 9, 16, 17}
    <2>1. \/ event.kind = "Malformed"
          \/ event = [kind |-> "GestureBinding", slot |-> c, raw |-> d[1]]
      BY <1>5, ParseArms DEF gesture, Checked, Malformed
    <2> QED
      BY <1>5, <2>1 DEF OtherKinds
  <1>6. CASE c \in {23, 83}
    <2>1. event.kind \in {"Malformed", "Battery"}
      BY <1>6, ParseArms DEF battery_read, battery_push, Checked, Malformed
    <2> QED
      BY <1>6, <2>1 DEF OtherKinds
  <1>7. CASE c = 105
    <2>1. event.kind \in {"Malformed", "Volumes"}
      BY <1>7, ParseArms DEF volumes, Checked, Malformed
    <2> QED
      BY <1>7, <2>1 DEF OtherKinds
  <1>8. CASE c \notin Settings \cup {23, 83, 105}
    <2>1. event.kind \in OtherKinds
      BY <1>8, OtherFrames
    <2>2. event.kind \notin {"Switch", "GestureBinding", "Battery", "Volumes"}
      BY <2>1 DEF OtherKinds
    <2> QED
      BY <2>1, <2>2
  <1> QED
    BY <1>1, <1>2, <1>3, <1>4, <1>5, <1>6, <1>7, <1>8, Order

\* Whatever the frame is, the accumulator only ever adopts what can be held, and
\* only for the setting the frame is about.
LEMMA IngestHolds ==
    ASSUME Held, NEW frame, NEW event, event = parse(frame), ingest(event)
    PROVE  /\ Held'
           /\ \A setting \in Settings : setting # frame.cmd => switches'[setting] = switches[setting]
           /\ event.kind = "Malformed" => switches' = switches
  <1>1. CASE event.kind = "Switch" /\ (event.setting = 2 => event.value \in PLAUSIBLE_RECORD_SECONDS)
    <2>1. event.setting = frame.cmd /\ Holdable(frame.cmd, event.value) /\ frame.cmd \in Settings
      BY <1>1, SettingEvent, Order DEF Holdable
    <2>2. switches' = [switches EXCEPT ![frame.cmd] = event.value]
      BY <1>1, <2>1, Codes DEF ingest
    <2> QED
      BY <1>1, <2>1, <2>2 DEF Held
  <1>2. CASE event.kind = "GestureBinding"
    <2>1. event.slot = frame.cmd /\ frame.cmd \in Settings /\ \A v : Holdable(frame.cmd, v)
      BY <1>2, SettingEvent, Order DEF Holdable
    <2>2. switches' = [switches EXCEPT ![frame.cmd] = event.raw]
      BY <1>2, <2>1 DEF ingest
    <2> QED
      BY <1>2, <2>1, <2>2 DEF Held
  <1>3. CASE /\ ~ (event.kind = "Switch" /\ (event.setting = 2 => event.value \in PLAUSIBLE_RECORD_SECONDS))
             /\ event.kind # "GestureBinding"
    <2>1. switches' = switches
      BY <1>3, Codes DEF ingest
    <2> QED
      BY <2>1 DEF Held
  <1> QED
    BY <1>1, <1>2, <1>3

-----------------------------------------------------------------------------
(* Frames of a legal unit.                                                 *)

\* A frame that sets or reports a setting as a unit keeps it.
SettingFrame(frame) ==
    /\ frame = [cmd |-> frame.cmd, data |-> frame.data]
    /\ frame.cmd \in Settings
    /\ Legal(frame.cmd, frame.data)

\* A legal payload makes a setting frame.
LEMMA FrameOf ==
    ASSUME NEW setting \in Settings, NEW data, Legal(setting, data)
    PROVE  SettingFrame([cmd |-> setting, data |-> data]) /\ [cmd |-> setting, data |-> data].cmd = setting
  BY DEF SettingFrame

\* Writing back what is held makes a legal frame of that setting.
LEMMA WritesLegal ==
    ASSUME NEW setting \in Settings, NEW v, Holdable(setting, v), NEW frame \in Writes(setting, v)
    PROVE  SettingFrame(frame) /\ frame.cmd = setting
  <1>s. setting \in {1, 2, 4, 6, 97} \cup {7, 8, 9, 16, 17}
    BY Order
  <1>n. v # None
    BY <1>s, WritesAre
  <1>1. CASE setting = 1
    <2>1. v \in LedLevels /\ frame = [cmd |-> 1, data |-> <<48 + v>>]
      BY <1>1, <1>n, WritesAre DEF Holdable
    <2> QED
      BY <1>1, <2>1, LegalPayloads, FrameOf
  <1>2. CASE setting = 2
    <2>1. /\ v \in PLAUSIBLE_RECORD_SECONDS
          /\ frame = [cmd |-> 2, data |-> <<v \div 256, (v % 256)>>]
      BY <1>2, <1>n, WritesAre DEF Holdable
    <2> QED
      BY <1>2, <2>1, LegalPayloads, FrameOf
  <1>3. CASE setting \in {4, 6}
    <2>1. frame = [cmd |-> setting, data |-> <<ascii_flag(v)>>]
      BY <1>3, <1>n, WritesAre
    <2> QED
      BY <1>3, <2>1, LegalPayloads, FrameOf
  <1>4. CASE setting = 97
    <2>1. frame = [cmd |-> 97, data |-> <<ascii_flag(v = "Landscape")>>]
      BY <1>4, <1>n, WritesAre
    <2> QED
      BY <1>4, <2>1, LegalPayloads, FrameOf
  <1>5. CASE setting \in {7, 8, 9, 16, 17}
    <2>1. ActionOption(v) # None
      BY <1>5, WritesAre
    <2>2. ActionOption(v) \in DOMAIN GestureAction
      BY <2>1 DEF ActionOption, ActionOf
    <2>3. frame = [cmd |-> setting, data |-> <<48 + GestureAction[ActionOption(v)]>>]
      BY <1>5, <1>n, <2>1, WritesAre
    <2>4. Legal(setting, <<48 + GestureAction[ActionOption(v)]>>)
      BY <1>5, <2>2, LegalPayloads
    <2> QED
      BY <2>3, <2>4, FrameOf
  <1> QED
    BY <1>s, <1>1, <1>2, <1>3, <1>4, <1>5

\* So do the setters the app calls.
LEMMA SettersLegal ==
    /\ \A level \in LedLevels : SettingFrame(set_led(level))
    /\ \A seconds \in Durations : SettingFrame(set_record_duration(seconds))
    /\ \A on : SettingFrame(set_wear_detection(on)) /\ SettingFrame(set_voice_command(on))
    /\ \A o : SettingFrame(set_orientation(o))
    /\ \A slot \in ToSet(GestureSlots), action \in Actions : SettingFrame(set_gesture(slot, action))
  <1>1. {1, 2, 4, 6, 97} \cup {7, 8, 9, 16, 17} \subseteq Settings
    BY Order
  <1>2. Durations \subseteq PLAUSIBLE_RECORD_SECONDS /\ Actions \subseteq DOMAIN GestureAction
    BY DeviceAssumption
  <1>3. ASSUME NEW level \in LedLevels PROVE SettingFrame(set_led(level))
    BY <1>1, SetterFrames, LegalPayloads, FrameOf
  <1>4. ASSUME NEW seconds \in Durations PROVE SettingFrame(set_record_duration(seconds))
    <2>1. Legal(2, <<seconds \div 256, (seconds % 256)>>)
      BY <1>2, LegalPayloads
    <2>2. SettingFrame([cmd |-> 2, data |-> <<seconds \div 256, (seconds % 256)>>])
      BY <1>1, <2>1, FrameOf
    <2> QED
      BY <2>2, SetterFrames
  <1>5. ASSUME NEW on PROVE SettingFrame(set_wear_detection(on)) /\ SettingFrame(set_voice_command(on))
    BY <1>1, SetterFrames, LegalPayloads, FrameOf
  <1>6. ASSUME NEW o PROVE SettingFrame(set_orientation(o))
    BY <1>1, SetterFrames, LegalPayloads, FrameOf
  <1>7. ASSUME NEW slot \in ToSet(GestureSlots), NEW action \in Actions
        PROVE  SettingFrame(set_gesture(slot, action))
    <2>1. slot \in {7, 8, 9, 16, 17} /\ action \in DOMAIN GestureAction
      BY <1>2, Slots
    <2>2. Legal(slot, <<48 + GestureAction[action]>>)
      BY <2>1, LegalPayloads
    <2>3. SettingFrame([cmd |-> slot, data |-> <<48 + GestureAction[action]>>])
      BY <1>1, <2>1, <2>2, FrameOf
    <2> QED
      BY <2>3, SetterFrames
  <1> QED
    BY <1>3, <1>4, <1>5, <1>6, <1>7

\* A unit's setting frame is never junk.
LEMMA SettingFrameMeant ==
    ASSUME NEW frame, SettingFrame(frame)
    PROVE  frame \notin Junk
  <1>1. LET event == parse(frame)
        IN  \/ /\ event.kind = "Switch" /\ event.setting = frame.cmd
               /\ frame.cmd = 2 => event.value \in PLAUSIBLE_RECORD_SECONDS
            \/ event.kind = "GestureBinding" /\ ActionOf(event.raw) # {}
    BY ReportRead DEF SettingFrame
  <1> QED
    BY <1>1, DeviceAssumption, Codes DEF Senseless

\* The battery is read back from either encoding as it was sent.
LEMMA BatteryRead ==
    ASSUME NEW b \in [percent : 0 .. 100, charging : BOOLEAN],
           NEW frame \in {BatteryReply(b), BatteryPush(b)}
    PROVE  /\ parse(frame).kind = "Battery"
           /\ [percent |-> parse(frame).percent, charging |-> parse(frame).charging] = b
           /\ frame.cmd \in {23, 83}
           /\ frame \notin Junk
  <1>b. /\ b = [percent |-> b.percent, charging |-> b.charging]
        /\ b.percent \in 0 .. 100 /\ b.charging \in BOOLEAN
    OBVIOUS
  <1>c. raw_flag(b.charging) = 1 <=> b.charging
    BY <1>b DEF raw_flag
  <1> DEFINE p == b.percent
             f == raw_flag(b.charging)
             c == b.charging
  <1>h. p \in 0 .. 100 /\ (f = 1 <=> c) /\ c \in BOOLEAN /\ b = [percent |-> p, charging |-> c]
    BY <1>b, <1>c
  <1> HIDE DEF p, f, c
  <1>1. CASE frame = BatteryReply(b)
    <2> DEFINE tens == p \div 10
               ones == p % 10
               d == <<48 + tens, 48 + ones, f>>
    <2>1. frame = [cmd |-> 23, data |-> d]
      BY <1>1, Codes DEF BatteryReply, Digit0, p, f
    <2>2. tens \in 0 .. 10 /\ ones \in 0 .. 9 /\ tens * 10 + ones = p
      BY <1>h
    <2> HIDE DEF tens, ones
    <2>3. /\ Len(d) = 3 /\ d[1] - 48 = tens /\ d[2] - 48 = ones /\ d[3] = f
          /\ tens * 10 + ones = p /\ p <= 100
      BY <1>h, <2>2
    <2> HIDE DEF d
    <2>4. parse(frame) = battery_read(d)
      BY <2>1, ParseArms
    <2>5. parse(frame) = [kind |-> "Battery", percent |-> p, charging |-> f = 1, source |-> "ReadReply"]
      <3>1. /\ d[1] - 48 \in 0 .. 10 /\ d[2] - 48 \in 0 .. 9
            /\ (d[1] - 48) * 10 + (d[2] - 48) <= 100
            /\ (d[1] - 48) * 10 + (d[2] - 48) = p
        BY <2>2, <2>3
      <3>2. battery_read(d) =
                Checked(A.GetBattery, d, 3,
                        d[1] - 48 \in 0 .. 10 /\ d[2] - 48 \in 0 .. 9
                            /\ (d[1] - 48) * 10 + (d[2] - 48) <= 100,
                        [kind |-> "Battery", percent |-> (d[1] - 48) * 10 + (d[2] - 48),
                         charging |-> d[3] = 1, source |-> "ReadReply"])
        BY DEF battery_read, Digit0
      <3> QED
        BY <2>3, <2>4, <3>1, <3>2 DEF Checked
    <2>6. (f = 1) = c
      BY <1>h
    <2>7. [percent |-> parse(frame).percent, charging |-> parse(frame).charging] = b
      BY <1>h, <2>5, <2>6
    <2>8. parse(frame).kind = "Battery" /\ frame.cmd = 23
      BY <2>1, <2>5
    <2> QED
      BY <2>7, <2>8, DeviceAssumption DEF Senseless
  <1>2. CASE frame = BatteryPush(b)
    <2> DEFINE d == <<f, p>>
    <2>1. frame = [cmd |-> 83, data |-> d]
      BY <1>2, Codes DEF BatteryPush, p, f
    <2>3. Len(d) = 2 /\ d[1] = f /\ d[2] = p /\ p <= 100
      BY <1>h
    <2> HIDE DEF d
    <2>4. parse(frame) = battery_push(d)
      BY <2>1, ParseArms
    <2>5. parse(frame) = [kind |-> "Battery", percent |-> p, charging |-> f = 1, source |-> "Push"]
      BY <2>3, <2>4 DEF battery_push, Checked
    <2>6. (f = 1) = c
      BY <1>h
    <2>7. [percent |-> parse(frame).percent, charging |-> parse(frame).charging] = b
      BY <1>h, <2>5, <2>6
    <2>8. parse(frame).kind = "Battery" /\ frame.cmd = 83
      BY <2>1, <2>5
    <2> QED
      BY <2>7, <2>8, DeviceAssumption DEF Senseless
  <1> QED
    BY <1>1, <1>2

\* The volumes are read back as they were sent.
LEMMA VolumesRead ==
    ASSUME NEW v \in [System : 0 .. 255, Media : 0 .. 255, Call : 0 .. 255]
    PROVE  LET frame == VolumesReply(v)
               event == parse(frame)
           IN  /\ event.kind = "Volumes"
               /\ [System |-> event.System, Media |-> event.Media, Call |-> event.Call] = v
               /\ frame.cmd = 105
               /\ frame \notin Junk
  <1> DEFINE frame == VolumesReply(v)
             d == <<v.System, v.Media, v.Call>>
  <1>1. frame = [cmd |-> 105, data |-> d]
    BY Codes DEF VolumesReply
  <1>2. Len(d) = 3 /\ d[1] = v.System /\ d[2] = v.Media /\ d[3] = v.Call
    OBVIOUS
  <1> HIDE DEF d, frame
  <1>3. parse(frame) = volumes(d)
    BY <1>1, ParseArms
  <1>4. parse(frame) = [kind |-> "Volumes", System |-> v.System, Media |-> v.Media, Call |-> v.Call]
    BY <1>2, <1>3 DEF volumes, Checked
  <1>5. parse(frame).kind = "Volumes" /\ frame.cmd = 105
    BY <1>1, <1>4
  <1>6. v = [System |-> v.System, Media |-> v.Media, Call |-> v.Call]
    OBVIOUS
  <1>7. frame \notin Junk
    BY <1>5, DeviceAssumption DEF Senseless
  <1> QED
    BY <1>4, <1>5, <1>6, <1>7 DEF frame

-----------------------------------------------------------------------------
(* What the app knows of a subject, and what the frames in the air say.    *)

\* What the app keeps of the unit.
Subjects == Settings \cup {23, 105}

\* Which opcodes are about which subject.
LEMMA SubjectIs ==
    ASSUME NEW cmd
    PROVE  /\ cmd \in {23, 83} => Subject(cmd) = 23
           /\ cmd = 105 => Subject(cmd) = 105
           /\ cmd \in Settings => Subject(cmd) = cmd
           /\ cmd \notin Settings \cup {23, 83, 105} => Subject(cmd) = 0
           /\ Subject(cmd) = 23 => cmd \in {23, 83}
           /\ Subject(cmd) = 105 => cmd = 105
           /\ \A setting \in Settings : Subject(cmd) = setting => cmd = setting
           /\ Battery = 23 /\ Volumes = 105
  <1>1. 0 \notin Settings /\ 23 \notin Settings /\ 83 \notin Settings /\ 105 \notin Settings
    BY Order
  <1> QED
    BY <1>1, Codes DEF Subject, Battery, Volumes

\* The frames that report a subject of a unit as it is.
CurrentFrames(u, subject) ==
    {frame \in {BatteryReply(u.battery), BatteryPush(u.battery)} : subject = 23}
        \cup {frame \in {VolumesReply(u.volumes)} : subject = 105}
        \cup {frame \in {[cmd |-> subject, data |-> u.setting[subject]]} : subject \in Settings}

\* The i-th frame of a sequence means something about a subject.
About(frames, subject, i) == Subject(frames[i].cmd) = subject /\ frames[i] \notin Junk

\* What is held of the subject is nothing, or what writing back would not change.
SettledWith(u, held, read, subject) ==
    /\ subject = 23 => read.battery \in {None, u.battery}
    /\ subject = 105 => read.volumes \in {None, u.volumes}
    /\ subject \in Settings =>
           \/ held[subject] = None
           \/ Writes(subject, held[subject]) = CurrentFrames(u, subject)

\* Of a subject not known to be stale, the last frame in the air that means
\* something is true, or there is none and what is held is.
FreshWith(u, frames, held, read, old, subject) ==
    \/ subject \in old
    \/ /\ \A i \in DOMAIN frames : ~ About(frames, subject, i)
       /\ SettledWith(u, held, read, subject)
    \/ \E i \in DOMAIN frames :
           /\ About(frames, subject, i)
           /\ frames[i] \in CurrentFrames(u, subject)
           /\ \A j \in DOMAIN frames : j > i => ~ About(frames, subject, j)

\* The true reports of each subject.
LEMMA CurrentIs ==
    ASSUME NEW u
    PROVE  /\ CurrentFrames(u, 23) = {BatteryReply(u.battery), BatteryPush(u.battery)}
           /\ CurrentFrames(u, 105) = {VolumesReply(u.volumes)}
           /\ \A setting \in Settings :
                  CurrentFrames(u, setting) = {[cmd |-> setting, data |-> u.setting[setting]]}
  BY Order DEF CurrentFrames

\* Frames about something else join the air.
LEMMA OthersJoin ==
    ASSUME NEW S, NEW a \in Seq(S), NEW b \in Seq(S), NEW subject,
           \A k \in DOMAIN b : ~ About(b, subject, k),
           NEW u, NEW v, CurrentFrames(u, subject) \subseteq CurrentFrames(v, subject),
           NEW held, NEW read,
           SettledWith(u, held, read, subject) => SettledWith(v, held, read, subject),
           NEW old, NEW now, subject \in old => subject \in now,
           FreshWith(u, a, held, read, old, subject)
    PROVE  FreshWith(v, a \o b, held, read, now, subject)
  <1> DEFINE c == a \o b
             m == Len(a)
             n == Len(b)
  <1>1. /\ m \in Nat /\ n \in Nat
        /\ DOMAIN a = 1 .. m /\ DOMAIN b = 1 .. n
        /\ DOMAIN c = 1 .. m + n
        /\ \A i \in 1 .. m + n : c[i] = IF i <= m THEN a[i] ELSE b[i - m]
    BY ConcatProperties, LenProperties
  <1> HIDE DEF c, m, n
  <1>2. \A i \in 1 .. m + n : About(c, subject, i) <=> i \in 1 .. m /\ About(a, subject, i)
    <2> SUFFICES ASSUME NEW i \in 1 .. m + n
                 PROVE  About(c, subject, i) <=> i \in 1 .. m /\ About(a, subject, i)
      OBVIOUS
    <2>1. CASE i <= m
      <3>1. c[i] = a[i] /\ i \in 1 .. m
        BY <1>1, <2>1
      <3> QED
        BY <3>1 DEF About
    <2>2. CASE ~ (i <= m)
      <3>1. c[i] = b[i - m] /\ i - m \in 1 .. n /\ i \notin 1 .. m
        BY <1>1, <2>2
      <3>2. ~ About(b, subject, i - m)
        BY <1>1, <3>1
      <3> QED
        BY <3>1, <3>2 DEF About
    <2> QED
      BY <2>1, <2>2
  <1>3. CASE subject \in old
    BY <1>3 DEF FreshWith
  <1>4. CASE /\ \A i \in DOMAIN a : ~ About(a, subject, i)
             /\ SettledWith(u, held, read, subject)
    <2>1. \A i \in DOMAIN c : ~ About(c, subject, i)
      BY <1>1, <1>2, <1>4
    <2> QED
      BY <1>4, <2>1 DEF FreshWith, c
  <1>5. CASE \E i \in DOMAIN a :
                /\ About(a, subject, i)
                /\ a[i] \in CurrentFrames(u, subject)
                /\ \A j \in DOMAIN a : j > i => ~ About(a, subject, j)
    <2> PICK i \in DOMAIN a :
                /\ About(a, subject, i)
                /\ a[i] \in CurrentFrames(u, subject)
                /\ \A j \in DOMAIN a : j > i => ~ About(a, subject, j)
      BY <1>5
    <2>1. i \in 1 .. m /\ i \in DOMAIN c /\ c[i] = a[i]
      BY <1>1
    <2>2. About(c, subject, i) /\ c[i] \in CurrentFrames(v, subject)
      BY <1>1, <1>2, <2>1
    <2>3. \A j \in DOMAIN c : j > i => ~ About(c, subject, j)
      BY <1>1, <1>2
    <2> QED
      BY <2>1, <2>2, <2>3 DEF FreshWith, c
  <1> QED
    BY <1>3, <1>4, <1>5 DEF FreshWith

\* Frames join the air whose last about the subject is true.
LEMMA NewsJoins ==
    ASSUME NEW S, NEW a \in Seq(S), NEW b \in Seq(S), NEW subject, NEW u,
           NEW k \in DOMAIN b, About(b, subject, k), b[k] \in CurrentFrames(u, subject),
           \A j \in DOMAIN b : j > k => ~ About(b, subject, j),
           NEW held, NEW read, NEW old
    PROVE  FreshWith(u, a \o b, held, read, old, subject)
  <1> DEFINE c == a \o b
             m == Len(a)
             n == Len(b)
  <1>1. /\ m \in Nat /\ n \in Nat
        /\ DOMAIN a = 1 .. m /\ DOMAIN b = 1 .. n
        /\ DOMAIN c = 1 .. m + n
        /\ \A i \in 1 .. m + n : c[i] = IF i <= m THEN a[i] ELSE b[i - m]
    BY ConcatProperties, LenProperties
  <1> HIDE DEF c, m, n
  <1>2. /\ m + k \in DOMAIN c
        /\ c[m + k] = b[k]
    <2>1. k \in 1 .. n /\ (m + k) - m = k /\ ~ (m + k <= m) /\ m + k \in 1 .. m + n
      BY <1>1
    <2> QED
      BY <1>1, <2>1
  <1>3. ASSUME NEW j \in DOMAIN c, j > m + k
        PROVE  ~ About(c, subject, j)
    <2>1. j - m \in 1 .. n /\ j - m > k /\ c[j] = b[j - m]
      BY <1>1, <1>3
    <2>2. ~ About(b, subject, j - m)
      BY <1>1, <2>1
    <2> QED
      BY <2>1, <2>2 DEF About
  <1>4. About(c, subject, m + k)
    BY <1>2 DEF About
  <1> QED
    BY <1>2, <1>3, <1>4 DEF FreshWith, c

\* The first frame leaves the air, and says nothing of the subject.
LEMMA OthersLeave ==
    ASSUME NEW S, NEW a \in Seq(S), a # <<>>, NEW subject,
           ~ About(a, subject, 1),
           NEW u, NEW held, NEW read, NEW held2, NEW read2,
           NEW old, NEW now, subject \in old => subject \in now,
           SettledWith(u, held, read, subject) => SettledWith(u, held2, read2, subject) \/ subject \in now,
           FreshWith(u, a, held, read, old, subject)
    PROVE  FreshWith(u, Tail(a), held2, read2, now, subject)
  <1> DEFINE c == Tail(a)
             m == Len(a)
  <1>1. /\ m \in Nat \ {0}
        /\ DOMAIN a = 1 .. m
        /\ DOMAIN c = 1 .. m - 1
        /\ \A i \in 1 .. m - 1 : c[i] = a[i + 1]
    BY HeadTailProperties, LenProperties, EmptySeq
  <1> HIDE DEF c, m
  <1>2. \A i \in 1 .. m - 1 : About(c, subject, i) <=> About(a, subject, i + 1)
    BY <1>1 DEF About
  <1>3. CASE subject \in old
    BY <1>3 DEF FreshWith
  <1>4. CASE /\ \A i \in DOMAIN a : ~ About(a, subject, i)
             /\ SettledWith(u, held, read, subject)
    <2>1. \A i \in DOMAIN c : ~ About(c, subject, i)
      BY <1>1, <1>2, <1>4
    <2> QED
      BY <1>4, <2>1 DEF FreshWith, c
  <1>5. CASE \E i \in DOMAIN a :
                /\ About(a, subject, i)
                /\ a[i] \in CurrentFrames(u, subject)
                /\ \A j \in DOMAIN a : j > i => ~ About(a, subject, j)
    <2> PICK i \in DOMAIN a :
                /\ About(a, subject, i)
                /\ a[i] \in CurrentFrames(u, subject)
                /\ \A j \in DOMAIN a : j > i => ~ About(a, subject, j)
      BY <1>5
    <2>1. i # 1 /\ i - 1 \in 1 .. m - 1 /\ (i - 1) + 1 = i
      BY <1>1
    <2>2. c[i - 1] = a[i] /\ About(c, subject, i - 1)
      BY <1>1, <1>2, <2>1
    <2>3. ASSUME NEW j \in DOMAIN c, j > i - 1
          PROVE  ~ About(c, subject, j)
      <3>1. j \in 1 .. m - 1 /\ j + 1 \in DOMAIN a /\ j + 1 > i
        BY <1>1, <2>1, <2>3
      <3> QED
        BY <1>2, <3>1
    <2> QED
      BY <1>1, <2>1, <2>2, <2>3 DEF FreshWith, c
  <1> QED
    BY <1>3, <1>4, <1>5 DEF FreshWith

-----------------------------------------------------------------------------
(* The inductive invariant.                                                *)

LegalUnit(u) ==
    /\ u \in UnitState
    /\ \A setting \in Settings : Legal(setting, u.setting[setting])

\* The inductive invariant: the unit and what is held of it are in range, and what
\* is held is what the unit is at, up to what is stale or still to come.
DeviceInv ==
    /\ LegalUnit(unit)
    /\ Held
    /\ air \in Seq(Range(air))
    /\ reading = [battery |-> reading.battery, volumes |-> reading.volumes]
    /\ \A subject \in Subjects : FreshWith(unit, air, switches, reading, stale, subject)

\* A unit's reports are about their subject and mean something.
LEMMA ReportsMeant ==
    ASSUME NEW u, LegalUnit(u), NEW subject \in Subjects, NEW frame \in CurrentFrames(u, subject)
    PROVE  frame \notin Junk /\ Subject(frame.cmd) = subject
  <1>1. CASE subject = 23
    <2>1. u.battery \in [percent : 0 .. 100, charging : BOOLEAN]
      BY DEF LegalUnit, UnitState
    <2>2. frame \in {BatteryReply(u.battery), BatteryPush(u.battery)}
      BY <1>1, CurrentIs
    <2> QED
      BY <1>1, <2>1, <2>2, BatteryRead, SubjectIs
  <1>2. CASE subject = 105
    <2>1. u.volumes \in [System : 0 .. 255, Media : 0 .. 255, Call : 0 .. 255]
      BY DEF LegalUnit, UnitState
    <2>2. frame = VolumesReply(u.volumes)
      BY <1>2, CurrentIs
    <2>3. frame \notin Junk /\ frame.cmd = 105
      BY <2>1, <2>2, VolumesRead
    <2> QED
      BY <1>2, <2>3, SubjectIs
  <1>3. CASE subject \in Settings
    <2>1. frame = [cmd |-> subject, data |-> u.setting[subject]]
      BY <1>3, CurrentIs
    <2>2. Legal(subject, u.setting[subject])
      BY <1>3 DEF LegalUnit
    <2>3. SettingFrame(frame) /\ frame.cmd = subject
      BY <1>3, <2>1, <2>2, FrameOf
    <2> QED
      BY <1>3, <2>3, SettingFrameMeant, SubjectIs
  <1> QED
    BY <1>1, <1>2, <1>3 DEF Subjects

\* TrueReport is what CurrentFrames says of the unit at hand.
LEMMA TrueReports ==
    ASSUME LegalUnit(unit), NEW frame
    PROVE  /\ \A subject \in Subjects : frame \in CurrentFrames(unit, subject) => TrueReport(frame)
           /\ TrueReport(frame) =>
                  /\ Subject(frame.cmd) \in Subjects
                  /\ frame \in CurrentFrames(unit, Subject(frame.cmd))
                  /\ frame \notin Junk
  <1>1. ASSUME NEW subject \in Subjects, frame \in CurrentFrames(unit, subject)
        PROVE  TrueReport(frame)
    <2>1. CASE subject \in {23, 105}
      BY <1>1, <2>1, CurrentIs DEF TrueReport
    <2>2. CASE subject \in Settings
      <3>1. frame = [cmd |-> subject, data |-> unit.setting[subject]]
        BY <1>1, <2>2, CurrentIs
      <3>2. frame.cmd = subject
        BY <3>1
      <3> QED
        BY <2>2, <3>1, <3>2 DEF TrueReport, Report
    <2> QED
      BY <2>1, <2>2 DEF Subjects
  <1>2. ASSUME TrueReport(frame)
        PROVE  \E subject \in Subjects : frame \in CurrentFrames(unit, subject)
    <2>1. CASE frame.cmd \in Settings /\ frame = Report(frame.cmd)
      BY <2>1, CurrentIs DEF Report, Subjects
    <2>2. CASE frame \in {BatteryReply(unit.battery), BatteryPush(unit.battery)}
      BY <2>2, CurrentIs DEF Subjects
    <2>3. CASE frame = VolumesReply(unit.volumes)
      BY <2>3, CurrentIs DEF Subjects
    <2> QED
      BY <1>2, <2>1, <2>2, <2>3 DEF TrueReport
  <1>3. ASSUME TrueReport(frame)
        PROVE  /\ Subject(frame.cmd) \in Subjects
               /\ frame \in CurrentFrames(unit, Subject(frame.cmd))
               /\ frame \notin Junk
    BY <1>2, <1>3, ReportsMeant
  <1> QED
    BY <1>1, <1>3

\* A true report settles its subject.
LEMMA TrueReportSettles ==
    ASSUME LegalUnit(unit), Held, NEW frame, TrueReport(frame),
           reading = [battery |-> reading.battery, volumes |-> reading.volumes],
           ingest(parse(frame)), Note(AppEvent(parse(frame))),
           NEW subject, subject = Subject(frame.cmd)
    PROVE  SettledWith(unit, switches', reading', subject)
  <1> DEFINE event == parse(frame)
  <1>0. subject \in Subjects /\ frame \in CurrentFrames(unit, subject)
    BY TrueReports
  <1>o. 23 \notin Settings /\ 105 \notin Settings
    BY Order
  <1>1. CASE subject = 23
    <2>1. unit.battery \in [percent : 0 .. 100, charging : BOOLEAN]
      BY DEF LegalUnit, UnitState
    <2>2. /\ event.kind = "Battery"
          /\ [percent |-> event.percent, charging |-> event.charging] = unit.battery
      BY <1>0, <1>1, <2>1, CurrentIs, BatteryRead
    <2>3. AppEvent(event) = event
      BY <2>2, AppEventKind
    <2>4. reading'.battery = unit.battery
      BY <2>2, <2>3 DEF Note
    <2> QED
      BY <1>1, <1>o, <2>4 DEF SettledWith
  <1>2. CASE subject = 105
    <2>1. unit.volumes \in [System : 0 .. 255, Media : 0 .. 255, Call : 0 .. 255]
      BY DEF LegalUnit, UnitState
    <2>2. /\ event.kind = "Volumes"
          /\ [System |-> event.System, Media |-> event.Media, Call |-> event.Call] = unit.volumes
      BY <1>0, <1>2, <2>1, CurrentIs, VolumesRead
    <2>3. AppEvent(event) = event
      BY <2>2, AppEventKind
    <2>4. reading'.volumes = unit.volumes
      BY <2>2, <2>3 DEF Note
    <2> QED
      BY <1>2, <1>o, <2>4 DEF SettledWith
  <1>3. CASE subject \in Settings
    <2>1. frame = [cmd |-> subject, data |-> unit.setting[subject]] /\ frame.cmd = subject
      BY <1>0, <1>3, CurrentIs
    <2>2. Legal(subject, unit.setting[subject])
      BY <1>3 DEF LegalUnit
    <2>3. \/ /\ event.kind = "Switch" /\ event.setting = subject
             /\ subject = 2 => event.value \in PLAUSIBLE_RECORD_SECONDS
             /\ Writes(subject, event.value) = {frame}
          \/ /\ event.kind = "GestureBinding" /\ event.slot = subject
             /\ Writes(subject, event.raw) = {frame}
      BY <1>3, <2>1, <2>2, ReportRead
    <2>4. Writes(subject, switches'[subject]) = {frame}
      <3>1. CASE event.kind = "Switch"
        <4>0. event.setting = subject /\ (subject = 2 => event.value \in PLAUSIBLE_RECORD_SECONDS)
          BY <2>3, <3>1
        <4>a. event.setting = A.SetRecordDuration => event.value \in PLAUSIBLE_RECORD_SECONDS
          BY <4>0, Codes
        <4>b. switches' = [switches EXCEPT ![event.setting] = event.value]
          BY <3>1, <4>a DEF ingest
        <4>1. switches' = [switches EXCEPT ![subject] = event.value]
          BY <4>0, <4>b
        <4> QED
          BY <1>3, <2>3, <3>1, <4>1 DEF Held
      <3>2. CASE event.kind = "GestureBinding"
        <4>1. switches' = [switches EXCEPT ![subject] = event.raw]
          BY <2>3, <3>2 DEF ingest
        <4> QED
          BY <1>3, <2>3, <3>2, <4>1 DEF Held
      <3> QED
        BY <2>3, <3>1, <3>2
    <2>5. CurrentFrames(unit, subject) = {frame}
      BY <1>3, <2>1, CurrentIs
    <2> QED
      BY <1>3, <1>o, <2>4, <2>5 DEF SettledWith
  <1> QED
    BY <1>0, <1>1, <1>2, <1>3 DEF Subjects

\* Of a subject it is not about, or about which it means nothing, a frame leaves
\* what is held as it was, or the subject is stale.
LEMMA OthersKept ==
    ASSUME LegalUnit(unit), Held, NEW frame, NEW event, event = parse(frame),
           reading = [battery |-> reading.battery, volumes |-> reading.volumes],
           ingest(event), Note(AppEvent(event)),
           NEW subject \in Subjects, Subject(frame.cmd) # subject \/ frame \in Junk,
           event.kind = "GestureBinding" /\ ActionOf(event.raw) = {} /\ ~ TrueReport(frame) =>
               Subject(frame.cmd) \in stale'
    PROVE  SettledWith(unit, switches, reading, subject) =>
               SettledWith(unit, switches', reading', subject) \/ subject \in stale'
  <1>o. 23 \notin Settings /\ 105 \notin Settings
    BY Order
  <1>e. AppEvent(event).kind = event.kind
    BY AppEventKind
  <1>r. reading' = [battery |-> reading'.battery, volumes |-> reading'.volumes]
    BY DEF Note
  <1>1. CASE Subject(frame.cmd) # subject
    <2>1. subject = 23 => reading'.battery = reading.battery
      <3>1. subject = 23 => event.kind # "Battery"
        BY <1>1, SettingEvent, SubjectIs
      <3> QED
        BY <1>e, <3>1 DEF Note
    <2>2. subject = 105 => reading'.volumes = reading.volumes
      <3>1. subject = 105 => event.kind # "Volumes"
        BY <1>1, SettingEvent, SubjectIs
      <3> QED
        BY <1>e, <3>1 DEF Note
    <2>3. subject \in Settings => switches'[subject] = switches[subject]
      BY <1>1, IngestHolds, SubjectIs
    <2> QED
      BY <2>1, <2>2, <2>3 DEF SettledWith
  <1>2. CASE Subject(frame.cmd) = subject /\ frame \in Junk
    <2>1. Senseless(event)
      BY <1>2, DeviceAssumption
    <2>2. event.kind \in {"Malformed", "Switch", "GestureBinding"}
      BY <2>1 DEF Senseless
    <2>3. reading' = reading
      BY <1>e, <2>2 DEF Note
    <2>4. CASE event.kind = "Malformed"
      <3>1. switches' = switches
        BY <2>4, IngestHolds
      <3> QED
        BY <2>3, <3>1 DEF SettledWith
    <2>5. CASE event.kind = "Switch"
      <3>1. switches' = switches
        BY <2>1, <2>5 DEF Senseless, ingest
      <3> QED
        BY <2>3, <3>1 DEF SettledWith
    <2>6. CASE event.kind = "GestureBinding"
      <3>1. ActionOf(event.raw) = {} /\ ~ TrueReport(frame)
        BY <1>2, <2>1, <2>6, TrueReports DEF Senseless
      <3> QED
        BY <1>2, <2>6, <3>1
    <2> QED
      BY <2>2, <2>4, <2>5, <2>6
  <1> QED
    BY <1>1, <1>2

-----------------------------------------------------------------------------
(* Feed keeps it.                                                          *)

\* What one fed frame does, beyond the voice machine.
LEMMA FeedIs ==
    ASSUME Feed
    PROVE  LET frame == Head(air)
               event == parse(frame)
           IN  /\ air # <<>> /\ air' = Tail(air)
               /\ unit' = unit
               /\ Voice(frame, AppEvent(event))
               /\ ingest(event) /\ Note(AppEvent(event))
               /\ stale' = IF TrueReport(frame) /\ ~ Newer(Subject(frame.cmd))
                           THEN stale \ {Subject(frame.cmd)}
                           ELSE IF event.kind = "GestureBinding" /\ ActionOf(event.raw) = {}
                                THEN stale \cup {Subject(frame.cmd)}
                                ELSE stale
  <1> PICK event \in {parse(Head(air))} : \E told \in {AppEvent(event)} :
           /\ Voice(Head(air), told)
           /\ ingest(event)
           /\ Note(told)
           /\ stale' = IF TrueReport(Head(air)) /\ ~ Newer(Subject(Head(air).cmd))
                       THEN stale \ {Subject(Head(air).cmd)}
                       ELSE IF event.kind = "GestureBinding" /\ ActionOf(event.raw) = {}
                            THEN stale \cup {Subject(Head(air).cmd)}
                            ELSE stale
    BY DEF Feed
  <1>1. air # <<>> /\ air' = Tail(air) /\ unit' = unit
    BY DEF Feed
  <1>2. event = parse(Head(air))
    OBVIOUS
  <1> QED
    BY <1>1, <1>2

\* Feeding a frame leaves every subject fresh: the frame was the last word on the
\* subject, or was not and another is still to come, or was about another subject.
LEMMA FeedFresh ==
    ASSUME DeviceInv, Feed, NEW subject \in Subjects
    PROVE  FreshWith(unit', air', switches', reading', stale', subject)
  <1> DEFINE frame == Head(air)
             event == parse(frame)
             S == Range(air)
  <1>0. /\ LegalUnit(unit) /\ Held /\ air \in Seq(S)
        /\ reading = [battery |-> reading.battery, volumes |-> reading.volumes]
        /\ FreshWith(unit, air, switches, reading, stale, subject)
    BY DEF DeviceInv
  <1>1. /\ air # <<>> /\ air' = Tail(air) /\ unit' = unit
        /\ ingest(event) /\ Note(AppEvent(event))
        /\ stale' = IF TrueReport(frame) /\ ~ Newer(Subject(frame.cmd))
                    THEN stale \ {Subject(frame.cmd)}
                    ELSE IF event.kind = "GestureBinding" /\ ActionOf(event.raw) = {}
                         THEN stale \cup {Subject(frame.cmd)}
                         ELSE stale
    BY FeedIs
  <1>2. /\ frame = air[1]
        /\ Len(air) \in Nat \ {0} /\ DOMAIN air = 1 .. Len(air)
        /\ DOMAIN Tail(air) = 1 .. Len(air) - 1
        /\ \A i \in 1 .. Len(air) - 1 : Tail(air)[i] = air[i + 1]
    BY <1>0, <1>1, HeadTailProperties, LenProperties, EmptySeq
  <1>t. TrueReport(frame) => /\ frame \in CurrentFrames(unit, Subject(frame.cmd))
                             /\ frame \notin Junk
    BY <1>0, TrueReports
  <1> HIDE DEF frame, event, S
  <1>3. CASE ~ About(air, subject, 1)
    <2>1. Subject(frame.cmd) # subject \/ frame \in Junk
      BY <1>2, <1>3 DEF About
    <2>2. subject \in stale => subject \in stale'
      BY <1>1, <1>t, <2>1
    <2>3. event.kind = "GestureBinding" /\ ActionOf(event.raw) = {} /\ ~ TrueReport(frame) =>
              Subject(frame.cmd) \in stale'
      BY <1>1
    <2>4. SettledWith(unit, switches, reading, subject) =>
              SettledWith(unit, switches', reading', subject) \/ subject \in stale'
      BY <1>0, <1>1, <2>1, <2>3, OthersKept DEF event
    <2>5. FreshWith(unit, Tail(air), switches', reading', stale', subject)
      BY <1>0, <1>1, <1>3, <2>2, <2>4, OthersLeave
    <2> QED
      BY <1>1, <2>5
  <1>4. CASE About(air, subject, 1) /\ \E j \in 2 .. Len(air) : About(air, subject, j)
    <2>1. Subject(frame.cmd) = subject
      BY <1>2, <1>4 DEF About
    <2>2. Newer(subject)
      <3>1. PICK j \in 2 .. Len(air) : About(air, subject, j)
        BY <1>4
      <3> QED
        BY <1>2, <3>1 DEF Newer, Speaks, About
    <2>3. subject \in stale => subject \in stale'
      BY <1>1, <2>1, <2>2
    <2>4. CASE subject \in stale
      BY <2>3, <2>4 DEF FreshWith
    <2>5. CASE subject \notin stale
      <3>1. PICK i \in DOMAIN air :
                /\ About(air, subject, i)
                /\ air[i] \in CurrentFrames(unit, subject)
                /\ \A j \in DOMAIN air : j > i => ~ About(air, subject, j)
        BY <1>0, <1>2, <1>4, <2>5 DEF FreshWith
      <3>2. i # 1
        BY <1>2, <1>4, <3>1
      <3>3. /\ i - 1 \in DOMAIN Tail(air) /\ Tail(air)[i - 1] = air[i]
        BY <1>2, <3>2
      <3>4. About(Tail(air), subject, i - 1)
        BY <3>1, <3>3 DEF About
      <3>5. ASSUME NEW j \in DOMAIN Tail(air), j > i - 1
            PROVE  ~ About(Tail(air), subject, j)
        <4>1. Tail(air)[j] = air[j + 1] /\ j + 1 \in DOMAIN air /\ j + 1 > i
          BY <1>2, <3>5
        <4> QED
          BY <3>1, <4>1 DEF About
      <3> QED
        BY <1>1, <3>1, <3>3, <3>4, <3>5 DEF FreshWith
    <2> QED
      BY <2>4, <2>5
  <1>5. CASE About(air, subject, 1) /\ ~ \E j \in 2 .. Len(air) : About(air, subject, j)
    <2>1. Subject(frame.cmd) = subject
      BY <1>2, <1>5 DEF About
    <2>2. ~ Newer(subject)
      BY <1>2, <1>5 DEF Newer, Speaks, About
    <2>3. \A i \in DOMAIN Tail(air) : ~ About(Tail(air), subject, i)
      <3>1. ASSUME NEW i \in DOMAIN Tail(air)
            PROVE  ~ About(Tail(air), subject, i)
        <4>1. Tail(air)[i] = air[i + 1] /\ i + 1 \in 2 .. Len(air)
          BY <1>2
        <4> QED
          BY <1>5, <4>1 DEF About
      <3> QED
        BY <3>1
    <2>4. CASE TrueReport(frame)
      <3>1. SettledWith(unit, switches', reading', subject)
        BY <1>0, <1>1, <2>1, <2>4, TrueReportSettles DEF event
      <3> QED
        BY <1>1, <2>3, <3>1 DEF FreshWith
    <2>5. CASE ~ TrueReport(frame)
      <3>1. frame \notin CurrentFrames(unit, subject)
        BY <1>0, <2>5, TrueReports
      <3>2. subject \in stale
        <4>1. \A i \in DOMAIN air : About(air, subject, i) => i = 1
          BY <1>2, <1>5
        <4> QED
          BY <1>0, <1>2, <1>5, <3>1, <4>1 DEF FreshWith
      <3>3. subject \in stale'
        BY <1>1, <2>5, <3>2
      <3> QED
        BY <3>3 DEF FreshWith
    <2> QED
      BY <2>4, <2>5
  <1> QED
    BY <1>3, <1>4, <1>5

\* A sequence is one of its own elements.
LEMMA SameSeq ==
    ASSUME NEW S, NEW s \in Seq(S)
    PROVE  s \in Seq(Range(s))
  BY SeqOfRange

\* Feed keeps the invariant.
LEMMA FeedInv ==
    ASSUME DeviceInv, Feed
    PROVE  DeviceInv'
  <1>1. /\ air # <<>> /\ air' = Tail(air) /\ unit' = unit
        /\ ingest(parse(Head(air))) /\ Note(AppEvent(parse(Head(air))))
    BY FeedIs
  <1>2. air' \in Seq(Range(air'))
    BY <1>1, HeadTailProperties, SameSeq DEF DeviceInv
  <1>3. Held'
    BY <1>1, IngestHolds DEF DeviceInv
  <1>4. (reading = [battery |-> reading.battery, volumes |-> reading.volumes])'
    BY <1>1 DEF DeviceInv, Note
  <1>5. LegalUnit(unit')
    BY <1>1 DEF DeviceInv
  <1>6. \A subject \in Subjects : FreshWith(unit', air', switches', reading', stale', subject)
    BY FeedFresh
  <1> QED
    BY <1>2, <1>3, <1>4, <1>5, <1>6 DEF DeviceInv

-----------------------------------------------------------------------------
(* What the unit sends keeps it.                                           *)

\* A unit's state, field by field.
LEMMA UnitIs ==
    ASSUME NEW u \in UnitState
    PROVE  /\ u = [id |-> u.id, setting |-> u.setting, battery |-> u.battery, volumes |-> u.volumes]
           /\ u.id \in Nat
           /\ u.setting \in [Settings -> Seq(0 .. 255)]
           /\ u.battery \in [percent : 0 .. 100, charging : BOOLEAN]
           /\ u.volumes \in [System : 0 .. 255, Media : 0 .. 255, Call : 0 .. 255]
  BY DEF UnitState

\* A unit that is as another one in what a subject is about.
SameIn(u, v, subject) ==
    /\ subject = 23 => u.battery = v.battery
    /\ subject = 105 => u.volumes = v.volumes
    /\ subject \in Settings => u.setting[subject] = v.setting[subject]

\* Such units have the same true reports, and are settled alike.
LEMMA SameMeans ==
    ASSUME NEW u, NEW v, NEW subject \in Subjects, SameIn(u, v, subject), NEW held, NEW read
    PROVE  /\ CurrentFrames(u, subject) = CurrentFrames(v, subject)
           /\ SettledWith(u, held, read, subject) => SettledWith(v, held, read, subject)
  <1>1. CurrentFrames(u, subject) = CurrentFrames(v, subject)
    <2>1. CASE subject = 23
      <3>1. /\ CurrentFrames(u, 23) = {BatteryReply(u.battery), BatteryPush(u.battery)}
            /\ CurrentFrames(v, 23) = {BatteryReply(v.battery), BatteryPush(v.battery)}
        BY CurrentIs
      <3> QED
        BY <2>1, <3>1 DEF SameIn
    <2>2. CASE subject = 105
      <3>1. /\ CurrentFrames(u, 105) = {VolumesReply(u.volumes)}
            /\ CurrentFrames(v, 105) = {VolumesReply(v.volumes)}
        BY CurrentIs
      <3> QED
        BY <2>2, <3>1 DEF SameIn
    <2>3. CASE subject \in Settings
      <3>1. /\ CurrentFrames(u, subject) = {[cmd |-> subject, data |-> u.setting[subject]]}
            /\ CurrentFrames(v, subject) = {[cmd |-> subject, data |-> v.setting[subject]]}
        BY <2>3, CurrentIs
      <3> QED
        BY <2>3, <3>1 DEF SameIn
    <2> QED
      BY <2>1, <2>2, <2>3 DEF Subjects
  <1> QED
    BY <1>1 DEF SettledWith, SameIn

\* What the unit sends keeps the invariant, if it is told of every subject it
\* changes, or the subject is marked.
LEMMA SendInv ==
    ASSUME DeviceInv, NEW S, NEW frames \in Seq(S), Send(frames), LegalUnit(unit'),
           \A subject \in Subjects :
               \/ \E k \in DOMAIN frames :
                      /\ About(frames, subject, k)
                      /\ frames[k] \in CurrentFrames(unit', subject)
                      /\ \A j \in DOMAIN frames : j > k => ~ About(frames, subject, j)
               \/ /\ \A k \in DOMAIN frames : ~ About(frames, subject, k)
                  /\ subject \in stale => subject \in stale'
                  /\ subject \in stale' \/ SameIn(unit, unit', subject)
    PROVE  DeviceInv'
  <1> DEFINE T == Range(air) \cup S
  <1>1. air \in Seq(T) /\ frames \in Seq(T)
    BY SeqMonotonic DEF DeviceInv
  <1> HIDE DEF T
  <1>2. air' = air \o frames /\ switches' = switches /\ reading' = reading
    BY DEF Send
  <1>3. air' \in Seq(Range(air'))
    BY <1>1, <1>2, ConcatProperties, SameSeq
  <1>4. ASSUME NEW subject \in Subjects
        PROVE  FreshWith(unit', air', switches', reading', stale', subject)
    <2>1. CASE subject \in stale'
      BY <2>1 DEF FreshWith
    <2>2. CASE \E k \in DOMAIN frames :
                   /\ About(frames, subject, k)
                   /\ frames[k] \in CurrentFrames(unit', subject)
                   /\ \A j \in DOMAIN frames : j > k => ~ About(frames, subject, j)
      <3>1. FreshWith(unit', air \o frames, switches, reading, stale', subject)
        BY <1>1, <2>2, NewsJoins
      <3> QED
        BY <1>2, <3>1
    <2>3. CASE /\ \A k \in DOMAIN frames : ~ About(frames, subject, k)
               /\ subject \in stale => subject \in stale'
               /\ SameIn(unit, unit', subject)
      <3>1. /\ CurrentFrames(unit, subject) \subseteq CurrentFrames(unit', subject)
            /\ SettledWith(unit, switches, reading, subject) => SettledWith(unit', switches, reading, subject)
        BY <2>3, SameMeans
      <3>2. FreshWith(unit, air, switches, reading, stale, subject)
        BY DEF DeviceInv
      <3>3. FreshWith(unit', air \o frames, switches, reading, stale', subject)
        BY <1>1, <2>3, <3>1, <3>2, OthersJoin
      <3> QED
        BY <1>2, <3>3
    <2> QED
      BY <2>1, <2>2, <2>3
  <1> QED
    BY <1>2, <1>3, <1>4 DEF DeviceInv, Held

\* One frame.
LEMMA SendOneInv ==
    ASSUME DeviceInv, NEW frame, Send(<<frame>>), LegalUnit(unit'),
           \A subject \in Subjects :
               \/ frame \in CurrentFrames(unit', subject)
               \/ /\ Subject(frame.cmd) # subject
                  /\ subject \in stale => subject \in stale'
                  /\ subject \in stale' \/ SameIn(unit, unit', subject)
    PROVE  DeviceInv'
  <1> DEFINE frames == <<frame>>
  <1>1. frames \in Seq({frame}) /\ DOMAIN frames = {1} /\ frames[1] = frame
    OBVIOUS
  <1> HIDE DEF frames
  <1>2. ASSUME NEW subject \in Subjects
        PROVE  \/ \E k \in DOMAIN frames :
                      /\ About(frames, subject, k)
                      /\ frames[k] \in CurrentFrames(unit', subject)
                      /\ \A j \in DOMAIN frames : j > k => ~ About(frames, subject, j)
               \/ /\ \A k \in DOMAIN frames : ~ About(frames, subject, k)
                  /\ subject \in stale => subject \in stale'
                  /\ subject \in stale' \/ SameIn(unit, unit', subject)
    <2>1. CASE frame \in CurrentFrames(unit', subject)
      <3>1. frame \notin Junk /\ Subject(frame.cmd) = subject
        BY <2>1, ReportsMeant
      <3>2. About(frames, subject, 1) /\ frames[1] \in CurrentFrames(unit', subject)
        BY <1>1, <2>1, <3>1 DEF About
      <3> QED
        BY <1>1, <3>2
    <2>2. CASE /\ Subject(frame.cmd) # subject
               /\ subject \in stale => subject \in stale'
               /\ subject \in stale' \/ SameIn(unit, unit', subject)
      <3>1. \A k \in DOMAIN frames : ~ About(frames, subject, k)
        BY <1>1, <2>2 DEF About
      <3> QED
        BY <2>2, <3>1
    <2> QED
      BY <2>1, <2>2
  <1>3. Send(frames)
    BY DEF frames
  <1> QED
    BY <1>1, <1>2, <1>3, SendInv

\* Writing a legal payload keeps the invariant: the echo is the new state.
LEMMA WriteInv ==
    ASSUME DeviceInv, NEW frame, SettingFrame(frame), Write(frame)
    PROVE  DeviceInv'
  <1> DEFINE s == frame.cmd
             d == frame.data
  <1>1. s \in Settings /\ Legal(s, d) /\ frame = [cmd |-> s, data |-> d]
    BY DEF SettingFrame
  <1>2. unit' = [unit EXCEPT !.setting[s] = d] /\ Send(<<frame>>) /\ stale' = stale
    BY DEF Write
  <1> HIDE DEF s, d
  <1>3. unit \in UnitState /\ d \in Seq(0 .. 255)
    BY <1>1 DEF DeviceInv, LegalUnit, Legal
  <1>4. /\ unit' \in UnitState
        /\ unit'.setting = [unit.setting EXCEPT ![s] = d]
        /\ unit'.battery = unit.battery /\ unit'.volumes = unit.volumes
    <2> DEFINE f == [unit.setting EXCEPT ![s] = d]
    <2>1. unit.setting \in [Settings -> Seq(0 .. 255)]
      BY <1>3 DEF UnitState
    <2>2. f \in [Settings -> Seq(0 .. 255)]
      BY <1>1, <1>3, <2>1
    <2>3. unit' = [unit EXCEPT !.setting = f]
      BY <1>2
    <2> HIDE DEF f
    <2>b. unit' = [id |-> unit.id, setting |-> f, battery |-> unit.battery, volumes |-> unit.volumes]
      BY <1>3, <2>3, UnitIs
    <2>4. unit' \in UnitState /\ unit'.setting = f
          /\ unit'.battery = unit.battery /\ unit'.volumes = unit.volumes
      BY <1>3, <2>2, <2>b, UnitIs DEF UnitState
    <2> QED
      BY <2>4 DEF f
  <1>5. unit.setting \in [Settings -> Seq(0 .. 255)]
    BY <1>3 DEF UnitState
  <1>6. /\ unit'.setting[s] = d
        /\ \A t \in Settings : t # s => unit'.setting[t] = unit.setting[t]
    BY <1>1, <1>4, <1>5
  <1>7. LegalUnit(unit')
    BY <1>1, <1>4, <1>6 DEF DeviceInv, LegalUnit
  <1>8. frame \in CurrentFrames(unit', s)
    BY <1>1, <1>6, CurrentIs
  <1>9. Subject(frame.cmd) = s
    BY <1>1, SubjectIs DEF s
  <1>10. 23 \notin Settings /\ 105 \notin Settings
    BY Order
  <1>11. ASSUME NEW subject \in Subjects, subject # s
         PROVE  SameIn(unit, unit', subject)
    BY <1>4, <1>6, <1>11 DEF SameIn
  <1> QED
    BY <1>2, <1>7, <1>8, <1>9, <1>11, SendOneInv

\* A frame that is about nothing the app keeps.
LEMMA SendAsideInv ==
    ASSUME DeviceInv, NEW frame, Subject(frame.cmd) = 0, Send(<<frame>>), unit' = unit, stale' = stale
    PROVE  DeviceInv'
  <1>1. 0 \notin Subjects
    BY Order DEF Subjects
  <1>2. LegalUnit(unit')
    BY DEF DeviceInv
  <1>3. \A subject \in Subjects : Subject(frame.cmd) # subject /\ SameIn(unit, unit', subject)
    BY <1>1 DEF SameIn
  <1> QED
    BY <1>2, <1>3, SendOneInv

\* Every setter of the app writes a legal payload.
LEMMA ChangeSettingInv ==
    ASSUME DeviceInv, ChangeSetting
    PROVE  DeviceInv'
  <1>1. \E frame : SettingFrame(frame) /\ Write(frame)
    BY SettersLegal DEF ChangeSetting
  <1> QED
    BY <1>1, WriteInv

\* So does writing back what is held.
LEMMA WriteBackInv ==
    ASSUME DeviceInv, WriteBack
    PROVE  DeviceInv'
  <1>1. PICK setting \in Settings : \E frame \in Setters(setting, snapshot(switches)) : Write(frame)
    BY DEF WriteBack
  <1>2. PICK frame \in Setters(setting, snapshot(switches)) : Write(frame)
    BY <1>1
  <1>3. frame \in Writes(setting, switches[setting]) /\ Holdable(setting, switches[setting])
    BY <1>1, <1>2, SettersAre DEF DeviceInv, Held
  <1>4. SettingFrame(frame)
    BY <1>3, WritesLegal
  <1> QED
    BY <1>2, <1>4, WriteInv

\* The burst tells of each setting once, and truly.
LEMMA ReadSettingsInv ==
    ASSUME DeviceInv, ReadSettings
    PROVE  DeviceInv'
  <1> DEFINE order == <<1, 2, 4, 6, 7, 8, 9, 16, 17, 97>>
             frames == Burst
  <1>1. SWITCH_STATE_BURST_ORDER = order
    BY Order
  <1>2. /\ DOMAIN order = 1 .. 10
        /\ \A k \in 1 .. 10 : order[k] \in Settings
        /\ \A s \in Settings : \E k \in 1 .. 10 : order[k] = s /\ \A j \in 1 .. 10 : j > k => order[j] # s
    <2>1. /\ order[1] = 1 /\ order[2] = 2 /\ order[3] = 4 /\ order[4] = 6 /\ order[5] = 7
          /\ order[6] = 8 /\ order[7] = 9 /\ order[8] = 16 /\ order[9] = 17 /\ order[10] = 97
          /\ DOMAIN order = 1 .. 10
      OBVIOUS
    <2> HIDE DEF order
    <2>2. \A k \in 1 .. 10 : k \in {1, 2, 3, 4, 5, 6, 7, 8, 9, 10}
      OBVIOUS
    <2>3. \A j, k \in 1 .. 10 : order[j] = order[k] => j = k
      BY <2>1, <2>2
    <2>4. \A s \in Settings : \E k \in 1 .. 10 : order[k] = s
      BY <2>1, Order
    <2>5. \A k \in 1 .. 10 : order[k] \in Settings
      BY <2>1, <2>2, Order
    <2>6. \A j, k \in 1 .. 10 : j > k => j # k
      OBVIOUS
    <2> QED
      BY <2>1, <2>3, <2>4, <2>5, <2>6
  <1> HIDE DEF order
  <1>3. frames = [k \in 1 .. 10 |-> [cmd |-> order[k], data |-> unit.setting[order[k]]]]
    BY <1>1, <1>2 DEF Burst, Report
  <1>4. /\ frames \in Seq(Range(frames)) /\ DOMAIN frames = 1 .. 10
        /\ \A k \in 1 .. 10 : frames[k] = [cmd |-> order[k], data |-> unit.setting[order[k]]]
    BY <1>3 DEF Range
  <1> HIDE DEF frames
  <1>5. Send(frames) /\ unit' = unit /\ stale' = stale
    BY DEF ReadSettings, frames
  <1>6. LegalUnit(unit')
    BY <1>5 DEF DeviceInv
  <1>7. \A k \in 1 .. 10 : Subject(frames[k].cmd) = order[k] /\ frames[k].cmd = order[k]
    BY <1>2, <1>4, SubjectIs
  <1>8. ASSUME NEW subject \in Settings
        PROVE  \E k \in DOMAIN frames :
                   /\ About(frames, subject, k)
                   /\ frames[k] \in CurrentFrames(unit', subject)
                   /\ \A j \in DOMAIN frames : j > k => ~ About(frames, subject, j)
    <2>1. PICK k \in 1 .. 10 : order[k] = subject /\ \A j \in 1 .. 10 : j > k => order[j] # subject
      BY <1>2
    <2>2. frames[k] \in CurrentFrames(unit', subject)
      BY <1>4, <1>5, <2>1, CurrentIs
    <2>3. About(frames, subject, k)
      BY <1>6, <2>2, ReportsMeant DEF About, Subjects
    <2>4. \A j \in DOMAIN frames : j > k => ~ About(frames, subject, j)
      BY <1>4, <1>7, <2>1 DEF About
    <2> QED
      BY <1>4, <2>2, <2>3, <2>4
  <1>9. ASSUME NEW subject \in {23, 105}
        PROVE  \A k \in DOMAIN frames : ~ About(frames, subject, k)
    <2>1. subject \notin Settings
      BY Order
    <2> QED
      BY <1>2, <1>4, <1>7, <2>1 DEF About
  <1>10. \A subject \in {23, 105} : SameIn(unit, unit', subject)
    BY <1>5 DEF SameIn
  <1>11. ASSUME NEW subject \in Subjects
         PROVE  \/ \E k \in DOMAIN frames :
                       /\ About(frames, subject, k)
                       /\ frames[k] \in CurrentFrames(unit', subject)
                       /\ \A j \in DOMAIN frames : j > k => ~ About(frames, subject, j)
                \/ /\ \A k \in DOMAIN frames : ~ About(frames, subject, k)
                   /\ subject \in stale => subject \in stale'
                   /\ subject \in stale' \/ SameIn(unit, unit', subject)
    <2>1. CASE subject \in Settings
      BY <1>8, <2>1
    <2>2. CASE subject \in {23, 105}
      BY <1>5, <1>9, <1>10, <2>2
    <2> QED
      BY <2>1, <2>2 DEF Subjects
  <1> QED
    BY <1>4, <1>5, <1>6, <1>11, SendInv

\* The reply to a battery read is true.
LEMMA ReadBatteryInv ==
    ASSUME DeviceInv, ReadBattery
    PROVE  DeviceInv'
  <1> DEFINE frame == BatteryReply(unit.battery)
  <1>1. Send(<<frame>>) /\ unit' = unit /\ stale' = stale
    BY DEF ReadBattery
  <1>2. LegalUnit(unit')
    BY <1>1 DEF DeviceInv
  <1>3. frame \in CurrentFrames(unit', 23) /\ 23 \in Subjects
    BY <1>1, CurrentIs DEF Subjects
  <1>4. Subject(frame.cmd) = 23
    BY <1>2, <1>3, ReportsMeant
  <1> HIDE DEF frame
  <1>5. \A subject \in Subjects : SameIn(unit, unit', subject)
    BY <1>1 DEF SameIn
  <1> QED
    BY <1>1, <1>2, <1>3, <1>4, <1>5, SendOneInv

\* So is the reply to a volumes read.
LEMMA ReadVolumesInv ==
    ASSUME DeviceInv, ReadVolumes
    PROVE  DeviceInv'
  <1> DEFINE frame == VolumesReply(unit.volumes)
  <1>1. Send(<<frame>>) /\ unit' = unit /\ stale' = stale
    BY DEF ReadVolumes
  <1>2. LegalUnit(unit')
    BY <1>1 DEF DeviceInv
  <1>3. frame \in CurrentFrames(unit', 105) /\ 105 \in Subjects
    BY <1>1, CurrentIs DEF Subjects
  <1>4. Subject(frame.cmd) = 105
    BY <1>2, <1>3, ReportsMeant
  <1> HIDE DEF frame
  <1>5. \A subject \in Subjects : SameIn(unit, unit', subject)
    BY <1>1 DEF SameIn
  <1> QED
    BY <1>1, <1>2, <1>3, <1>4, <1>5, SendOneInv

\* The pushed battery is the new one.
LEMMA BatteryChangesInv ==
    ASSUME DeviceInv, BatteryChanges
    PROVE  DeviceInv'
  <1>1. PICK percent \in Percents, charging \in BOOLEAN :
            LET b == [percent |-> percent, charging |-> charging]
            IN  unit' = [unit EXCEPT !.battery = b] /\ Send(<<BatteryPush(b)>>) /\ UNCHANGED stale
    BY DEF BatteryChanges
  <1> DEFINE b == [percent |-> percent, charging |-> charging]
             frame == BatteryPush(b)
  <1>2. b \in [percent : 0 .. 100, charging : BOOLEAN]
    BY DeviceAssumption
  <1> HIDE DEF b
  <1>3. unit' = [unit EXCEPT !.battery = b] /\ Send(<<frame>>) /\ stale' = stale
    BY <1>1 DEF b
  <1>4. unit \in UnitState
    BY DEF DeviceInv, LegalUnit
  <1>5. /\ unit' \in UnitState /\ unit'.battery = b
        /\ unit'.setting = unit.setting /\ unit'.volumes = unit.volumes
    <2>1. unit' = [id |-> unit.id, setting |-> unit.setting, battery |-> b, volumes |-> unit.volumes]
      BY <1>3, <1>4, UnitIs
    <2> QED
      BY <1>2, <1>4, <2>1, UnitIs DEF UnitState
  <1>6. LegalUnit(unit')
    BY <1>5 DEF DeviceInv, LegalUnit
  <1>7. frame \in CurrentFrames(unit', 23) /\ 23 \in Subjects
    BY <1>5, CurrentIs DEF Subjects
  <1>8. Subject(frame.cmd) = 23
    BY <1>6, <1>7, ReportsMeant
  <1> HIDE DEF frame
  <1>9. \A subject \in Subjects : subject # 23 => SameIn(unit, unit', subject)
    BY <1>5 DEF SameIn
  <1> QED
    BY <1>3, <1>6, <1>7, <1>8, <1>9, SendOneInv

\* A volume's echo says nothing, so the volumes are marked.
LEMMA SetVolumeInv ==
    ASSUME DeviceInv, SetVolume
    PROVE  DeviceInv'
  <1>1. PICK channel \in DOMAIN VolumeChannel :
            /\ unit' = [unit EXCEPT !.volumes[channel] = 9]
            /\ Send(<<set_volume(channel, 9)>>)
            /\ stale' = stale \cup {Volumes}
    BY DEF SetVolume
  <1> DEFINE frame == set_volume(channel, 9)
             v == [unit.volumes EXCEPT ![channel] = 9]
  <1>2. Subject(frame.cmd) = 0
    <2>1. AppCommand["SetVolume"] = 112
      BY DEF AppCommand
    <2>2. frame.cmd = 112
      BY <2>1 DEF set_volume, Command
    <2> QED
      BY <2>2, SubjectIs, Order
  <1> HIDE DEF frame
  <1>3. unit \in UnitState /\ channel \in {"System", "Media", "Call"}
    BY DEF DeviceInv, LegalUnit, VolumeChannel
  <1>4. /\ unit' \in UnitState
        /\ unit'.setting = unit.setting /\ unit'.battery = unit.battery
    <2>1. unit.volumes \in [System : 0 .. 255, Media : 0 .. 255, Call : 0 .. 255]
      BY <1>3 DEF UnitState
    <2>2. v \in [System : 0 .. 255, Media : 0 .. 255, Call : 0 .. 255]
      BY <1>3, <2>1
    <2>3. unit' = [unit EXCEPT !.volumes = v]
      BY <1>1
    <2> HIDE DEF v
    <2>4. unit' = [id |-> unit.id, setting |-> unit.setting, battery |-> unit.battery, volumes |-> v]
      BY <1>3, <2>3, UnitIs
    <2>5. /\ unit'.setting = unit.setting /\ unit'.battery = unit.battery
          /\ unit'.id = unit.id /\ unit'.volumes = v
      BY <2>4
    <2>6. /\ unit.id \in Nat /\ unit.setting \in [Settings -> Seq(0 .. 255)]
          /\ unit.battery \in [percent : 0 .. 100, charging : BOOLEAN]
      BY <1>3, UnitIs
    <2>7. unit' \in UnitState
      BY <2>2, <2>4, <2>6 DEF UnitState
    <2> QED
      BY <2>5, <2>7
  <1>5. LegalUnit(unit')
    BY <1>4 DEF DeviceInv, LegalUnit
  <1>6. ASSUME NEW subject \in Subjects
        PROVE  /\ Subject(frame.cmd) # subject
               /\ subject \in stale => subject \in stale'
               /\ subject \in stale' \/ SameIn(unit, unit', subject)
    <2>1. 0 \notin Subjects
      BY Order DEF Subjects
    <2>2. Volumes = 105
      BY SubjectIs
    <2> QED
      BY <1>1, <1>2, <1>4, <2>1, <2>2 DEF SameIn
  <1>7. Send(<<frame>>)
    BY <1>1 DEF frame
  <1> QED
    BY <1>5, <1>6, <1>7, SendOneInv

-----------------------------------------------------------------------------
(* Losses, faults and another unit.                                        *)

\* The opcodes that are about something the app keeps.
Tracked == Settings \cup {23, 83, 105}

\* The echoes of the commands that take a flag.
EchoesOf(b) ==
    {take_photo(b), voice_recording(b), switch_music(b), play_pause(b), volume_step(b),
     answer_hangup(b), set_offline_voice_language(b), enter_upgrade(b)}

\* The frames of the microphone, and those the app keeps nothing of.
LEMMA AsideFrames ==
    /\ \A frame \in VoiceFrames : Subject(frame.cmd) = 0
    /\ \A frame \in Untracked : Subject(frame.cmd) = 0
  <1>n. \A name, payload : Command(name, payload).cmd = AppCommand[name]
    BY DEF Command
  <1>t. \A cmd : cmd \notin Tracked => Subject(cmd) = 0
    BY SubjectIs DEF Tracked
  <1>v. ASSUME NEW frame \in VoiceFrames
        PROVE  frame.cmd \notin Tracked
    <2>1. frame.cmd \in {U.VoiceUploadStart, U.VoiceData, U.VoiceUploadEnd, U.AbandonVoice}
      BY DEF VoiceFrames
    <2>2. frame.cmd \in {151, 70, 153, 73}
      BY <2>1, Codes
    <2> QED
      BY <2>2, Order DEF Tracked
  <1>1. /\ AppCommand["StartVideo"] = 35 /\ AppCommand["StopVideo"] = 36
        /\ AppCommand["RetransmitVoice"] = 87 /\ AppCommand["InterruptVoice"] = 86
        /\ AppCommand["FactoryReset"] = 20 /\ AppCommand["Reboot"] = 96
        /\ AppCommand["TakePhoto"] = 34 /\ AppCommand["VoiceRecording"] = 52
        /\ AppCommand["OpenWifiLive"] = 103 /\ AppCommand["OpenWifiFiles"] = 57
        /\ AppCommand["FileDownloadComplete"] = 68 /\ AppCommand["SwitchMusic"] = 48
        /\ AppCommand["PlayPause"] = 49 /\ AppCommand["Volume"] = 50
        /\ AppCommand["AnswerHangup"] = 51 /\ AppCommand["OfflineVoiceLang"] = 98
        /\ AppCommand["SendPhoneTime"] = 89 /\ AppCommand["EnterUpgrade"] = 99
        /\ AppCommand["SendIspVersion"] = 101
        /\ AppCommand["GetFileCount"] = 64 /\ AppCommand["GetVoiceDisableState"] = 113
        /\ AppCommand["GetDeviceStatus"] = 69 /\ AppCommand["GetVersions"] = 85
        /\ AppCommand["GetProjectName"] = 100 /\ AppCommand["GetCapabilities"] = 149
    BY DEF AppCommand
  <1> DEFINE Loose == {35, 36, 87, 86, 20, 96, 34, 52, 103, 57, 68, 48, 49, 50, 51, 98, 89, 99, 101,
                       64, 113, 69, 85, 100, 149, 37, 66, 81, 82, 150, 254}
  <1>2. Loose \cap Tracked = {}
    BY Order DEF Tracked
  <1>3. \A frame \in Echoed : frame.cmd \in Loose
    <2>0. \A name : bare(name).cmd = AppCommand[name]
      BY DEF bare, Command
    <2>1. \A name \in Bare : bare(name).cmd \in Loose
      BY <2>0, <1>1 DEF Bare
    <2>2. \A b \in BOOLEAN : \A frame \in EchoesOf(b) : frame.cmd \in Loose
      BY <1>n, <1>1 DEF EchoesOf, take_photo, voice_recording, switch_music, play_pause,
             volume_step, answer_hangup, set_offline_voice_language, enter_upgrade
    <2>3. \A frame \in {file_download_complete, file_download_partial(2), power_off_isp,
                        send_phone_time(2026, 7, 27, 18, 40, 18), send_isp_version(1, 2, 3)} :
              frame.cmd \in Loose
      BY <1>n, <1>1 DEF file_download_complete, file_download_partial, power_off_isp,
             send_phone_time, send_isp_version
    <2>4. Echoed = {bare(name) : name \in Bare} \cup (UNION {EchoesOf(b) : b \in BOOLEAN})
              \cup {file_download_complete, file_download_partial(2), power_off_isp,
                    send_phone_time(2026, 7, 27, 18, 40, 18), send_isp_version(1, 2, 3)}
      BY DEF Echoed, EchoesOf
    <2>5. \A frame \in {bare(name) : name \in Bare} : frame.cmd \in Loose
      BY <2>1
    <2>6. \A frame \in UNION {EchoesOf(b) : b \in BOOLEAN} : frame.cmd \in Loose
      BY <2>2
    <2>7. \A x, y, z : (\A e \in x : e.cmd \in Loose) /\ (\A e \in y : e.cmd \in Loose)
              /\ (\A e \in z : e.cmd \in Loose) => \A e \in x \cup y \cup z : e.cmd \in Loose
      OBVIOUS
    <2> HIDE DEF Loose
    <2> QED
      BY <2>3, <2>4, <2>5, <2>6, <2>7
  <1>4. \A live, p2p \in BOOLEAN : open_wifi(live, p2p).cmd \in Loose
    BY <1>n, <1>1 DEF open_wifi
  <1>5. \A name \in Reads \ {"GetSwitchStates", "GetVolumes", "GetBattery"} :
            Command(name, <<0>>).cmd \in Loose
    BY <1>n, <1>1 DEF Reads
  <1>6a. \A frame \in {[cmd |-> A.GetVersions, data |-> <<1, 2, 3, 4, 5, 6, 7>>],
              [cmd |-> A.GetProjectName, data |-> <<84, 49, 0, 0, 48, 51, 48, 51>>],
              [cmd |-> U.WifiName, data |-> <<32, 71, 0, 200>>],
              [cmd |-> U.ActionSync, data |-> [i \in 1 .. 10 |-> raw_flag(i = 4)]],
              [cmd |-> U.ThumbnailCount, data |-> <<1, 2>>],
              [cmd |-> A.GetCapabilities, data |-> <<0, 0, 31, 255>>],
              [cmd |-> U.CancelAiBroadcast, data |-> <<>>],
              [cmd |-> U.HdImageFailed, data |-> <<>>],
              [cmd |-> U.IspUpgradeDone, data |-> <<1>>],
              [cmd |-> 254, data |-> <<1>>]} : 
                  frame.cmd \in {A.GetVersions, A.GetProjectName, U.WifiName, U.ActionSync, U.ThumbnailCount,
                                A.GetCapabilities, U.CancelAiBroadcast, U.HdImageFailed,
                                U.IspUpgradeDone, 254}
    OBVIOUS
  <1>6b. {A.GetVersions, A.GetProjectName, U.WifiName, U.ActionSync, U.ThumbnailCount,
          A.GetCapabilities, U.CancelAiBroadcast, U.HdImageFailed, U.IspUpgradeDone, 254} \subseteq Loose
    BY Codes
  <1> HIDE DEF Loose
  <1>7. \A frame \in Untracked : frame.cmd \in Loose
    BY <1>3, <1>4, <1>5, <1>6a, <1>6b DEF Untracked
  <1> QED
    BY <1>t, <1>v, <1>2, <1>7

\* Those frames keep the invariant.
LEMMA AsideInv ==
    ASSUME DeviceInv, Speak \/ Mention
    PROVE  DeviceInv'
  <1>1. \E frame \in VoiceFrames \cup Untracked : Send(<<frame>>) /\ unit' = unit /\ stale' = stale
    BY DEF Speak, Mention
  <1> QED
    BY <1>1, AsideFrames, SendAsideInv

\* A lost frame marks its subject.
LEMMA LoseInv ==
    ASSUME DeviceInv, Lose
    PROVE  DeviceInv'
  <1>1. /\ air # <<>> /\ air' = Tail(air)
        /\ stale' = stale \cup ({Subject(Head(air).cmd)} \ {0})
        /\ unit' = unit /\ switches' = switches /\ reading' = reading
    BY DEF Lose, Fault
  <1>2. air \in Seq(Range(air))
    BY DEF DeviceInv
  <1>3. air' \in Seq(Range(air'))
    BY <1>1, <1>2, HeadTailProperties, SameSeq
  <1>4. ASSUME NEW subject \in Subjects
        PROVE  FreshWith(unit', air', switches', reading', stale', subject)
    <2>0. subject # 0 /\ Head(air) = air[1]
      BY <1>1, <1>2, Order DEF Subjects
    <2>1. CASE Subject(Head(air).cmd) = subject
      BY <1>1, <2>0, <2>1 DEF FreshWith
    <2>2. CASE Subject(Head(air).cmd) # subject
      <3>1. ~ About(air, subject, 1)
        BY <2>0, <2>2 DEF About
      <3>2. /\ FreshWith(unit, air, switches, reading, stale, subject)
            /\ subject \in stale => subject \in stale'
        BY <1>1 DEF DeviceInv
      <3>3. FreshWith(unit, Tail(air), switches, reading, stale', subject)
        BY <1>1, <1>2, <3>1, <3>2, OthersLeave
      <3> QED
        BY <1>1, <3>3
    <2> QED
      BY <2>1, <2>2
  <1> QED
    BY <1>1, <1>3, <1>4 DEF DeviceInv, Held

\* Junk says nothing that is taken for the last word.
LEMMA GlitchInv ==
    ASSUME DeviceInv, Glitch
    PROVE  DeviceInv'
  <1>1. PICK frame \in Junk : air' = Append(air, frame)
    BY DEF Glitch
  <1>2. unit' = unit /\ switches' = switches /\ reading' = reading /\ stale' = stale
    BY DEF Glitch, Fault
  <1> DEFINE frames == <<frame>>
             S == Range(air) \cup {frame}
  <1>3. frames \in Seq({frame}) /\ frames[1] = frame /\ DOMAIN frames = {1}
    OBVIOUS
  <1> HIDE DEF frames
  <1>4. air \in Seq(S) /\ frames \in Seq(S)
    BY <1>3, SeqMonotonic DEF DeviceInv
  <1>5. frame \in S
    OBVIOUS
  <1> HIDE DEF S
  <1>6. air' = air \o frames
    BY <1>1, <1>4, <1>5, AppendIsConcat DEF frames
  <1>7. air' \in Seq(Range(air'))
    BY <1>4, <1>6, ConcatProperties, SameSeq
  <1>8. ASSUME NEW subject \in Subjects
        PROVE  FreshWith(unit', air', switches', reading', stale', subject)
    <2>1. \A k \in DOMAIN frames : ~ About(frames, subject, k)
      BY <1>3 DEF About
    <2>2. FreshWith(unit, air, switches, reading, stale, subject)
      BY DEF DeviceInv
    <2>3. FreshWith(unit, air \o frames, switches, reading, stale, subject)
      BY <1>4, <2>1, <2>2, OthersJoin
    <2> QED
      BY <1>2, <1>6, <2>3
  <1> QED
    BY <1>2, <1>7, <1>8 DEF DeviceInv, Held

\* Nothing is known of a unit that has just connected.
LEMMA Unknown ==
    ASSUME NEW u \in Units, NEW subject \in Subjects
    PROVE  LegalUnit(u) /\ FreshWith(u, <<>>, Nothing, Unread, {}, subject)
  <1>1. LegalUnit(u)
    BY DeviceAssumption DEF LegalUnit
  <1>2. DOMAIN <<>> = {}
    OBVIOUS
  <1>3. SettledWith(u, Nothing, Unread, subject)
    BY DEF SettledWith, Nothing, Unread
  <1> QED
    BY <1>1, <1>2, <1>3 DEF FreshWith

\* The empty accumulator and the empty readings are in range.
LEMMA NothingHeld ==
    /\ Nothing = [setting \in Settings |-> Nothing[setting]]
    /\ \A setting \in Settings : Holdable(setting, Nothing[setting])
    /\ Unread = [battery |-> Unread.battery, volumes |-> Unread.volumes]
    /\ <<>> \in Seq(Range(<<>>))
  BY DEF Nothing, Unread, Holdable

\* Another unit: everything held of the first one is forgotten.
LEMMA ReconnectInv ==
    ASSUME DeviceInv, Reconnect
    PROVE  DeviceInv'
  <1>1. /\ unit' \in Units /\ air' = <<>> /\ reading' = Unread /\ stale' = {}
        /\ switches' = Nothing
    BY DEF Reconnect
  <1>2. Held' /\ air' \in Seq(Range(air'))
    BY <1>1, NothingHeld DEF Held
  <1>3. reading' = [battery |-> reading'.battery, volumes |-> reading'.volumes]
    BY <1>1, NothingHeld
  <1>4. LegalUnit(unit')
    BY <1>1, DeviceAssumption DEF LegalUnit
  <1>5. \A subject \in Subjects : FreshWith(unit', air', switches', reading', stale', subject)
    BY <1>1, Unknown
  <1> QED
    BY <1>2, <1>3, <1>4, <1>5 DEF DeviceInv

\* Nothing is held at the start.
LEMMA DeviceInitInv == DeviceInit => DeviceInv
  <1> SUFFICES ASSUME DeviceInit PROVE DeviceInv
    OBVIOUS
  <1>1. unit \in Units /\ air = <<>> /\ reading = Unread /\ stale = {} /\ switches = Nothing
    BY DEF DeviceInit
  <1>2. Held /\ air \in Seq(Range(air))
    BY <1>1, NothingHeld DEF Held
  <1>3. reading = [battery |-> reading.battery, volumes |-> reading.volumes]
    BY <1>1, NothingHeld
  <1>4. LegalUnit(unit)
    BY <1>1, DeviceAssumption DEF LegalUnit
  <1>5. \A subject \in Subjects : FreshWith(unit, air, switches, reading, stale, subject)
    BY <1>1, Unknown
  <1> QED
    BY <1>2, <1>3, <1>4, <1>5 DEF DeviceInv

\* Every step keeps the invariant.
LEMMA DeviceNextInv == DeviceInv /\ [DeviceNext]_deviceVars => DeviceInv'
  <1> SUFFICES ASSUME DeviceInv, [DeviceNext]_deviceVars PROVE DeviceInv'
    OBVIOUS
  <1>1. CASE UNCHANGED deviceVars
    BY <1>1 DEF deviceVars, device, DeviceInv, Held
  <1>2. CASE Hush
    BY <1>2 DEF Hush, DeviceInv, Held
  <1> QED
    BY <1>1, <1>2, FeedInv, ChangeSettingInv, WriteBackInv, ReadSettingsInv, ReadBatteryInv,
       ReadVolumesInv, BatteryChangesInv, SetVolumeInv, AsideInv, LoseInv, GlitchInv, ReconnectInv
       DEF DeviceNext

\* DeviceInv always holds.
LEMMA DeviceAlways == DeviceSpec => []DeviceInv
  BY DeviceInitInv, DeviceNextInv, PTL DEF DeviceSpec

\* A settings screen that is_complete says is synced shows the unit's settings, but for
\* those whose last report was lost or is on its way; also after another unit connected.
THEOREM SettingsAreTrue == DeviceSpec => []SyncedMeansIt
  <1>1. DeviceInv => SyncedMeansIt
    <2> SUFFICES ASSUME DeviceInv, is_complete, NEW setting \in Settings \ stale, ~ InFlight(setting)
                 PROVE  Setters(setting, snapshot(switches)) = {Report(setting)}
      BY DEF SyncedMeansIt
    <2>1. FreshWith(unit, air, switches, reading, stale, setting) /\ setting \in Settings
      BY DEF DeviceInv, Subjects
    <2>2. \A i \in DOMAIN air : ~ About(air, setting, i)
      BY DEF InFlight, About
    <2>3. SettledWith(unit, switches, reading, setting)
      BY <2>1, <2>2 DEF FreshWith
    <2>4. Writes(setting, switches[setting]) = CurrentFrames(unit, setting)
      BY <2>1, <2>3 DEF SettledWith, is_complete
    <2> QED
      BY <2>1, <2>4, SettersAre, CurrentIs DEF Report
  <1> QED
    BY <1>1, DeviceAlways, PTL

\* Writing back what the parser made of the unit's reports, however senseless those were,
\* never gives a unit a setting that is out of range.
THEOREM SettingsStayLegal == DeviceSpec => []WriteBackStaysLegal
  <1>1. DeviceInv => WriteBackStaysLegal
    BY DEF DeviceInv, LegalUnit, WriteBackStaysLegal
  <1> QED
    BY <1>1, DeviceAlways, PTL

\* The last battery and volume readings are the unit's, unless a report was lost or is on
\* its way: pushed and polled battery levels never overtake each other.
THEOREM ReadingsAreTrue == DeviceSpec => []ReadingsAreDevices
  <1>1. DeviceInv => ReadingsAreDevices
    <2> SUFFICES ASSUME DeviceInv PROVE ReadingsAreDevices
      OBVIOUS
    <2>1. ASSUME NEW subject \in {23, 105}, subject \notin stale, ~ InFlight(subject)
          PROVE  SettledWith(unit, switches, reading, subject)
      <3>1. FreshWith(unit, air, switches, reading, stale, subject)
        BY DEF DeviceInv, Subjects
      <3>2. \A i \in DOMAIN air : ~ About(air, subject, i)
        BY <2>1 DEF InFlight, About
      <3> QED
        BY <2>1, <3>1, <3>2 DEF FreshWith
    <2> QED
      BY <2>1, SubjectIs DEF ReadingsAreDevices, SettledWith
  <1> QED
    BY <1>1, DeviceAlways, PTL

\* The fed frame that is none of the voice machine's is one event that tells the
\* caller nothing of the capture.
LEMMA AnotherEvent ==
    ASSUME NEW frame, NEW told, told = AppEvent(parse(frame)),
           told.kind \notin {"VoiceFrame", "VoiceAbandoned"},
           Return(<<told>>)
    PROVE  view' = view
  <1>1. told.kind = parse(frame).kind
    BY AppEventKind
  <1>2. told.kind \in OtherKinds \cup {"Switch", "GestureBinding", "Battery", "Volumes"}
    BY <1>1, SettingEvent
  <1>3. told.kind \notin {"Started", "StartedRecovered", "Packet", "Ended", "VoiceAbandoned"}
    BY <1>2 DEF OtherKinds
  <1>4. view' = After(view, told)
    BY ReturnOne
  <1> QED
    BY <1>3, <1>4 DEF After

\* Whatever the link, the unit and the app do, the caller is right about the capture.
LEMMA VoiceInDevice == VoiceInv /\ [DeviceNext]_deviceVars => VoiceInv'
  <1> SUFFICES ASSUME VoiceInv, [DeviceNext]_deviceVars PROVE VoiceInv'
    OBVIOUS
  <1>1. ASSUME VoiceNext \/ UNCHANGED voiceVars
        PROVE  VoiceInv'
    BY <1>1, VoiceNextInv
  <1>2. CASE Feed
    <2> DEFINE frame == Head(air)
               told == AppEvent(parse(frame))
    <2>1. Voice(frame, told)
      BY <1>2, FeedIs
    <2>2. CASE VoiceNext
      BY <1>1, <2>2
    <2>3. CASE /\ told.kind \notin {"VoiceFrame", "VoiceAbandoned"}
               /\ UNCHANGED voice
               /\ Return(<<told>>)
      <3>1. view' = view
        BY <2>3, AnotherEvent
      <3> QED
        BY <2>3, <3>1 DEF voice, VoiceInv, VoiceTypeOK, CallerKnowsCapture, IndexIsOrdinal
    <2> QED
      BY <2>1, <2>2, <2>3 DEF Voice, VoiceNext
  <1>3. CASE Hush
    BY <1>1, <1>3 DEF Hush, VoiceNext
  <1>4. CASE Reconnect
    BY <1>1, <1>4 DEF Reconnect, VoiceNext
  <1>5. ASSUME NEW frames, Send(frames)
        PROVE  VoiceInv'
    BY <1>1, <1>5 DEF Send
  <1>6. CASE ChangeSetting \/ WriteBack
    BY <1>5, <1>6 DEF ChangeSetting, WriteBack, Write
  <1>7. CASE ReadSettings \/ ReadBattery \/ ReadVolumes \/ BatteryChanges \/ SetVolume \/ Speak \/ Mention
    BY <1>5, <1>7 DEF ReadSettings, ReadBattery, ReadVolumes, BatteryChanges, SetVolume, Speak, Mention
  <1>8. CASE Lose \/ Glitch
    BY <1>1, <1>8 DEF Lose, Glitch, Fault
  <1>9. CASE UNCHANGED deviceVars
    BY <1>1, <1>9 DEF deviceVars
  <1> QED
    BY <1>2, <1>3, <1>4, <1>6, <1>7, <1>8, <1>9 DEF DeviceNext

\* Also with all that surrounds the voice machine, the other frames, losses, the
\* shell's calls and another unit: from the events alone a caller always knows
\* whether the microphone capture is open.
THEOREM DeviceCallerKnows == DeviceSpec => []CallerKnowsCapture
  <1>1. DeviceInit => VoiceInv
    BY VoiceInitInv DEF DeviceInit
  <1>2. VoiceInv => CallerKnowsCapture
    BY DEF VoiceInv
  <1> QED
    BY <1>1, <1>2, VoiceInDevice, PTL DEF DeviceSpec
=============================================================================
