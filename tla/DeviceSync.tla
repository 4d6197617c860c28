------------------------------ MODULE DeviceSync ------------------------------
(***************************************************************************)
(* The glasses' own state and what the app knows of it: GlassesParser of   *)
(* src/ffi.rs (Parser, SwitchStates and the voice machine of the module    *)
(* VoiceStream) at one end of the control channel, the unit at the other.  *)
(* A setting that is written is echoed, 0x48 is answered by a burst of ten *)
(* frames, the battery is pushed and read in two encodings, and the shell  *)
(* writes back what it was told.  Frames arrive in order, may be lost, and *)
(* a unit may send one that makes no sense.                                *)
(***************************************************************************)
EXTENDS VoiceStream, AppEvents

CONSTANTS
    Units,         \* settings, battery and volumes of each unit that may be met
    Durations,     \* the record durations the app offers
    Actions,       \* the gesture actions it offers
    Percents,      \* battery levels
    Junk,          \* frames that report what no unit can mean
    MaxStimuli, MaxFaults, AirBound

VARIABLES
    unit,          \* the glasses on the link
    air,           \* frames sent and not fed yet
    switches,      \* SwitchStates: the value of each setting, or None if not reported
    reading,       \* the last battery and volumes event
    stale,         \* subjects whose newest report never came, or came garbled
    stimuli, faults

device == <<unit, air, switches, reading, stale, stimuli, faults>>
deviceVars == <<device, voiceVars>>

PLAUSIBLE_RECORD_SECONDS == 1 .. 3600

Nothing == [setting \in Settings |-> None]
Unread == [battery |-> None, volumes |-> None]

Battery == A.GetBattery
Volumes == A.GetVolumes

\* What a frame of the glasses is about: a setting, Battery, Volumes, or nothing.
Subject(cmd) ==
    CASE cmd \in {A.GetBattery, U.ChargeBattery} -> Battery
      [] cmd = A.GetVolumes -> Volumes
      [] cmd \in Settings -> cmd
      [] OTHER -> 0

InFlight(subject) == \E i \in DOMAIN air : Subject(air[i].cmd) = subject

\* The unit means something by the i-th frame in the air, and it is about the subject.
Speaks(subject, i) == i \in DOMAIN air /\ Subject(air[i].cmd) = subject /\ air[i] \notin Junk

\* The payload a unit keeps for a setting.
Legal(setting, data) ==
    /\ data \in Seq(0 .. 255)
    /\ Len(data) = IF setting = A.SetRecordDuration THEN 2 ELSE 1
    /\ setting = A.SetLed => data[1] - Digit0 \in LedLevels
    /\ setting = A.SetRecordDuration => data[1] * 256 + data[2] \in PLAUSIBLE_RECORD_SECONDS
    /\ setting \in {A.WearDetection, A.VoiceCommand, A.Orientation} => data[1] - Digit0 \in {0, 1}
    /\ setting \in ToSet(GestureSlots) => data[1] - Digit0 \in 0 .. 4

UnitState ==
    [id : Nat,
     setting : [Settings -> Seq(0 .. 255)],
     battery : [percent : 0 .. 100, charging : BOOLEAN],
     volumes : [System : 0 .. 255, Media : 0 .. 255, Call : 0 .. 255]]

\* No report of a legal unit reads as this event: malformed, a duration no unit
\* records for, or the binding of no action.
Senseless(event) ==
    \/ event.kind = "Malformed"
    \/ /\ event.kind = "Switch"
       /\ event.setting = A.SetRecordDuration
       /\ event.value \notin PLAUSIBLE_RECORD_SECONDS
    \/ event.kind = "GestureBinding" /\ ActionOf(event.raw) = {}

ASSUME DeviceAssumption ==
    /\ \A u \in Units : u \in UnitState /\ \A setting \in Settings : Legal(setting, u.setting[setting])
    /\ Durations \subseteq PLAUSIBLE_RECORD_SECONDS
    /\ Actions \subseteq DOMAIN GestureAction
    /\ Percents \subseteq 0 .. 100
    /\ \A frame \in Junk : Senseless(parse(frame))
    /\ None \notin Nat /\ None \notin BOOLEAN
    /\ None \notin {"Portrait", "Landscape"} \cup DOMAIN GestureAction

-----------------------------------------------------------------------------
(* The unit's reports of its state.                                        *)

Report(setting) == [cmd |-> setting, data |-> unit.setting[setting]]
Burst == [i \in DOMAIN SWITCH_STATE_BURST_ORDER |-> Report(SWITCH_STATE_BURST_ORDER[i])]

BatteryReply(b) ==
    [cmd |-> A.GetBattery,
     data |-> <<Digit0 + (b.percent \div 10), Digit0 + (b.percent % 10), raw_flag(b.charging)>>]
BatteryPush(b) == [cmd |-> U.ChargeBattery, data |-> <<raw_flag(b.charging), b.percent>>]
VolumesReply(v) == [cmd |-> A.GetVolumes, data |-> <<v.System, v.Media, v.Call>>]

\* A frame that reports the present state.
TrueReport(frame) ==
    \/ frame.cmd \in Settings /\ frame = Report(frame.cmd)
    \/ frame \in {BatteryReply(unit.battery), BatteryPush(unit.battery), VolumesReply(unit.volumes)}

\* The unit has spoken of the subject again since the frame that arrives next.
Newer(subject) == \E i \in 2 .. Len(air) : Speaks(subject, i)

\* Frames that carry no state the app keeps: echoes, the other reads' replies, pushes.
Untracked ==
    Echoed \cup {open_wifi(live, p2p) : live, p2p \in BOOLEAN}
        \cup {Command(name, <<0>>) : name \in Reads \ {"GetSwitchStates", "GetVolumes", "GetBattery"}}
        \cup {[cmd |-> A.GetVersions, data |-> <<1, 2, 3, 4, 5, 6, 7>>],
              [cmd |-> A.GetProjectName, data |-> <<84, 49, 0, 0, 48, 51, 48, 51>>],
              [cmd |-> U.WifiName, data |-> <<32, 71, 0, 200>>],
              [cmd |-> U.ActionSync, data |-> [i \in 1 .. 10 |-> raw_flag(i = 4)]],
              [cmd |-> U.ThumbnailCount, data |-> <<1, 2>>],
              [cmd |-> A.GetCapabilities, data |-> <<0, 0, 31, 255>>],
              [cmd |-> U.CancelAiBroadcast, data |-> <<>>],
              [cmd |-> U.HdImageFailed, data |-> <<>>],
              [cmd |-> U.IspUpgradeDone, data |-> <<1>>],
              [cmd |-> 254, data |-> <<1>>]}

VoiceFrames ==
    {[cmd |-> U.VoiceUploadStart, data |-> <<>>], [cmd |-> U.VoiceData, data |-> <<>>],
     [cmd |-> U.VoiceData, data |-> <<75>>], [cmd |-> U.VoiceUploadEnd, data |-> <<>>],
     [cmd |-> U.AbandonVoice, data |-> <<>>]}

-----------------------------------------------------------------------------
(* The parser's side.                                                      *)

\* Fault: whatever a frame says is adopted.
IngestAnything(event) ==
    switches' =
        CASE event.kind = "Switch" -> [switches EXCEPT ![event.setting] = event.value]
          [] event.kind = "GestureBinding" -> [switches EXCEPT ![event.slot] = event.raw]
          [] OTHER -> switches

\* SwitchStates::ingest: an implausible duration is a settings frame, and not adopted.
ingest(event) ==
    switches' =
        CASE event.kind = "Switch"
                /\ (event.setting = A.SetRecordDuration => event.value \in PLAUSIBLE_RECORD_SECONDS)
                -> [switches EXCEPT ![event.setting] = event.value]
          [] event.kind = "GestureBinding" -> [switches EXCEPT ![event.slot] = event.raw]
          [] OTHER -> switches

\* Fault: a setting is awaited that no burst reports.
is_complete_with_language ==
    \A setting \in Settings \cup {A.OfflineVoiceLang} :
        setting \in DOMAIN switches /\ switches[setting] # None

is_complete == \A setting \in Settings : switches[setting] # None

\* The setter a shell calls with the value it is shown; a gesture it is shown no
\* action for cannot be written.
Setters(setting, shown) ==
    CASE setting = A.SetLed -> {set_led(v) : v \in {shown.led} \ {None}}
      [] setting = A.SetRecordDuration -> {set_record_duration(v) : v \in {shown.record_seconds} \ {None}}
      [] setting = A.WearDetection -> {set_wear_detection(v) : v \in {shown.wear_detection} \ {None}}
      [] setting = A.VoiceCommand -> {set_voice_command(v) : v \in {shown.voice_command} \ {None}}
      [] setting = A.Orientation -> {set_orientation(v) : v \in {shown.orientation} \ {None}}
      [] OTHER -> {set_gesture(setting, v) : v \in {shown.gestures[SlotIndex(setting)]} \ {None}}

\* What the app remembers of an event it is given.
Note(event) ==
    reading' =
        CASE event.kind = "Battery" ->
                [reading EXCEPT !.battery = [percent |-> event.percent, charging |-> event.charging]]
          [] event.kind = "Volumes" ->
                [reading EXCEPT !.volumes =
                    [System |-> event.System, Media |-> event.Media, Call |-> event.Call]]
          [] OTHER -> reading

\* Parser::feed_into: the capture's frames go to the voice machine, every other
\* frame is one event.
Voice(frame, event) ==
    \/ frame.cmd = U.VoiceUploadStart /\ OnVoiceUploadStart
    \/ frame.cmd = U.VoiceData /\ frame.data = <<>> /\ OnEmptyVoiceData
    \/ frame.cmd = U.VoiceData /\ frame.data # <<>> /\ OnVoiceData
    \/ frame.cmd = U.VoiceUploadEnd /\ OnVoiceUploadEnd
    \/ frame.cmd = U.AbandonVoice /\ OnVoiceAbandoned
    \/ /\ event.kind \notin {"VoiceFrame", "VoiceAbandoned"}
       /\ UNCHANGED voice
       /\ Return(<<event>>)

\* feed_frame: the frame is decoded and its events are folded into the settings.
Feed ==
    /\ air # <<>>
    /\ LET frame == Head(air) IN
       \E event \in {parse(frame)} : \E told \in {AppEvent(event)} :
           /\ Voice(frame, told)
           /\ ingest(event)
           /\ Note(told)
           /\ stale' = IF TrueReport(frame) /\ ~ Newer(Subject(frame.cmd))
                       THEN stale \ {Subject(frame.cmd)}
                       ELSE IF event.kind = "GestureBinding" /\ ActionOf(event.raw) = {}
                            THEN stale \cup {Subject(frame.cmd)}
                            ELSE stale
    /\ air' = Tail(air)
    /\ UNCHANGED <<unit, stimuli, faults>>

-----------------------------------------------------------------------------
(* The unit's side: what it is told or meets, and the frames it answers.   *)

Send(frames) ==
    /\ stimuli < MaxStimuli
    /\ Len(air) <= AirBound
    /\ stimuli' = stimuli + 1
    /\ air' = air \o frames
    /\ UNCHANGED <<switches, reading, faults, voiceVars>>

\* A setter is stored and echoed as it was written.
Write(frame) ==
    /\ unit' = [unit EXCEPT !.setting[frame.cmd] = frame.data]
    /\ Send(<<frame>>)
    /\ UNCHANGED stale

ChangeSetting ==
    \/ \E level \in LedLevels : Write(set_led(level))
    \/ \E seconds \in Durations : Write(set_record_duration(seconds))
    \/ \E on \in BOOLEAN : Write(set_wear_detection(on)) \/ Write(set_voice_command(on))
    \/ \E o \in {"Portrait", "Landscape"} : Write(set_orientation(o))
    \/ \E slot \in ToSet(GestureSlots), action \in Actions : Write(set_gesture(slot, action))

\* The shell keeps what it was told, and pushes it back: iOS does, from @AppStorage.
WriteBack ==
    /\ stimuli < MaxStimuli
    /\ LET shown == snapshot(switches)
       IN  \E setting \in Settings : \E frame \in Setters(setting, shown) : Write(frame)

ReadSettings == Send(Burst) /\ UNCHANGED <<unit, stale>>
ReadBattery == Send(<<BatteryReply(unit.battery)>>) /\ UNCHANGED <<unit, stale>>
ReadVolumes == Send(<<VolumesReply(unit.volumes)>>) /\ UNCHANGED <<unit, stale>>

\* The battery is pushed whenever it changes.
BatteryChanges ==
    \E percent \in Percents, charging \in BOOLEAN :
        LET b == [percent |-> percent, charging |-> charging]
        IN  unit' = [unit EXCEPT !.battery = b] /\ Send(<<BatteryPush(b)>>) /\ UNCHANGED stale

\* The echo of a volume is an Ack: only a read tells the caller the new volumes.
SetVolume ==
    \E channel \in DOMAIN VolumeChannel :
        /\ unit' = [unit EXCEPT !.volumes[channel] = 9]
        /\ Send(<<set_volume(channel, 9)>>)
        /\ stale' = stale \cup {Volumes}

\* The microphone; and what carries no state the app keeps, early on (a bound).
Speak == \E frame \in VoiceFrames : Send(<<frame>>) /\ UNCHANGED <<unit, stale>>
Mention == stimuli = 0 /\ \E frame \in Untracked : Send(<<frame>>) /\ UNCHANGED <<unit, stale>>

Fault == faults < MaxFaults /\ faults' = faults + 1 /\ UNCHANGED <<unit, switches, reading, stimuli, voiceVars>>

Lose ==
    /\ air # <<>>
    /\ air' = Tail(air)
    /\ stale' = stale \cup ({Subject(Head(air).cmd)} \ {0})
    /\ Fault

Glitch ==
    /\ Len(air) <= AirBound
    /\ \E frame \in Junk : air' = Append(air, frame)
    /\ UNCHANGED stale
    /\ Fault

\* close_voice, which no frame says.
Hush == stimuli < MaxStimuli /\ stimuli' = stimuli + 1 /\ CloseVoice
            /\ UNCHANGED <<unit, air, switches, reading, stale, faults>>

\* Fault: GlassesParser::reset forgets the capture and keeps the settings.
ReconnectKeepsSettings ==
    /\ stimuli < MaxStimuli
    /\ unit' \in Units /\ unit'.id # unit.id
    /\ air' = <<>> /\ reading' = Unread /\ stale' = {}
    /\ Reset
    /\ stimuli' = stimuli + 1
    /\ UNCHANGED <<switches, faults>>

\* The link is lost and another unit connects: the shell calls GlassesParser::reset.
Reconnect ==
    /\ stimuli < MaxStimuli
    /\ unit' \in Units /\ unit'.id # unit.id
    /\ air' = <<>> /\ reading' = Unread /\ stale' = {}
    /\ Reset
    /\ switches' = Nothing
    /\ stimuli' = stimuli + 1
    /\ UNCHANGED faults

DeviceInit ==
    /\ VoiceInit
    /\ unit \in Units
    /\ air = <<>> /\ switches = Nothing /\ reading = Unread
    /\ stale = {} /\ stimuli = 0 /\ faults = 0

DeviceNext ==
    \/ Feed
    \/ ChangeSetting
    \/ WriteBack
    \/ ReadSettings
    \/ ReadBattery
    \/ ReadVolumes
    \/ BatteryChanges
    \/ SetVolume
    \/ Speak
    \/ Mention
    \/ Lose
    \/ Glitch
    \/ Hush
    \/ Reconnect

\* The BLE stack delivers what it has received.
DeviceSpec == DeviceInit /\ [][DeviceNext]_deviceVars /\ WF_deviceVars(Feed)

-----------------------------------------------------------------------------
\* A synced settings screen tells the truth: once the accumulator says it is
\* complete, every setting whose newest report was neither lost nor garbled nor
\* is on its way is held, and setting it to the held value would not change the
\* unit; also right after another unit took the first one's place.
SyncedMeansIt ==
    LET shown == snapshot(switches)
    IN  is_complete =>
            \A setting \in Settings \ stale :
                InFlight(setting) \/ Setters(setting, shown) = {Report(setting)}

\* A senseless report never ends up in the hardware: whatever the unit says of a
\* setting, writing back what the parser made of it keeps the unit's settings legal.
WriteBackStaysLegal == \A setting \in Settings : Legal(setting, unit.setting[setting])

\* Battery and volumes: the last event is the unit's state, in either encoding of
\* the battery, as long as no report of it was lost or is on its way.
ReadingsAreDevices ==
    /\ reading.battery = None \/ Battery \in stale \/ InFlight(Battery)
         \/ reading.battery = unit.battery
    /\ reading.volumes = None \/ Volumes \in stale \/ InFlight(Volumes)
         \/ reading.volumes = unit.volumes

\* "Settings synced" is reached: a burst in the air, with no more faults and no
\* other unit to come, completes the settings.
BurstCompletes ==
    (stimuli = MaxStimuli /\ faults = MaxFaults /\ ToSet(Burst) \subseteq ToSet(air)) ~> is_complete
=============================================================================
