------------------------------- MODULE AppEvents -------------------------------
(***************************************************************************)
(* What crosses the language boundary: the event of src/ffi.rs made of one *)
(* of src/parser.rs, and the settings snapshot an app is shown.  The app   *)
(* never sees the parser's own types, so what a shell writes back, and     *)
(* what it believes, rests on these conversions.                           *)
(***************************************************************************)
EXTENDS ControlFrames

CONSTANT None    \* Option::None: not reported, or no value the app's type has

KNOWN_E09 == <<0, 0, 4, 11>>
PASSPHRASE == "12345678"

\* The flags of 0x45 by payload index, in the order of DeviceAction::ALL.
DeviceActions ==
    <<"TakePhoto", "AudioRecord", "VideoRecord", "VolumeUp", "VolumeDown", "NodHead",
      "ShakeHead", "PlayPause", "WearingDetection", "ImportingMode">>

\* ActionSync::active: the set flags, in index order.
active(flags) ==
    LET set == SetToSortSeq(flags, LAMBDA i, j : i < j)
    IN  [i \in DOMAIN set |-> DeviceActions[set[i] + 1]]

\* The action of a binding byte: an unmapped byte has none, and keeps its raw value.
ActionOption(raw) ==
    IF ActionOf(raw) = {} THEN None ELSE CHOOSE a \in ActionOf(raw) : TRUE

Versions(event) ==
    [bt_major |-> event.bt[1], bt_minor |-> event.bt[2], bt_patch |-> event.bt[3],
     isp_major |-> event.isp[1], isp_minor |-> event.isp[2], isp_patch |-> event.isp[3],
     hardware |-> event.hardware]

\* FfiGlassesEvent::from: what the app is told beyond the frame is made here.
AppEvent(event) ==
    CASE event.kind = "Versions" -> [kind |-> "Versions", versions |-> Versions(event)]
      [] event.kind = "GestureBinding" ->
            [kind |-> "GestureBinding", slot |-> event.slot, action |-> ActionOption(event.raw), raw |-> event.raw]
      [] event.kind = "Capabilities" ->
            [kind |-> "Capabilities", raw |-> event.raw, known_configuration |-> event.raw = KNOWN_E09]
      [] event.kind = "VoiceFeatures" ->
            [kind |-> "VoiceFeatures", raw |-> event.raw, all_enabled |-> event.raw = 0]
      [] event.kind = "WifiCredentials" ->
            [kind |-> "WifiCredentials", ssid |-> event.ssid, passphrase |-> PASSPHRASE]
      [] event.kind = "ActionSync" -> [kind |-> "ActionSync", active |-> active(event.active)]
      [] OTHER -> event

-----------------------------------------------------------------------------
SlotIndex(slot) == CHOOSE i \in DOMAIN GestureSlots : GestureSlots[i] = slot

\* FfiGlassesSwitchStates: the settings as the app is shown them.
snapshot(s) ==
    LET raw == [i \in DOMAIN GestureSlots |-> s[GestureSlots[i]]]
    IN  [led |-> s[A.SetLed], record_seconds |-> s[A.SetRecordDuration],
         wear_detection |-> s[A.WearDetection], voice_command |-> s[A.VoiceCommand],
         orientation |-> s[A.Orientation], gestures_raw |-> raw,
         gestures |-> [i \in DOMAIN raw |-> IF raw[i] = None THEN None ELSE ActionOption(raw[i])],
         is_complete |-> \A setting \in Settings : s[setting] # None]
=============================================================================
