-------------------------------- MODULE Opcodes --------------------------------
(***************************************************************************)
(* The closed tables of src/opcodes.rs: the wire byte of every command of  *)
(* the app and of every frame only the glasses send, and the values of a   *)
(* touchpad binding.  A byte that is an echo has the command's code.       *)
(***************************************************************************)
EXTENDS Integers, FiniteSets, SequencesExt

AppCommand ==
    [SetLed |-> \h01, SetRecordDuration |-> \h02, WearDetection |-> \h04, VoiceCommand |-> \h06,
     SetGestureSwipeForward |-> \h07, SetGestureSwipeBack |-> \h08, SetGestureSingleTap |-> \h09,
     SetGestureDoubleTap |-> \h10, SetGestureTripleTap |-> \h11, FactoryReset |-> \h14,
     GetBattery |-> \h17, TakePhoto |-> \h22, StartVideo |-> \h23, StopVideo |-> \h24,
     SwitchMusic |-> \h30, PlayPause |-> \h31, Volume |-> \h32, AnswerHangup |-> \h33,
     VoiceRecording |-> \h34, PullImage |-> \h36, PullThumbnailStatus |-> \h37,
     OpenWifiFiles |-> \h39, GetFileCount |-> \h40, FileDownloadComplete |-> \h44,
     GetDeviceStatus |-> \h45, GetSwitchStates |-> \h48, GetVersions |-> \h55,
     InterruptVoice |-> \h56, RetransmitVoice |-> \h57, SendPhoneTime |-> \h59, Reboot |-> \h60,
     Orientation |-> \h61, OfflineVoiceLang |-> \h62, EnterUpgrade |-> \h63,
     GetProjectName |-> \h64, SendIspVersion |-> \h65, OpenWifiLive |-> \h67,
     GetVolumes |-> \h69, SetVolume |-> \h70, GetVoiceDisableState |-> \h71,
     GetCapabilities |-> \h95]

DeviceUpload ==
    [WifiName |-> \h25, ThumbnailCount |-> \h42, ActionSync |-> \h45, VoiceData |-> \h46,
     AbandonVoice |-> \h49, CancelAiBroadcast |-> \h51, HdImageFailed |-> \h52,
     ChargeBattery |-> \h53, Volumes |-> \h69, IspUpgradeDone |-> \h96,
     VoiceUploadStart |-> \h97, VoiceUploadEnd |-> \h99]

CodesOf(table) == {table[name] : name \in DOMAIN table}

\* AppCommand::from_code: an echo, if the byte is a command's at all.
IsAppCommand(code) == code \in CodesOf(AppCommand)

\* The five touchpad slots in the order of the burst; a slot's byte is that of its setter.
GestureSlots ==
    <<AppCommand.SetGestureSwipeForward, AppCommand.SetGestureSwipeBack,
      AppCommand.SetGestureSingleTap, AppCommand.SetGestureDoubleTap,
      AppCommand.SetGestureTripleTap>>

GestureAction ==
    [VolumeDown |-> 0, VolumeUp |-> 1, PlayPause |-> 2, NextTrack |-> 3, PreviousTrack |-> 4]

VolumeChannel == [System |-> 0, Media |-> 1, Call |-> 2]

\* The ten frames that answer GetSwitchStates.
SWITCH_STATE_BURST_ORDER ==
    <<AppCommand.SetLed, AppCommand.SetRecordDuration, AppCommand.WearDetection,
      AppCommand.VoiceCommand>> \o GestureSlots \o <<AppCommand.Orientation>>

Settings == ToSet(SWITCH_STATE_BURST_ORDER)

-----------------------------------------------------------------------------
Digit0 == 48

IsDigit(byte) == byte \in Digit0 .. Digit0 + 9

\* A digit in ASCII, or raw from a variant that leaves out the offset.
setting_digit(byte) == IF IsDigit(byte) THEN byte - Digit0 ELSE byte

\* The action a binding byte means, or none: no clamp.
ActionOf(byte) == {a \in DOMAIN GestureAction : GestureAction[a] = setting_digit(byte)}

\* What the module's tables promise: each is injective, and the two share the
\* two bytes that are a request and its answer.
TablesAreSound ==
    /\ Cardinality(CodesOf(AppCommand)) = 41 /\ Cardinality(DOMAIN AppCommand) = 41
    /\ Cardinality(CodesOf(DeviceUpload)) = 12
    /\ CodesOf(AppCommand) \cap CodesOf(DeviceUpload) = {AppCommand.GetDeviceStatus, AppCommand.GetVolumes}
    /\ Cardinality(Settings) = 10

ASSUME TablesAreSound
=============================================================================
