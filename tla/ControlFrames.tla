----------------------------- MODULE ControlFrames -----------------------------
(***************************************************************************)
(* What goes over the control channel: the frames the builders of          *)
(* src/commands.rs make, and the event parse of src/parser.rs makes of any *)
(* frame of the glasses.  A frame is its opcode and its payload bytes; the *)
(* envelope is the module Framing.                                         *)
(***************************************************************************)
EXTENDS Opcodes

A == AppCommand
U == DeviceUpload

\* encode: an empty payload goes out as the filler 0x00.
Command(name, payload) ==
    [cmd |-> AppCommand[name], data |-> IF payload = <<>> THEN <<0>> ELSE payload]

ascii_flag(on) == IF on THEN Digit0 + 1 ELSE Digit0
raw_flag(on) == IF on THEN 1 ELSE 0

-----------------------------------------------------------------------------
(* commands.rs: settings and gestures carry ASCII digits, media and calls  *)
(* raw ones, the duration two bytes, the big end first.                    *)

LedLevels == 0 .. 2

set_led(level) == Command("SetLed", <<Digit0 + level>>)
set_record_duration(seconds) == Command("SetRecordDuration", <<seconds \div 256, seconds % 256>>)
set_wear_detection(on) == Command("WearDetection", <<ascii_flag(on)>>)
set_voice_command(on) == Command("VoiceCommand", <<ascii_flag(on)>>)
set_orientation(orientation) == Command("Orientation", <<ascii_flag(orientation = "Landscape")>>)
set_gesture(slot, action) == [cmd |-> slot, data |-> <<Digit0 + GestureAction[action]>>]
set_volume(channel, level) == Command("SetVolume", <<VolumeChannel[channel], level>>)

take_photo(for_ai) == Command("TakePhoto", <<ascii_flag(for_ai)>>)
voice_recording(start) == Command("VoiceRecording", <<raw_flag(start)>>)
open_wifi(live, p2p) == Command(IF live THEN "OpenWifiLive" ELSE "OpenWifiFiles", <<ascii_flag(p2p)>>)
file_download_complete == Command("FileDownloadComplete", <<Digit0, 0>>)
file_download_partial(downloaded) == Command("FileDownloadComplete", <<Digit0 + 1, downloaded>>)
power_off_isp == Command("FileDownloadComplete", <<Digit0, 1>>)
switch_music(next) == Command("SwitchMusic", <<raw_flag(next)>>)
play_pause(play) == Command("PlayPause", <<raw_flag(play)>>)
volume_step(up) == Command("Volume", <<raw_flag(up)>>)
answer_hangup(answer) == Command("AnswerHangup", <<raw_flag(answer)>>)
set_offline_voice_language(english) == Command("OfflineVoiceLang", <<raw_flag(english)>>)
send_phone_time(year, month, day, hour, minute, second) ==
    Command("SendPhoneTime", <<year % 100, month, day, hour, minute, second>>)
enter_upgrade(p2p) == Command("EnterUpgrade", <<ascii_flag(p2p)>>)
send_isp_version(major, minor, patch) == Command("SendIspVersion", <<major, minor, patch>>)

\* The builders without an argument.
Bare == {"StartVideo", "StopVideo", "RetransmitVoice", "InterruptVoice", "FactoryReset", "Reboot"}
bare(name) == Command(name, <<>>)

\* The reads, whose answer is a report and not an echo.
Reads == {"GetFileCount", "GetVolumes", "GetVoiceDisableState", "GetSwitchStates",
          "GetDeviceStatus", "GetBattery", "GetVersions", "GetProjectName", "GetCapabilities"}

\* What the glasses echo without a state of theirs in it.
Echoed ==
    {bare(name) : name \in Bare}
        \cup (UNION {{take_photo(b), voice_recording(b), switch_music(b), play_pause(b),
                      volume_step(b), answer_hangup(b), set_offline_voice_language(b),
                      enter_upgrade(b)} : b \in BOOLEAN})
        \cup {file_download_complete, file_download_partial(2), power_off_isp,
              send_phone_time(2026, 7, 27, 18, 40, 18), send_isp_version(1, 2, 3)}

-----------------------------------------------------------------------------
(* parse: total.  A payload too short, out of range or not text is an      *)
(* event of its own, never a guess.                                        *)

Malformed(cmd, reason) == [kind |-> "Malformed", cmd |-> cmd, reason |-> reason]

Checked(cmd, d, need, legal, event) ==
    IF Len(d) < need THEN Malformed(cmd, "TooShort")
    ELSE IF legal THEN event ELSE Malformed(cmd, "OutOfRange")

\* 0x17: two digits and the charger; the tens reach 10, past '9', at 100 %.
battery_read(d) ==
    LET tens == d[1] - Digit0
        ones == d[2] - Digit0
    IN  Checked(A.GetBattery, d, 3,
                tens \in 0 .. 10 /\ ones \in 0 .. 9 /\ tens * 10 + ones <= 100,
                [kind |-> "Battery", percent |-> tens * 10 + ones, charging |-> d[3] = 1,
                 source |-> "ReadReply"])

\* Fault: the fields in the order of 0x17.
battery_push_swapped(d) ==
    Checked(U.ChargeBattery, d, 2, d[1] <= 100,
            [kind |-> "Battery", percent |-> d[1], charging |-> d[2] = 1, source |-> "Push"])

\* 0x53: the charger first, then the percentage as it is.
battery_push(d) ==
    Checked(U.ChargeBattery, d, 2, d[2] <= 100,
            [kind |-> "Battery", percent |-> d[2], charging |-> d[1] = 1, source |-> "Push"])

versions(d) ==
    Checked(A.GetVersions, d, 7, TRUE,
            [kind |-> "Versions", bt |-> SubSeq(d, 1, 3), isp |-> SubSeq(d, 4, 6), hardware |-> d[7]])

media_count(cmd, d) ==
    Checked(cmd, d, 2, TRUE,
            [kind |-> "MediaCount", count |-> d[1] * 256 + d[2],
             source |-> IF cmd = A.GetFileCount THEN "ReadReply" ELSE "Push"])

Switch(cmd, value) == [kind |-> "Switch", setting |-> cmd, value |-> value]

led(d) ==
    Checked(A.SetLed, d, 1, setting_digit(d[1]) \in LedLevels, Switch(A.SetLed, setting_digit(d[1])))

record_duration(d) ==
    Checked(A.SetRecordDuration, d, 2, TRUE, Switch(A.SetRecordDuration, d[1] * 256 + d[2]))

\* A two-valued setting that reports a third value is not on.
switch_flag(cmd, d) ==
    Checked(cmd, d, 1, setting_digit(d[1]) \in {0, 1}, Switch(cmd, setting_digit(d[1]) = 1))

orientation(d) ==
    Checked(A.Orientation, d, 1, setting_digit(d[1]) \in {0, 1},
            Switch(A.Orientation, IF setting_digit(d[1]) = 1 THEN "Landscape" ELSE "Portrait"))

gesture(slot, d) ==
    Checked(slot, d, 1, TRUE, [kind |-> "GestureBinding", slot |-> slot, raw |-> d[1]])

capabilities(d) == Checked(A.GetCapabilities, d, 4, TRUE, [kind |-> "Capabilities", raw |-> SubSeq(d, 1, 4)])

voice_features(d) == Checked(A.GetVoiceDisableState, d, 1, TRUE, [kind |-> "VoiceFeatures", raw |-> d[1]])

volumes(d) ==
    Checked(A.GetVolumes, d, 3, TRUE,
            [kind |-> "Volumes", System |-> d[1], Media |-> d[2], Call |-> d[3]])

wifi_opening(cmd, d) ==
    Checked(cmd, d, 1, TRUE, [kind |-> "WifiOpening", live |-> cmd = A.OpenWifiLive, raw |-> d[1]])

\* The ten flags, never the nine of the other layout.
action_sync(d) ==
    Checked(U.ActionSync, d, 10, TRUE, [kind |-> "ActionSync", active |-> {i \in 0 .. 9 : d[i + 1] # 0}])

\* A text up to its first NUL, the blanks and control bytes around it cut off.
IsBlank(byte) == byte <= 32 \/ byte = 127
ascii_field(bytes) ==
    LET end == SelectInSeq(bytes, LAMBDA b : b = 0)
        head == IF end = 0 THEN bytes ELSE SubSeq(bytes, 1, end - 1)
        solid == {i \in DOMAIN head : ~ IsBlank(head[i])}
    IN  IF solid = {} THEN <<>>
        ELSE SubSeq(head, CHOOSE i \in solid : \A j \in solid : i <= j,
                          CHOOSE i \in solid : \A j \in solid : j <= i)

\* Bytes that are not ASCII before the first NUL make it no text at all.
IsAscii(bytes) ==
    \A i \in DOMAIN bytes : bytes[i] > 127 => \E j \in 1 .. i : bytes[j] = 0

identity(d) ==
    LET project == SubSeq(d, 1, 4)
        customer == SubSeq(d, 5, 8)
    IN  IF Len(d) < 8 THEN Malformed(A.GetProjectName, "TooShort")
        ELSE IF IsAscii(project) /\ IsAscii(customer)
                /\ (ascii_field(project) # <<>> \/ ascii_field(customer) # <<>>)
             THEN [kind |-> "Identity", project |-> ascii_field(project), customer |-> ascii_field(customer)]
             ELSE Malformed(A.GetProjectName, "NotText")

wifi_credentials(d) ==
    IF IsAscii(d) /\ ascii_field(d) # <<>>
    THEN [kind |-> "WifiCredentials", ssid |-> ascii_field(d)]
    ELSE Malformed(U.WifiName, "NotText")

Event(kind) == [kind |-> kind]

parse(frame) ==
    LET d == frame.data
        cmd == frame.cmd
    IN  CASE cmd = A.GetBattery -> battery_read(d)
          [] cmd = U.ChargeBattery -> battery_push(d)
          [] cmd = A.GetVersions -> versions(d)
          [] cmd = A.GetProjectName -> identity(d)
          [] cmd \in {U.ThumbnailCount, A.GetFileCount} -> media_count(cmd, d)
          [] cmd = A.SetLed -> led(d)
          [] cmd = A.SetRecordDuration -> record_duration(d)
          [] cmd \in {A.WearDetection, A.VoiceCommand} -> switch_flag(cmd, d)
          [] cmd = A.Orientation -> orientation(d)
          [] cmd \in ToSet(GestureSlots) -> gesture(cmd, d)
          [] cmd = A.GetCapabilities -> capabilities(d)
          [] cmd = A.GetVoiceDisableState -> voice_features(d)
          [] cmd = A.GetVolumes -> volumes(d)
          [] cmd = U.WifiName -> wifi_credentials(d)
          [] cmd \in {A.OpenWifiFiles, A.OpenWifiLive} -> wifi_opening(cmd, d)
          [] cmd = U.ActionSync -> action_sync(d)
          [] cmd \in {U.VoiceData, U.VoiceUploadStart, U.VoiceUploadEnd} -> Event("VoiceFrame")
          [] cmd = U.AbandonVoice -> Event("VoiceAbandoned")
          [] cmd = U.CancelAiBroadcast -> Event("AiBroadcastCancelled")
          [] cmd = U.HdImageFailed -> Event("HdImageFailed")
          [] cmd = U.IspUpgradeDone -> [kind |-> "IspUpgradeFinished", ok |-> d # <<>> /\ d[1] = 1]
          [] OTHER -> Event(IF IsAppCommand(cmd) THEN "Ack" ELSE "Unrecognised")
=============================================================================
