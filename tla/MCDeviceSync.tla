----------------------------- MODULE MCDeviceSync -----------------------------
(***************************************************************************)
(* Two units with different settings, three stimuli and one fault, to read *)
(* the settings, lose or garble a report, write back and change units.     *)
(***************************************************************************)
EXTENDS DeviceSync

AsciiUnit(id, digit, seconds, percent) ==
    [id |-> id,
     setting |-> [s \in Settings |->
                    IF s = A.SetRecordDuration THEN <<seconds \div 256, seconds % 256>>
                    ELSE <<Digit0 + digit>>],
     battery |-> [percent |-> percent, charging |-> FALSE],
     volumes |-> [System |-> 7, Media |-> 8, Call |-> 6]]

MCUnits == {AsciiUnit(1, 0, 60, 42), AsciiUnit(2, 1, 300, 42)}

\* An LED and a flag of three values, durations out of range, a gesture of no
\* action, batteries beyond 100, and payloads cut short.
MCJunk ==
    {[cmd |-> A.SetLed, data |-> <<51>>], [cmd |-> A.WearDetection, data |-> <<50>>],
     [cmd |-> A.SetRecordDuration, data |-> <<0, 0>>], [cmd |-> A.SetRecordDuration, data |-> <<255, 255>>],
     [cmd |-> A.SetGestureSingleTap, data |-> <<57>>], [cmd |-> A.GetBattery, data |-> <<58, 49, 0>>],
     [cmd |-> U.ChargeBattery, data |-> <<255, 101>>], [cmd |-> A.GetVolumes, data |-> <<1, 2>>],
     [cmd |-> A.Orientation, data |-> <<>>]}
=============================================================================
