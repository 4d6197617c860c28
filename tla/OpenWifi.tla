-------------------------------- MODULE OpenWifi --------------------------------
(***************************************************************************)
(* Glasses::open_wifi_within and Glasses::close_wifi of src/client/ble.rs: *)
(* the write that raises the glasses' access point, the wait for the 0x25  *)
(* push on the broadcast channel under one deadline, the settling time,    *)
(* and the write that tears the access point down.  The glasses handle the *)
(* writes in order, late if at all; that side is external.                 *)
(***************************************************************************)
EXTENDS EventChannel

CONSTANTS
    WifiBudget,   \* the deadline for the SSID, in ticks
    MaxOpens

ASSUME WifiAssumption == WifiBudget \in Nat \ {0} /\ MaxOpens \in Nat

VARIABLES
    asked,     \* writes the glasses have not handled: a service, or "close"
    ap,        \* the service the access point is up for, or "off"
    connected,
    call,      \* where the latest open_wifi is
    service,   \* what it asked for
    credentials,   \* the service whose 0x25 it returned with
    wtimer,
    opens,
    owed       \* what the opens before it that returned without the 0x25 due to them asked for

glasses == <<asked, ap>>
opening == <<call, service, credentials, wtimer, opens, owed>>
wifi == <<glasses, connected, opening, channel>>

Services == {"files", "live"}
Ended == {"open", "timeout", "failed", "disconnected"}

Waiting == call \in {"waiting", "settling"}
Credentials(s) == [kind |-> "WifiCredentials", service |-> s]

-----------------------------------------------------------------------------
WifiInit ==
    /\ asked = <<>> /\ ap = "off" /\ connected = TRUE
    /\ call = "idle" /\ service = "files" /\ credentials = "off"
    /\ wtimer = 0 /\ opens = 0 /\ owed = {}
    /\ inbox = <<>> /\ lagged = FALSE

\* The glasses raise the access point and push 0x25, or ignore the request.
GlassesHandle ==
    /\ connected /\ asked # <<>>
    /\ asked' = Tail(asked)
    /\ \/ /\ Head(asked) \in Services
          /\ ap' = Head(asked)
          /\ Publish(Waiting, <<Credentials(Head(asked))>>)
       \/ /\ Head(asked) = "close"
          /\ ap' = "off"
          /\ UNCHANGED channel
       \/ UNCHANGED <<ap, channel>>
    /\ UNCHANGED <<connected, opening>>

\* The access point goes down by itself.
ApDrops ==
    /\ ap # "off"
    /\ ap' = "off"
    /\ UNCHANGED <<asked, connected, opening, channel>>

OtherPush ==
    /\ connected /\ Waiting
    /\ Publish(Waiting, <<Other>>)
    /\ UNCHANGED <<glasses, connected, opening>>

ConnectionDrops ==
    /\ connected
    /\ connected' = FALSE
    /\ Publish(Waiting, <<Disconnected>>)
    /\ UNCHANGED <<glasses, opening>>

-----------------------------------------------------------------------------
\* What the latest call asked for, if it ended on another's 0x25 or on none.
GaveUp ==
    IF call \in {"idle", "waiting"} \/ (call \in {"settling", "open"} /\ credentials = service)
    THEN {} ELSE {service}

\* Fault: one opcode for both services.
OpenWifiOneOpcode(s) ==
    /\ ~ Waiting
    /\ opens < MaxOpens
    /\ opens' = opens + 1
    /\ service' = s /\ credentials' = "off"
    /\ owed' = owed \cup GaveUp
    /\ Subscribe
    /\ connected
    /\ asked' = Append(asked, "files")
    /\ call' = "waiting" /\ wtimer' = WifiBudget
    /\ UNCHANGED <<ap, connected>>

\* Subscribe, write 0x39 or 0x67, note the deadline; a failed write may have arrived.
OpenWifi(s) ==
    /\ ~ Waiting
    /\ opens < MaxOpens
    /\ opens' = opens + 1
    /\ service' = s /\ credentials' = "off"
    /\ owed' = owed \cup GaveUp
    /\ Subscribe
    /\ \/ /\ connected
          /\ asked' = Append(asked, s)
          /\ call' = "waiting" /\ wtimer' = WifiBudget
       \/ /\ call' = "failed"
          /\ asked' \in {asked} \cup (IF connected THEN {Append(asked, s)} ELSE {})
          /\ UNCHANGED wtimer
    /\ UNCHANGED <<ap, connected>>

\* Fault: every event starts the budget again.
NextWifiTurnRestarts == wtimer' = WifiBudget /\ UNCHANGED <<call, credentials>>

\* The top of the loop, after an event that is not the answer.
NextWifiTurn ==
    /\ call' = IF wtimer = 0 THEN "timeout" ELSE call
    /\ UNCHANGED <<credentials, wtimer>>

ReceiveWifi ==
    /\ call = "waiting"
    /\ \/ RecvLagged /\ NextWifiTurn
       \/ /\ RecvEvent
          /\ LET event == Head(inbox)
             IN  \/ /\ event.kind = "WifiCredentials"
                    /\ call' = "settling" /\ credentials' = event.service /\ UNCHANGED wtimer
                 \/ /\ event.kind = "Disconnected"
                    /\ call' = "disconnected" /\ UNCHANGED <<credentials, wtimer>>
                 \/ event.kind = "Other" /\ NextWifiTurn
       \/ /\ wtimer = 0 /\ NothingReady
          /\ call' = "timeout"
          /\ UNCHANGED <<credentials, wtimer, channel>>
    /\ UNCHANGED <<glasses, connected, service, opens, owed>>

\* SSID_SETTLE is slept through, whatever arrives meanwhile.
Settled ==
    /\ call = "settling"
    /\ call' = "open"
    /\ UNCHANGED <<glasses, connected, service, credentials, wtimer, opens, owed, channel>>

WifiTick ==
    /\ call = "waiting" /\ wtimer > 0
    /\ wtimer' = wtimer - 1
    /\ UNCHANGED <<glasses, connected, call, service, credentials, opens, owed, channel>>

\* 0x44 30 00; nothing is waited for.
CloseWifi ==
    /\ call \in Ended /\ connected
    /\ "close" \notin {asked[i] : i \in DOMAIN asked}
    /\ asked' = Append(asked, "close")
    /\ UNCHANGED <<ap, connected, opening, channel>>

WifiStep == ReceiveWifi \/ Settled
WifiNext ==
    \/ GlassesHandle \/ ApDrops \/ OtherPush \/ ConnectionDrops
    \/ \E s \in Services : OpenWifi(s)
    \/ WifiStep \/ WifiTick \/ CloseWifi

\* A ready task is polled, the settling sleep ends and time passes.
WifiFairness == WF_wifi(WifiStep) /\ WF_wifi(WifiTick)

WifiSpec == WifiInit /\ [][WifiNext]_wifi /\ WifiFairness

-----------------------------------------------------------------------------
\* The call takes the first 0x25 for its own (ble.rs:602), and it is one: an open
\* returns on the 0x25 for the service it asked for, or on one that an open before
\* it asked for and did not return with.
OwnService == call = "open" => credentials \in {service} \cup owed

\* An open ends, whatever else the glasses send.
OpenEnds == Waiting ~> call \in Ended
=============================================================================
