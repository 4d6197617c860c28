------------------------------ MODULE EventChannel ------------------------------
(***************************************************************************)
(* One receiver of the tokio broadcast channel a Glasses owns              *)
(* (src/client/ble.rs): what the pump sends while the receiver exists is   *)
(* kept, EventBuffer events at most; beyond that the oldest are gone and   *)
(* the receiver learns that it lagged before it gets another event.        *)
(***************************************************************************)
EXTENDS Naturals, Sequences

CONSTANT EventBuffer    \* EVENT_BUFFER, 1024 in the code

ASSUME ChannelAssumption == EventBuffer \in Nat \ {0}

VARIABLES
    inbox,     \* events sent and not yet received
    lagged     \* some were overwritten and the receiver does not know yet

channel == <<inbox, lagged>>

Other == [kind |-> "Other"]                 \* an event the call at hand ignores
Disconnected == [kind |-> "Disconnected"]   \* what the pump says before it stops

Subscribe == inbox' = <<>> /\ lagged' = FALSE

\* Fault: a full channel refuses the new event.
PublishDropsNewest(listening, evts) ==
    LET all == IF listening THEN inbox \o evts ELSE inbox
    IN  /\ inbox' = IF Len(all) > EventBuffer THEN SubSeq(all, 1, EventBuffer) ELSE all
        /\ lagged' = (lagged \/ Len(all) > EventBuffer)

\* tx.send of each event in turn: without a receiver it is dropped, and a full
\* buffer loses its oldest.
Publish(listening, evts) ==
    IF ~ listening THEN UNCHANGED channel
    ELSE LET all == inbox \o evts
             excess == IF Len(all) > EventBuffer THEN Len(all) - EventBuffer ELSE 0
         IN  /\ inbox' = SubSeq(all, excess + 1, Len(all))
             /\ lagged' = (lagged \/ excess > 0)

\* rx.recv() has three outcomes: the lag, the oldest event, or nothing yet.
RecvLagged == lagged /\ lagged' = FALSE /\ UNCHANGED inbox
RecvEvent == ~ lagged /\ inbox # <<>> /\ inbox' = Tail(inbox) /\ UNCHANGED lagged
NothingReady == ~ lagged /\ inbox = <<>>

ChannelTypeOK == lagged \in BOOLEAN /\ Len(inbox) <= EventBuffer
=============================================================================
