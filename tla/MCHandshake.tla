------------------------------ MODULE MCHandshake ------------------------------
(* Five of the eight reads, one of each kind the loop tells apart: a field of its   *)
(* own that the device may also push, a reply nobody keeps, the burst, and the two  *)
(* last ones; a burst of two reports, the one that may be refused and another.      *)
EXTENDS Handshake

MCReads == <<"Battery", "Status", "Switches", "Capabilities", "VoiceFeatures">>
MCBurst == <<"Led", "RecordSeconds">>
=============================================================================
