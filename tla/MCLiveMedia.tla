------------------------------ MODULE MCLiveMedia ------------------------------
(***************************************************************************)
(* Instance for TLC: the end of a picture, a key picture of two slices and *)
(* a small picture, with numbers that wrap in the middle.                  *)
(***************************************************************************)
EXTENDS LiveMedia

MCPictures ==
    << <<[kind |-> "Slice", size |-> 2]>>,
       <<[kind |-> "SPS", size |-> 1], [kind |-> "PPS", size |-> 1],
         [kind |-> "IDR", size |-> 2], [kind |-> "IDR", size |-> 2]>>,
       <<[kind |-> "Slice", size |-> 1]>> >>

MCPackets == {Script[k] : k \in DOMAIN Script} \cup {ForeignPacket}
=============================================================================
