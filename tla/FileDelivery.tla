----------------------------- MODULE FileDelivery -----------------------------
(***************************************************************************)
(* What the file channel promises its caller, with no framing, no padding  *)
(* and no span bookkeeping: a file is handed over only from a transfer     *)
(* whose every declared offset has been delivered, with exactly the        *)
(* declared length, and the transfer is over when it is.                   *)
(***************************************************************************)
EXTENDS Integers

CONSTANT MaxFileBytes

VARIABLES
    declared,   \* length of the transfer that is open, 0 when none is
    got,        \* the offsets delivered so far
    handed      \* length of the file the last call handed over, 0 for none

Nothing == declared = 0 /\ got = {} /\ handed = 0

Begin(n) ==
    /\ declared' = n
    /\ got' = {}
    /\ handed' = 0

Deliver(offsets) ==
    /\ offsets \subseteq 0 .. declared - 1
    /\ got' = got \cup offsets
    /\ handed' = 0
    /\ UNCHANGED declared

HandOver ==
    /\ declared > 0
    /\ got = 0 .. declared - 1
    /\ handed' = declared
    /\ declared' = 0
    /\ got' = {}

GiveUp ==
    /\ declared' = 0
    /\ got' = {}
    /\ handed' = 0

Step ==
    \/ \E n \in 1 .. MaxFileBytes : Begin(n)
    \/ \E offsets \in SUBSET (0 .. declared - 1) : Deliver(offsets)
    \/ HandOver
    \/ GiveUp

Delivery == Nothing /\ [][Step]_<<declared, got, handed>>
=============================================================================
