---------------------------- MODULE SequenceTracker ----------------------------
(***************************************************************************)
(* The loss counters of one RTP stream (SequenceTracker, src/rtp.rs).      *)
(* Sequence numbers wrap, so the order of two of them is a matter of the   *)
(* shorter way round.  The bitmap of the code is a set of distances behind *)
(* the highest number.                                                     *)
(***************************************************************************)
EXTENDS Integers

CONSTANTS
    SeqSpace,   \* 2^16
    Window      \* 64, the width of the bitmap

ASSUME TrackerAssumption ==
    /\ SeqSpace \in Nat /\ SeqSpace % 2 = 0
    /\ Window \in Nat \ {0} /\ 2 * Window < SeqSpace

VARIABLES
    highest, received, lost, duplicates, reordered, window,
    expected    \* history: numbers from the first packet to the highest, both counted

tracker == <<highest, received, lost, duplicates, reordered, window, expected>>

Sequences == 0 .. SeqSpace - 1
Unseen == -1

Ahead(a, b) == (a - b) % SeqSpace

TrackerInit ==
    /\ highest = Unseen
    /\ received = 0 /\ lost = 0 /\ duplicates = 0 /\ reordered = 0
    /\ window = {}
    /\ expected = 0

First(s) ==
    /\ highest = Unseen
    /\ highest' = s /\ received' = 1 /\ expected' = 1
    /\ UNCHANGED <<lost, duplicates, reordered, window>>

\* Fault: the previous highest is not entered.
SlidWithoutPrevious(delta) == {d + delta : d \in window} \cap 1 .. Window

\* The window after a step of delta: a jump of its whole width clears it, the
\* previous highest included, which is then Window behind.
Slid(delta) ==
    IF delta >= Window THEN {}
    ELSE ({d + delta : d \in window} \cap 1 .. Window) \cup {delta}

\* Fault: a single missing number passes for order.
ForwardSingleGapFree(s) ==
    /\ highest # Unseen
    /\ Ahead(s, highest) \in 1 .. SeqSpace \div 2 - 1
    /\ LET delta == Ahead(s, highest)
       IN  /\ lost' = IF delta = 2 THEN lost ELSE lost + delta - 1
           /\ window' = Slid(delta)
           /\ expected' = expected + delta
    /\ highest' = s /\ received' = received + 1
    /\ UNCHANGED <<duplicates, reordered>>

\* In order, or ahead with a gap of delta - 1.
Forward(s) ==
    /\ highest # Unseen
    /\ Ahead(s, highest) \in 1 .. SeqSpace \div 2 - 1
    /\ LET delta == Ahead(s, highest)
       IN  /\ lost' = lost + delta - 1
           /\ window' = Slid(delta)
           /\ expected' = expected + delta
    /\ highest' = s /\ received' = received + 1
    /\ UNCHANGED <<duplicates, reordered>>

\* The highest again, or one the window still remembers.
IsDuplicate(s) == s = highest \/ Ahead(highest, s) \in window

Backward(s) == highest # Unseen /\ Ahead(s, highest) \notin 1 .. SeqSpace \div 2 - 1

Duplicate(s) ==
    /\ Backward(s) /\ IsDuplicate(s)
    /\ duplicates' = duplicates + 1
    /\ UNCHANGED <<highest, received, lost, reordered, window, expected>>

\* A late packet retires the gap it left.
Late(s) ==
    /\ Backward(s) /\ ~ IsDuplicate(s)
    /\ received' = received + 1 /\ reordered' = reordered + 1
    /\ lost' = lost - 1
    /\ window' = window \cup ({Ahead(highest, s)} \cap 1 .. Window)
    /\ UNCHANGED <<highest, duplicates, expected>>

Observe(s) == First(s) \/ Forward(s) \/ Duplicate(s) \/ Late(s)

TrackerReset ==
    /\ highest' = Unseen
    /\ received' = 0 /\ lost' = 0 /\ duplicates' = 0 /\ reordered' = 0
    /\ window' = {}
    /\ expected' = 0

TrackerNext == TrackerReset \/ \E s \in Sequences : Observe(s)

TrackerSpec == TrackerInit /\ [][TrackerNext]_tracker

-----------------------------------------------------------------------------
\* Never negative, whatever late packets retire.
LostEstimate == IF lost > 0 THEN lost ELSE 0

TrackerTypeOK ==
    /\ highest \in Sequences \cup {Unseen}
    /\ received \in Nat /\ lost \in Int /\ duplicates \in Nat /\ reordered \in Nat
    /\ window \subseteq 1 .. Window
    /\ expected \in Nat

\* Nothing is counted twice or forgotten: every number from the first packet to
\* the highest is either received or lost, in whatever order packets arrive.
Conservation == received + lost = expected
=============================================================================
