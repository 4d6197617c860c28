--------------------------- MODULE FileReassembler ---------------------------
(***************************************************************************)
(* The accumulator of one file transfer on the AA15 characteristic:        *)
(* FileReassembler of src/reassembly.rs.  A transfer is opened by an Info  *)
(* frame (0x97), filled by Data frames (0x98) that say where their bytes   *)
(* go, and closed by an End frame (0x99).  Every action is one call of     *)
(* handle() on one frame; the frames are arbitrary, because the link may   *)
(* lose them, and because every field is read straight off the wire.       *)
(*                                                                         *)
(* Abstraction.  A byte is a member of Values.  The zeroes that resize()   *)
(* writes into a hole are the distinct value Pad, so that padding is never *)
(* confused with a delivered byte.  The sorted vector of spans is the set  *)
(* of offsets it covers (SpanReassembler shows that the two agree); its    *)
(* length is the number of maximal runs of that set.                       *)
(***************************************************************************)
EXTENDS Integers, FiniteSets, Sequences

CONSTANTS
    Values,            \* what a delivered byte can be
    Pad,               \* the zero written into a hole by Vec::resize
    FileTypes,         \* the 0x97 type byte, kept raw
    Totals,            \* declared sizes the wire can carry
    Addrs,             \* offsets a 0x98 frame can address
    Chunks,            \* payloads a 0x98 frame can carry after its offset
    MaxFileBytes,      \* MAX_FILE_BYTES
    MaxReceivedSpans   \* MAX_RECEIVED_SPANS

ASSUME PadAssumption == Pad \notin Values

\* 4096 in the code; two is all the argument for Incomplete needs.
ASSUME BoundsAssumption ==
    /\ MaxFileBytes \in Nat \ {0}
    /\ MaxReceivedSpans \in Nat \ {0, 1}

ASSUME WireAssumption ==
    /\ Totals \subseteq Nat
    /\ Addrs \subseteq Nat
    /\ Chunks \subseteq Seq(Values)

VARIABLES
    declared_total,  \* of the open transfer; 0 when none is open, as progress() has it
    file_type,
    data,            \* contents by offset
    received,        \* the offsets a 0x98 frame genuinely delivered
    events           \* what the last call returned

transfer == <<declared_total, file_type, data, received>>
vars == <<declared_total, file_type, data, received, events>>

Offsets(n) == 0 .. n - 1
Contents(n) == [Offsets(n) -> Values \cup {Pad}]
Empty(n) == [i \in Offsets(n) |-> Pad]

-----------------------------------------------------------------------------
\* ReceivedRanges: the first offset of every maximal run, one per span.
Starts(offsets) == {i \in offsets : i - 1 \notin offsets}

Covered(offsets) == Cardinality(offsets)

\* MAX_RECEIVED_SPANS is tested before the merge.
TooFragmented(offsets) == Cardinality(Starts(offsets)) >= MaxReceivedSpans

\* Fault: completeness judged by how far the file extends.
WholeByExtent(offsets, total) == total - 1 \in offsets

\* Fault: a hole of one byte is let through.
WholeButOne(offsets, total) == Covered(offsets) >= total - 1

\* on_end's completeness test: it counts delivered bytes, never data.len().
IsWhole(offsets, total) == Covered(offsets) = total

-----------------------------------------------------------------------------
Started(total, type) == [kind |-> "Started", total |-> total, type |-> type]
Completed(type, contents) == [kind |-> "Completed", type |-> type, data |-> contents]
NoFileInfo == [kind |-> "NoFileInfo"]
ImplausibleSize(total) == [kind |-> "ImplausibleSize", total |-> total]
Superseded(got, total) == [kind |-> "Superseded", received |-> got, total |-> total]
OutOfRange(total) == [kind |-> "OutOfRange", total |-> total]
Incomplete(got, total) == [kind |-> "Incomplete", received |-> got, total |-> total]

Aborts == {"NoFileInfo", "ImplausibleSize", "Superseded", "OutOfRange", "Incomplete"}

IsOpen == declared_total > 0

Close ==
    /\ declared_total' = 0
    /\ file_type' = 0
    /\ data' = Empty(0)
    /\ received' = {}

Open(total, type) ==
    /\ declared_total' = total
    /\ file_type' = type
    /\ data' = Empty(total)
    /\ received' = {}

-----------------------------------------------------------------------------
Init ==
    /\ declared_total = 0
    /\ file_type = 0
    /\ data = Empty(0)
    /\ received = {}
    /\ events = <<>>

\* Fault: a new header discards the old transfer without a word.
DisplacedSilently == <<>>

\* An in-flight transfer is taken first and reported only if it had received anything.
Displaced ==
    IF Covered(received) > 0
    THEN <<Superseded(Covered(received), declared_total)>>
    ELSE <<>>

Plausible(total) == total # 0 /\ total <= MaxFileBytes

OnInfo(total, type) ==
    \/ /\ Plausible(total)
       /\ Open(total, type)
       /\ events' = Append(Displaced, Started(total, type))
    \/ /\ ~ Plausible(total)
       /\ Close
       /\ events' = Append(Displaced, ImplausibleSize(total))

\* Fault: a chunk that ends where the file ends is refused.
InRangeStrict(addr, chunk) == addr + Len(chunk) < declared_total

InRange(addr, chunk) == addr + Len(chunk) <= declared_total

Written(addr, chunk) == addr .. addr + Len(chunk) - 1

Write(addr, chunk) ==
    [i \in DOMAIN data |-> IF i \in Written(addr, chunk) THEN chunk[i - addr + 1] ELSE data[i]]

\* No transfer open, or nothing to write: the frame is dropped.
DataIgnored(addr, chunk) ==
    /\ \/ ~ IsOpen
       \/ chunk = <<>> /\ InRange(addr, chunk)
    /\ events' = <<>>
    /\ UNCHANGED transfer

DataStored(addr, chunk) ==
    /\ IsOpen
    /\ chunk # <<>>
    /\ InRange(addr, chunk)
    /\ ~ TooFragmented(received)
    /\ data' = Write(addr, chunk)
    /\ received' = received \cup Written(addr, chunk)
    /\ events' = <<>>
    /\ UNCHANGED <<declared_total, file_type>>

DataTooFragmented(addr, chunk) ==
    /\ IsOpen
    /\ chunk # <<>>
    /\ InRange(addr, chunk)
    /\ TooFragmented(received)
    /\ Close
    /\ events' = <<Incomplete(Covered(received), declared_total)>>

DataOutOfRange(addr, chunk) ==
    /\ IsOpen
    /\ ~ InRange(addr, chunk)
    /\ Close
    /\ events' = <<OutOfRange(declared_total)>>

OnData(addr, chunk) ==
    \/ DataIgnored(addr, chunk)
    \/ DataStored(addr, chunk)
    \/ DataTooFragmented(addr, chunk)
    \/ DataOutOfRange(addr, chunk)

\* Fault: an end frame that cannot complete the file drops it without a word.
OnEndSilently ==
    /\ Close
    /\ events' = IF IsOpen /\ IsWhole(received, declared_total)
                 THEN <<Completed(file_type, data)>> ELSE <<>>

\* Fault: an end frame that cannot complete the file leaves the transfer open.
OnEndKeepsTransfer ==
    \/ /\ ~ IsOpen
       /\ events' = <<NoFileInfo>>
       /\ UNCHANGED transfer
    \/ /\ IsOpen
       /\ ~ IsWhole(received, declared_total)
       /\ events' = <<Incomplete(Covered(received), declared_total)>>
       /\ UNCHANGED transfer
    \/ /\ IsOpen
       /\ IsWhole(received, declared_total)
       /\ events' = <<Completed(file_type, data)>>
       /\ Close

OnEnd ==
    /\ Close
    /\ \/ /\ ~ IsOpen
          /\ events' = <<NoFileInfo>>
       \/ /\ IsOpen
          /\ ~ IsWhole(received, declared_total)
          /\ events' = <<Incomplete(Covered(received), declared_total)>>
       \/ /\ IsOpen
          /\ IsWhole(received, declared_total)
          /\ events' = <<Completed(file_type, data)>>

\* A payload too short for its opcode, or an opcode of no one's: nothing happens.
OnUnusable ==
    /\ events' = <<>>
    /\ UNCHANGED transfer

\* reset(), called by the shell on disconnect and on its own transfer timeout.
Reset ==
    /\ Close
    /\ events' = <<>>

\* handle() on one frame: everything but the shell's reset().
Handle ==
    \/ \E total \in Totals, type \in FileTypes : OnInfo(total, type)
    \/ \E addr \in Addrs, chunk \in Chunks : OnData(addr, chunk)
    \/ OnEnd
    \/ OnUnusable

Next == Handle \/ Reset

Spec == Init /\ [][Next]_vars

-----------------------------------------------------------------------------
\* The shape of the state: a transfer is open exactly when it declares a
\* plausible size, and every delivered offset lies inside the declaration.
TypeOK ==
    /\ declared_total \in 0 .. MaxFileBytes
    /\ file_type \in FileTypes \cup {0}
    /\ data \in Contents(declared_total)
    /\ received \in SUBSET Offsets(declared_total)
    /\ DOMAIN events = 1 .. Len(events)

\* A file handed over holds no padding: each of its bytes was carried by some
\* 0x98 frame of the transfer.  A transfer that lost an interior frame, whose
\* hole resize() filled with zeroes, is never reported as complete.
CompletedIsGenuine ==
    \A k \in DOMAIN events :
        events[k].kind = "Completed" =>
            /\ DOMAIN events[k].data # {}
            /\ \A i \in DOMAIN events[k].data : events[k].data[i] \in Values

\* Incomplete is only ever reported of a file that really has a hole, whether
\* the End frame or the span cap ended the transfer: first_gap is never None.
IncompleteHasGap ==
    \A k \in DOMAIN events :
        events[k].kind = "Incomplete" => events[k].received < events[k].total

\* The bookkeeping of one transfer never outgrows MAX_RECEIVED_SPANS, however
\* the wire fragments the file.
SpansBounded == Cardinality(Starts(received)) <= MaxReceivedSpans

\* The event speaks of the transfer that is open: it hands it over, or says how it
\* ended and, but for OutOfRange, how much of it had come.
Accounts(event) ==
    event \in {Completed(file_type, data), OutOfRange(declared_total),
              Superseded(Covered(received), declared_total),
              Incomplete(Covered(received), declared_total)}

\* A failure is reported instead of swallowed: a frame that makes handle() discard
\* delivered bytes, whichever frame it is, makes it return an event that accounts
\* for the transfer they belonged to.  Only the shell's reset(), which is not a
\* call of handle(), forgets a transfer without a word.
DiscardIsReported ==
    [][ received # {} /\ ~ (received \subseteq received') /\ Handle =>
            \E k \in DOMAIN events' : Accounts(events'[k]) ]_vars

\* The length of the file the last call handed over, which is then its only event.
HandedLength ==
    IF Len(events) = 1 /\ events[1].kind = "Completed"
    THEN Cardinality(DOMAIN events[1].data)
    ELSE 0

Promise == INSTANCE FileDelivery WITH
    declared <- declared_total, got <- received, handed <- HandedLength

\* The reassembler implements the promise of module FileDelivery: a file leaves
\* it only from a transfer every declared offset of which has been delivered,
\* with exactly the declared length.
ImplementsDelivery == Promise!Delivery
=============================================================================
