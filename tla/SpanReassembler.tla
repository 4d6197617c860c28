--------------------------- MODULE SpanReassembler ---------------------------
(***************************************************************************)
(* FileReassembler with the vector of spans it keeps, beside the set of    *)
(* offsets that stands for it: what insert() and a new transfer make of    *)
(* the vector, and that the two always say the same.                       *)
(***************************************************************************)
EXTENDS FileReassembler

VARIABLE spans    \* the vector of <<start, end>> pairs

Ranges == INSTANCE ReceivedRanges

SpanInit == Init /\ spans = <<>>

\* insert(), for the chunk that was stored; a transfer that ended has no spans.
Inserted(addr, chunk) ==
    spans' = IF DataStored(addr, chunk) THEN Ranges!Merge(spans, addr, addr + Len(chunk))
             ELSE IF declared_total' = 0 THEN <<>> ELSE spans

SpanNext ==
    \/ \E total \in Totals, type \in FileTypes : OnInfo(total, type) /\ spans' = <<>>
    \/ \E addr \in Addrs, chunk \in Chunks : OnData(addr, chunk) /\ Inserted(addr, chunk)
    \/ OnEnd /\ spans' = <<>>
    \/ OnUnusable /\ UNCHANGED spans
    \/ Reset /\ spans' = <<>>

SpanSpec == SpanInit /\ [][SpanNext]_<<vars, spans>>

-----------------------------------------------------------------------------
\* progress(): all zeroes when no transfer is open.
progress ==
    IF IsOpen
    THEN [received |-> Ranges!Covered(spans), declared_total |-> declared_total,
          file_type |-> file_type, first_gap |-> Ranges!FirstGap(spans, declared_total)]
    ELSE [received |-> 0, declared_total |-> 0, file_type |-> 0, first_gap |-> Ranges!NoGap]

\* TransferProgress::is_active.
is_active(p) == p.declared_total > 0

\* What an app is shown.
FfiProgress ==
    [received |-> progress.received, declared_total |-> progress.declared_total,
     file_type |-> progress.file_type, first_gap |-> progress.first_gap,
     is_active |-> is_active(progress)]

\* The vector is the set: sorted, disjoint and non-adjacent, as long as the set
\* has runs (what the cap counts), and what an app is shown of it is true: the
\* bytes received are those that really came, and the first gap is the first
\* offset that did not.
SpansAreExact ==
    /\ \A k \in DOMAIN spans : spans[k][1] < spans[k][2]
    /\ \A k \in 1 .. Len(spans) - 1 : spans[k][2] < spans[k + 1][1]
    /\ Len(spans) = Cardinality(Starts(received))
    /\ Len(spans) <= MaxReceivedSpans
    /\ FfiProgress.is_active = IsOpen
    /\ FfiProgress.received = Cardinality(received)
    /\ FfiProgress.first_gap = Ranges!NoGap <=> received = Offsets(FfiProgress.declared_total)
    /\ FfiProgress.first_gap # Ranges!NoGap =>
            FfiProgress.first_gap \notin received /\ Offsets(FfiProgress.first_gap) \subseteq received
=============================================================================
