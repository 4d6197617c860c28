---------------------------- MODULE ReceivedRanges ----------------------------
(***************************************************************************)
(* ReceivedRanges of src/reassembly.rs: the sorted vector of half-open     *)
(* spans behind FileReassembler's "received".  A loop over the vector is a *)
(* function of the turns taken.                                            *)
(***************************************************************************)
EXTENDS Integers, Sequences

Smaller(a, b) == IF a < b THEN a ELSE b
Larger(a, b) == IF a > b THEN a ELSE b

\* Fault: absorbing a span forgets to grow to its end.
MergeSpanShort(acc, span) ==
    LET s == span[1] e == span[2]
    IN  IF e < acc.lo
        THEN [acc EXCEPT !.merged = Append(@, span)]
        ELSE IF s > acc.hi
        THEN [acc EXCEPT !.merged = (IF acc.placed THEN @ ELSE Append(@, <<acc.lo, acc.hi>>))
                                        \o <<span>>,
                         !.placed = TRUE]
        ELSE [acc EXCEPT !.lo = Smaller(@, s)]

\* One turn of the loop: the span ends before the new one begins, starts after
\* it ends, or overlaps or abuts it and is absorbed.
MergeSpan(acc, span) ==
    LET s == span[1] e == span[2]
    IN  IF e < acc.lo
        THEN [acc EXCEPT !.merged = Append(@, span)]
        ELSE IF s > acc.hi
        THEN [acc EXCEPT !.merged = (IF acc.placed THEN @ ELSE Append(@, <<acc.lo, acc.hi>>))
                                        \o <<span>>,
                         !.placed = TRUE]
        ELSE [acc EXCEPT !.lo = Smaller(@, s), !.hi = Larger(@, e)]

Unmerged(start, end) == [lo |-> start, hi |-> end, merged |-> <<>>, placed |-> FALSE]

MergeTurns(old, start, end) ==
    LET acc[n \in 0 .. Len(old)] ==
            IF n = 0 THEN Unmerged(start, end) ELSE MergeSpan(acc[n - 1], old[n])
    IN  acc

Merge(old, start, end) ==
    LET acc == MergeTurns(old, start, end)[Len(old)]
    IN  IF acc.placed THEN acc.merged ELSE Append(acc.merged, <<acc.lo, acc.hi>>)

SumTurns(s) ==
    LET sum[n \in 0 .. Len(s)] == IF n = 0 THEN 0 ELSE sum[n - 1] + s[n][2] - s[n][1]
    IN  sum

Covered(s) == SumTurns(s)[Len(s)]

NoGap == -1

\* The cursor stops at the first span that starts beyond it.
Advance(acc, span) ==
    IF acc.stopped \/ span[1] > acc.cursor
    THEN [acc EXCEPT !.stopped = TRUE]
    ELSE [acc EXCEPT !.cursor = Larger(@, span[2])]

GapTurns(s) ==
    LET acc[n \in 0 .. Len(s)] ==
            IF n = 0 THEN [cursor |-> 0, stopped |-> FALSE] ELSE Advance(acc[n - 1], s[n])
    IN  acc

FirstGap(s, total) ==
    LET end == GapTurns(s)[Len(s)]
    IN  IF end.stopped \/ end.cursor < total THEN end.cursor ELSE NoGap
=============================================================================
