--------------------------- MODULE Reassembly_proof ---------------------------
(***************************************************************************)
(* The bytes of a file, from the link to the whole file.                   *)
(*                                                                         *)
(* The reassembly, for every byte alphabet, every ceiling on the file size *)
(* and every span cap of at least two: the type invariant of               *)
(* FileReassembler, that a file handed over holds no padding, that         *)
(* Incomplete always names a real hole, and that the reassembler           *)
(* implements FileDelivery.  And that the vector of spans is the set of    *)
(* offsets that stands for it, and what progress() makes of the vector is  *)
(* true: three loops over a vector of any length, each a function of the   *)
(* turns taken, by induction on the turns.                                 *)
(*                                                                         *)
(* The framing, for every alphabet, magic and legal lengths, every queue   *)
(* of pieces and every cut of it into notifications (a piece each where a  *)
(* length may be corrupt): each undamaged frame comes out once, in the     *)
(* push that brings its last byte, because the buffer holds what has come  *)
(* of the frame under way and nothing else (StreamInv).  No buffer ever    *)
(* overflows.                                                              *)
(***************************************************************************)
EXTENDS SpanReassembler, FrameStream, FiniteSetTheorems, SequenceTheorems, WellFoundedInduction, TLAPS

\* What is delivered is in data, and what is not delivered is padding: the
\* relation between the two pieces of a transfer that on_end relies on.
DeliveredIsStored ==
    \A i \in Offsets(declared_total) :
        IF i \in received THEN data[i] \in Values ELSE data[i] = Pad

IInv == TypeOK /\ DeliveredIsStored /\ CompletedIsGenuine /\ IncompleteHasGap

-----------------------------------------------------------------------------
\* Offsets(n) is finite with n elements.
LEMMA OffsetsCardinality ==
    ASSUME NEW n \in Nat
    PROVE  IsFiniteSet(Offsets(n)) /\ Cardinality(Offsets(n)) = n
  BY FS_Interval DEF Offsets

\* Covered() of a set of offsets is a number between 0 and the declared size,
\* and reaches the size only on the whole file.
LEMMA CoveredBounds ==
    ASSUME NEW n \in Nat, NEW S \in SUBSET Offsets(n)
    PROVE  /\ Covered(S) \in 0 .. n
           /\ IsWhole(S, n) => S = Offsets(n)
  <1>1. IsFiniteSet(Offsets(n)) /\ Cardinality(Offsets(n)) = n
    BY OffsetsCardinality
  <1>2. /\ IsFiniteSet(S)
        /\ Cardinality(S) <= Cardinality(Offsets(n))
        /\ Cardinality(Offsets(n)) = Cardinality(S) => Offsets(n) = S
    BY <1>1, FS_Subset
  <1>3. Cardinality(S) \in Nat
    BY <1>2, FS_CardinalityType
  <1> QED
    BY <1>1, <1>2, <1>3 DEF Covered, IsWhole

\* The whole file is a single span, so the span cap never ends a transfer that
\* has nothing missing.
LEMMA WholeIsOneSpan ==
    ASSUME NEW n \in Nat, NEW S \in SUBSET Offsets(n), TooFragmented(S)
    PROVE  Covered(S) < n
  <1>1. SUFFICES ASSUME S = Offsets(n) PROVE FALSE
    <2>1. Covered(S) \in 0 .. n /\ (Covered(S) = n => S = Offsets(n))
      BY CoveredBounds DEF IsWhole
    <2> QED
      BY <2>1
  <1>2. Starts(S) \in SUBSET {0}
    BY <1>1 DEF Starts, Offsets
  <1>3. IsFiniteSet({0}) /\ Cardinality({0}) = 1
    BY FS_Singleton
  <1>4. Cardinality(Starts(S)) <= 1
    BY <1>2, <1>3, FS_Subset
  <1>5. Cardinality(Starts(S)) \in Nat
    BY <1>2, <1>3, FS_Subset, FS_CardinalityType
  <1> QED
    BY <1>4, <1>5, BoundsAssumption DEF TooFragmented

-----------------------------------------------------------------------------
\* Closing a transfer leaves a well-typed, empty one.
LEMMA CloseTyped ==
    ASSUME Close
    PROVE  /\ declared_total' \in 0 .. MaxFileBytes
           /\ file_type' \in FileTypes \cup {0}
           /\ data' \in Contents(declared_total')
           /\ received' \in SUBSET Offsets(declared_total')
           /\ DeliveredIsStored'
  BY BoundsAssumption DEF Close, Contents, Empty, Offsets, DeliveredIsStored

LEMMA InitIInv == Init => IInv
  <1> SUFFICES ASSUME Init PROVE IInv
    OBVIOUS
  <1>1. TypeOK
    BY BoundsAssumption DEF Init, TypeOK, Contents, Empty, Offsets
  <1> QED
    BY <1>1 DEF Init, IInv, DeliveredIsStored, CompletedIsGenuine, IncompleteHasGap, Offsets

\* What on_info returns: the report of a displaced transfer, if there is one,
\* and then the event e.
LEMMA InfoEvents ==
    ASSUME NEW e, events' = Append(Displaced, e)
    PROVE  /\ DOMAIN events' = 1 .. Len(events')
           /\ \A k \in DOMAIN events' : events'[k] = e \/ events'[k].kind = "Superseded"
  <1>1. CASE Covered(received) > 0
    <2> DEFINE first == Superseded(Covered(received), declared_total)
    <2>1. Displaced = <<first>>
      BY <1>1 DEF Displaced
    <2>2. first.kind = "Superseded"
      BY DEF Superseded
    <2> HIDE DEF first
    <2>3. /\ DOMAIN events' = 1 .. 2
          /\ Len(events') = 2
          /\ events'[1] = first
          /\ events'[2] = e
      BY <2>1
    <2> QED
      BY <2>2, <2>3
  <1>2. CASE ~ (Covered(received) > 0)
    <2>1. events' = <<e>>
      BY <1>2 DEF Displaced
    <2> QED
      BY <2>1
  <1> QED
    BY <1>1, <1>2

LEMMA InfoIInv ==
    ASSUME IInv, NEW total \in Totals, NEW type \in FileTypes, OnInfo(total, type)
    PROVE  IInv'
  <1>1. CASE Plausible(total) /\ Open(total, type)
             /\ events' = Append(Displaced, Started(total, type))
    <2>1. TypeOK'
      BY <1>1, WireAssumption, InfoEvents
         DEF TypeOK, Open, Plausible, Contents, Empty, Offsets
    <2>2. DeliveredIsStored'
      BY <1>1 DEF DeliveredIsStored, Open, Empty, Offsets
    <2>3. Started(total, type).kind = "Started"
      BY DEF Started
    <2>4. \A k \in DOMAIN events' : events'[k].kind \in {"Started", "Superseded"}
      BY <1>1, <2>3, InfoEvents
    <2> QED
      BY <2>1, <2>2, <2>4 DEF IInv, CompletedIsGenuine, IncompleteHasGap
  <1>2. CASE Close /\ events' = Append(Displaced, ImplausibleSize(total))
    <2>1. TypeOK' /\ DeliveredIsStored'
      BY <1>2, CloseTyped, InfoEvents DEF TypeOK
    <2>2. ImplausibleSize(total).kind = "ImplausibleSize"
      BY DEF ImplausibleSize
    <2>3. \A k \in DOMAIN events' : events'[k].kind \in {"ImplausibleSize", "Superseded"}
      BY <1>2, <2>2, InfoEvents
    <2> QED
      BY <2>1, <2>3 DEF IInv, CompletedIsGenuine, IncompleteHasGap
  <1> QED
    BY <1>1, <1>2 DEF OnInfo

-----------------------------------------------------------------------------
\* A stored chunk keeps data and received in step, offset by offset.
LEMMA StoredIInv ==
    ASSUME IInv, NEW addr \in Addrs, NEW chunk \in Chunks, DataStored(addr, chunk)
    PROVE  IInv'
  <1> USE DEF IInv
  <1>1. /\ addr \in Nat
        /\ chunk \in Seq(Values)
        /\ Len(chunk) \in Nat
        /\ declared_total \in Nat
        /\ addr + Len(chunk) <= declared_total
    BY WireAssumption DEF DataStored, InRange, TypeOK
  <1>2. Written(addr, chunk) \subseteq Offsets(declared_total)
    BY <1>1 DEF Written, Offsets
  <1>3. \A i \in Written(addr, chunk) : chunk[i - addr + 1] \in Values
    BY <1>1 DEF Written
  <1>4. DOMAIN data = Offsets(declared_total) /\ declared_total' = declared_total
    BY DEF TypeOK, Contents, DataStored
  <1>5. data' \in Contents(declared_total')
    BY <1>3, <1>4 DEF DataStored, Write, Contents, TypeOK
  <1>6. DeliveredIsStored'
    BY <1>2, <1>3, <1>4 DEF DeliveredIsStored, DataStored, Write
  <1>7. TypeOK'
    BY <1>2, <1>4, <1>5 DEF TypeOK, DataStored
  <1> QED
    BY <1>6, <1>7 DEF DataStored, CompletedIsGenuine, IncompleteHasGap

\* A call that closes the transfer and reports one Incomplete event.
LEMMA IncompleteIInv ==
    ASSUME IInv, Close, Covered(received) < declared_total,
           events' = <<Incomplete(Covered(received), declared_total)>>
    PROVE  IInv'
  <1>1. TypeOK' /\ DeliveredIsStored'
    BY CloseTyped DEF TypeOK
  <1>2. /\ Incomplete(Covered(received), declared_total).kind = "Incomplete"
        /\ Incomplete(Covered(received), declared_total).received = Covered(received)
        /\ Incomplete(Covered(received), declared_total).total = declared_total
    BY DEF Incomplete
  <1> QED
    BY <1>1, <1>2 DEF IInv, CompletedIsGenuine, IncompleteHasGap

\* A call that closes the transfer and returns nothing, or one event that is
\* neither a file nor an Incomplete.
LEMMA QuietCloseIInv ==
    ASSUME IInv, Close, NEW e, e.kind \notin {"Completed", "Incomplete"},
           events' = <<>> \/ events' = <<e>>
    PROVE  IInv'
  <1>1. TypeOK' /\ DeliveredIsStored'
    BY CloseTyped DEF TypeOK
  <1> QED
    BY <1>1 DEF IInv, CompletedIsGenuine, IncompleteHasGap

LEMMA DataIInv ==
    ASSUME IInv, NEW addr \in Addrs, NEW chunk \in Chunks, OnData(addr, chunk)
    PROVE  IInv'
  <1>1. CASE DataIgnored(addr, chunk)
    BY <1>1 DEF DataIgnored, transfer, IInv, TypeOK, DeliveredIsStored,
                CompletedIsGenuine, IncompleteHasGap
  <1>2. CASE DataStored(addr, chunk)
    BY <1>2, StoredIInv
  <1>3. CASE DataTooFragmented(addr, chunk)
    <2>1. Covered(received) < declared_total
      BY <1>3, WholeIsOneSpan DEF DataTooFragmented, IInv, TypeOK
    <2> QED
      BY <1>3, <2>1, IncompleteIInv DEF DataTooFragmented
  <1>4. CASE DataOutOfRange(addr, chunk)
    <2>1. OutOfRange(declared_total).kind = "OutOfRange"
      BY DEF OutOfRange
    <2> QED
      BY <1>4, <2>1, QuietCloseIInv DEF DataOutOfRange
  <1> QED
    BY <1>1, <1>2, <1>3, <1>4 DEF OnData

\* The completeness test counts delivered offsets, so what it passes is whole.
LEMMA EndIInv ==
    ASSUME IInv, OnEnd
    PROVE  IInv'
  <1>1. CASE ~ IsOpen /\ events' = <<NoFileInfo>>
    <2>1. NoFileInfo.kind = "NoFileInfo"
      BY DEF NoFileInfo
    <2> QED
      BY <1>1, <2>1, QuietCloseIInv DEF OnEnd
  <1>2. CASE /\ IsOpen
             /\ ~ IsWhole(received, declared_total)
             /\ events' = <<Incomplete(Covered(received), declared_total)>>
    <2>1. Covered(received) < declared_total
      BY <1>2, CoveredBounds DEF IInv, TypeOK, IsWhole
    <2> QED
      BY <1>2, <2>1, IncompleteIInv DEF OnEnd
  <1>3. CASE /\ IsOpen
             /\ IsWhole(received, declared_total)
             /\ events' = <<Completed(file_type, data)>>
    <2>1. received = Offsets(declared_total)
      BY <1>3, CoveredBounds DEF IInv, TypeOK
    <2>2. DOMAIN data = Offsets(declared_total)
      BY DEF IInv, TypeOK, Contents
    <2>3. \A i \in DOMAIN data : data[i] \in Values
      BY <2>1, <2>2 DEF IInv, DeliveredIsStored
    <2>4. 0 \in DOMAIN data
      BY <1>3, <2>2 DEF IInv, TypeOK, Offsets, IsOpen
    <2>5. /\ Completed(file_type, data).kind = "Completed"
          /\ Completed(file_type, data).data = data
      BY DEF Completed
    <2>6. TypeOK' /\ DeliveredIsStored'
      BY <1>3, CloseTyped DEF TypeOK, OnEnd
    <2> QED
      BY <1>3, <2>3, <2>4, <2>5, <2>6 DEF IInv, CompletedIsGenuine, IncompleteHasGap
  <1> QED
    BY <1>1, <1>2, <1>3 DEF OnEnd

LEMMA NextIInv == IInv /\ [Next]_vars => IInv'
  <1> SUFFICES ASSUME IInv, [Next]_vars PROVE IInv'
    OBVIOUS
  <1>1. ASSUME NEW total \in Totals, NEW type \in FileTypes, OnInfo(total, type)
        PROVE  IInv'
    BY <1>1, InfoIInv
  <1>2. ASSUME NEW addr \in Addrs, NEW chunk \in Chunks, OnData(addr, chunk)
        PROVE  IInv'
    BY <1>2, DataIInv
  <1>3. CASE OnEnd
    BY <1>3, EndIInv
  <1>4. CASE OnUnusable
    BY <1>4 DEF OnUnusable, transfer, IInv, TypeOK, DeliveredIsStored,
                CompletedIsGenuine, IncompleteHasGap
  <1>5. CASE Reset
    <2>1. NoFileInfo.kind = "NoFileInfo"
      BY DEF NoFileInfo
    <2> QED
      BY <1>5, <2>1, QuietCloseIInv DEF Reset
  <1>6. CASE UNCHANGED vars
    BY <1>6 DEF vars, IInv, TypeOK, DeliveredIsStored, CompletedIsGenuine, IncompleteHasGap
  <1> QED
    BY <1>1, <1>2, <1>3, <1>4, <1>5, <1>6 DEF Next, Handle

\* The inductive invariant holds of every behaviour.
LEMMA Invariance == Spec => []IInv
  BY InitIInv, NextIInv, PTL DEF Spec

\* The state of the reassembler is always well typed.
THEOREM TypeCorrect == Spec => []TypeOK
  <1>1. IInv => TypeOK
    BY DEF IInv
  <1> QED
    BY <1>1, Invariance, PTL

\* A file with a hole is never handed over as complete.
THEOREM CompletedGenuine == Spec => []CompletedIsGenuine
  <1>1. IInv => CompletedIsGenuine
    BY DEF IInv
  <1> QED
    BY <1>1, Invariance, PTL

\* Incomplete is never reported of a file that has every byte.
THEOREM IncompleteGap == Spec => []IncompleteHasGap
  <1>1. IInv => IncompleteHasGap
    BY DEF IInv
  <1> QED
    BY <1>1, Invariance, PTL

-----------------------------------------------------------------------------
\* A chunk adds at most one run: only its own first offset can start a new one.
LEMMA OneMoreStart ==
    ASSUME NEW S, NEW a \in Int, NEW b \in Int, IsFiniteSet(Starts(S))
    PROVE  /\ IsFiniteSet(Starts(S \cup a .. b))
           /\ Cardinality(Starts(S \cup a .. b)) <= Cardinality(Starts(S)) + 1
  <1>1. Starts(S \cup a .. b) \subseteq Starts(S) \cup {a}
    BY DEF Starts
  <1>2. /\ IsFiniteSet(Starts(S) \cup {a})
        /\ Cardinality(Starts(S) \cup {a}) <= Cardinality(Starts(S)) + 1
    BY FS_AddElement, FS_CardinalityType
  <1>3. /\ IsFiniteSet(Starts(S \cup a .. b))
        /\ Cardinality(Starts(S \cup a .. b)) <= Cardinality(Starts(S) \cup {a})
    BY <1>1, <1>2, FS_Subset
  <1>4. /\ Cardinality(Starts(S \cup a .. b)) \in Nat
        /\ Cardinality(Starts(S) \cup {a}) \in Nat
        /\ Cardinality(Starts(S)) \in Nat
    BY <1>2, <1>3, FS_CardinalityType
  <1> QED
    BY <1>2, <1>3, <1>4

\* The runs of a set of offsets are finitely many.
LEMMA StartsFinite ==
    ASSUME NEW n \in Nat, NEW S \in SUBSET Offsets(n)
    PROVE  IsFiniteSet(Starts(S)) /\ Cardinality(Starts(S)) \in Nat
  <1>1. Starts(S) \in SUBSET Offsets(n)
    BY DEF Starts
  <1> QED
    BY <1>1, OffsetsCardinality, FS_Subset, FS_CardinalityType

\* No step of the reassembler exceeds the cap on the number of spans.
LEMMA NextSpansBounded == TypeOK /\ SpansBounded /\ [Next]_vars => SpansBounded'
  <1> SUFFICES ASSUME TypeOK, SpansBounded, [Next]_vars PROVE SpansBounded'
    OBVIOUS
  <1>1. CASE received' = received
    BY <1>1 DEF SpansBounded
  <1>2. CASE received' = {}
    <2>1. Starts(received') = {}
      BY <1>2 DEF Starts
    <2> QED
      BY <2>1, FS_EmptySet, BoundsAssumption DEF SpansBounded
  <1>3. ASSUME NEW addr \in Addrs, NEW chunk \in Chunks, DataStored(addr, chunk)
        PROVE  SpansBounded'
    <2>1. addr \in Int /\ addr + Len(chunk) - 1 \in Int
      BY WireAssumption
    <2>2. declared_total \in Nat /\ received \in SUBSET Offsets(declared_total)
      BY DEF TypeOK
    <2>3. IsFiniteSet(Starts(received)) /\ Cardinality(Starts(received)) \in Nat
      BY <2>2, StartsFinite
    <2>4. Cardinality(Starts(received)) < MaxReceivedSpans
      BY <1>3, <2>3, BoundsAssumption DEF DataStored, TooFragmented
    <2>5. /\ IsFiniteSet(Starts(received'))
          /\ Cardinality(Starts(received')) <= Cardinality(Starts(received)) + 1
      BY <1>3, <2>1, <2>3, OneMoreStart DEF DataStored, Written
    <2>6. Cardinality(Starts(received')) \in Nat
      BY <2>5, FS_CardinalityType
    <2> QED
      BY <2>3, <2>4, <2>5, <2>6, BoundsAssumption DEF SpansBounded
  <1>4. ASSUME NEW addr \in Addrs, NEW chunk \in Chunks, OnData(addr, chunk)
        PROVE  SpansBounded'
    BY <1>1, <1>2, <1>3, <1>4
       DEF OnData, DataIgnored, DataTooFragmented, DataOutOfRange, transfer, Close
  <1> QED
    BY <1>1, <1>2, <1>4
       DEF Next, Handle, vars, OnInfo, Open, Close, OnEnd, OnUnusable, Reset, transfer

\* However the wire fragments a file, its bookkeeping stays within the cap.
THEOREM SpanCap == Spec => []SpansBounded
  <1>1. Init => SpansBounded
    <2>1. Starts({}) = {}
      BY DEF Starts
    <2> QED
      BY <2>1, FS_EmptySet, BoundsAssumption DEF Init, SpansBounded
  <1> QED
    BY <1>1, NextSpansBounded, TypeCorrect, PTL DEF Spec

-----------------------------------------------------------------------------
\* A call that hands nothing over maps to a step with handed' = 0.
LEMMA NothingHanded ==
    ASSUME \/ events' = <<>>
           \/ \E e : events' = <<e>> /\ e.kind # "Completed"
           \/ Len(events') = 2
    PROVE  HandedLength' = 0
  BY DEF HandedLength

\* on_info maps to Begin, or to GiveUp when it refuses the size.
LEMMA InfoStep ==
    ASSUME TypeOK, NEW total \in Totals, NEW type \in FileTypes, OnInfo(total, type)
    PROVE  Promise!Step
  <1>1. ASSUME NEW e, events' = Append(Displaced, e), e.kind # "Completed"
        PROVE  HandedLength' = 0
    <2>1. Displaced = <<>> \/ \E x : Displaced = <<x>>
      BY DEF Displaced
    <2>2. CASE Displaced = <<>>
      <3>1. Len(events') = 1 /\ events'[1] = e
        BY <1>1, <2>2
      <3> QED
        BY <1>1, <3>1 DEF HandedLength
    <2>3. CASE \E x : Displaced = <<x>>
      <3>1. Len(events') = 2
        BY <1>1, <2>3
      <3> QED
        BY <3>1, NothingHanded
    <2> QED
      BY <2>1, <2>2, <2>3
  <1>2. CASE Plausible(total) /\ Open(total, type)
             /\ events' = Append(Displaced, Started(total, type))
    <2>1. Started(total, type).kind # "Completed"
      BY DEF Started
    <2>2. total \in 1 .. MaxFileBytes
      BY <1>2, WireAssumption, BoundsAssumption DEF Plausible
    <2>3. HandedLength' = 0
      BY <1>1, <1>2, <2>1
    <2>4. Promise!Begin(total)
      BY <1>2, <2>3 DEF Promise!Begin, Open
    <2> QED
      BY <2>2, <2>4 DEF Promise!Step
  <1>3. CASE Close /\ events' = Append(Displaced, ImplausibleSize(total))
    <2>1. ImplausibleSize(total).kind # "Completed"
      BY DEF ImplausibleSize
    <2>2. HandedLength' = 0
      BY <1>1, <1>3, <2>1
    <2> QED
      BY <1>3, <2>2 DEF Promise!Step, Promise!GiveUp, Close
  <1> QED
    BY <1>2, <1>3 DEF OnInfo

\* on_data maps to Deliver, or to GiveUp when it ends the transfer.
LEMMA DataStep ==
    ASSUME TypeOK, NEW addr \in Addrs, NEW chunk \in Chunks, OnData(addr, chunk)
    PROVE  Promise!Step
  <1>1. CASE DataIgnored(addr, chunk)
    <2>1. HandedLength' = 0
      BY <1>1, NothingHanded DEF DataIgnored
    <2>2. Promise!Deliver({})
      BY <1>1, <2>1 DEF Promise!Deliver, DataIgnored, transfer
    <2> QED
      BY <2>2 DEF Promise!Step
  <1>2. CASE DataStored(addr, chunk)
    <2>1. HandedLength' = 0
      BY <1>2, NothingHanded DEF DataStored
    <2>2. Written(addr, chunk) \subseteq 0 .. declared_total - 1
      BY <1>2, WireAssumption DEF DataStored, InRange, Written, TypeOK
    <2>3. Promise!Deliver(Written(addr, chunk))
      BY <1>2, <2>1, <2>2 DEF Promise!Deliver, DataStored
    <2> QED
      BY <2>2, <2>3 DEF Promise!Step
  <1>3. CASE DataTooFragmented(addr, chunk)
    <2>1. Incomplete(Covered(received), declared_total).kind # "Completed"
      BY DEF Incomplete
    <2>2. HandedLength' = 0
      BY <1>3, <2>1, NothingHanded DEF DataTooFragmented
    <2> QED
      BY <1>3, <2>2 DEF Promise!Step, Promise!GiveUp, DataTooFragmented, Close
  <1>4. CASE DataOutOfRange(addr, chunk)
    <2>1. OutOfRange(declared_total).kind # "Completed"
      BY DEF OutOfRange
    <2>2. HandedLength' = 0
      BY <1>4, <2>1, NothingHanded DEF DataOutOfRange
    <2> QED
      BY <1>4, <2>2 DEF Promise!Step, Promise!GiveUp, DataOutOfRange, Close
  <1> QED
    BY <1>1, <1>2, <1>3, <1>4 DEF OnData

\* on_end maps to HandOver exactly when it returns the file.
LEMMA EndStep ==
    ASSUME TypeOK, OnEnd
    PROVE  Promise!Step
  <1>1. CASE IsOpen /\ IsWhole(received, declared_total)
             /\ events' = <<Completed(file_type, data)>>
    <2>1. /\ declared_total \in Nat
          /\ received = Offsets(declared_total)
          /\ DOMAIN data = Offsets(declared_total)
      BY <1>1, CoveredBounds DEF TypeOK, Contents
    <2>2. /\ Completed(file_type, data).kind = "Completed"
          /\ Completed(file_type, data).data = data
      BY DEF Completed
    <2>3. HandedLength' = Cardinality(DOMAIN data)
      BY <1>1, <2>2 DEF HandedLength
    <2>4. HandedLength' = declared_total
      BY <2>1, <2>3, OffsetsCardinality
    <2> QED
      BY <1>1, <2>1, <2>4 DEF Promise!Step, Promise!HandOver, OnEnd, Close, IsOpen, Offsets
  <1>2. CASE ~ IsOpen /\ events' = <<NoFileInfo>>
    <2>1. NoFileInfo.kind # "Completed"
      BY DEF NoFileInfo
    <2>2. HandedLength' = 0
      BY <1>2, <2>1, NothingHanded
    <2> QED
      BY <2>2 DEF Promise!Step, Promise!GiveUp, OnEnd, Close
  <1>3. CASE events' = <<Incomplete(Covered(received), declared_total)>>
    <2>1. Incomplete(Covered(received), declared_total).kind # "Completed"
      BY DEF Incomplete
    <2>2. HandedLength' = 0
      BY <1>3, <2>1, NothingHanded
    <2> QED
      BY <2>2 DEF Promise!Step, Promise!GiveUp, OnEnd, Close
  <1> QED
    BY <1>1, <1>2, <1>3 DEF OnEnd

\* The reassembler hands files over only as FileDelivery allows.
THEOREM Refinement == Spec => ImplementsDelivery
  <1>1. Init => Promise!Nothing
    BY DEF Init, Promise!Nothing, HandedLength
  <1>2. TypeOK /\ [Next]_vars => [Promise!Step]_<<declared_total, received, HandedLength>>
    <2> SUFFICES ASSUME TypeOK, [Next]_vars
                 PROVE  Promise!Step \/ UNCHANGED <<declared_total, received, HandedLength>>
      OBVIOUS
    <2>1. CASE OnEnd
      BY <2>1, EndStep
    <2>2. CASE OnUnusable
      <3>1. HandedLength' = 0
        BY <2>2, NothingHanded DEF OnUnusable
      <3>2. Promise!Deliver({})
        BY <2>2, <3>1 DEF Promise!Deliver, OnUnusable, transfer
      <3> QED
        BY <3>2 DEF Promise!Step
    <2>3. CASE Reset
      <3>1. HandedLength' = 0
        BY <2>3, NothingHanded DEF Reset
      <3> QED
        BY <2>3, <3>1 DEF Promise!Step, Promise!GiveUp, Reset, Close
    <2>4. CASE UNCHANGED vars
      BY <2>4 DEF vars, HandedLength
    <2> QED
      BY <2>1, <2>2, <2>3, <2>4, InfoStep, DataStep DEF Next, Handle
  <1> QED
    BY <1>1, <1>2, TypeCorrect, PTL DEF Spec, ImplementsDelivery, Promise!Delivery

-----------------------------------------------------------------------------
\* A frame that makes handle() discard delivered bytes gets an answer that accounts
\* for their transfer; reset() alone, which is no frame, forgets it without a word.
THEOREM DiscardReported == Spec => DiscardIsReported
  <1> DEFINE Discards == received # {} /\ ~ (received \subseteq received')
             Reports == \E k \in DOMAIN events' : Accounts(events'[k])
  <1>1. TypeOK /\ Handle /\ Discards => Reports
    <2> SUFFICES ASSUME TypeOK, Handle, Discards PROVE Reports
      OBVIOUS
    <2>1. Covered(received) > 0 /\ IsOpen
      <3>1. declared_total \in Nat /\ received \in SUBSET Offsets(declared_total)
        BY DEF TypeOK
      <3>2. IsFiniteSet(received)
        BY <3>1, OffsetsCardinality, FS_Subset
      <3> QED
        BY <3>1, <3>2, FS_EmptySet, FS_CardinalityType DEF Covered, IsOpen, Offsets
    <2>2. ASSUME NEW e, Accounts(e), events' = <<e>> PROVE Reports
      <3>1. 1 \in DOMAIN events' /\ events'[1] = e
        BY <2>2
      <3> QED
        BY <2>2, <3>1
    <2>3. ASSUME NEW total \in Totals, NEW type \in FileTypes, OnInfo(total, type)
          PROVE  Reports
      <3> DEFINE first == Superseded(Covered(received), declared_total)
      <3>1. PICK e : events' = Append(Displaced, e)
        BY <2>3 DEF OnInfo
      <3>2. Displaced = <<first>>
        BY <2>1 DEF Displaced
      <3>3. Accounts(first)
        BY DEF Accounts
      <3> HIDE DEF first
      <3>4. 1 \in DOMAIN events' /\ events'[1] = first
        BY <3>1, <3>2
      <3> QED
        BY <3>3, <3>4
    <2>4. ASSUME NEW addr \in Addrs, NEW chunk \in Chunks, OnData(addr, chunk)
          PROVE  Reports
      <3>1. CASE DataIgnored(addr, chunk) \/ DataStored(addr, chunk)
        BY <3>1 DEF DataIgnored, DataStored, transfer
      <3>2. CASE DataTooFragmented(addr, chunk)
        BY <2>2, <3>2 DEF DataTooFragmented, Accounts
      <3>3. CASE DataOutOfRange(addr, chunk)
        BY <2>2, <3>3 DEF DataOutOfRange, Accounts
      <3> QED
        BY <2>4, <3>1, <3>2, <3>3 DEF OnData
    <2>5. CASE OnEnd
      BY <2>1, <2>2, <2>5 DEF OnEnd, Accounts
    <2> QED
      BY <2>3, <2>4, <2>5 DEF Handle, OnUnusable, transfer
  <1> QED
    BY <1>1, TypeCorrect, PTL DEF DiscardIsReported

-----------------------------------------------------------------------------
(* Loops over a vector: induction over the turns.                          *)

\* A set of numbers that is not empty has a least one.
LEMMA Least ==
    ASSUME NEW T, T \subseteq Nat, T # {}
    PROVE  \E m \in T : \A n \in T : m <= n
  <1> DEFINE R == {ss \in Nat \X Nat : ss[1] < ss[2]}
  <1>1. IsWellFoundedOn(R, Nat)
    BY NatLessThanWellFounded DEF OpToRel
  <1> HIDE DEF R
  <1>2. \E x \in T : \A y \in T : ~ (<<y, x>> \in R)
    BY <1>1, WFMin
  <1>3. \A x, y \in Nat : ~ (<<y, x>> \in R) => x <= y
    BY DEF R
  <1> QED
    BY <1>2, <1>3

\* Induction up to n, the induction hypothesis as a set.
LEMMA UpTo ==
    ASSUME NEW n \in Nat, NEW T, 0 \in T, \A i \in 1 .. n : i - 1 \in T => i \in T
    PROVE  \A i \in 0 .. n : i \in T
  <1> DEFINE missing == {i \in 0 .. n : i \notin T}
  <1> SUFFICES ASSUME missing # {} PROVE FALSE
    OBVIOUS
  <1>0. missing \subseteq Nat
    OBVIOUS
  <1>1. PICK m \in missing : \A i \in missing : m <= i
    <2> HIDE DEF missing
    <2> QED
      BY <1>0, Least
  <1>2. m \in 1 .. n
    BY <1>1
  <1>3. m - 1 \in 0 .. n /\ ~ (m <= m - 1)
    BY <1>2
  <1>4. m - 1 \in T
    BY <1>1, <1>3
  <1> QED
    BY <1>1, <1>2, <1>4

\* f runs through a loop of n turns, from base on: turn i makes step[i][x] of x.
RunsThrough(f, n, S, base, step) ==
    /\ f \in [0 .. n -> S]
    /\ f[0] = base
    /\ \A i \in 1 .. n : f[i] = step[i][f[i - 1]]

\* There is such a function.
LEMMA Turns ==
    ASSUME NEW n \in Nat, NEW S, NEW base \in S,
           NEW step, \A i \in 1 .. n : \A x \in S : step[i][x] \in S
    PROVE  \E f : RunsThrough(f, n, S, base, step)
  <1> DEFINE Runs(m, g) == g[0] = base /\ \A i \in 1 .. m : g[i] = step[i][g[i - 1]]
             T == {m \in 0 .. n : \E g \in [0 .. m -> S] : Runs(m, g)}
  <1>1. 0 \in T
    <2> DEFINE g == [i \in 0 .. 0 |-> base]
    <2>1. g \in [0 .. 0 -> S] /\ g[0] = base
      OBVIOUS
    <2>2. Runs(0, g)
      BY <2>1
    <2> HIDE DEF Runs, g
    <2> QED
      BY <2>1, <2>2
  <1>2. ASSUME NEW m \in 1 .. n, m - 1 \in T PROVE m \in T
    <2>1. PICK g \in [0 .. m - 1 -> S] : Runs(m - 1, g)
      BY <1>2
    <2> DEFINE x == step[m][g[m - 1]]
               h == [i \in 0 .. m |-> IF i = m THEN x ELSE g[i]]
    <2>2. m - 1 \in 0 .. m - 1 /\ m \in 0 .. n /\ 0 \in 0 .. m - 1 /\ m # 0
      OBVIOUS
    <2>3. x \in S
      BY <2>1, <2>2
    <2> HIDE DEF x
    <2>4. \A i \in 0 .. m : i # m => i \in 0 .. m - 1
      OBVIOUS
    <2>5. h \in [0 .. m -> S]
      BY <2>3, <2>4
    <2>6. h[0] = base
      BY <2>1, <2>2
    <2>7. ASSUME NEW i \in 1 .. m PROVE h[i] = step[i][h[i - 1]]
      <3>1. i \in 0 .. m /\ i - 1 \in 0 .. m /\ i - 1 # m
        OBVIOUS
      <3>2. h[i - 1] = g[i - 1]
        BY <3>1
      <3>3. CASE i = m
        BY <3>1, <3>2, <3>3 DEF x
      <3>4. CASE i # m
        <4>1. i \in 1 .. m - 1
          BY <3>4
        <4> QED
          BY <2>1, <3>1, <3>2, <3>4, <4>1
      <3> QED
        BY <3>3, <3>4
    <2>8. Runs(m, h)
      BY <2>6, <2>7
    <2> HIDE DEF h, Runs
    <2> QED
      BY <2>2, <2>5, <2>8
  <1> HIDE DEF T
  <1>3. \A i \in 0 .. n : i \in T
    BY <1>1, <1>2, UpTo
  <1>4. n \in T
    BY <1>3
  <1>5. PICK g \in [0 .. n -> S] : Runs(n, g)
    BY <1>4 DEF T
  <1>6. RunsThrough(g, n, S, base, step)
    BY <1>5 DEF RunsThrough
  <1> QED
    BY <1>6

-----------------------------------------------------------------------------
(* insert().                                                               *)

Pairs == Nat \X Nat

\* What the loop of insert() carries from turn to turn.
Accs == [lo : Nat, hi : Nat, merged : Seq(Pairs), placed : BOOLEAN]

LEMMA TurnTyped ==
    ASSUME NEW acc \in Accs, NEW span \in Pairs
    PROVE  Ranges!MergeSpan(acc, span) \in Accs
  <1>1. acc.lo \in Nat /\ acc.hi \in Nat /\ acc.merged \in Seq(Pairs) /\ acc.placed \in BOOLEAN
    BY DEF Accs
  <1>2. span[1] \in Nat /\ span[2] \in Nat /\ <<acc.lo, acc.hi>> \in Pairs
    BY <1>1 DEF Pairs
  <1>3. Ranges!Smaller(acc.lo, span[1]) \in Nat /\ Ranges!Larger(acc.hi, span[2]) \in Nat
    BY <1>1, <1>2 DEF Ranges!Smaller, Ranges!Larger
  <1>4. \A s \in Seq(Pairs) : \A p \in Pairs : Append(s, p) \in Seq(Pairs) /\ s \o <<p>> \in Seq(Pairs)
    OBVIOUS
  <1>5. Append(acc.merged, span) \in Seq(Pairs)
    BY <1>1, <1>4
  <1>6. (IF acc.placed THEN acc.merged ELSE Append(acc.merged, <<acc.lo, acc.hi>>)) \o <<span>> \in Seq(Pairs)
    BY <1>1, <1>2, <1>4
  <1> HIDE DEF Pairs
  <1> QED
    BY <1>1, <1>3, <1>5, <1>6 DEF Accs, Ranges!MergeSpan

\* The recursive definition of insert()'s loop is one: turn i takes up span i.
LEMMA MergeTurnsAre ==
    ASSUME NEW old \in Seq(Pairs), NEW start \in Nat, NEW end \in Nat
    PROVE  LET acc == Ranges!MergeTurns(old, start, end)
           IN  /\ acc \in [0 .. Len(old) -> Accs]
               /\ acc[0] = Ranges!Unmerged(start, end)
               /\ \A i \in 1 .. Len(old) : acc[i] = Ranges!MergeSpan(acc[i - 1], old[i])
  <1> DEFINE n == Len(old)
             base == Ranges!Unmerged(start, end)
             step == [i \in 1 .. n |-> [a \in Accs |-> Ranges!MergeSpan(a, old[i])]]
             IsRun(g) == g = [i \in 0 .. n |-> IF i = 0 THEN base
                                               ELSE Ranges!MergeSpan(g[i - 1], old[i])]
             acc == Ranges!MergeTurns(old, start, end)
  <1>1. n \in Nat /\ \A i \in 1 .. n : old[i] \in Pairs
    OBVIOUS
  <1>2. base \in Accs
    <2>1. <<>> \in Seq(Pairs)
      BY EmptySeq
    <2> QED
      BY <2>1 DEF Ranges!Unmerged, Accs
  <1>3. \A i \in 1 .. n : \A x \in Accs : step[i][x] \in Accs
    BY <1>1, TurnTyped
  <1>4. PICK f : f \in [0 .. n -> Accs] /\ f[0] = base /\ \A i \in 1 .. n : f[i] = step[i][f[i - 1]]
    <2> HIDE DEF n, base, step
    <2>1. \E f : RunsThrough(f, n, Accs, base, step)
      BY <1>1, <1>2, <1>3, Turns
    <2> QED
      BY <2>1 DEF RunsThrough
  <1>5. \A i \in 1 .. n : f[i] = Ranges!MergeSpan(f[i - 1], old[i])
    <2> SUFFICES ASSUME NEW i \in 1 .. n PROVE f[i] = Ranges!MergeSpan(f[i - 1], old[i])
      OBVIOUS
    <2>1. i - 1 \in 0 .. n
      BY <1>1
    <2> QED
      BY <1>4, <2>1
  <1>6. IsRun(f)
    <2>1. \A i \in 0 .. n : i # 0 => i \in 1 .. n
      BY <1>1
    <2> HIDE DEF n, base, step
    <2>2. \A i \in 0 .. n : f[i] = IF i = 0 THEN base ELSE Ranges!MergeSpan(f[i - 1], old[i])
      BY <1>4, <1>5, <2>1
    <2> QED
      BY <1>4, <2>2
  <1>7. acc = CHOOSE g : IsRun(g)
    BY DEF Ranges!MergeTurns
  <1>8. IsRun(acc)
    <2> HIDE DEF IsRun, acc
    <2> QED
      BY <1>6, <1>7
  <1> HIDE DEF acc, base
  <1>9. /\ DOMAIN acc = 0 .. n
        /\ \A i \in 0 .. n : acc[i] = IF i = 0 THEN base ELSE Ranges!MergeSpan(acc[i - 1], old[i])
    BY <1>8
  <1>10. acc[0] = base /\ \A i \in 1 .. n : acc[i] = Ranges!MergeSpan(acc[i - 1], old[i])
    BY <1>1, <1>9
  <1>11. \A i \in 0 .. n : acc[i] \in Accs
    <2> DEFINE T == {i \in 0 .. n : acc[i] \in Accs}
    <2>1. 0 \in T
      BY <1>1, <1>2, <1>10
    <2>2. \A i \in 1 .. n : i - 1 \in T => i \in T
      BY <1>1, <1>10, TurnTyped
    <2>3. \A i \in 0 .. n : i \in T
      <3> HIDE DEF T, n
      <3> QED
        BY <1>1, <2>1, <2>2, UpTo
    <2> QED
      BY <2>3
  <1>12. acc \in [0 .. n -> Accs]
    BY <1>8, <1>9, <1>11
  <1> QED
    BY <1>10, <1>12 DEF acc, base

\* The offsets that the first i spans cover, and all of them.
BytesTo(s, i) == UNION {s[k][1] .. s[k][2] - 1 : k \in 1 .. i}
Bytes(s) == BytesTo(s, Len(s))

\* Sorted, disjoint and non-adjacent.
Apart(s) ==
    /\ \A k \in DOMAIN s : s[k][1] < s[k][2]
    /\ \A j, k \in DOMAIN s : j < k => s[j][2] < s[k][1]

LEMMA MoreBytes ==
    ASSUME NEW s, NEW i \in Nat \ {0}
    PROVE  /\ BytesTo(s, 0) = {}
           /\ BytesTo(s, i) = BytesTo(s, i - 1) \cup (s[i][1] .. s[i][2] - 1)
  <1>1. 1 .. i = (1 .. i - 1) \cup {i} /\ 1 .. 0 = {}
    OBVIOUS
  <1> QED
    BY <1>1 DEF BytesTo

LEMMA AppendApart ==
    ASSUME NEW m \in Seq(Pairs), Apart(m), NEW p \in Pairs, p[1] < p[2],
           \A k \in DOMAIN m : m[k][2] < p[1]
    PROVE  /\ Append(m, p) \in Seq(Pairs) /\ Apart(Append(m, p))
           /\ Bytes(Append(m, p)) = Bytes(m) \cup (p[1] .. p[2] - 1)
           /\ \A x \in Int : (\A k \in DOMAIN m : m[k][2] < x) /\ p[2] < x =>
                    \A k \in DOMAIN Append(m, p) : Append(m, p)[k][2] < x
  <1> DEFINE a == Append(m, p)
             n == Len(m)
  <1>1. n \in Nat /\ DOMAIN m = 1 .. n /\ DOMAIN a = 1 .. n + 1 /\ Len(a) = n + 1
    OBVIOUS
  <1>2. (\A k \in 1 .. n : a[k] = m[k]) /\ a[n + 1] = p /\ a \in Seq(Pairs)
    OBVIOUS
  <1> HIDE DEF a, n
  <1>3. \A k \in 1 .. n + 1 : k \in 1 .. n \/ k = n + 1
    BY <1>1
  <1>4. Apart(a)
    <2>1. \A k \in DOMAIN a : a[k][1] < a[k][2]
      BY <1>1, <1>2, <1>3 DEF Apart
    <2>2. ASSUME NEW j \in DOMAIN a, NEW k \in DOMAIN a, j < k
          PROVE  a[j][2] < a[k][1]
      <3>1. j \in 1 .. n
        BY <1>1, <2>2
      <3>2. CASE k \in 1 .. n
        BY <1>1, <1>2, <2>2, <3>1, <3>2 DEF Apart
      <3>3. CASE k = n + 1
        BY <1>1, <1>2, <3>1, <3>3
      <3> QED
        BY <1>1, <1>3, <3>2, <3>3
    <2> QED
      BY <2>1, <2>2 DEF Apart
  <1>5. Bytes(a) = Bytes(m) \cup (p[1] .. p[2] - 1)
    <2>1. \A k \in 1 .. n : a[k][1] .. a[k][2] - 1 = m[k][1] .. m[k][2] - 1
      BY <1>2
    <2>2. BytesTo(a, n) = BytesTo(m, n)
      BY <2>1 DEF BytesTo
    <2>3. BytesTo(a, n + 1) = BytesTo(a, (n + 1) - 1) \cup (a[n + 1][1] .. a[n + 1][2] - 1)
      BY <1>1, MoreBytes
    <2>4. (n + 1) - 1 = n /\ Len(m) = n
      BY <1>1 DEF n
    <2> QED
      BY <1>1, <1>2, <2>2, <2>3, <2>4 DEF Bytes
  <1>6. \A x \in Int : (\A k \in DOMAIN m : m[k][2] < x) /\ p[2] < x => \A k \in DOMAIN a : a[k][2] < x
    BY <1>1, <1>2, <1>3
  <1> QED
    BY <1>2, <1>4, <1>5, <1>6 DEF a

\* After i turns: what is merged is apart, lies before what is still to come, and is with
\* [lo, hi) what the spans so far and the new one cover.
Merging(old, start, end, i, acc) ==
    /\ acc.lo < acc.hi
    /\ Apart(acc.merged)
    /\ \A k \in DOMAIN acc.merged : \A j \in i + 1 .. Len(old) : acc.merged[k][2] < old[j][1]
    /\ acc.placed => \A j \in i + 1 .. Len(old) : acc.hi < old[j][1]
    /\ ~ acc.placed => \A k \in DOMAIN acc.merged : acc.merged[k][2] < acc.lo
    /\ acc.placed => Bytes(acc.merged) = BytesTo(old, i) \cup (start .. end - 1)
    /\ ~ acc.placed => Bytes(acc.merged) \cup (acc.lo .. acc.hi - 1) = BytesTo(old, i) \cup (start .. end - 1)

LEMMA MergesOn ==
    ASSUME NEW old \in Seq(Pairs), Apart(old), NEW start \in Nat, NEW end \in Nat,
           NEW i \in 1 .. Len(old), NEW acc \in Accs, Merging(old, start, end, i - 1, acc)
    PROVE  Merging(old, start, end, i, Ranges!MergeSpan(acc, old[i]))
  <1> DEFINE s == old[i][1]
             e == old[i][2]
             n == Len(old)
             m == acc.merged
             lo == acc.lo
             hi == acc.hi
             next == Ranges!MergeSpan(acc, old[i])
  <1>1. /\ lo \in Nat /\ hi \in Nat /\ m \in Seq(Pairs) /\ acc.placed \in BOOLEAN
        /\ n \in Nat /\ DOMAIN old = 1 .. n
    BY DEF Accs
  <1>2. old[i] \in Pairs /\ s \in Nat /\ e \in Nat /\ old[i] = <<s, e>> /\ s < e
    <2>1. old[i] \in Nat \X Nat /\ old[i] \in Pairs
      BY DEF Pairs
    <2>2. i \in DOMAIN old
      BY <1>1
    <2>3. old[i][1] < old[i][2]
      BY <2>2 DEF Apart
    <2> QED
      BY <2>1, <2>3
  <1>3. \A j \in i + 1 .. n : j \in (i - 1) + 1 .. n /\ j \in 1 .. n /\ i < j
    BY <1>1
  <1>4. i \in (i - 1) + 1 .. n /\ i \in Nat \ {0}
    BY <1>1
  <1>5. \A j \in i + 1 .. n : old[j][1] \in Nat /\ e < old[j][1]
    <2> SUFFICES ASSUME NEW j \in i + 1 .. n PROVE old[j][1] \in Nat /\ e < old[j][1]
      OBVIOUS
    <2>1. j \in DOMAIN old /\ i \in DOMAIN old /\ i < j
      BY <1>1, <1>3
    <2>2. old[j] \in Pairs
      BY <1>1, <1>3
    <2> QED
      BY <2>1, <2>2 DEF Apart, Pairs
  <1>6. BytesTo(old, i) = BytesTo(old, i - 1) \cup (s .. e - 1)
    BY <1>4, MoreBytes
  <1>7. /\ lo < hi /\ Apart(m)
        /\ \A k \in DOMAIN m : m[k][2] < s
        /\ \A k \in DOMAIN m : \A j \in i + 1 .. n : m[k][2] < old[j][1]
        /\ acc.placed => hi < s
    BY <1>3, <1>4 DEF Merging
  <1>8. /\ ~ acc.placed => \A k \in DOMAIN m : m[k][2] < lo
        /\ acc.placed => Bytes(m) = BytesTo(old, i - 1) \cup (start .. end - 1)
        /\ ~ acc.placed =>
                Bytes(m) \cup (lo .. hi - 1) = BytesTo(old, i - 1) \cup (start .. end - 1)
    BY DEF Merging
  <1>9. \A k \in DOMAIN m : m[k][2] \in Nat
    BY SMTT(20), <1>1 DEF Pairs
  <1>10. CASE e < lo
    <2>1. next = [acc EXCEPT !.merged = Append(m, old[i])]
      BY <1>10 DEF Ranges!MergeSpan
    <2>2. next.lo = lo /\ next.hi = hi /\ next.placed = acc.placed /\ next.merged = Append(m, old[i])
      BY <2>1 DEF Accs
    <2>3. ~ acc.placed
      BY <1>1, <1>2, <1>7, <1>10
    <2> HIDE DEF next, m, lo, hi, s, e
    <2>4. /\ Append(m, old[i]) \in Seq(Pairs) /\ Apart(Append(m, old[i]))
          /\ Bytes(Append(m, old[i])) = Bytes(m) \cup (s .. e - 1)
          /\ \A x \in Int : (\A k \in DOMAIN m : m[k][2] < x) /\ e < x =>
                \A k \in DOMAIN Append(m, old[i]) : Append(m, old[i])[k][2] < x
      <3>1. old[i][1] = s /\ old[i][2] = e
        BY DEF s, e
      <3> QED
        BY <1>1, <1>2, <1>7, <3>1, AppendApart
    <2>5. \A k \in DOMAIN Append(m, old[i]) : \A j \in i + 1 .. n : Append(m, old[i])[k][2] < old[j][1]
      BY SMTT(20), <1>5, <1>7, <2>4
    <2>6. \A k \in DOMAIN Append(m, old[i]) : Append(m, old[i])[k][2] < lo
      BY <1>1, <1>8, <1>10, <2>3, <2>4
    <2>7. (Bytes(m) \cup (s .. e - 1)) \cup (lo .. hi - 1) = BytesTo(old, i) \cup (start .. end - 1)
      BY <1>6, <1>8, <2>3
    <2>8. Merging(old, start, end, i, next)
      BY <1>7, <2>2, <2>3, <2>4, <2>5, <2>6, <2>7 DEF Merging, n
    <2> QED
      BY <2>8 DEF next
  <1>11. CASE ~ (e < lo) /\ s > hi /\ ~ acc.placed
    <2>1. next = [acc EXCEPT !.merged = Append(m, <<lo, hi>>) \o <<old[i]>>, !.placed = TRUE]
      BY <1>11 DEF Ranges!MergeSpan
    <2>2. /\ next.lo = lo /\ next.hi = hi /\ next.placed = TRUE
          /\ next.merged = Append(m, <<lo, hi>>) \o <<old[i]>>
      BY <2>1 DEF Accs
    <2> DEFINE p == <<lo, hi>>
               a == Append(m, p)
               b == Append(a, old[i])
    <2>3. p \in Pairs /\ p[1] = lo /\ p[2] = hi
      BY <1>1 DEF Pairs
    <2> HIDE DEF next, m, lo, hi, s, e, p
    <2>4. /\ a \in Seq(Pairs) /\ Apart(a) /\ Bytes(a) = Bytes(m) \cup (lo .. hi - 1)
          /\ \A x \in Int : (\A k \in DOMAIN m : m[k][2] < x) /\ hi < x => \A k \in DOMAIN a : a[k][2] < x
      BY <1>1, <1>7, <1>8, <1>11, <2>3, AppendApart
    <2>5. \A k \in DOMAIN a : a[k][2] < s
      <3>1. s \in Int /\ hi < s /\ \A k \in DOMAIN m : m[k][2] < s
        BY <1>1, <1>2, <1>7, <1>11
      <3> QED
        BY <2>4, <3>1
    <2> HIDE DEF a
    <2>6. /\ b \in Seq(Pairs) /\ Apart(b) /\ Bytes(b) = Bytes(a) \cup (s .. e - 1)
          /\ \A x \in Int : (\A k \in DOMAIN a : a[k][2] < x) /\ e < x => \A k \in DOMAIN b : b[k][2] < x
      <3>1. old[i][1] = s /\ old[i][2] = e
        BY DEF s, e
      <3> QED
        BY <1>2, <2>4, <2>5, <3>1, AppendApart
    <2>7. \A j \in i + 1 .. n : hi < old[j][1]
      BY <1>1, <1>2, <1>5, <1>11
    <2>8. \A k \in DOMAIN b : \A j \in i + 1 .. n : b[k][2] < old[j][1]
      <3> SUFFICES ASSUME NEW j \in i + 1 .. n PROVE \A k \in DOMAIN b : b[k][2] < old[j][1]
        OBVIOUS
      <3>1. old[j][1] \in Int /\ e < old[j][1] /\ hi < old[j][1]
        BY <1>5, <2>7
      <3>2. \A k \in DOMAIN a : a[k][2] < old[j][1]
        BY <1>7, <2>4, <3>1
      <3> QED
        BY <2>6, <3>1, <3>2
    <2>9. Bytes(b) = BytesTo(old, i) \cup (start .. end - 1)
      BY <1>6, <1>8, <1>11, <2>4, <2>6
    <2>10. next.merged = b
      <3>1. \A t \in Seq(Pairs) : t \o <<old[i]>> = Append(t, old[i])
        BY <1>2
      <3>2. next.merged = a \o <<old[i]>>
        BY <2>2 DEF a, p
      <3> QED
        BY <2>4, <3>1, <3>2
    <2> HIDE DEF b
    <2>11. Merging(old, start, end, i, next)
      BY <1>7, <2>2, <2>6, <2>7, <2>8, <2>9, <2>10 DEF Merging, n
    <2> QED
      BY <2>11 DEF next
  <1>12. CASE ~ (e < lo) /\ s > hi /\ acc.placed
    <2>1. next = [acc EXCEPT !.merged = m \o <<old[i]>>, !.placed = TRUE]
      BY <1>12 DEF Ranges!MergeSpan
    <2>2. next.lo = lo /\ next.hi = hi /\ next.placed = TRUE /\ next.merged = m \o <<old[i]>>
      BY <2>1 DEF Accs
    <2> DEFINE b == Append(m, old[i])
    <2> HIDE DEF next, m, lo, hi, s, e
    <2>3. /\ b \in Seq(Pairs) /\ Apart(b) /\ Bytes(b) = Bytes(m) \cup (s .. e - 1)
          /\ \A x \in Int : (\A k \in DOMAIN m : m[k][2] < x) /\ e < x => \A k \in DOMAIN b : b[k][2] < x
      <3>1. old[i][1] = s /\ old[i][2] = e
        BY DEF s, e
      <3> QED
        BY <1>1, <1>2, <1>7, <3>1, AppendApart
    <2>4. \A j \in i + 1 .. n : hi < old[j][1]
      <3>1. hi \in Nat /\ s \in Nat /\ e \in Nat /\ hi < s /\ s < e
        BY <1>1, <1>2, <1>12
      <3> QED
        BY <1>5, <3>1
    <2>5. \A k \in DOMAIN b : \A j \in i + 1 .. n : b[k][2] < old[j][1]
      <3> SUFFICES ASSUME NEW j \in i + 1 .. n
                   PROVE  \A k \in DOMAIN b : b[k][2] < old[j][1]
        OBVIOUS
      <3>1. old[j][1] \in Int /\ e < old[j][1] /\ \A k \in DOMAIN m : m[k][2] < old[j][1]
        BY <1>5, <1>7
      <3> QED
        BY <2>3, <3>1
    <2>6. Bytes(b) = BytesTo(old, i) \cup (start .. end - 1)
      BY <1>6, <1>8, <1>12, <2>3
    <2>7. next.merged = b
      <3>1. \A t \in Seq(Pairs) : t \o <<old[i]>> = Append(t, old[i])
        BY <1>2
      <3> QED
        BY <1>1, <2>2, <3>1
    <2> HIDE DEF b
    <2>8. Merging(old, start, end, i, next)
      BY <1>7, <2>2, <2>3, <2>4, <2>5, <2>6, <2>7 DEF Merging, n
    <2> QED
      BY <2>8 DEF next
  <1>13. CASE ~ (e < lo) /\ ~ (s > hi)
    <2> DEFINE l == Ranges!Smaller(lo, s)
               h == Ranges!Larger(hi, e)
    <2>1. next = [acc EXCEPT !.lo = l, !.hi = h]
      BY <1>13 DEF Ranges!MergeSpan
    <2>2. next.lo = l /\ next.hi = h /\ next.placed = acc.placed /\ next.merged = m
      BY <2>1 DEF Accs
    <2>3. ~ acc.placed
      BY <1>1, <1>2, <1>7, <1>13
    <2>4. /\ l \in Nat /\ h \in Nat /\ l <= lo /\ l <= s /\ (l = lo \/ l = s)
          /\ hi <= h /\ e <= h /\ (h = hi \/ h = e)
      <3>1. lo \in Nat /\ hi \in Nat /\ s \in Nat /\ e \in Nat
        BY <1>1, <1>2
      <3> HIDE DEF lo, hi, s, e
      <3>2. l \in Nat /\ l <= lo /\ l <= s /\ (l = lo \/ l = s)
        BY <3>1 DEF Ranges!Smaller
      <3>3. h \in Nat /\ hi <= h /\ e <= h /\ (h = hi \/ h = e)
        BY <3>1 DEF Ranges!Larger
      <3> QED
        BY <3>2, <3>3
    <2> HIDE DEF next, m, lo, hi, s, e, l, h
    <2>5. l < h /\ l .. h - 1 = (lo .. hi - 1) \cup (s .. e - 1)
      <3>1. lo \in Nat /\ hi \in Nat /\ s \in Nat /\ e \in Nat /\ lo < hi /\ s < e /\ lo <= e /\ s <= hi
        BY <1>1, <1>2, <1>7, <1>13
      <3>2. l < h
        BY <2>4, <3>1
      <3>3. \A x \in Int : l <= x /\ x <= h - 1 <=>
                (lo <= x /\ x <= hi - 1) \/ (s <= x /\ x <= e - 1)
        BY <2>4, <3>1
      <3>4. \A x : x \in l .. h - 1 <=> x \in (lo .. hi - 1) \cup (s .. e - 1)
        BY <2>4, <3>1, <3>3
      <3> QED
        BY <3>2, <3>4
    <2>6. \A k \in DOMAIN m : m[k][2] < l
      BY <1>7, <1>8, <2>3, <2>4
    <2>7. Bytes(m) \cup (l .. h - 1) = BytesTo(old, i) \cup (start .. end - 1)
      BY <1>6, <1>8, <2>3, <2>5
    <2>8. Merging(old, start, end, i, next)
      BY <1>7, <2>2, <2>3, <2>5, <2>6, <2>7 DEF Merging, n
    <2> QED
      BY <2>8 DEF next
  <1> QED
    BY <1>10, <1>11, <1>12, <1>13

\* insert() keeps the vector sorted, disjoint and non-adjacent, and adds just the new span.
LEMMA MergeIs ==
    ASSUME NEW old \in Seq(Pairs), Apart(old), NEW start \in Nat, NEW end \in Nat, start < end
    PROVE  LET new == Ranges!Merge(old, start, end)
           IN  new \in Seq(Pairs) /\ Apart(new) /\ Bytes(new) = Bytes(old) \cup (start .. end - 1)
  <1> DEFINE n == Len(old)
             turns == Ranges!MergeTurns(old, start, end)
             T == {i \in 0 .. n : Merging(old, start, end, i, turns[i])}
             acc == turns[n]
             new == Ranges!Merge(old, start, end)
  <1>1. n \in Nat
    OBVIOUS
  <1>2. /\ turns \in [0 .. n -> Accs] /\ turns[0] = Ranges!Unmerged(start, end)
        /\ \A i \in 1 .. n : turns[i] = Ranges!MergeSpan(turns[i - 1], old[i])
    BY MergeTurnsAre
  <1> HIDE DEF turns
  <1>3. 0 \in T
    <2> DEFINE a == turns[0]
    <2>1. a.lo = start /\ a.hi = end /\ a.merged = <<>> /\ a.placed = FALSE
      BY <1>2 DEF Ranges!Unmerged
    <2> HIDE DEF a
    <2>2. DOMAIN <<>> = {} /\ Len(<<>>) = 0
      OBVIOUS
    <2>3. Apart(<<>>) /\ Bytes(<<>>) = {} /\ BytesTo(old, 0) = {}
      BY <2>2, MoreBytes DEF Apart, Bytes, BytesTo
    <2>4. Merging(old, start, end, 0, a)
      BY <2>1, <2>2, <2>3 DEF Merging
    <2> QED
      BY <1>1, <2>4 DEF a
  <1>4. ASSUME NEW i \in 1 .. n, i - 1 \in T PROVE i \in T
    <2>1. i - 1 \in 0 .. n /\ i \in 0 .. n /\ turns[i - 1] \in Accs
      BY <1>1, <1>2
    <2>2. Merging(old, start, end, i - 1, turns[i - 1])
      BY <1>4
    <2>3. Merging(old, start, end, i, Ranges!MergeSpan(turns[i - 1], old[i]))
      BY <2>1, <2>2, MergesOn
    <2> QED
      BY <1>2, <2>1, <2>3
  <1>5. \A i \in 0 .. n : i \in T
    <2> HIDE DEF T, n
    <2> QED
      BY <1>1, <1>3, <1>4, UpTo
  <1>6. Merging(old, start, end, n, acc) /\ acc \in Accs
    BY <1>1, <1>2, <1>5
  <1>7. new = IF acc.placed THEN acc.merged ELSE Append(acc.merged, <<acc.lo, acc.hi>>)
    BY DEF Ranges!Merge, turns
  <1>8. /\ acc.lo \in Nat /\ acc.hi \in Nat /\ acc.merged \in Seq(Pairs) /\ acc.placed \in BOOLEAN
        /\ acc.lo < acc.hi /\ Apart(acc.merged)
    BY <1>6 DEF Accs, Merging
  <1>9. BytesTo(old, n) = Bytes(old)
    BY DEF Bytes
  <1>10. CASE acc.placed
    BY <1>6, <1>7, <1>8, <1>9, <1>10 DEF Merging
  <1>11. CASE ~ acc.placed
    <2> DEFINE p == <<acc.lo, acc.hi>>
    <2>1. p \in Pairs /\ p[1] = acc.lo /\ p[2] = acc.hi
      BY <1>8 DEF Pairs
    <2>2. \A k \in DOMAIN acc.merged : acc.merged[k][2] < acc.lo
      BY <1>6, <1>11 DEF Merging
    <2>3. Bytes(acc.merged) \cup (acc.lo .. acc.hi - 1) = Bytes(old) \cup (start .. end - 1)
      BY <1>6, <1>9, <1>11 DEF Merging
    <2>4. new = Append(acc.merged, p)
      BY <1>7, <1>11
    <2> HIDE DEF p, new, acc
    <2>5. /\ Append(acc.merged, p) \in Seq(Pairs) /\ Apart(Append(acc.merged, p))
          /\ Bytes(Append(acc.merged, p)) = Bytes(acc.merged) \cup (acc.lo .. acc.hi - 1)
      BY <1>8, <2>1, <2>2, AppendApart
    <2>6. new \in Seq(Pairs) /\ Apart(new) /\ Bytes(new) = Bytes(old) \cup (start .. end - 1)
      BY <2>3, <2>4, <2>5
    <2> QED
      BY <2>6 DEF new
  <1> QED
    BY <1>10, <1>11

-----------------------------------------------------------------------------
(* progress().                                                             *)

\* The spans of a vector of their own.
LEMMA SpanIs ==
    ASSUME NEW s \in Seq(Pairs), Apart(s), NEW k \in 1 .. Len(s)
    PROVE  /\ s[k][1] \in Nat /\ s[k][2] \in Nat /\ s[k][1] < s[k][2]
           /\ \A j \in 1 .. Len(s) : j < k => s[j][2] < s[k][1]
           /\ \A x : x \in s[k][1] .. s[k][2] - 1 => x \in Bytes(s)
  <1>1. DOMAIN s = 1 .. Len(s) /\ s[k] \in Pairs
    OBVIOUS
  <1>2. s[k][1] \in Nat /\ s[k][2] \in Nat /\ s[k][1] < s[k][2]
    BY <1>1 DEF Pairs, Apart
  <1>3. \A j \in 1 .. Len(s) : j < k => s[j][2] < s[k][1]
    BY <1>1 DEF Apart
  <1>4. \A x : x \in s[k][1] .. s[k][2] - 1 => x \in Bytes(s)
    BY DEF Bytes, BytesTo
  <1> QED
    BY <1>2, <1>3, <1>4

\* covered() counts the offsets.
LEMMA CoveredIs ==
    ASSUME NEW s \in Seq(Pairs), Apart(s)
    PROVE  IsFiniteSet(Bytes(s)) /\ Ranges!Covered(s) = Cardinality(Bytes(s))
  <1> DEFINE n == Len(s)
             len(i) == s[i][2] - s[i][1]
             step == [i \in 1 .. n |-> [x \in Int |-> x + s[i][2] - s[i][1]]]
             IsRun(g) == g = [i \in 0 .. n |-> IF i = 0 THEN 0 ELSE g[i - 1] + s[i][2] - s[i][1]]
             sum == Ranges!SumTurns(s)
  <1>1. n \in Nat /\ \A i \in 1 .. n : s[i][1] \in Nat /\ s[i][2] \in Nat /\ s[i][1] < s[i][2]
    BY SpanIs, LenProperties
  <1>2. \A i \in 1 .. n : \A x \in Int : step[i][x] = x + s[i][2] - s[i][1] /\ step[i][x] \in Int
    BY <1>1
  <1>3. PICK f : f \in [0 .. n -> Int] /\ f[0] = 0 /\ \A i \in 1 .. n : f[i] = step[i][f[i - 1]]
    <2> HIDE DEF n, step
    <2>1. \A i \in 1 .. n : \A x \in Int : step[i][x] \in Int
      BY <1>2
    <2>2. n \in Nat /\ 0 \in Int
      BY <1>1
    <2>3. \E f : RunsThrough(f, n, Int, 0, step)
      BY <2>1, <2>2, Turns
    <2> QED
      BY <2>3 DEF RunsThrough
  <1>4. \A i \in 1 .. n : i - 1 \in 0 .. n /\ f[i] = f[i - 1] + s[i][2] - s[i][1]
    <2> SUFFICES ASSUME NEW i \in 1 .. n
                 PROVE  i - 1 \in 0 .. n /\ f[i] = f[i - 1] + s[i][2] - s[i][1]
      OBVIOUS
    <2>1. i - 1 \in 0 .. n
      BY <1>1
    <2> QED
      BY <1>2, <1>3, <2>1
  <1>5. IsRun(f)
    <2>1. \A i \in 0 .. n : i # 0 => i \in 1 .. n
      BY <1>1
    <2>2. \A i \in 0 .. n : f[i] = IF i = 0 THEN 0 ELSE f[i - 1] + s[i][2] - s[i][1]
      BY <1>3, <1>4, <2>1
    <2> QED
      BY <1>3, <2>2
  <1>6. sum = CHOOSE g : IsRun(g)
    BY DEF Ranges!SumTurns
  <1>7. IsRun(sum)
    <2> HIDE DEF IsRun, sum
    <2> QED
      BY <1>5, <1>6
  <1> HIDE DEF sum
  <1>8. sum[0] = 0 /\ \A i \in 1 .. n : sum[i] = sum[i - 1] + s[i][2] - s[i][1]
    <2>1. 0 \in 0 .. n /\ \A i \in 1 .. n : i \in 0 .. n /\ i # 0
      BY <1>1
    <2> HIDE DEF n
    <2>2. \A i \in 0 .. n : sum[i] = IF i = 0 THEN 0 ELSE sum[i - 1] + s[i][2] - s[i][1]
      BY <1>7
    <2> QED
      BY <2>1, <2>2
  <1> DEFINE T == {i \in 0 .. n : /\ IsFiniteSet(BytesTo(s, i)) /\ sum[i] = Cardinality(BytesTo(s, i))
                                  /\ \A x \in BytesTo(s, i) : \E j \in 1 .. i : x < s[j][2]}
  <1>9. 0 \in T
    <2>1. BytesTo(s, 0) = {}
      BY DEF BytesTo
    <2>2. IsFiniteSet({}) /\ Cardinality({}) = 0 /\ 0 \in 0 .. n
      BY <1>1, FS_EmptySet
    <2>3. IsFiniteSet(BytesTo(s, 0)) /\ sum[0] = Cardinality(BytesTo(s, 0))
      BY <1>8, <2>1, <2>2
    <2>4. \A x \in BytesTo(s, 0) : \E j \in 1 .. 0 : x < s[j][2]
      BY <2>1
    <2> QED
      BY <2>2, <2>3, <2>4
  <1>10. ASSUME NEW i \in 1 .. n, i - 1 \in T PROVE i \in T
    <2> DEFINE A == BytesTo(s, i - 1)
               B == s[i][1] .. s[i][2] - 1
    <2>1. /\ i - 1 \in 0 .. n /\ i \in 0 .. n /\ i \in Nat \ {0}
          /\ s[i][1] \in Nat /\ s[i][2] \in Nat /\ s[i][1] < s[i][2]
      BY <1>1
    <2>2. IsFiniteSet(A) /\ sum[i - 1] = Cardinality(A) /\ \A x \in A : \E j \in 1 .. i - 1 : x < s[j][2]
      BY <1>10
    <2>3. BytesTo(s, i) = A \cup B
      BY <2>1, MoreBytes
    <2>4. IsFiniteSet(B) /\ Cardinality(B) = s[i][2] - s[i][1]
      <3>1. \A a, b \in Int : a <= b + 1 => IsFiniteSet(a .. b) /\ Cardinality(a .. b) = b - a + 1
        BY FS_Interval
      <3>2. \A a, b \in Nat : a < b => b - 1 \in Int /\ a \in Int /\ a <= (b - 1) + 1
                                      /\ (b - 1) - a + 1 = b - a
        OBVIOUS
      <3>3. \A a, b \in Nat : a < b => IsFiniteSet(a .. b - 1) /\ Cardinality(a .. b - 1) = b - a
        BY <3>1, <3>2
      <3> QED
        BY <2>1, <3>3
    <2>5. A \cap B = {}
      <3> SUFFICES ASSUME NEW x \in A, x \in B PROVE FALSE
        OBVIOUS
      <3>1. PICK j \in 1 .. i - 1 : x < s[j][2]
        BY <2>2
      <3>2. j \in 1 .. n /\ j < i
        BY <1>1
      <3>3. s[j][2] < s[i][1] /\ s[j][2] \in Nat
        BY <1>1, <3>2, SpanIs
      <3>4. x \in Int /\ s[i][1] <= x
        BY <2>1
      <3> HIDE DEF A, B
      <3> QED
        BY <2>1, <3>1, <3>3, <3>4
    <2> HIDE DEF A, B
    <2>6. IsFiniteSet(A \cup B) /\ Cardinality(A \cup B) = Cardinality(A) + Cardinality(B) - Cardinality({})
      BY <2>2, <2>4, <2>5, FS_Union
    <2>7. Cardinality({}) = 0 /\ Cardinality(A) \in Nat
      BY <2>2, FS_EmptySet, FS_CardinalityType
    <2>8. sum[i] = Cardinality(A \cup B)
      BY <1>8, <2>1, <2>2, <2>4, <2>6, <2>7
    <2>9. \A x \in A \cup B : \E j \in 1 .. i : x < s[j][2]
      <3>1. ASSUME NEW x \in A PROVE \E j \in 1 .. i : x < s[j][2]
        BY <2>1, <2>2
      <3>2. ASSUME NEW x \in B PROVE \E j \in 1 .. i : x < s[j][2]
        <4>1. i \in 1 .. i /\ x < s[i][2]
          BY <2>1 DEF B
        <4> QED
          BY <4>1
      <3> QED
        BY <3>1, <3>2
    <2> QED
      BY <2>1, <2>3, <2>6, <2>8, <2>9
  <1>11. \A i \in 0 .. n : i \in T
    <2> HIDE DEF T, n
    <2> QED
      BY <1>1, <1>9, <1>10, UpTo
  <1>12. IsFiniteSet(BytesTo(s, n)) /\ sum[n] = Cardinality(BytesTo(s, n))
    BY <1>1, <1>11
  <1> QED
    BY <1>12 DEF Ranges!Covered, sum, Bytes

\* What first_gap()'s loop carries from turn to turn.
Cursors == [cursor : Nat, stopped : BOOLEAN]

LEMMA AdvanceTyped ==
    ASSUME NEW acc \in Cursors, NEW span \in Pairs
    PROVE  /\ Ranges!Advance(acc, span) \in Cursors
           /\ acc.stopped \/ span[1] > acc.cursor =>
                    /\ Ranges!Advance(acc, span).cursor = acc.cursor
                    /\ Ranges!Advance(acc, span).stopped
           /\ ~ acc.stopped /\ ~ (span[1] > acc.cursor) =>
                    /\ Ranges!Advance(acc, span).cursor = Ranges!Larger(acc.cursor, span[2])
                    /\ ~ Ranges!Advance(acc, span).stopped
  <1>1. acc.cursor \in Nat /\ acc.stopped \in BOOLEAN /\ span[1] \in Nat /\ span[2] \in Nat
    BY DEF Cursors, Pairs
  <1>2. Ranges!Larger(acc.cursor, span[2]) \in Nat
    BY <1>1 DEF Ranges!Larger
  <1>3. CASE acc.stopped \/ span[1] > acc.cursor
    <2>1. Ranges!Advance(acc, span) = [acc EXCEPT !.stopped = TRUE]
      BY <1>3 DEF Ranges!Advance
    <2> QED
      BY <1>1, <1>3, <2>1 DEF Cursors
  <1>4. CASE ~ (acc.stopped \/ span[1] > acc.cursor)
    <2>1. Ranges!Advance(acc, span) = [acc EXCEPT !.cursor = Ranges!Larger(acc.cursor, span[2])]
      BY <1>4 DEF Ranges!Advance
    <2> QED
      BY <1>1, <1>2, <1>4, <2>1 DEF Cursors
  <1> QED
    BY <1>3, <1>4

\* The recursive definition of first_gap()'s loop is one.
LEMMA GapTurnsAre ==
    ASSUME NEW s \in Seq(Pairs)
    PROVE  LET acc == Ranges!GapTurns(s)
           IN  /\ acc \in [0 .. Len(s) -> Cursors]
               /\ acc[0] = [cursor |-> 0, stopped |-> FALSE]
               /\ \A i \in 1 .. Len(s) : acc[i] = Ranges!Advance(acc[i - 1], s[i])
  <1> DEFINE n == Len(s)
             base == [cursor |-> 0, stopped |-> FALSE]
             step == [i \in 1 .. n |-> [a \in Cursors |-> Ranges!Advance(a, s[i])]]
             IsRun(g) == g = [i \in 0 .. n |-> IF i = 0 THEN base
                                               ELSE Ranges!Advance(g[i - 1], s[i])]
             acc == Ranges!GapTurns(s)
  <1>1. n \in Nat /\ \A i \in 1 .. n : s[i] \in Pairs
    OBVIOUS
  <1>2. base \in Cursors
    BY DEF Cursors
  <1>3. \A i \in 1 .. n : \A x \in Cursors : step[i][x] \in Cursors
    BY <1>1, AdvanceTyped
  <1>4. PICK f : f \in [0 .. n -> Cursors] /\ f[0] = base /\ \A i \in 1 .. n : f[i] = step[i][f[i - 1]]
    <2> HIDE DEF n, base, step
    <2>1. \E f : RunsThrough(f, n, Cursors, base, step)
      BY <1>1, <1>2, <1>3, Turns
    <2> QED
      BY <2>1 DEF RunsThrough
  <1>5. \A i \in 1 .. n : f[i] = Ranges!Advance(f[i - 1], s[i])
    <2> SUFFICES ASSUME NEW i \in 1 .. n PROVE f[i] = Ranges!Advance(f[i - 1], s[i])
      OBVIOUS
    <2>1. i - 1 \in 0 .. n
      BY <1>1
    <2> QED
      BY <1>4, <2>1
  <1>6. IsRun(f)
    <2>1. \A i \in 0 .. n : i # 0 => i \in 1 .. n
      BY <1>1
    <2> HIDE DEF n, base, step
    <2>2. \A i \in 0 .. n : f[i] = IF i = 0 THEN base ELSE Ranges!Advance(f[i - 1], s[i])
      BY <1>4, <1>5, <2>1
    <2> QED
      BY <1>4, <2>2
  <1>7. acc = CHOOSE g : IsRun(g)
    BY DEF Ranges!GapTurns
  <1>8. IsRun(acc)
    <2> HIDE DEF IsRun, acc
    <2> QED
      BY <1>6, <1>7
  <1> HIDE DEF acc, base
  <1>9. /\ DOMAIN acc = 0 .. n
        /\ \A i \in 0 .. n : acc[i] = IF i = 0 THEN base ELSE Ranges!Advance(acc[i - 1], s[i])
    BY <1>8
  <1>10. acc[0] = base /\ \A i \in 1 .. n : acc[i] = Ranges!Advance(acc[i - 1], s[i])
    BY <1>1, <1>9
  <1>11. \A i \in 0 .. n : acc[i] \in Cursors
    <2> DEFINE T == {i \in 0 .. n : acc[i] \in Cursors}
    <2>1. 0 \in T
      BY <1>1, <1>2, <1>10
    <2>2. \A i \in 1 .. n : i - 1 \in T => i \in T
      <3>1. \A a \in Cursors : \A p \in Pairs : Ranges!Advance(a, p) \in Cursors
        BY AdvanceTyped
      <3> QED
        BY <1>1, <1>10, <3>1
    <2>3. \A i \in 0 .. n : i \in T
      <3> HIDE DEF T, n
      <3> QED
        BY <1>1, <2>1, <2>2, UpTo
    <2> QED
      BY <2>3
  <1>12. acc \in [0 .. n -> Cursors]
    BY <1>8, <1>9, <1>11
  <1> QED
    BY <1>10, <1>12 DEF acc, base

\* After i turns: all offsets before the cursor came; a cursor that moved on has passed the
\* spans so far, and one that stopped did so at an offset that did not come.
GapAt(s, i, acc) ==
    /\ \A x \in 0 .. acc.cursor - 1 : x \in Bytes(s)
    /\ ~ acc.stopped => \A j \in 1 .. i : s[j][2] <= acc.cursor
    /\ acc.stopped => acc.cursor \notin Bytes(s) /\ \E j \in 1 .. Len(s) : acc.cursor < s[j][1]

LEMMA GapGoesOn ==
    ASSUME NEW s \in Seq(Pairs), Apart(s), NEW i \in 1 .. Len(s), NEW acc \in Cursors,
           GapAt(s, i - 1, acc)
    PROVE  GapAt(s, i, Ranges!Advance(acc, s[i]))
  <1> DEFINE n == Len(s)
             next == Ranges!Advance(acc, s[i])
             c == acc.cursor
  <1>1. /\ c \in Nat /\ acc.stopped \in BOOLEAN /\ s[i] \in Pairs /\ n \in Nat
        /\ \A j \in 1 .. n : s[j][1] \in Nat /\ s[j][2] \in Nat /\ s[j][1] < s[j][2]
    <2>1. \A j \in 1 .. n : s[j][1] \in Nat /\ s[j][2] \in Nat /\ s[j][1] < s[j][2]
      BY SpanIs
    <2>2. c \in Nat /\ acc.stopped \in BOOLEAN
      BY DEF Cursors
    <2>3. s[i] \in Pairs /\ n \in Nat
      OBVIOUS
    <2> QED
      BY <2>1, <2>2, <2>3
  <1>2. \A j, k \in 1 .. n : j < k => s[j][2] < s[k][1]
    BY SpanIs
  <1>3. (\A x \in 0 .. c - 1 : x \in Bytes(s)) /\ (~ acc.stopped => \A j \in 1 .. i - 1 : s[j][2] <= c)
    BY DEF GapAt
  <1>4. \A j \in 1 .. i : j \in 1 .. i - 1 \/ j = i
    OBVIOUS
  <1>5. CASE acc.stopped
    <2>1. next.cursor = c /\ next.stopped
      BY <1>1, <1>5, AdvanceTyped
    <2> HIDE DEF next
    <2>2. GapAt(s, i, next)
      BY <1>5, <2>1 DEF GapAt
    <2> QED
      BY <2>2 DEF next
  <1>6. CASE ~ acc.stopped /\ s[i][1] > c
    <2>1. next.cursor = c /\ next.stopped
      BY <1>1, <1>6, AdvanceTyped
    <2>2. ASSUME c \in Bytes(s) PROVE FALSE
      <3>1. PICK j \in 1 .. n : c \in s[j][1] .. s[j][2] - 1
        BY <2>2 DEF Bytes, BytesTo
      <3>2. s[j][1] \in Nat /\ s[j][2] \in Nat /\ s[i][1] \in Nat /\ s[i][2] \in Nat
            /\ s[i][1] < s[i][2]
        BY <1>1
      <3>3. s[j][1] <= c /\ c < s[j][2]
        BY <1>1, <3>1, <3>2
      <3>4. CASE j < i
        <4>1. j \in 1 .. i - 1
          BY <3>4
        <4> QED
          BY <1>1, <1>3, <1>6, <3>2, <3>3, <4>1
      <3>5. CASE j = i
        BY <1>1, <1>6, <3>2, <3>3, <3>5
      <3>6. CASE i < j
        <4>1. s[i][2] < s[j][1]
          BY <1>2, <3>6
        <4> QED
          BY <1>1, <1>6, <3>2, <3>3, <4>1
      <3> QED
        BY <1>1, <3>4, <3>5, <3>6
    <2>3. \E j \in 1 .. n : c < s[j][1]
      BY <1>1, <1>6
    <2> HIDE DEF next
    <2>4. GapAt(s, i, next)
      BY <1>3, <2>1, <2>2, <2>3 DEF GapAt
    <2> QED
      BY <2>4 DEF next
  <1>7. CASE ~ acc.stopped /\ ~ (s[i][1] > c)
    <2> DEFINE d == Ranges!Larger(c, s[i][2])
    <2>1. next.cursor = d /\ ~ next.stopped
      BY <1>1, <1>7, AdvanceTyped
    <2>2. s[i][1] \in Nat /\ s[i][2] \in Nat
      BY <1>1
    <2>3. d \in Nat /\ c <= d /\ s[i][2] <= d /\ (d = c \/ d = s[i][2])
      BY <1>1, <2>2 DEF Ranges!Larger
    <2> HIDE DEF next, d, c
    <2>4. ASSUME NEW x \in 0 .. d - 1 PROVE x \in Bytes(s)
      <3>1. CASE x \in 0 .. c - 1
        BY <1>3, <3>1
      <3>2. CASE ~ (x \in 0 .. c - 1)
        <4>1. x \in s[i][1] .. s[i][2] - 1
          BY <1>1, <1>7, <2>2, <2>3, <3>2
        <4> QED
          BY <4>1, SpanIs
      <3> QED
        BY <3>1, <3>2
    <2>5. \A j \in 1 .. i : s[j][2] <= d
      <3> SUFFICES ASSUME NEW j \in 1 .. i PROVE s[j][2] <= d
        OBVIOUS
      <3>1. CASE j = i
        BY <2>3, <3>1
      <3>2. CASE j \in 1 .. i - 1
        <4>1. s[j][2] <= c /\ s[j][2] \in Nat
          BY <1>1, <1>3, <1>7, <3>2
        <4> QED
          BY <1>1, <2>3, <4>1
      <3> QED
        BY <1>4, <3>1, <3>2
    <2>6. GapAt(s, i, next)
      BY <2>1, <2>4, <2>5 DEF GapAt
    <2> QED
      BY <2>6 DEF next
  <1> QED
    BY <1>1, <1>5, <1>6, <1>7

\* first_gap() is the first offset that did not come.
LEMMA FirstGapIs ==
    ASSUME NEW s \in Seq(Pairs), Apart(s), NEW total \in Nat, Bytes(s) \subseteq 0 .. total - 1
    PROVE  LET gap == Ranges!FirstGap(s, total)
           IN  /\ gap = Ranges!NoGap <=> Bytes(s) = 0 .. total - 1
               /\ gap # Ranges!NoGap => gap \notin Bytes(s) /\ 0 .. gap - 1 \subseteq Bytes(s)
  <1> DEFINE n == Len(s)
             turns == Ranges!GapTurns(s)
             T == {i \in 0 .. n : GapAt(s, i, turns[i])}
             acc == turns[n]
             c == acc.cursor
             gap == Ranges!FirstGap(s, total)
  <1>1. n \in Nat
    OBVIOUS
  <1>2. /\ turns \in [0 .. n -> Cursors] /\ turns[0] = [cursor |-> 0, stopped |-> FALSE]
        /\ \A i \in 1 .. n : turns[i] = Ranges!Advance(turns[i - 1], s[i])
    BY GapTurnsAre
  <1> HIDE DEF turns
  <1>3. 0 \in T
    <2> DEFINE a == turns[0]
    <2>1. a.cursor = 0 /\ a.stopped = FALSE
      BY <1>2
    <2> HIDE DEF a
    <2>2. GapAt(s, 0, a)
      BY <2>1 DEF GapAt
    <2> QED
      BY <1>1, <2>2 DEF a
  <1>4. ASSUME NEW i \in 1 .. n, i - 1 \in T PROVE i \in T
    <2>1. i - 1 \in 0 .. n /\ i \in 0 .. n /\ turns[i - 1] \in Cursors
      BY <1>1, <1>2
    <2>2. GapAt(s, i - 1, turns[i - 1])
      BY <1>4
    <2>3. GapAt(s, i, Ranges!Advance(turns[i - 1], s[i]))
      BY <2>1, <2>2, GapGoesOn
    <2> QED
      BY <1>2, <2>1, <2>3
  <1>5. \A i \in 0 .. n : i \in T
    <2> HIDE DEF T, n
    <2> QED
      BY <1>1, <1>3, <1>4, UpTo
  <1>6. GapAt(s, n, acc) /\ acc \in Cursors
    BY <1>1, <1>2, <1>5
  <1>7. gap = IF acc.stopped \/ c < total THEN c ELSE -1
    BY DEF Ranges!FirstGap, Ranges!NoGap, turns
  <1>8. c \in Nat /\ acc.stopped \in BOOLEAN /\ \A x \in 0 .. c - 1 : x \in Bytes(s)
    BY <1>6 DEF Cursors, GapAt
  <1>9. \A j \in 1 .. n : s[j][1] \in Nat /\ s[j][2] \in Nat /\ s[j][1] < s[j][2]
    BY SpanIs
  <1>10. Ranges!NoGap = -1
    BY DEF Ranges!NoGap
  <1>11. CASE acc.stopped
    <2>1. c \notin Bytes(s)
      BY <1>6, <1>11 DEF GapAt
    <2>2. PICK j \in 1 .. n : c < s[j][1]
      BY <1>6, <1>11 DEF GapAt
    <2>3. s[j][1] \in Bytes(s)
      <3>1. s[j][1] \in s[j][1] .. s[j][2] - 1
        BY <1>9
      <3> QED
        BY <3>1, SpanIs
    <2>4. c \in 0 .. total - 1
      <3>1. s[j][1] \in 0 .. total - 1 /\ s[j][1] \in Nat
        BY <1>9, <2>3
      <3> QED
        BY <1>8, <2>2, <3>1
    <2>5. gap = c
      BY <1>7, <1>11
    <2> HIDE DEF gap, c, acc
    <2>6. gap # -1
      BY <1>8, <2>5
    <2>7. Bytes(s) # 0 .. total - 1
      BY <2>1, <2>4
    <2>8. gap \notin Bytes(s) /\ 0 .. gap - 1 \subseteq Bytes(s)
      BY <1>8, <2>1, <2>5
    <2> QED
      BY <1>10, <2>6, <2>7, <2>8 DEF gap
  <1>12. CASE ~ acc.stopped
    <2>1. \A j \in 1 .. n : s[j][2] <= c
      BY <1>6, <1>12 DEF GapAt
    <2>2. gap = IF c < total THEN c ELSE -1
      BY <1>7, <1>12
    <2> HIDE DEF gap, c, acc
    <2>3. ASSUME NEW x \in Bytes(s) PROVE x \in 0 .. c - 1
      <3>1. PICK j \in 1 .. n : x \in s[j][1] .. s[j][2] - 1
        BY DEF Bytes, BytesTo
      <3>2. s[j][1] \in Nat /\ s[j][2] \in Nat /\ s[j][2] <= c
        BY <1>9, <2>1
      <3> QED
        BY <1>8, <3>1, <3>2
    <2>4. Bytes(s) = 0 .. c - 1
      BY <1>8, <2>3
    <2>5. 0 .. c - 1 \subseteq 0 .. total - 1
      BY <2>4
    <2>6. c <= total
      <3>1. ASSUME total < c PROVE FALSE
        <4>1. total \in 0 .. c - 1 /\ total \notin 0 .. total - 1
          BY <1>8, <3>1
        <4> QED
          BY <2>5, <4>1
      <3> QED
        BY <1>8, <3>1
    <2>7. CASE c < total
      <3>1. gap = c /\ gap # -1
        BY <1>8, <2>2, <2>7
      <3>2. c \in 0 .. total - 1 /\ c \notin 0 .. c - 1
        BY <1>8, <2>7
      <3>3. Bytes(s) # 0 .. total - 1
        BY <2>4, <3>2
      <3>4. gap \notin Bytes(s) /\ 0 .. gap - 1 \subseteq Bytes(s)
        BY <2>4, <3>1, <3>2
      <3> QED
        BY <1>10, <3>1, <3>3, <3>4 DEF gap
    <2>8. CASE ~ (c < total)
      <3>1. gap = -1 /\ c = total
        BY <1>8, <2>2, <2>6, <2>8
      <3>2. Bytes(s) = 0 .. total - 1
        BY <2>4, <3>1
      <3> QED
        BY <1>10, <3>1, <3>2 DEF gap
    <2> QED
      BY <2>7, <2>8
  <1> QED
    BY <1>8, <1>11, <1>12

\* The vector is as long as the offsets have runs.
LEMMA StartsOfSpans ==
    ASSUME NEW s \in Seq(Pairs), Apart(s)
    PROVE  Len(s) = Cardinality(Starts(Bytes(s)))
  <1> DEFINE n == Len(s)
             f == [k \in 1 .. n |-> s[k][1]]
             A == Starts(Bytes(s))
  <1>1. /\ n \in Nat
        /\ \A j \in 1 .. n : s[j][1] \in Nat /\ s[j][2] \in Nat /\ s[j][1] < s[j][2]
        /\ \A j, k \in 1 .. n : j < k => s[j][2] < s[k][1]
    BY SpanIs, LenProperties
  <1>2. \A x : x \in Bytes(s) <=> \E j \in 1 .. n : x \in s[j][1] .. s[j][2] - 1
    BY DEF Bytes, BytesTo
  <1>3. ASSUME NEW k \in 1 .. n PROVE f[k] \in A
    <2>1. f[k] = s[k][1] /\ s[k][1] \in Nat /\ s[k][2] \in Nat /\ s[k][1] < s[k][2]
      BY <1>1
    <2>2. s[k][1] \in s[k][1] .. s[k][2] - 1
      BY <2>1
    <2>3. s[k][1] \in Bytes(s)
      BY <1>2, <2>2
    <2>4. ASSUME NEW j \in 1 .. n, s[k][1] - 1 \in s[j][1] .. s[j][2] - 1 PROVE FALSE
      <3>1. s[j][1] \in Nat /\ s[j][2] \in Nat /\ s[j][1] < s[j][2]
        BY <1>1
      <3>2. s[j][1] <= s[k][1] - 1 /\ s[k][1] <= s[j][2]
        BY <2>1, <2>4, <3>1
      <3>3. CASE j < k
        <4>1. s[j][2] < s[k][1]
          BY <1>1, <3>3
        <4> QED
          BY <2>1, <3>1, <3>2, <4>1
      <3>4. CASE j = k
        BY <2>1, <3>2, <3>4
      <3>5. CASE k < j
        <4>1. s[k][2] < s[j][1]
          BY <1>1, <3>5
        <4> QED
          BY <2>1, <3>1, <3>2, <4>1
      <3> QED
        BY <1>1, <3>3, <3>4, <3>5
    <2>5. s[k][1] - 1 \notin Bytes(s)
      BY <1>2, <2>4
    <2> QED
      BY <2>1, <2>3, <2>5 DEF Starts
  <1>4. ASSUME NEW x \in A PROVE \E k \in 1 .. n : f[k] = x
    <2>1. x \in Bytes(s) /\ x - 1 \notin Bytes(s)
      BY DEF Starts
    <2>2. PICK k \in 1 .. n : x \in s[k][1] .. s[k][2] - 1
      BY <1>2, <2>1
    <2>3. ~ (x - 1 \in s[k][1] .. s[k][2] - 1)
      BY <1>2, <2>1
    <2>4. s[k][1] \in Nat /\ s[k][2] \in Nat
      BY <1>1
    <2>5. x = s[k][1]
      BY <2>2, <2>3, <2>4
    <2> QED
      BY <2>5
  <1>5. ASSUME NEW j \in 1 .. n, NEW k \in 1 .. n, f[j] = f[k] PROVE j = k
    <2>1. s[j][1] = s[k][1] /\ s[j][1] \in Nat /\ s[j][2] \in Nat /\ s[k][2] \in Nat
          /\ s[j][1] < s[j][2] /\ s[k][1] < s[k][2]
      BY <1>1, <1>5
    <2>2. ~ (j < k)
      <3>1. j < k => s[j][2] < s[k][1]
        BY <1>1
      <3> QED
        BY <2>1, <3>1
    <2>3. ~ (k < j)
      <3>1. k < j => s[k][2] < s[j][1]
        BY <1>1
      <3> QED
        BY <2>1, <3>1
    <2> QED
      BY <1>1, <2>2, <2>3
  <1>6. f \in Bijection(1 .. n, A)
    <2>1. f \in [1 .. n -> A]
      BY <1>3
    <2> HIDE DEF f, A, n
    <2> QED
      BY <1>4, <1>5, <2>1 DEF Bijection, Injection, IsInjective, Surjection
  <1>7. ExistsBijection(1 .. n, A)
    BY <1>6 DEF ExistsBijection
  <1> HIDE DEF n, A
  <1>8. Cardinality(A) = n
    BY <1>1, <1>7, FS_CountingElements
  <1> QED
    BY <1>8 DEF n, A

-----------------------------------------------------------------------------
(* The vector beside the set.                                              *)

\* What the vector says of a transfer.
SpanInv ==
    /\ spans \in Seq(Pairs) /\ Apart(spans)
    /\ Bytes(spans) = received

\* An empty vector, of an empty transfer.
LEMMA NoSpans == spans = <<>> /\ received = {} => SpanInv
  <1> SUFFICES ASSUME spans = <<>>, received = {} PROVE SpanInv
    OBVIOUS
  <1>1. <<>> \in Seq(Pairs)
    BY EmptySeq
  <1>2. DOMAIN <<>> = {} /\ Len(<<>>) = 0
    OBVIOUS
  <1>3. Apart(<<>>) /\ Bytes(<<>>) = {}
    BY <1>2 DEF Apart, Bytes, BytesTo
  <1> QED
    BY <1>1, <1>3 DEF SpanInv

\* The same of the next state.
LEMMA NoSpansNext == spans' = <<>> /\ received' = {} => SpanInv'
  <1> SUFFICES ASSUME spans' = <<>>, received' = {} PROVE SpanInv'
    OBVIOUS
  <1>1. <<>> \in Seq(Pairs)
    BY EmptySeq
  <1>2. DOMAIN <<>> = {} /\ Len(<<>>) = 0
    OBVIOUS
  <1>3. Apart(<<>>) /\ Bytes(<<>>) = {}
    BY <1>2 DEF Apart, Bytes, BytesTo
  <1> QED
    BY <1>1, <1>3 DEF SpanInv

\* A step of the vector is a step of the reassembler.
LEMMA SpanStepIsStep == [SpanNext]_<<vars, spans>> => [Next]_vars
  BY DEF SpanNext, Next, Handle

\* A Data frame that is not stored either leaves the transfer or ends it.
LEMMA NotStored ==
    ASSUME TypeOK, NEW addr \in Addrs, NEW chunk \in Chunks, OnData(addr, chunk),
           ~ DataStored(addr, chunk)
    PROVE  \/ declared_total' = 0 /\ received' = {}
           \/ declared_total' = declared_total /\ received' = received
  BY DEF OnData, DataIgnored, DataTooFragmented, DataOutOfRange, Close, transfer

LEMMA SpanInvNext == TypeOK /\ SpanInv /\ [SpanNext]_<<vars, spans>> => SpanInv'
  <1> SUFFICES ASSUME TypeOK, SpanInv, [SpanNext]_<<vars, spans>> PROVE SpanInv'
    OBVIOUS
  <1>1. ASSUME NEW total \in Totals, NEW type \in FileTypes, OnInfo(total, type), spans' = <<>>
        PROVE  SpanInv'
    BY <1>1, NoSpansNext DEF OnInfo, Open, Close
  <1>2. ASSUME NEW addr \in Addrs, NEW chunk \in Chunks, OnData(addr, chunk), Inserted(addr, chunk)
        PROVE  SpanInv'
    <2>1. CASE DataStored(addr, chunk)
      <3> DEFINE end == addr + Len(chunk)
      <3>1. spans' = Ranges!Merge(spans, addr, end)
        BY <1>2, <2>1 DEF Inserted
      <3>2. received' = received \cup (addr .. end - 1)
        <4>1. received' = received \cup Written(addr, chunk)
          BY <2>1 DEF DataStored
        <4>2. addr \in Nat /\ Len(chunk) \in Nat
          BY WireAssumption
        <4>3. addr + Len(chunk) - 1 = end - 1
          BY <4>2
        <4>4. Written(addr, chunk) = addr .. end - 1
          BY <4>3 DEF Written
        <4> QED
          BY <4>1, <4>4
      <3>3. addr \in Nat /\ end \in Nat /\ addr < end
        <4>1. chunk \in Seq(Values) /\ chunk # <<>> /\ addr \in Nat
          BY <2>1, WireAssumption DEF DataStored
        <4>2. Len(chunk) \in Nat \ {0}
          BY <4>1, EmptySeq
        <4> QED
          BY <4>1, <4>2
      <3>4. spans \in Seq(Pairs) /\ Apart(spans) /\ Bytes(spans) = received
        BY DEF SpanInv
      <3> HIDE DEF end
      <3>5. /\ Ranges!Merge(spans, addr, end) \in Seq(Pairs) /\ Apart(Ranges!Merge(spans, addr, end))
            /\ Bytes(Ranges!Merge(spans, addr, end)) = Bytes(spans) \cup (addr .. end - 1)
        BY <3>3, <3>4, MergeIs
      <3>6. /\ spans' \in Seq(Pairs) /\ Apart(spans')
            /\ Bytes(spans') = received'
        BY <3>1, <3>2, <3>4, <3>5
      <3> QED
        BY <3>6 DEF SpanInv
    <2>2. CASE ~ DataStored(addr, chunk)
      <3>1. spans' = IF declared_total' = 0 THEN <<>> ELSE spans
        BY <1>2, <2>2 DEF Inserted
      <3>2. CASE declared_total' = 0 /\ received' = {}
        BY <3>1, <3>2, NoSpansNext
      <3>3. CASE declared_total' = declared_total /\ received' = received
        <4>1. CASE declared_total = 0
          <5>1. received = {}
            BY <4>1 DEF TypeOK, Offsets
          <5> QED
            BY <3>1, <3>3, <4>1, <5>1, NoSpansNext
        <4>2. CASE declared_total # 0
          BY <3>1, <3>3, <4>2 DEF SpanInv
        <4> QED
          BY <4>1, <4>2
      <3> QED
        BY <1>2, <2>2, <3>2, <3>3, NotStored
    <2> QED
      BY <2>1, <2>2
  <1>3. CASE OnEnd /\ spans' = <<>>
    BY <1>3, NoSpansNext DEF OnEnd, Close
  <1>4. CASE OnUnusable /\ UNCHANGED spans
    BY <1>4 DEF OnUnusable, transfer, SpanInv
  <1>5. CASE Reset /\ spans' = <<>>
    BY <1>5, NoSpansNext DEF Reset, Close
  <1>6. CASE UNCHANGED <<vars, spans>>
    BY <1>6 DEF vars, SpanInv
  <1> QED
    BY <1>1, <1>2, <1>3, <1>4, <1>5, <1>6 DEF SpanNext

\* The vector that has such bytes is exact.
LEMMA ExactWhenInv == TypeOK /\ SpansBounded /\ SpanInv => SpansAreExact
  <1> SUFFICES ASSUME TypeOK, SpansBounded, SpanInv PROVE SpansAreExact
    OBVIOUS
  <1>1. /\ spans \in Seq(Pairs) /\ Apart(spans) /\ Bytes(spans) = received
        /\ declared_total \in Nat /\ received \subseteq 0 .. declared_total - 1
    BY DEF SpanInv, TypeOK, Offsets
  <1>2. \A k \in DOMAIN spans : spans[k][1] < spans[k][2]
    BY <1>1 DEF Apart
  <1>3. \A k \in 1 .. Len(spans) - 1 : spans[k][2] < spans[k + 1][1]
    <2>1. Len(spans) \in Nat /\ DOMAIN spans = 1 .. Len(spans)
      BY <1>1
    <2>2. \A k \in 1 .. Len(spans) - 1 : k \in DOMAIN spans /\ k + 1 \in DOMAIN spans /\ k < k + 1
      BY <2>1
    <2> QED
      BY <1>1, <2>2 DEF Apart
  <1>4. Len(spans) = Cardinality(Starts(received))
    BY <1>1, StartsOfSpans
  <1>5. Len(spans) <= MaxReceivedSpans
    BY <1>4 DEF SpansBounded
  <1>6. CASE IsOpen
    <2> DEFINE gap == Ranges!FirstGap(spans, declared_total)
    <2>1. /\ FfiProgress.is_active = (declared_total > 0)
          /\ FfiProgress.received = Ranges!Covered(spans)
          /\ FfiProgress.first_gap = gap
          /\ FfiProgress.declared_total = declared_total
      BY <1>6 DEF FfiProgress, progress, is_active
    <2>2. FfiProgress.is_active = IsOpen
      BY <2>1 DEF IsOpen
    <2>3. Ranges!Covered(spans) = Cardinality(received)
      BY <1>1, CoveredIs
    <2>4. /\ gap = Ranges!NoGap <=> received = 0 .. declared_total - 1
          /\ gap # Ranges!NoGap => gap \notin received /\ 0 .. gap - 1 \subseteq received
      BY <1>1, FirstGapIs
    <2> HIDE DEF gap
    <2> QED
      BY <1>2, <1>3, <1>4, <1>5, <2>1, <2>2, <2>3, <2>4 DEF SpansAreExact, Offsets
  <1>7. CASE ~ IsOpen
    <2>1. /\ FfiProgress.is_active = (0 > 0)
          /\ FfiProgress.received = 0
          /\ FfiProgress.first_gap = Ranges!NoGap
          /\ FfiProgress.declared_total = 0
      BY <1>7 DEF FfiProgress, progress, is_active
    <2>2. FfiProgress.is_active = IsOpen
      BY <1>1, <1>7, <2>1 DEF IsOpen
    <2>3. received = {} /\ Offsets(0) = {}
      BY <1>1, <1>7 DEF IsOpen, Offsets
    <2>4. Cardinality(received) = 0
      BY <2>3, FS_EmptySet
    <2> QED
      BY <1>2, <1>3, <1>4, <1>5, <2>1, <2>2, <2>3, <2>4 DEF SpansAreExact
  <1> QED
    BY <1>6, <1>7

\* What an app is shown of a transfer in flight is true.
THEOREM SpansExact == SpanSpec => []SpansAreExact
  <1>1. SpanSpec => Spec
    <2>1. SpanInit => Init
      BY DEF SpanInit
    <2> QED
      BY <2>1, SpanStepIsStep, PTL DEF SpanSpec, Spec
  <1>2. SpanInit => SpanInv
    BY NoSpans DEF SpanInit, Init
  <1>3. SpanSpec => []SpanInv
    BY <1>1, <1>2, SpanInvNext, TypeCorrect, PTL DEF SpanSpec
  <1> QED
    BY <1>1, <1>3, ExactWhenInv, TypeCorrect, SpanCap, PTL

-----------------------------------------------------------------------------
(* The framing: what FlattenSeq makes of a vector.                         *)

\* FlattenSeq's loop: from the empty sequence on, one sequence after the other.
Flattens(g, S, seqs) ==
    /\ g \in [0 .. Len(seqs) -> Seq(S)]
    /\ g[0] = <<>> /\ \A i \in 1 .. Len(seqs) : g[i] = g[i - 1] \o seqs[i]
    /\ FlattenSeq(seqs) = g[Len(seqs)]

\* The library's FlattenSeq, a fold, is that loop.
LEMMA FlattenTurns ==
    ASSUME NEW S, NEW seqs \in Seq(Seq(S))
    PROVE  \E g : Flattens(g, S, seqs)
<1> DEFINE n == Len(seqs)
           step == [i \in 1 .. n |-> [x \in Seq(S) |-> x \o seqs[i]]]
           IsRun(g) == g = [i \in 1 .. n |-> IF i = 1 THEN seqs[i] ELSE g[i - 1] \o seqs[i]]
           flat == CHOOSE g : IsRun(g)
<1>1. n \in Nat /\ (\A i \in 1 .. n : seqs[i] \in Seq(S)) /\ <<>> \in Seq(S)
  BY EmptySeq
<1>2. \A i \in 1 .. n : \A x \in Seq(S) : step[i][x] = x \o seqs[i] /\ step[i][x] \in Seq(S)
  BY <1>1
<1>3. PICK f : f \in [0 .. n -> Seq(S)] /\ f[0] = <<>> /\ \A i \in 1 .. n : f[i] = step[i][f[i - 1]]
  <2> HIDE DEF n, step
  <2>1. \A i \in 1 .. n : \A x \in Seq(S) : step[i][x] \in Seq(S)
    BY <1>2
  <2>2. \E f : RunsThrough(f, n, Seq(S), <<>>, step)
    BY <1>1, <2>1, Turns
  <2> QED
    BY <2>2 DEF RunsThrough
<1>4. \A i \in 1 .. n : f[i] = f[i - 1] \o seqs[i]
  <2> SUFFICES ASSUME NEW i \in 1 .. n PROVE f[i] = f[i - 1] \o seqs[i]
    OBVIOUS
  <2>1. f[i - 1] \in Seq(S)
    <3>1. i - 1 \in 0 .. n
      BY <1>1
    <3> HIDE DEF n
    <3> QED
      BY <1>3, <3>1
  <2> QED
    BY <1>2, <1>3, <2>1
<1>5. CASE n = 0
  <2>1. seqs = <<>>
    BY <1>5, EmptySeq
  <2>2. FlattenSeq(seqs) = seqs
    BY <1>5 DEF FlattenSeq
  <2> QED
    BY <1>3, <1>4, <1>5, <2>1, <2>2 DEF Flattens
<1>6. CASE n # 0
  <2>1. FlattenSeq(seqs) = flat[n]
    BY <1>6 DEF FlattenSeq
  <2> DEFINE h == [i \in 1 .. n |-> f[i]]
  <2>2. IsRun(h)
    <3>1. ASSUME NEW i \in 1 .. n PROVE f[i] = IF i = 1 THEN seqs[i] ELSE h[i - 1] \o seqs[i]
      <4>1. CASE i = 1
        <5>1. f[i] = <<>> \o seqs[i] /\ seqs[i] \in Seq(S)
          <6>1. i - 1 = 0
            BY <4>1
          <6> HIDE DEF n
          <6> QED
            BY <1>1, <1>3, <1>4, <6>1
        <5> QED
          BY <4>1, <5>1, ConcatEmptySeq
      <4>2. CASE i # 1
        <5>1. i - 1 \in 1 .. n
          BY <1>1, <4>2
        <5>2. h[i - 1] = f[i - 1]
          BY <5>1
        <5> QED
          BY <1>4, <4>2, <5>2
      <4> QED
        BY <4>1, <4>2
    <3> HIDE DEF n
    <3> QED
      BY <3>1
  <2>3. IsRun(flat)
    <3> HIDE DEF IsRun, h
    <3> QED
      BY <2>2
  <2> HIDE DEF flat
  <2>4. \A i \in 1 .. n : flat[i] = IF i = 1 THEN seqs[i] ELSE flat[i - 1] \o seqs[i]
    <3> HIDE DEF n
    <3> QED
      BY <2>3
  <2> DEFINE T == {i \in 0 .. n : i = 0 \/ flat[i] = f[i]}
  <2>5. 0 \in T
    BY <1>1
  <2>6. ASSUME NEW i \in 1 .. n, i - 1 \in T PROVE i \in T
    <3>1. flat[i] = f[i]
      <4>1. CASE i = 1
        <5>1. f[i] = <<>> \o seqs[i] /\ seqs[i] \in Seq(S)
          <6>1. i - 1 = 0
            BY <4>1
          <6> HIDE DEF n
          <6> QED
            BY <1>1, <1>3, <1>4, <6>1
        <5> QED
          BY <2>4, <4>1, <5>1, ConcatEmptySeq
      <4>2. CASE i # 1
        <5>1. flat[i - 1] = f[i - 1]
          BY <2>6, <4>2
        <5> QED
          BY <1>4, <2>4, <4>2, <5>1
      <4> QED
        BY <4>1, <4>2
    <3> QED
      BY <1>1, <3>1
  <2>7. \A i \in 0 .. n : i \in T
    <3> HIDE DEF T, n
    <3> QED
      BY <1>1, <2>5, <2>6, UpTo
  <2>8. flat[n] = f[n]
    BY <1>1, <1>6, <2>7
  <2> QED
    BY <1>3, <1>4, <2>1, <2>8 DEF Flattens
<1> QED
  BY <1>5, <1>6

-----------------------------------------------------------------------------
(* The queue laid out: where each piece of the stream starts.              *)

Pieces == ControlPieces \cup BrokenPieces \cup FilePieces

Bodied == Seq(Seq(Byte))

\* The bytes of a piece are bytes, at least one, and so are its body's.
LEMMA PieceTyped ==
    ASSUME NEW p \in Pieces
    PROVE  /\ p.bytes \in Seq(Byte) /\ Len(p.bytes) \in Nat \ {0}
           /\ p.body \in Seq(Byte) /\ BodyOn(p) \in Bodied
<1>1. p.bytes \in Seq(Byte) /\ p.bytes # <<>>
  BY StreamAssumption DEF Pieces
<1>2. Len(p.bytes) \in Nat \ {0}
  BY <1>1, EmptySeq
<1>3. p.body \in Seq(Byte)
  <2>1. p.body = <<>> \/ p.body \in Seq(Byte) \ {<<>>}
    BY StreamAssumption
       DEF Pieces, Enveloped, Framed, Damaged, Restarted, WrongLength, Junk
  <2> QED
    BY <2>1, EmptySeq
<1>4. BodyOn(p) \in Bodied
  <2> DEFINE B == Seq(Byte)
  <2> HIDE DEF B
  <2>1. p.body \in B => <<p.body>> \in Seq(B)
    OBVIOUS
  <2>2. <<>> \in Seq(B)
    BY EmptySeq
  <2> QED
    BY <1>3, <2>1, <2>2 DEF BodyOn, Bodied, B
<1> QED
  BY <1>1, <1>2, <1>3, <1>4

\* Piece k of q ends at byte pos[k] of the stream, and bodies[k] are the bodies up to there.
Lays(q, pos, bodies) ==
    /\ pos \in [0 .. Len(q) -> Nat] /\ pos[0] = 0
    /\ \A k \in 1 .. Len(q) : pos[k] = pos[k - 1] + Len(q[k].bytes)
    /\ bodies \in [0 .. Len(q) -> Bodied] /\ bodies[0] = <<>>
    /\ \A k \in 1 .. Len(q) : bodies[k] = bodies[k - 1] \o BodyOn(q[k])
    /\ Stream(q) \in Seq(Byte) /\ Len(Stream(q)) = pos[Len(q)]
    /\ \A k \in 1 .. Len(q) : \A x \in 1 .. Len(q[k].bytes) :
           Stream(q)[pos[k - 1] + x] = q[k].bytes[x]
    /\ \A m \in 0 .. Len(q) :
           Len(Stream(SubSeq(q, 1, m))) = pos[m] /\ Bodies(SubSeq(q, 1, m)) = bodies[m]

\* Where the elements of a concatenation come from.
Joins(S, s, t, both) ==
    /\ both \in Seq(S) /\ Len(both) = Len(s) + Len(t)
    /\ \A x \in 1 .. Len(s) : both[x] = s[x]
    /\ \A x \in 1 .. Len(t) : both[Len(s) + x] = t[x]

LEMMA Concatenated ==
    ASSUME NEW S, NEW s \in Seq(S), NEW t \in Seq(S)
    PROVE  Joins(S, s, t, s \o t)
<1>1. /\ s \o t \in Seq(S) /\ Len(s \o t) = Len(s) + Len(t)
      /\ \A i \in 1 .. Len(s) + Len(t) :
             (s \o t)[i] = IF i <= Len(s) THEN s[i] ELSE t[i - Len(s)]
  BY ConcatProperties
<1>2. Len(s) \in Nat /\ Len(t) \in Nat
  OBVIOUS
<1>3. ASSUME NEW x \in 1 .. Len(s) PROVE (s \o t)[x] = s[x]
  BY <1>1, <1>2
<1>4. ASSUME NEW x \in 1 .. Len(t) PROVE (s \o t)[Len(s) + x] = t[x]
  <2>1. Len(s) + x \in 1 .. Len(s) + Len(t) /\ ~ (Len(s) + x <= Len(s)) /\ (Len(s) + x) - Len(s) = x
    BY <1>2
  <2> QED
    BY <1>1, <2>1
<1> QED
  BY <1>1, <1>3, <1>4 DEF Joins

\* Flattening a prefix of a vector of sequences is a prefix of the loop.
LEMMA PrefixTurns ==
    ASSUME NEW S, NEW seqs \in Seq(Seq(S)), NEW g, Flattens(g, S, seqs),
           NEW head \in Seq(Seq(S)), Len(head) <= Len(seqs),
           \A i \in 1 .. Len(head) : head[i] = seqs[i]
    PROVE  FlattenSeq(head) = g[Len(head)]
<1> DEFINE m == Len(head)
<1>0. m \in Nat /\ m \in 0 .. Len(seqs)
  OBVIOUS
<1>1. PICK f : Flattens(f, S, head)
  BY FlattenTurns
<1> DEFINE T == {i \in 0 .. m : f[i] = g[i]}
<1>2. 0 \in T
  BY <1>0, <1>1 DEF Flattens
<1>3. ASSUME NEW i \in 1 .. m, i - 1 \in T PROVE i \in T
  <2>1. i \in 1 .. Len(seqs) /\ i \in 0 .. m
    BY <1>0
  <2>2. f[i] = f[i - 1] \o head[i] /\ g[i] = g[i - 1] \o seqs[i]
    BY <1>1, <2>1 DEF Flattens
  <2>3. f[i - 1] = g[i - 1] /\ head[i] = seqs[i]
    BY <1>3
  <2> QED
    BY <2>1, <2>2, <2>3
<1>4. \A i \in 0 .. m : i \in T
  <2> HIDE DEF T, m
  <2> QED
    BY <1>0, <1>2, <1>3, UpTo
<1>5. f[m] = g[m]
  BY <1>0, <1>4
<1> QED
  BY <1>1, <1>5 DEF Flattens

\* longer begins with the sequence part.
Prolongs(part, longer) ==
    Len(part) <= Len(longer) /\ \A x \in 1 .. Len(part) : longer[x] = part[x]

\* What one turn of the loop has put down, every later one keeps.
LEMMA TurnsKeep ==
    ASSUME NEW S, NEW seqs \in Seq(Seq(S)), NEW g, Flattens(g, S, seqs), NEW k \in 0 .. Len(seqs)
    PROVE  \A m \in k .. Len(seqs) : Prolongs(g[k], g[m])
<1> DEFINE n == Len(seqs)
           Keeps(m) == Len(g[k]) <= Len(g[m]) /\ \A x \in 1 .. Len(g[k]) : g[m][x] = g[k][x]
           T == {m \in 0 .. n : m >= k => Keeps(m)}
<1>1. n \in Nat /\ \A i \in 0 .. n : g[i] \in Seq(S) /\ Len(g[i]) \in Nat
  BY DEF Flattens
<1>2. k \in 0 .. n /\ Keeps(k)
  BY <1>1
<1>3. 0 \in T
  <2>1. 0 >= k => k = 0
    BY <1>2
  <2> HIDE DEF Keeps, n
  <2> QED
    BY <1>1, <1>2, <2>1
<1>4. ASSUME NEW m \in 1 .. n, m - 1 \in T PROVE m \in T
  <2>1. m \in 0 .. n /\ m - 1 \in 0 .. n
    BY <1>1
  <2>2. SUFFICES ASSUME m >= k PROVE Keeps(m)
    <3> HIDE DEF Keeps
    <3> QED
      BY <2>1
  <2>3. CASE m = k
    <3> HIDE DEF Keeps
    <3> QED
      BY <1>2, <2>3
  <2>4. CASE m # k
    <3>1. Keeps(m - 1)
      <4>1. m - 1 >= k
        BY <1>2, <2>1, <2>2, <2>4
      <4> HIDE DEF Keeps
      <4> QED
        BY <1>4, <4>1
    <3> DEFINE before == g[m - 1]
    <3>2. g[m] = before \o seqs[m]
      BY DEF Flattens
    <3>3. before \in Seq(S) /\ seqs[m] \in Seq(S) /\ g[k] \in Seq(S)
      BY <1>1, <1>2, <2>1
    <3>4. Len(g[k]) <= Len(before) /\ \A x \in 1 .. Len(g[k]) : before[x] = g[k][x]
      BY <3>1
    <3> HIDE DEF n, before
    <3>5. Len(g[m]) = Len(before) + Len(seqs[m])
          /\ \A x \in 1 .. Len(before) : g[m][x] = before[x]
      BY <3>2, <3>3, Concatenated DEF Joins
    <3>6. Len(before) \in Nat /\ Len(seqs[m]) \in Nat /\ Len(g[k]) \in Nat
      BY <3>3
    <3>7. \A x \in 1 .. Len(g[k]) : x \in 1 .. Len(before)
      BY <3>4, <3>6
    <3>8. Len(g[k]) <= Len(g[m])
      BY <3>4, <3>5, <3>6
    <3>9. \A x \in 1 .. Len(g[k]) : g[m][x] = g[k][x]
      BY <3>4, <3>5, <3>7
    <3> QED
      BY <3>8, <3>9
  <2> QED
    BY <2>3, <2>4
<1>5. \A m \in 0 .. n : m \in T
  <2> HIDE DEF T, n
  <2> QED
    BY <1>1, <1>3, <1>4, UpTo
<1>6. \A m \in k .. n : m \in 0 .. n /\ m >= k
  BY <1>1, <1>2
<1> QED
  BY <1>5, <1>6 DEF Prolongs

\* Every queue of pieces is laid out so.
LEMMA LaidOut ==
    ASSUME NEW q \in Seq(Pieces)
    PROVE  \E pos, bodies : Lays(q, pos, bodies)
<1> DEFINE n == Len(q)
           B == Seq(Byte)
           chunks == [k \in DOMAIN q |-> q[k].bytes]
           found == [k \in DOMAIN q |-> BodyOn(q[k])]
<1>1. n \in Nat /\ DOMAIN q = 1 .. n /\ \A k \in 1 .. n : q[k] \in Pieces
  OBVIOUS
<1>2. chunks \in Seq(Seq(Byte)) /\ Len(chunks) = n /\ \A k \in 1 .. n : chunks[k] = q[k].bytes
  <2>1. chunks = [k \in 1 .. n |-> q[k].bytes]
    BY <1>1
  <2>2. \A k \in 1 .. n : q[k].bytes \in B
    BY <1>1, PieceTyped
  <2> HIDE DEF n, B
  <2>3. [k \in 1 .. n |-> q[k].bytes] \in [1 .. n -> B]
    BY <2>2
  <2>4. chunks \in Seq(B) /\ Len(chunks) = n
    <3> HIDE DEF chunks
    <3> QED
      BY <1>1, <2>1, <2>3
  <2> QED
    BY <2>1, <2>4 DEF B
<1>3. found \in Seq(Seq(B)) /\ Len(found) = n /\ \A k \in 1 .. n : found[k] = BodyOn(q[k])
  <2> DEFINE BB == Seq(B)
  <2>1. found = [k \in 1 .. n |-> BodyOn(q[k])]
    BY <1>1
  <2>2. \A k \in 1 .. n : BodyOn(q[k]) \in BB
    BY <1>1, PieceTyped DEF Bodied
  <2> HIDE DEF n, BB
  <2>3. [k \in 1 .. n |-> BodyOn(q[k])] \in [1 .. n -> BB]
    BY <2>2
  <2>4. found \in Seq(BB) /\ Len(found) = n
    <3> HIDE DEF found
    <3> QED
      BY <1>1, <2>1, <2>3
  <2> QED
    BY <2>1, <2>4 DEF BB
<1>4. Stream(q) = FlattenSeq(chunks) /\ Bodies(q) = FlattenSeq(found)
  BY DEF Stream, Bodies
<1> HIDE DEF chunks, found, B
<1>5. PICK g : Flattens(g, Byte, chunks)
  BY <1>2, FlattenTurns
<1>6. PICK h : Flattens(h, B, found)
  BY <1>3, FlattenTurns
<1> DEFINE pos == [k \in 0 .. n |-> Len(g[k])]
<1>7. /\ g \in [0 .. n -> Seq(Byte)] /\ g[0] = <<>>
      /\ \A k \in 1 .. n : g[k] = g[k - 1] \o q[k].bytes
  BY <1>2, <1>5 DEF Flattens
<1>8. pos \in [0 .. n -> Nat] /\ pos[0] = 0
  <2>1. Len(g[0]) = 0 /\ 0 \in 0 .. n /\ \A k \in 0 .. n : Len(g[k]) \in Nat
    BY <1>1, <1>7
  <2> QED
    BY <2>1
<1>9. ASSUME NEW k \in 1 .. n
      PROVE  /\ pos[k] = pos[k - 1] + Len(q[k].bytes)
             /\ \A x \in 1 .. Len(q[k].bytes) :
                    pos[k - 1] + x \in 1 .. Len(g[k]) /\ g[k][pos[k - 1] + x] = q[k].bytes[x]
  <2>1. k \in 0 .. n /\ k - 1 \in 0 .. n
    BY <1>1
  <2> DEFINE a == g[k - 1]
             b == q[k].bytes
  <2>2. a \in Seq(Byte) /\ b \in Seq(Byte) /\ g[k] = a \o b
    BY <1>1, <1>7, <2>1, PieceTyped
  <2>3. pos[k] = Len(g[k]) /\ pos[k - 1] = Len(a)
    BY <2>1
  <2> HIDE DEF a, b, pos
  <2>4. /\ Len(g[k]) = Len(a) + Len(b)
        /\ \A x \in 1 .. Len(b) : g[k][Len(a) + x] = b[x]
    BY <2>2, Concatenated DEF Joins
  <2>5. Len(a) \in Nat /\ Len(b) \in Nat
    BY <2>2
  <2>6. \A x \in 1 .. Len(b) : Len(a) + x \in 1 .. Len(g[k])
    BY <2>4, <2>5
  <2> QED
    BY <2>3, <2>4, <2>6 DEF b
<1>10. /\ h \in [0 .. n -> Bodied] /\ h[0] = <<>>
       /\ \A k \in 1 .. n : h[k] = h[k - 1] \o BodyOn(q[k])
  BY <1>3, <1>6 DEF Flattens, Bodied, B
<1>11. Stream(q) \in Seq(Byte) /\ Len(Stream(q)) = pos[n]
  <2>1. Stream(q) = g[n] /\ n \in 0 .. n
    BY <1>1, <1>2, <1>4, <1>5 DEF Flattens
  <2> HIDE DEF n
  <2> QED
    BY <1>7, <2>1
<1>12. ASSUME NEW k \in 1 .. n, NEW x \in 1 .. Len(q[k].bytes)
       PROVE  Stream(q)[pos[k - 1] + x] = q[k].bytes[x]
  <2>1. Stream(q) = g[n] /\ n \in k .. n /\ k \in 0 .. n
    BY <1>1, <1>2, <1>4, <1>5 DEF Flattens
  <2>2. \A y \in 1 .. Len(g[k]) : g[n][y] = g[k][y]
    <3>1. k \in 0 .. Len(chunks)
      BY <1>2, <2>1
    <3>2. \A m \in k .. Len(chunks) : Prolongs(g[k], g[m])
      <4> HIDE DEF n, pos
      <4> QED
        BY <1>2, <1>5, <3>1, TurnsKeep
    <3>3. Prolongs(g[k], g[n])
      BY <1>2, <2>1, <3>2
    <3> QED
      BY <3>3 DEF Prolongs
  <2> HIDE DEF pos, n
  <2> QED
    BY <1>9, <2>1, <2>2
<1>13. ASSUME NEW m \in 0 .. n
       PROVE  Len(Stream(SubSeq(q, 1, m))) = pos[m] /\ Bodies(SubSeq(q, 1, m)) = h[m]
  <2> DEFINE p == SubSeq(q, 1, m)
  <2>1. p \in Seq(Pieces) /\ Len(p) = m /\ DOMAIN p = 1 .. m /\ \A i \in 1 .. m : p[i] = q[i] /\ i \in 1 .. n
    OBVIOUS
  <2> HIDE DEF p, n
  <2> DEFINE c == [k \in DOMAIN p |-> p[k].bytes]
             f == [k \in DOMAIN p |-> BodyOn(p[k])]
  <2>2. \A i \in 1 .. m : chunks[i] \in Seq(Byte) /\ found[i] \in Seq(B)
    BY <1>2, <1>3, <2>1
  <2>3. c = [i \in 1 .. m |-> chunks[i]] /\ f = [i \in 1 .. m |-> found[i]]
    BY <1>2, <1>3, <2>1
  <2>4. m \in Nat
    OBVIOUS
  <2> HIDE DEF c, f
  <2>5. c \in Seq(Seq(Byte)) /\ Len(c) = m
    <3> DEFINE S == Seq(Byte)
    <3> HIDE DEF S
    <3>1. \A i \in 1 .. m : chunks[i] \in S
      BY <2>2 DEF S
    <3>2. c \in [1 .. m -> S]
      BY <2>3, <3>1
    <3>3. c \in Seq(S) /\ Len(c) = m
      BY <2>3, <2>4, <3>2
    <3> QED
      BY <3>3 DEF S
  <2>6. f \in Seq(Seq(B)) /\ Len(f) = m
    <3> DEFINE S == Seq(B)
    <3> HIDE DEF S
    <3>1. \A i \in 1 .. m : found[i] \in S
      BY <2>2 DEF S
    <3>2. f \in [1 .. m -> S]
      BY <2>3, <3>1
    <3>3. f \in Seq(S) /\ Len(f) = m
      BY <2>3, <2>4, <3>2
    <3> QED
      BY <3>3 DEF S
  <2>7. FlattenSeq(c) = g[m]
    <3>1. Len(c) <= Len(chunks) /\ \A i \in 1 .. Len(c) : c[i] = chunks[i]
      BY <1>2, <2>3, <2>5
    <3> QED
      BY <1>2, <1>5, <2>5, <3>1, PrefixTurns
  <2>8. FlattenSeq(f) = h[m]
    <3>1. Len(f) <= Len(found) /\ \A i \in 1 .. Len(f) : f[i] = found[i]
      BY <1>3, <2>3, <2>6
    <3> QED
      BY <1>3, <1>6, <2>6, <3>1, PrefixTurns
  <2>9. Stream(p) = FlattenSeq(c) /\ Bodies(p) = FlattenSeq(f)
    BY DEF Stream, Bodies, c, f
  <2> QED
    BY <2>7, <2>8, <2>9 DEF p
<1> HIDE DEF pos
<1>14. Lays(q, pos, h)
  BY <1>8, <1>9, <1>10, <1>11, <1>12, <1>13 DEF Lays
<1> QED
  BY <1>14

-----------------------------------------------------------------------------
\* Where pieces start are numbers, each a piece further on.
LEMMA PiecesStart ==
    ASSUME NEW q \in Seq(Pieces), NEW pos, NEW bodies, Lays(q, pos, bodies)
    PROVE  /\ Len(q) \in Nat /\ pos[0] = 0
           /\ \A i \in 0 .. Len(q) : pos[i] \in Nat
           /\ \A i \in 1 .. Len(q) :
                  pos[i] = pos[i - 1] + Len(q[i].bytes) /\ Len(q[i].bytes) \in Nat \ {0}
<1>1. Len(q) \in Nat /\ \A i \in 1 .. Len(q) : q[i] \in Pieces
  OBVIOUS
<1>2. /\ pos \in [0 .. Len(q) -> Nat] /\ pos[0] = 0
      /\ \A i \in 1 .. Len(q) : pos[i] = pos[i - 1] + Len(q[i].bytes)
  BY DEF Lays
<1>3. \A i \in 1 .. Len(q) : Len(q[i].bytes) \in Nat \ {0}
  BY <1>1, PieceTyped
<1> QED
  BY <1>1, <1>2, <1>3

\* Pieces are not empty, so they start in order.
LEMMA InOrder ==
    ASSUME NEW q \in Seq(Pieces), NEW pos, NEW bodies, Lays(q, pos, bodies),
           NEW j \in 0 .. Len(q), NEW k \in 0 .. Len(q), j <= k
    PROVE  pos[j] <= pos[k] /\ (j < k => pos[j] < pos[k])
<1> DEFINE n == Len(q)
           T == {m \in 0 .. n : m >= j => pos[j] <= pos[m] /\ (j < m => pos[j] < pos[m])}
<1>1. n \in Nat /\ (\A i \in 0 .. n : pos[i] \in Nat)
      /\ \A i \in 1 .. n : pos[i] = pos[i - 1] + Len(q[i].bytes) /\ Len(q[i].bytes) \in Nat \ {0}
  BY PiecesStart
<1>2. 0 \in T
  BY <1>1
<1>3. ASSUME NEW m \in 1 .. n, m - 1 \in T PROVE m \in T
  <2>1. m \in 0 .. n /\ m - 1 \in 0 .. n
    BY <1>1
  <2>2. pos[m - 1] \in Nat /\ pos[m] \in Nat /\ pos[j] \in Nat /\ pos[m - 1] < pos[m]
    <3> DEFINE len == Len(q[m].bytes)
    <3>1. len \in Nat \ {0} /\ pos[m] = pos[m - 1] + len
      BY <1>1
    <3>2. pos[m - 1] \in Nat /\ pos[m] \in Nat /\ pos[j] \in Nat
      BY <1>1, <2>1
    <3> HIDE DEF len
    <3> QED
      BY <3>1, <3>2
  <2>3. ASSUME m > j PROVE pos[j] <= pos[m - 1]
    BY <1>3, <2>1, <2>3
  <2>4. m >= j => pos[j] <= pos[m] /\ (j < m => pos[j] < pos[m])
    <3>1. CASE m = j
      BY <2>2, <3>1
    <3>2. CASE m > j
      BY <2>2, <2>3, <3>2
    <3> QED
      BY <2>1, <3>1, <3>2
  <2> QED
    BY <2>1, <2>4
<1>4. \A m \in 0 .. n : m \in T
  <2> HIDE DEF T, n
  <2> QED
    BY <1>1, <1>2, <1>3, UpTo
<1> QED
  BY <1>4

\* Every byte of the stream belongs to a piece.
LEMMA PieceAt ==
    ASSUME NEW q \in Seq(Pieces), NEW pos, NEW bodies, Lays(q, pos, bodies),
           NEW x \in 1 .. Len(Stream(q))
    PROVE  \E k \in 1 .. Len(q) :
               /\ x - pos[k - 1] \in 1 .. Len(q[k].bytes)
               /\ Stream(q)[x] = q[k].bytes[x - pos[k - 1]]
<1> DEFINE n == Len(q)
           T == {k \in 0 .. n : pos[k] >= x}
<1>1. /\ n \in Nat /\ (\A i \in 0 .. n : pos[i] \in Nat) /\ pos[0] = 0
      /\ \A i \in 1 .. n : pos[i] = pos[i - 1] + Len(q[i].bytes) /\ Len(q[i].bytes) \in Nat \ {0}
      /\ Len(Stream(q)) = pos[n]
  <2>1. Len(Stream(q)) = pos[n]
    BY DEF Lays
  <2> QED
    BY <2>1, PiecesStart
<1>2. n \in T /\ T \subseteq Nat
  BY <1>1
<1>3. PICK k \in T : \A m \in T : k <= m
  <2> HIDE DEF T, n
  <2> QED
    BY <1>2, Least
<1>4. k \in 1 .. n
  BY <1>1, <1>3
<1>5. k - 1 \in 0 .. n /\ k - 1 \notin T
  BY <1>1, <1>3, <1>4
<1>6. x - pos[k - 1] \in 1 .. Len(q[k].bytes)
  <2> DEFINE len == Len(q[k].bytes)
             a == pos[k - 1]
  <2>1. a \in Nat /\ len \in Nat /\ pos[k] = a + len /\ pos[k] >= x /\ a < x /\ x \in Nat
    BY <1>1, <1>3, <1>4, <1>5
  <2> HIDE DEF len, a
  <2>2. x - a \in 1 .. len
    BY <2>1
  <2> QED
    BY <2>2 DEF len, a
<1>7. Stream(q)[pos[k - 1] + (x - pos[k - 1])] = q[k].bytes[x - pos[k - 1]]
  BY <1>4, <1>6 DEF Lays
<1>8. pos[k - 1] + (x - pos[k - 1]) = x
  <2>1. pos[k - 1] \in Nat
    BY <1>1, <1>5
  <2> QED
    BY <2>1
<1> QED
  BY <1>4, <1>6, <1>7, <1>8

-----------------------------------------------------------------------------
(* Pieces of a sequence, byte by byte.                                     *)

LEMMA Cut ==
    ASSUME NEW S, NEW s \in Seq(S), NEW a \in Nat, NEW b \in Nat, a <= b, b <= Len(s)
    PROVE  /\ SubSeq(s, a + 1, b) \in Seq(S) /\ Len(SubSeq(s, a + 1, b)) = b - a
           /\ \A x \in 1 .. b - a : SubSeq(s, a + 1, b)[x] = s[a + x]
<1>1. \A i \in a + 1 .. b : i \in 1 .. Len(s)
  OBVIOUS
<1>2. SubSeq(s, a + 1, b) = [i \in 1 .. (b - (a + 1)) + 1 |-> s[i + (a + 1) - 1]]
  OBVIOUS
<1>3. (b - (a + 1)) + 1 = b - a /\ b - a \in Nat
  OBVIOUS
<1>4. \A x \in 1 .. b - a : a + x \in 1 .. Len(s) /\ x + (a + 1) - 1 = a + x
  OBVIOUS
<1>5. SubSeq(s, a + 1, b) = [i \in 1 .. b - a |-> s[a + i]]
  BY <1>2, <1>3, <1>4
<1>6. [i \in 1 .. b - a |-> s[a + i]] \in [1 .. b - a -> S]
  BY <1>4
<1> QED
  BY <1>3, <1>5, <1>6

\* Two sequences with the same elements are the same.
LEMMA Same ==
    ASSUME NEW S, NEW s \in Seq(S), NEW t \in Seq(S), Len(s) = Len(t),
           \A x \in 1 .. Len(s) : s[x] = t[x]
    PROVE  s = t
BY SeqEqual

\* What is cut out of a sequence that continues with t is t.
LEMMA CutIs ==
    ASSUME NEW S, NEW s \in Seq(S), NEW t \in Seq(S), NEW a \in Nat, a + Len(t) <= Len(s),
           \A x \in 1 .. Len(t) : s[a + x] = t[x]
    PROVE  SubSeq(s, a + 1, a + Len(t)) = t
<1> DEFINE b == a + Len(t)
           c == SubSeq(s, a + 1, b)
<1>1. b \in Nat /\ a <= b /\ b <= Len(s) /\ b - a = Len(t)
  OBVIOUS
<1> HIDE DEF b
<1>2. c \in Seq(S) /\ Len(c) = b - a /\ \A x \in 1 .. b - a : c[x] = s[a + x]
  BY <1>1, Cut
<1> HIDE DEF c
<1>3. c = t
  BY <1>1, <1>2, Same
<1> QED
  BY <1>3 DEF b, c

\* Cutting twice.
LEMMA CutCut ==
    ASSUME NEW S, NEW s \in Seq(S), NEW a \in Nat, NEW b \in Nat, a <= b, b <= Len(s),
           NEW c \in Nat, c <= b - a
    PROVE  Drop(SubSeq(s, a + 1, b), c) = SubSeq(s, (a + c) + 1, b)
<1> DEFINE r == SubSeq(s, a + 1, b)
           n == b - a
           d == SubSeq(r, c + 1, n)
           e == SubSeq(s, (a + c) + 1, b)
<1>1. r \in Seq(S) /\ Len(r) = n /\ \A x \in 1 .. n : r[x] = s[a + x]
  BY Cut
<1>2. n \in Nat /\ c <= n /\ a + c \in Nat /\ a + c <= b /\ b - (a + c) = n - c
  OBVIOUS
<1> HIDE DEF r
<1>3. e \in Seq(S) /\ Len(e) = b - (a + c) /\ \A x \in 1 .. b - (a + c) : e[x] = s[(a + c) + x]
  BY <1>2, Cut
<1> HIDE DEF n, e
<1>4. d \in Seq(S) /\ Len(d) = n - c /\ \A x \in 1 .. n - c : d[x] = r[c + x]
  BY <1>1, <1>2, Cut
<1>5. \A x \in 1 .. n - c : c + x \in 1 .. n /\ a + (c + x) = (a + c) + x
  BY <1>2
<1> HIDE DEF d
<1>6. ASSUME NEW x \in 1 .. n - c PROVE d[x] = e[x]
  <2>1. d[x] = r[c + x] /\ r[c + x] = s[a + (c + x)] /\ a + (c + x) = (a + c) + x
    BY <1>1, <1>4, <1>5
  <2>2. e[x] = s[(a + c) + x]
    BY <1>2, <1>3
  <2> QED
    BY <2>1, <2>2
<1>7. d = e
  BY <1>2, <1>3, <1>4, <1>6, Same
<1>8. Drop(r, c) = d
  BY <1>1 DEF Drop, d
<1> QED
  BY <1>7, <1>8 DEF r, e

-----------------------------------------------------------------------------
(* What a turn makes of a piece.                                           *)

\* A number below Base * Base is what its two digits say.
LEMMA TwoDigits ==
    ASSUME NEW len \in 0 .. Base * Base - 1
    PROVE  (len \div Base) * Base + (len % Base) = len
<1>1. Base \in Nat /\ Base > 0
  BY FramingAssumption
<1> QED
  BY <1>1

\* What Encode lays down, byte by byte.
LEMMA EncodeIs ==
    ASSUME NEW body \in Seq(Byte) \ {<<>>}, NEW trailer \in Seq(Byte), LegalLength(Len(body) + 1),
           NEW bytes \in Seq(Byte), bytes = Encode(Head(body), Tail(body), trailer)
    PROVE  /\ Len(bytes) = Total(Len(body) + 1, trailer)
           /\ bytes[1] = Magic[1] /\ bytes[2] = Magic[2]
           /\ LengthField(bytes) = Len(body) + 1
           /\ \A x \in 1 .. Len(body) : bytes[4 + x] = body[x]
           /\ bytes[4 + (Len(body) + 1)] = Checksum(body)
           /\ \A x \in 1 .. Len(trailer) : bytes[(4 + (Len(body) + 1)) + x] = trailer[x]
<1> DEFINE len == Len(body) + 1
           sum == Checksum(body)
           hi == len \div Base
           lo == (len % Base)
           S == Byte \cup {hi, lo, sum}
           s1 == Magic \o <<hi, lo>>
           s2 == s1 \o body
           s3 == s2 \o <<sum>>
<1>1. Len(body) \in Nat \ {0} /\ Len(trailer) \in Nat /\ len \in 0 .. Base * Base - 1
  <2>1. len \in MinLengthField .. MaxLengthField
    BY DEF LegalLength
  <2>2. Len(body) \in Nat \ {0} /\ Len(trailer) \in Nat
    BY EmptySeq
  <2>3. Base * Base \in Int
    BY FramingAssumption
  <2> HIDE DEF len
  <2>4. len \in 0 .. Base * Base - 1
    BY <2>1, <2>3, FramingAssumption
  <2> QED
    BY <2>2, <2>4
<1>2. <<Head(body)>> \o Tail(body) = body
  <2>1. Head(body) \in Byte /\ Tail(body) \in Seq(Byte) /\ Len(Tail(body)) = Len(body) - 1
        /\ \A i \in 1 .. Len(Tail(body)) : Tail(body)[i] = body[i + 1]
    BY HeadTailProperties
  <2>2. Head(body) = body[1]
    OBVIOUS
  <2> DEFINE t == Tail(body)
             h == <<Head(body)>>
  <2>3. h \in Seq(Byte) /\ Len(h) = 1 /\ h[1] = body[1]
    BY <2>1, <2>2
  <2>4. t \in Seq(Byte) /\ Len(t) = Len(body) - 1 /\ \A i \in 1 .. Len(t) : t[i] = body[i + 1]
    BY <2>1
  <2> HIDE DEF t, h
  <2> DEFINE both == h \o t
  <2>5. Joins(Byte, h, t, both)
    BY <2>3, <2>4, Concatenated
  <2> HIDE DEF both
  <2>6. both \in Seq(Byte) /\ Len(both) = Len(body)
    BY <1>1, <2>3, <2>4, <2>5 DEF Joins
  <2>7. ASSUME NEW x \in 1 .. Len(body) PROVE both[x] = body[x]
    <3>1. CASE x = 1
      BY <2>3, <2>5, <3>1 DEF Joins
    <3>2. CASE x # 1
      <4>1. x - 1 \in 1 .. Len(t) /\ 1 + (x - 1) = x /\ (x - 1) + 1 = x
        BY <1>1, <2>4, <3>2
      <4>2. both[1 + (x - 1)] = t[x - 1] /\ t[x - 1] = body[(x - 1) + 1]
        BY <2>3, <2>4, <2>5, <4>1 DEF Joins
      <4> QED
        BY <4>1, <4>2
    <3> QED
      BY <3>1, <3>2
  <2>8. both = body
    BY <2>6, <2>7, Same
  <2> QED
    BY <2>8 DEF both, h, t
<1>3. bytes = s3 \o trailer
  BY <1>2 DEF Encode
<1>4. /\ Magic \in Seq(S) /\ Len(Magic) = 2 /\ body \in Seq(S) /\ trailer \in Seq(S)
      /\ <<hi, lo>> \in Seq(S) /\ Len(<<hi, lo>>) = 2 /\ <<sum>> \in Seq(S) /\ Len(<<sum>>) = 1
  <2> HIDE DEF hi, lo, sum
  <2>1. Byte \subseteq S /\ hi \in S /\ lo \in S /\ sum \in S
    OBVIOUS
  <2> DEFINE B == Byte
  <2> HIDE DEF S, B
  <2>2. B \subseteq S => Seq(B) \subseteq Seq(S)
    OBVIOUS
  <2>3. Magic \in Seq(B) /\ Len(Magic) = 2 /\ body \in Seq(B) /\ trailer \in Seq(B)
    BY FramingAssumption DEF B
  <2>4. <<hi, lo>> \in Seq(S) /\ Len(<<hi, lo>>) = 2 /\ <<sum>> \in Seq(S) /\ Len(<<sum>>) = 1
    BY <2>1
  <2> QED
    BY <2>1, <2>2, <2>3, <2>4 DEF B
<1> HIDE DEF S, hi, lo, sum
<1>5. /\ s1 \in Seq(S) /\ Len(s1) = 4 /\ s1[1] = Magic[1] /\ s1[2] = Magic[2]
      /\ s1[3] = hi /\ s1[4] = lo
  <2> DEFINE t == <<hi, lo>>
  <2>1. t \in Seq(S) /\ Len(t) = 2 /\ t[1] = hi /\ t[2] = lo
    BY <1>4
  <2> HIDE DEF t
  <2>2. Joins(S, Magic, t, Magic \o t)
    BY <1>4, <2>1, Concatenated
  <2>3. 1 \in 1 .. 2 /\ 2 \in 1 .. 2 /\ 2 + 1 = 3 /\ 2 + 2 = 4
    OBVIOUS
  <2>4. s1 = Magic \o t
    BY DEF t
  <2> HIDE DEF s1
  <2>5. s1[2 + 1] = hi /\ s1[2 + 2] = lo
    BY <1>4, <2>1, <2>2, <2>3, <2>4 DEF Joins
  <2> QED
    BY <1>4, <2>1, <2>2, <2>3, <2>4, <2>5 DEF Joins
<1> HIDE DEF s1
<1>6. /\ s2 \in Seq(S) /\ Len(s2) = 4 + Len(body) /\ (\A x \in 1 .. 4 : s2[x] = s1[x])
      /\ \A x \in 1 .. Len(body) : s2[4 + x] = body[x]
  <2>1. Joins(S, s1, body, s2)
    BY <1>4, <1>5, Concatenated
  <2> HIDE DEF s2
  <2> QED
    BY <1>5, <2>1 DEF Joins
<1> HIDE DEF s2
<1>7. /\ s3 \in Seq(S) /\ Len(s3) = 4 + (Len(body) + 1)
      /\ (\A x \in 1 .. 4 + Len(body) : s3[x] = s2[x]) /\ s3[4 + (Len(body) + 1)] = sum
  <2> DEFINE t == <<sum>>
  <2>1. t \in Seq(S) /\ Len(t) = 1 /\ t[1] = sum
    BY <1>4
  <2>2. s3 = s2 \o t
    BY DEF t
  <2> HIDE DEF t, s3
  <2>3. Joins(S, s2, t, s3)
    BY <1>6, <2>1, <2>2, Concatenated
  <2>4. 4 + (Len(body) + 1) = (4 + Len(body)) + 1 /\ 1 \in 1 .. 1
    BY <1>1
  <2>5. s3[(4 + Len(body)) + 1] = sum
    BY <1>6, <2>1, <2>3, <2>4 DEF Joins
  <2> QED
    BY <1>6, <2>1, <2>3, <2>4, <2>5 DEF Joins
<1> HIDE DEF s3
<1>8. /\ Len(bytes) = (4 + (Len(body) + 1)) + Len(trailer)
      /\ (\A x \in 1 .. 4 + (Len(body) + 1) : bytes[x] = s3[x])
      /\ \A x \in 1 .. Len(trailer) : bytes[(4 + (Len(body) + 1)) + x] = trailer[x]
  <2>1. Joins(S, s3, trailer, bytes)
    BY <1>3, <1>4, <1>7, Concatenated
  <2> QED
    BY <1>7, <2>1 DEF Joins
<1>9. /\ \A x \in 1 .. 4 : x \in 1 .. 4 + Len(body) /\ x \in 1 .. 4 + (Len(body) + 1)
      /\ \A x \in 1 .. Len(body) :
             4 + x \in 1 .. 4 + Len(body) /\ 4 + x \in 1 .. 4 + (Len(body) + 1)
      /\ 4 + (Len(body) + 1) \in 1 .. 4 + (Len(body) + 1)
  BY <1>1
<1>10. bytes[1] = Magic[1] /\ bytes[2] = Magic[2] /\ bytes[3] = hi /\ bytes[4] = lo
  <2>1. \A x \in 1 .. 4 : bytes[x] = s1[x]
    BY <1>6, <1>7, <1>8, <1>9
  <2> QED
    BY <1>5, <2>1
<1>11. \A x \in 1 .. Len(body) : bytes[4 + x] = body[x]
  BY <1>6, <1>7, <1>8, <1>9
<1>12. bytes[4 + (Len(body) + 1)] = sum
  BY <1>7, <1>8, <1>9
<1>13. LengthField(bytes) = len
  <2>1. hi * Base + lo = len
    <3> HIDE DEF len
    <3> QED
      BY <1>1, TwoDigits DEF hi, lo
  <2> QED
    BY <1>10, <2>1 DEF LengthField
<1>14. Len(bytes) = Total(len, trailer)
  BY <1>8 DEF Total, Overhead
<1> QED
  BY <1>8, <1>10, <1>11, <1>12, <1>13, <1>14 DEF sum

\* A frame, damaged or not: where it ends, and what it decodes to.
LEMMA EnvelopeIs ==
    ASSUME NEW bytes \in Seq(Byte), NEW body \in Seq(Byte), NEW trailer \in Seq(Byte),
           Enveloped(bytes, body, trailer)
    PROVE  /\ bytes[1] = Magic[1] /\ bytes[2] = Magic[2]
           /\ LengthField(bytes) \in Nat /\ LegalLength(LengthField(bytes))
           /\ LengthField(bytes) >= 2
           /\ Len(bytes) = Total(LengthField(bytes), trailer) /\ Len(bytes) >= Overhead + 2
           /\ Decoded(bytes, LengthField(bytes), trailer) = IF body = <<>> THEN <<>> ELSE <<body>>
<1> DEFINE len == LengthField(bytes)
<1>1. Len(trailer) \in Nat /\ Len(bytes) \in Nat /\ Len(body) \in Nat
  OBVIOUS
<1>2. ASSUME LegalLength(len) PROVE len \in Nat /\ len >= 2
  <2> HIDE DEF len
  <2> QED
    BY <1>2, FramingAssumption DEF LegalLength
<1>3. ASSUME LegalLength(len), Len(bytes) = Total(len, trailer) PROVE Len(bytes) >= Overhead + 2
  <2>1. len \in Nat /\ len >= 2
    BY <1>2, <1>3
  <2> HIDE DEF len
  <2> QED
    BY <1>1, <1>3, <2>1 DEF Total, Overhead
<1>4. CASE Damaged(bytes, body, trailer)
  <2>1. /\ body = <<>> /\ SubSeq(bytes, 1, 2) = Magic
        /\ LegalLength(len) /\ Len(bytes) = Total(len, trailer) /\ ~ Intact(bytes, len, trailer)
    BY <1>4 DEF Damaged
  <2>2. Decoded(bytes, len, trailer) = <<>>
    BY <2>1 DEF Decoded
  <2>3. bytes[1] = Magic[1] /\ bytes[2] = Magic[2]
    <3>1. Len(bytes) >= 2
      BY <1>1, <1>3, <2>1 DEF Overhead
    <3>2. \A x \in 1 .. 2 - 0 : SubSeq(bytes, 0 + 1, 2)[x] = bytes[0 + x]
      BY <3>1, Cut
    <3> QED
      BY <2>1, <3>2
  <2> QED
    BY <1>2, <1>3, <2>1, <2>2, <2>3
<1>5. CASE Framed(bytes, body, trailer)
  <2>1. body \in Seq(Byte) \ {<<>>} /\ LegalLength(Len(body) + 1) /\ body # <<>>
        /\ bytes = Encode(Head(body), Tail(body), trailer)
    BY <1>5 DEF Framed
  <2>2. /\ Len(bytes) = Total(Len(body) + 1, trailer)
        /\ bytes[1] = Magic[1] /\ bytes[2] = Magic[2]
        /\ LengthField(bytes) = Len(body) + 1
        /\ \A x \in 1 .. Len(body) : bytes[4 + x] = body[x]
        /\ bytes[4 + (Len(body) + 1)] = Checksum(body)
        /\ \A x \in 1 .. Len(trailer) : bytes[(4 + (Len(body) + 1)) + x] = trailer[x]
    BY <2>1, EncodeIs
  <2> HIDE DEF len
  <2>3. len = Len(body) + 1
    BY <2>2 DEF len
  <2>4. BodyOf(bytes, len) = body
    <3>1. 4 + Len(body) <= Len(bytes) /\ 4 + 1 = 5 /\ 4 + Len(body) = 4 + (len - 1)
      BY <1>1, <2>2, <2>3 DEF Total, Overhead
    <3>2. SubSeq(bytes, 4 + 1, 4 + Len(body)) = body
      BY <2>2, <3>1, CutIs
    <3>3. SubSeq(bytes, 5, 4 + (len - 1)) = body
      BY <3>1, <3>2, Zenon
    <3>4. BodyOf(bytes, len) = SubSeq(bytes, 5, Overhead + (len - 1))
      BY DEF BodyOf
    <3>5. Overhead = 4
      BY DEF Overhead
    <3> QED
      BY <3>3, <3>4, <3>5
  <2>5. SubSeq(bytes, Overhead + len + 1, Len(bytes)) = trailer
    <3> DEFINE a == 4 + (Len(body) + 1)
    <3>1. a \in Nat /\ a + Len(trailer) = Len(bytes)
      BY <1>1, <2>2 DEF Total, Overhead
    <3>2. \A x \in 1 .. Len(trailer) : bytes[a + x] = trailer[x]
      BY <2>2
    <3>3. Overhead + len = a
      BY <2>3 DEF Overhead
    <3> HIDE DEF a
    <3>4. SubSeq(bytes, a + 1, a + Len(trailer)) = trailer
      BY <1>1, <3>1, <3>2, CutIs
    <3> QED
      BY <3>1, <3>3, <3>4
  <2>6. bytes[Overhead + len] = Checksum(BodyOf(bytes, len))
    BY <2>2, <2>3, <2>4 DEF Overhead
  <2>7. Decoded(bytes, len, trailer) = <<body>>
    BY <2>4, <2>5, <2>6 DEF Decoded, Intact
  <2> QED
    BY <1>2, <1>3, <2>1, <2>2, <2>3, <2>7 DEF len
<1> QED
  BY <1>4, <1>5 DEF Enveloped

\* What starts as a frame starts with the magic, and then with its length.
LEMMA StartsAs ==
    ASSUME NEW bytes \in Seq(Byte), NEW body \in Seq(Byte), NEW trailer \in Seq(Byte),
           Enveloped(bytes, body, trailer),
           NEW r \in Seq(Byte), NEW m \in Nat, m <= Len(r), m <= Len(bytes),
           \A x \in 1 .. m : r[x] = bytes[x]
    PROVE  /\ m >= 1 => r[1] = Magic[1]
           /\ m >= 2 => r[2] = Magic[2] /\ SubSeq(r, 1, 2) = Magic
           /\ m >= Overhead => LengthField(r) = LengthField(bytes)
           /\ m = Len(bytes) => SubSeq(r, 1, Len(bytes)) = bytes
<1>1. bytes[1] = Magic[1] /\ bytes[2] = Magic[2] /\ Len(bytes) \in Nat /\ Len(r) \in Nat
  BY EnvelopeIs
<1>2. m >= 1 => r[1] = Magic[1]
  BY <1>1
<1>3. ASSUME m >= 2 PROVE r[2] = Magic[2] /\ SubSeq(r, 1, 2) = Magic
  <2>1. r[1] = Magic[1] /\ r[2] = Magic[2] /\ 2 <= Len(r)
    BY <1>1, <1>3
  <2>2. Magic \in Seq(Byte) /\ Len(Magic) = 2
    BY FramingAssumption
  <2>3. \A x \in 1 .. Len(Magic) : r[0 + x] = Magic[x]
    BY <2>1, <2>2
  <2>4. SubSeq(r, 0 + 1, 0 + Len(Magic)) = Magic
    BY <2>1, <2>2, <2>3, CutIs
  <2> QED
    BY <2>1, <2>2, <2>4
<1>4. ASSUME m >= Overhead PROVE LengthField(r) = LengthField(bytes)
  <2>1. r[3] = bytes[3] /\ r[4] = bytes[4]
    BY <1>4 DEF Overhead
  <2> QED
    BY <2>1 DEF LengthField
<1>5. ASSUME m = Len(bytes) PROVE SubSeq(r, 1, Len(bytes)) = bytes
  <2>1. 0 + Len(bytes) <= Len(r) /\ \A x \in 1 .. Len(bytes) : r[0 + x] = bytes[x]
    BY <1>1, <1>5
  <2>2. SubSeq(r, 0 + 1, 0 + Len(bytes)) = bytes
    BY <2>1, CutIs
  <2> QED
    BY <1>1, <2>2
<1> QED
  BY <1>2, <1>3, <1>4, <1>5

LEMMA MagicTyped == Magic \in Seq(Byte) /\ Len(Magic) = 2 /\ Magic[1] \in Byte /\ Magic[2] \in Byte
<1>1. Magic \in Seq(Byte) /\ Len(Magic) = 2
  BY FramingAssumption
<1>2. \A i \in 1 .. Len(Magic) : Magic[i] \in Byte
  BY <1>1, ElementOfSeq
<1> QED
  BY <1>1, <1>2

\* Resynchronising skips to the first byte of the magic, if the second follows
\* or is still to come.
LEMMA Resyncs ==
    ASSUME NEW r \in Seq(Byte), NEW a \in Nat, a <= Len(r),
           \A x \in 1 .. a : r[x] # Magic[1],
           a < Len(r) => r[a + 1] = Magic[1],
           a + 1 < Len(r) => r[a + 2] = Magic[2]
    PROVE  ResyncToHeader(r) = Drop(r, a)
<1> DEFINE n == Len(r)
<1>1. n \in Nat /\ Magic \in Seq(Byte) /\ Len(Magic) = 2
  BY FramingAssumption
<1>2. \A i \in Headers(r) : i \in 1 .. n - 1 /\ r[i] = Magic[1]
  <2> SUFFICES ASSUME NEW i \in 1 .. n - 1, SubSeq(r, i, i + 1) = Magic PROVE r[i] = Magic[1]
    BY DEF Headers
  <2>1. (i - 1) \in Nat /\ i + 1 \in Nat /\ i - 1 <= i + 1 /\ i + 1 <= Len(r)
        /\ (i + 1) - (i - 1) = 2 /\ (i - 1) + 1 = i
    BY <1>1
  <2> DEFINE b == i - 1
             c == i + 1
  <2> HIDE DEF b, c
  <2>2. b \in Nat /\ c \in Nat /\ b <= c /\ c <= Len(r) /\ c - b = 2 /\ b + 1 = i
    BY <2>1 DEF b, c
  <2>3. \A x \in 1 .. c - b : SubSeq(r, b + 1, c)[x] = r[b + x]
    BY <2>2, Cut
  <2>4. SubSeq(r, i, c)[1] = r[i]
    <3>1. 1 \in 1 .. c - b
      BY <2>2
    <3>2. SubSeq(r, b + 1, c)[1] = r[b + 1]
      BY <2>3, <3>1
    <3> QED
      BY <2>2, <3>2
  <2> QED
    BY <2>4 DEF c
<1>3. \A i \in Headers(r) : i > a
  BY <1>1, <1>2
<1>4. CASE a + 1 < n
  <2>1. a + 1 \in Headers(r)
    <3>1. \A x \in 1 .. Len(Magic) : r[a + x] = Magic[x]
      BY <1>1, <1>4
    <3>2. a + Len(Magic) <= Len(r) /\ a + 1 \in 1 .. n - 1 /\ a + Len(Magic) = (a + 1) + 1
      BY <1>1, <1>4
    <3>3. SubSeq(r, a + 1, a + Len(Magic)) = Magic
      BY <1>1, <3>1, <3>2, CutIs
    <3> QED
      BY <3>2, <3>3 DEF Headers
  <2>2. \A i \in Headers(r) : a + 1 <= i
    BY <1>1, <1>2, <1>3
  <2>3. Min(Headers(r)) = a + 1
    <3> DEFINE P(x) == x \in Headers(r) /\ \A i \in Headers(r) : x <= i
    <3>1. P(a + 1)
      BY <2>1, <2>2
    <3>2. \A x : P(x) => x = a + 1
      BY <1>2, <2>1, <2>2
    <3>3. Min(Headers(r)) = CHOOSE x \in Headers(r) : \A i \in Headers(r) : x <= i
      BY DEF Min
    <3> QED
      BY <3>1, <3>2, <3>3
  <2>4. ResyncToHeader(r) = Drop(r, Min(Headers(r)) - 1)
    BY <2>1 DEF ResyncToHeader
  <2> QED
    BY <2>3, <2>4
<1>5. CASE ~ (a + 1 < n)
  <2>1. Headers(r) = {}
    BY <1>1, <1>2, <1>3, <1>5
  <2>2. CASE a = n
    <3>1. r # <<>> => Last(r) # Magic[1]
      <4>1. r # <<>> => n \in 1 .. a
        BY <1>1, <2>2, EmptySeq
      <4> QED
        BY <4>1 DEF Last
    <3>2. ResyncToHeader(r) = <<>>
      BY <2>1, <3>1 DEF ResyncToHeader
    <3>3. Drop(r, a) = <<>>
      BY <2>2 DEF Drop
    <3> QED
      BY <3>2, <3>3
  <2>3. CASE a # n
    <3>1. a + 1 = n /\ r[n] = Magic[1] /\ r # <<>>
      BY <1>1, <1>5, <2>3
    <3>2. ResyncToHeader(r) = <<Magic[1]>>
      BY <2>1, <3>1 DEF ResyncToHeader, Last
    <3> DEFINE t == <<Magic[1]>>
    <3>3. t \in Seq(Byte) /\ Len(t) = 1 /\ t[1] = Magic[1]
      <4> DEFINE first == Magic[1]
                 B == Byte
      <4>1. first \in B
        BY MagicTyped
      <4> HIDE DEF first, B
      <4>2. <<first>> \in Seq(B) /\ Len(<<first>>) = 1 /\ <<first>>[1] = first
        BY <4>1
      <4> QED
        BY <4>2 DEF first, B
    <3> HIDE DEF t
    <3>4. a + Len(t) = n /\ a + Len(t) <= Len(r) /\ \A x \in 1 .. Len(t) : r[a + x] = t[x]
      BY <1>1, <3>1, <3>3
    <3>5. SubSeq(r, a + 1, a + Len(t)) = t
      BY <3>3, <3>4, CutIs
    <3> QED
      BY <3>2, <3>4, <3>5 DEF Drop, t
  <2> QED
    BY <2>2, <2>3
<1> QED
  BY <1>4, <1>5

-----------------------------------------------------------------------------
(* One turn of each drain.                                                 *)

ControlTaken == [frames : Bodied, rest : Seq(Byte)]
FileTaken == [frames : Bodied, rest : Seq(Byte), dropped : Int]

\* What is dropped from a sequence of bytes leaves one.
LEMMA DropIs ==
    ASSUME NEW r \in Seq(Byte), NEW a \in Nat, a <= Len(r)
    PROVE  /\ Drop(r, a) \in Seq(Byte) /\ Len(Drop(r, a)) = Len(r) - a
           /\ \A x \in 1 .. Len(r) - a : Drop(r, a)[x] = r[a + x]
<1>1. Len(r) \in Nat /\ Len(r) <= Len(r)
  OBVIOUS
<1> QED
  BY <1>1, Cut DEF Drop

\* What is decoded is a sequence of at most one body.
LEMMA DecodedTyped ==
    ASSUME NEW r \in Seq(Byte), NEW len \in Nat, LegalLength(len), NEW trailer \in Seq(Byte),
           Len(r) >= Total(len, trailer)
    PROVE  Decoded(SubSeq(r, 1, Total(len, trailer)), len, trailer) \in Bodied
<1> DEFINE total == Total(len, trailer)
           bytes == SubSeq(r, 1, total)
           body == BodyOf(bytes, len)
           B == Seq(Byte)
<1>1. len >= 2 /\ Len(trailer) \in Nat /\ Len(r) \in Nat
  BY FramingAssumption DEF LegalLength
<1>2. total \in Nat /\ total = (4 + len) + Len(trailer) /\ 0 <= total /\ total - 0 = total
  BY <1>1 DEF Total, Overhead
<1>3. bytes \in Seq(Byte) /\ Len(bytes) = total
  <2> HIDE DEF total
  <2>1. total <= Len(r)
    BY DEF total
  <2>2. SubSeq(r, 0 + 1, total) \in Seq(Byte) /\ Len(SubSeq(r, 0 + 1, total)) = total - 0
    BY <1>2, <2>1, Cut
  <2> QED
    BY <1>2, <2>2
<1> HIDE DEF bytes, total
<1>4. body \in B
  <2> DEFINE c == Overhead + len - 1
  <2>1. c \in Nat /\ 4 <= c /\ c <= Len(bytes) /\ 4 + 1 = 5
    BY <1>1, <1>2, <1>3 DEF Overhead
  <2> HIDE DEF c
  <2>2. SubSeq(bytes, 4 + 1, c) \in Seq(Byte)
    BY <1>3, <2>1, Cut
  <2> QED
    BY <2>1, <2>2 DEF BodyOf, c
<1> HIDE DEF body, B
<1>5. <<body>> \in Seq(B) /\ <<>> \in Seq(B)
  BY <1>4
<1>6. Decoded(bytes, len, trailer) \in Seq(B)
  BY <1>5 DEF Decoded, body
<1> QED
  BY <1>6 DEF Bodied, B, bytes, total

\* Four bytes hold a length.
LEMMA FieldTyped ==
    ASSUME NEW r \in Seq(Byte), Len(r) >= Overhead
    PROVE  LengthField(r) \in Nat
<1>1. 3 \in 1 .. Len(r) /\ 4 \in 1 .. Len(r)
  BY DEF Overhead
<1>2. r[3] \in Byte /\ r[4] \in Byte
  BY <1>1, ElementOfSeq
<1>3. r[3] \in Nat /\ r[4] \in Nat /\ Base \in Nat
  BY <1>2, FramingAssumption DEF Byte
<1> QED
  BY <1>3 DEF LengthField

\* A turn makes frames and a rest of frames and a rest.
LEMMA DrainTurnTyped == ASSUME NEW taken \in ControlTaken PROVE Turn(taken) \in ControlTaken
<1> DEFINE rest == taken.rest
           len == LengthField(rest)
           total == Total(len, <<>>)
<1>1. taken.frames \in Bodied /\ rest \in Seq(Byte) /\ Len(rest) \in Nat
  BY DEF ControlTaken
<1>2. CASE Len(rest) < Overhead \/ SubSeq(rest, 1, 2) # Magic
  BY <1>2 DEF Turn
<1>3. CASE ~ (Len(rest) < Overhead \/ SubSeq(rest, 1, 2) # Magic)
  <2>1. Len(rest) >= Overhead /\ len \in Nat
    <3>1. Len(rest) >= Overhead
      BY <1>1, <1>3 DEF Overhead
    <3> QED
      BY <1>1, <3>1, FieldTyped
  <2>2. CASE ~ LegalLength(len)
    <3>1. Drop(rest, 2) \in Seq(Byte)
      BY <1>1, <2>1, DropIs DEF Overhead
    <3>2. Turn(taken) = [taken EXCEPT !.rest = Drop(rest, 2)]
      BY <1>3, <2>2 DEF Turn
    <3> QED
      BY <3>1, <3>2 DEF ControlTaken
  <2>3. CASE LegalLength(len) /\ Len(rest) < total
    BY <1>3, <2>3 DEF Turn
  <2>4. CASE LegalLength(len) /\ ~ (Len(rest) < total)
    <3> DEFINE found == Decoded(SubSeq(rest, 1, total), len, <<>>)
    <3>1. total \in Nat /\ Len(rest) >= total
      <4>1. total \in Nat
        BY <2>1, EmptySeq DEF Total, Overhead
      <4> HIDE DEF total
      <4> QED
        BY <1>1, <2>4, <4>1
    <3>2. found \in Bodied
      BY <1>1, <2>1, <2>4, <3>1, DecodedTyped, EmptySeq
    <3>3. Drop(rest, total) \in Seq(Byte)
      BY <1>1, <3>1, DropIs
    <3>4. Turn(taken) = [frames |-> taken.frames \o found, rest |-> Drop(rest, total)]
      BY <1>3, <2>4 DEF Turn
    <3> HIDE DEF found
    <3>5. taken.frames \o found \in Bodied
      <4> DEFINE B == Seq(Byte)
      <4> HIDE DEF B
      <4>1. taken.frames \in Seq(B) /\ found \in Seq(B)
        BY <1>1, <3>2 DEF Bodied, B
      <4>2. taken.frames \o found \in Seq(B)
        BY <4>1
      <4> QED
        BY <4>2 DEF Bodied, B
    <3> QED
      BY <3>3, <3>4, <3>5 DEF ControlTaken
  <2> QED
    BY <2>2, <2>3, <2>4
<1> QED
  BY <1>2, <1>3

\* So does a turn of the other drain; resynchronising leaves a tail.
LEMMA ResyncTyped ==
    ASSUME NEW r \in Seq(Byte)
    PROVE  ResyncToHeader(r) \in Seq(Byte)
<1>1. CASE Headers(r) # {}
  <2>1. Headers(r) \subseteq Nat /\ \A i \in Headers(r) : i - 1 \in Nat /\ i - 1 <= Len(r)
    BY DEF Headers
  <2>2. Min(Headers(r)) \in Headers(r)
    <3>1. \E x \in Headers(r) : \A y \in Headers(r) : x <= y
      BY <1>1, <2>1, Least
    <3> QED
      BY <3>1 DEF Min
  <2>3. ResyncToHeader(r) = Drop(r, Min(Headers(r)) - 1)
    BY <1>1 DEF ResyncToHeader
  <2> QED
    BY <2>1, <2>2, <2>3, DropIs
<1>2. CASE Headers(r) = {}
  <2>1. <<>> \in Seq(Byte)
    BY EmptySeq
  <2>2. <<Magic[1]>> \in Seq(Byte)
    <3> DEFINE first == Magic[1]
               B == Byte
    <3>1. first \in B
      BY MagicTyped
    <3> HIDE DEF first, B
    <3>2. <<first>> \in Seq(B)
      BY <3>1
    <3> QED
      BY <3>2 DEF first, B
  <2> QED
    BY <1>2, <2>1, <2>2 DEF ResyncToHeader
<1> QED
  BY <1>1, <1>2

LEMMA FileTurnTyped ==
    ASSUME NEW taken \in FileTaken, NEW trailer \in Seq(Byte)
    PROVE  FileTurn(taken, trailer) \in FileTaken
<1> DEFINE rest == ResyncToHeader(taken.rest)
           dropped == taken.dropped + Len(taken.rest) - Len(rest)
           len == LengthField(rest)
           total == Total(len, trailer)
<1>1. taken.frames \in Bodied /\ taken.rest \in Seq(Byte) /\ taken.dropped \in Int
  BY DEF FileTaken
<1>2. rest \in Seq(Byte) /\ Len(rest) \in Nat
  BY <1>1, ResyncTyped
<1>3. dropped \in Int /\ dropped + 2 \in Int
  <2>1. Len(taken.rest) \in Nat
    BY <1>1
  <2> HIDE DEF rest
  <2> QED
    BY <1>1, <1>2, <2>1
<1> HIDE DEF dropped
<1>4. CASE Len(rest) >= Overhead /\ ~ LegalLength(len)
  <2>1. Drop(rest, 2) \in Seq(Byte)
    BY <1>2, <1>4, DropIs DEF Overhead
  <2>2. FileTurn(taken, trailer) = [taken EXCEPT !.rest = Drop(rest, 2), !.dropped = dropped + 2]
    BY <1>4 DEF FileTurn, dropped
  <2> HIDE DEF rest
  <2> QED
    BY <1>3, <2>1, <2>2 DEF FileTaken
<1>5. CASE ~ (Len(rest) >= Overhead /\ ~ LegalLength(len)) /\ (Len(rest) < Overhead \/ Len(rest) < total)
  <2>1. FileTurn(taken, trailer) = [taken EXCEPT !.rest = rest, !.dropped = dropped]
    BY <1>5 DEF FileTurn, dropped
  <2> HIDE DEF rest
  <2> QED
    BY <1>2, <1>3, <2>1 DEF FileTaken
<1>6. CASE ~ (Len(rest) >= Overhead /\ ~ LegalLength(len)) /\ ~ (Len(rest) < Overhead \/ Len(rest) < total)
  <2> DEFINE found == Decoded(SubSeq(rest, 1, total), len, trailer)
  <2>1. Len(rest) >= Overhead /\ LegalLength(len)
    <3> HIDE DEF rest, len
    <3> QED
      BY <1>2, <1>6 DEF Overhead
  <2>2. len \in Nat /\ total \in Nat /\ Len(rest) >= total
    <3>1. len \in Nat
      BY <1>2, <2>1, FieldTyped
    <3> HIDE DEF rest, len
    <3>2. total \in Nat
      BY <3>1 DEF Total, Overhead
    <3> HIDE DEF total
    <3> QED
      BY <1>2, <1>6, <3>1, <3>2
  <2>3. found \in Bodied
    BY <1>2, <2>1, <2>2, DecodedTyped
  <2>4. Drop(rest, total) \in Seq(Byte)
    BY <1>2, <2>2, DropIs
  <2>5. FileTurn(taken, trailer)
          = [frames |-> taken.frames \o found, rest |-> Drop(rest, total), dropped |-> dropped]
    BY <1>6 DEF FileTurn, dropped
  <2> HIDE DEF found
  <2>6. taken.frames \o found \in Bodied
    <3> DEFINE B == Seq(Byte)
    <3> HIDE DEF B
    <3>1. taken.frames \in Seq(B) /\ found \in Seq(B)
      BY <1>1, <2>3 DEF Bodied, B
    <3>2. taken.frames \o found \in Seq(B)
      BY <3>1
    <3> QED
      BY <3>2 DEF Bodied, B
  <2> HIDE DEF rest, total
  <2> QED
    BY <1>3, <2>4, <2>5, <2>6 DEF FileTaken
<1> QED
  BY <1>4, <1>5, <1>6

-----------------------------------------------------------------------------
(* A turn takes exactly the next piece.                                    *)

\* The turn of the channel's own drain.
After(c, taken, trailer) == IF c = "AA14" THEN Turn(taken) ELSE FileTurn(taken, trailer)

\* What the drain of the channel is at work on: a bytes of junk on AA15, none on AA14.
AtWork(c, taken, trailer, a) ==
    /\ trailer \in Seq(Byte) /\ a \in Nat /\ a <= Len(taken.rest)
    /\ \/ c = "AA14" /\ taken \in ControlTaken /\ trailer = <<>> /\ a = 0
       \/ c = "AA15" /\ taken \in FileTaken
    /\ \A x \in 1 .. a : taken.rest[x] # Magic[1]

BodiesOf(body) == IF body = <<>> THEN <<>> ELSE <<body>>

\* After a bytes comes a whole piece; or nothing, or less than a piece.
Comes(t, trailer, a, bytes, body) ==
    /\ bytes \in Seq(Byte) /\ body \in Seq(Byte) /\ Enveloped(bytes, body, trailer)
    /\ a + Len(bytes) <= Len(t.rest)
    /\ \A x \in 1 .. Len(bytes) : t.rest[a + x] = bytes[x]

ComesLess(t, trailer, a) ==
    \/ a = Len(t.rest)
    \/ \E bytes, body \in Seq(Byte) :
           /\ Enveloped(bytes, body, trailer)
           /\ Len(t.rest) - a < Len(bytes)
           /\ \A x \in 1 .. Len(t.rest) - a : t.rest[a + x] = bytes[x]

Takes(c, t, trailer, a, bytes, body) ==
    /\ After(c, t, trailer).frames = t.frames \o BodiesOf(body)
    /\ After(c, t, trailer).rest = Drop(t.rest, a + Len(bytes))

Leaves(c, t, trailer, a) ==
    /\ After(c, t, trailer).frames = t.frames
    /\ After(c, t, trailer).rest = Drop(t.rest, a)

\* If a whole piece comes next, the turn takes it.
LEMMA TakesPiece ==
    ASSUME NEW c, NEW taken, NEW trailer, NEW a, AtWork(c, taken, trailer, a),
           NEW bytes, NEW body, Comes(taken, trailer, a, bytes, body)
    PROVE  Takes(c, taken, trailer, a, bytes, body)
<1>0. /\ bytes \in Seq(Byte) /\ body \in Seq(Byte) /\ Enveloped(bytes, body, trailer)
      /\ a + Len(bytes) <= Len(taken.rest)
      /\ \A x \in 1 .. Len(bytes) : taken.rest[a + x] = bytes[x]
  BY DEF Comes
<1> DEFINE r == taken.rest
           rest == Drop(r, a)
           len == LengthField(rest)
           total == Total(len, trailer)
<1>1. r \in Seq(Byte) /\ Len(r) \in Nat /\ a \in Nat /\ Len(bytes) \in Nat /\ trailer \in Seq(Byte)
      /\ a <= Len(r) /\ \A x \in 1 .. a : r[x] # Magic[1]
  <2>1. r \in Seq(Byte)
    BY DEF AtWork, ControlTaken, FileTaken
  <2> QED
    BY <1>0, <2>1 DEF AtWork
<1>2. /\ bytes[1] = Magic[1] /\ bytes[2] = Magic[2]
      /\ LegalLength(LengthField(bytes)) /\ Len(bytes) = Total(LengthField(bytes), trailer)
      /\ Len(bytes) >= Overhead + 2
      /\ Decoded(bytes, LengthField(bytes), trailer) = BodiesOf(body)
  BY <1>0, <1>1, EnvelopeIs DEF BodiesOf
<1>3. rest \in Seq(Byte) /\ Len(rest) = Len(r) - a /\ \A x \in 1 .. Len(r) - a : rest[x] = r[a + x]
  <2> HIDE DEF r
  <2> QED
    BY <1>1, DropIs
<1> DEFINE m == Len(bytes)
<1>4. m \in Nat /\ m <= Len(rest) /\ \A x \in 1 .. m : rest[x] = bytes[x]
  <2>1. \A x \in 1 .. m : r[a + x] = bytes[x]
    BY <1>0
  <2>2. m <= Len(r) - a
    BY <1>0, <1>1
  <2> HIDE DEF rest, r, m
  <2>3. m \in Nat
    BY <1>1 DEF m
  <2> QED
    BY <1>1, <1>3, <2>1, <2>2, <2>3
<1> HIDE DEF rest, m
<1>5. m = Len(bytes) /\ m >= Overhead /\ m >= 2
  BY <1>1, <1>2 DEF m, Overhead
<1>6. SubSeq(rest, 1, 2) = Magic /\ LengthField(rest) = LengthField(bytes) /\ SubSeq(rest, 1, Len(bytes)) = bytes
  <2>1. m <= Len(bytes)
    BY <1>1, <1>5
  <2> QED
    BY <1>0, <1>1, <1>3, <1>4, <1>5, <2>1, StartsAs
<1>7. /\ ~ (Len(rest) < Overhead \/ SubSeq(rest, 1, 2) # Magic) /\ LegalLength(len)
      /\ total = m /\ ~ (Len(rest) < total)
      /\ Decoded(SubSeq(rest, 1, total), len, trailer) = BodiesOf(body)
      /\ Drop(rest, total) = Drop(r, a + m)
  <2>1. len = LengthField(bytes) /\ total = m
    BY <1>2, <1>5, <1>6
  <2>2. Len(rest) \in Nat
    BY <1>3
  <2>3. Drop(rest, m) = Drop(r, a + m)
    <3> DEFINE e == Len(r)
    <3>1. e \in Nat /\ a <= e /\ e <= Len(r) /\ m <= e - a
      BY <1>1, <1>3, <1>4
    <3> HIDE DEF r, e
    <3>2. Drop(SubSeq(r, a + 1, e), m) = SubSeq(r, (a + m) + 1, e)
      BY <1>1, <1>4, <3>1, CutCut
    <3> QED
      BY <3>2 DEF Drop, rest, e
  <2> HIDE DEF total, len, r
  <2>4. SubSeq(rest, 1, total) = bytes
    BY <1>5, <1>6, <2>1
  <2>5. Decoded(SubSeq(rest, 1, total), len, trailer) = BodiesOf(body)
    BY <1>2, <2>1, <2>4
  <2>6. ~ (Len(rest) < Overhead) /\ ~ (Len(rest) < total)
    BY <1>4, <1>5, <2>1, <2>2 DEF Overhead
  <2> QED
    BY <1>2, <1>6, <2>1, <2>3, <2>5, <2>6
<1>8. CASE c = "AA14"
  <2>1. a = 0 /\ trailer = <<>> /\ taken \in ControlTaken
    BY <1>8 DEF AtWork
  <2>2. rest = r
    <3>1. 0 + 1 = 1
      OBVIOUS
    <3> QED
      BY <1>1, <2>1, <3>1, SubSeqFull DEF rest, Drop
  <2>3. Turn(taken) = [frames |-> taken.frames \o Decoded(SubSeq(rest, 1, total), len, <<>>),
                       rest |-> Drop(rest, total)]
    <3>1. /\ ~ (Len(r) < Overhead \/ SubSeq(r, 1, 2) # Magic) /\ LegalLength(LengthField(r))
          /\ ~ (Len(r) < Total(LengthField(r), <<>>))
      BY <1>7, <2>1, <2>2
    <3>2. Turn(taken) = [frames |-> taken.frames \o Decoded(SubSeq(r, 1, Total(LengthField(r), <<>>)), LengthField(r), <<>>),
                         rest |-> Drop(r, Total(LengthField(r), <<>>))]
      BY <3>1 DEF Turn
    <3> QED
      BY <2>1, <2>2, <3>2
  <2>4. Turn(taken) = [frames |-> taken.frames \o BodiesOf(body), rest |-> Drop(r, a + m)]
    BY <1>7, <2>1, <2>3
  <2>5. After(c, taken, trailer) = Turn(taken)
    BY <1>8 DEF After
  <2> QED
    BY <1>5, <2>4, <2>5 DEF Takes
<1>9. CASE c = "AA15"
  <2>1. ResyncToHeader(r) = rest
    <3>1. a < Len(r) /\ r[a + 1] = Magic[1]
      <4>1. 1 \in 1 .. Len(bytes)
        BY <1>0, <1>1, <1>5
      <4> QED
        BY <1>0, <1>1, <1>2, <1>5, <4>1
    <3>2. r[a + 2] = Magic[2]
      <4>1. 2 \in 1 .. Len(bytes)
        BY <1>0, <1>1, <1>5
      <4> QED
        BY <1>0, <1>2, <4>1
    <3> HIDE DEF r
    <3> QED
      BY <1>1, <3>1, <3>2, Resyncs DEF rest
  <2> DEFINE dropped == taken.dropped + Len(r) - Len(rest)
  <2>2. FileTurn(taken, trailer)
          = [frames |-> taken.frames \o Decoded(SubSeq(rest, 1, total), len, trailer),
             rest |-> Drop(rest, total), dropped |-> dropped]
    BY <1>7, <2>1 DEF FileTurn
  <2> HIDE DEF dropped
  <2>3. FileTurn(taken, trailer)
          = [frames |-> taken.frames \o BodiesOf(body), rest |-> Drop(r, a + m), dropped |-> dropped]
    BY <1>7, <2>2
  <2>4. After(c, taken, trailer) = FileTurn(taken, trailer)
    BY <1>9 DEF After
  <2> QED
    BY <1>5, <2>3, <2>4 DEF Takes
<1> QED
  BY <1>8, <1>9 DEF AtWork

\* If less than a piece comes next, or nothing, the turn leaves it there.
LEMMA TakesNone ==
    ASSUME NEW c, NEW taken, NEW trailer, NEW a, AtWork(c, taken, trailer, a),
           ComesLess(taken, trailer, a)
    PROVE  Leaves(c, taken, trailer, a)
<1> DEFINE r == taken.rest
           rest == Drop(r, a)
           len == LengthField(rest)
           total == Total(len, trailer)
           m == Len(r) - a
<1>1. r \in Seq(Byte) /\ Len(r) \in Nat /\ a \in Nat /\ trailer \in Seq(Byte)
      /\ a <= Len(r) /\ \A x \in 1 .. a : r[x] # Magic[1]
  <2>1. r \in Seq(Byte)
    BY DEF AtWork, ControlTaken, FileTaken
  <2> QED
    BY <2>1 DEF AtWork
<1>2. rest \in Seq(Byte) /\ Len(rest) = m /\ \A x \in 1 .. m : rest[x] = r[a + x]
  <2> HIDE DEF r
  <2> QED
    BY <1>1, DropIs
<1>3. m \in Nat
  <2> HIDE DEF r
  <2> QED
    BY <1>1
<1> HIDE DEF rest
<1>4. /\ Len(rest) >= Overhead => LegalLength(len) /\ Len(rest) < total
      /\ m >= 1 => r[a + 1] = Magic[1]
      /\ m >= 2 => r[a + 2] = Magic[2]
  <2>1. CASE a = Len(r)
    BY <1>1, <1>2, <2>1 DEF Overhead
  <2>2. CASE a # Len(r)
    <3>1. PICK bytes \in Seq(Byte), body \in Seq(Byte) :
              /\ Enveloped(bytes, body, trailer)
              /\ m < Len(bytes)
              /\ \A x \in 1 .. m : r[a + x] = bytes[x]
      BY <2>2 DEF ComesLess
    <3> HIDE DEF r, m
    <3>2. Len(bytes) \in Nat /\ m <= Len(bytes) /\ m <= Len(rest) /\ \A x \in 1 .. m : rest[x] = bytes[x]
      BY <1>2, <1>3, <3>1
    <3>3. /\ m >= 1 => rest[1] = Magic[1]
          /\ m >= 2 => rest[2] = Magic[2]
          /\ m >= Overhead => LengthField(rest) = LengthField(bytes)
      BY <1>1, <1>2, <1>3, <3>1, <3>2, StartsAs
    <3>4. LegalLength(LengthField(bytes)) /\ Len(bytes) = Total(LengthField(bytes), trailer)
      BY <1>1, <3>1, EnvelopeIs
    <3>5. Len(rest) >= Overhead => LegalLength(len) /\ Len(rest) < total
      BY <1>2, <3>1, <3>3, <3>4
    <3>6. m >= 1 => r[a + 1] = rest[1]
      BY <1>2, <1>3
    <3>7. m >= 2 => r[a + 2] = rest[2]
      BY <1>2, <1>3
    <3>8. m >= 2 => m >= 1
      BY <1>3
    <3> QED
      BY <3>3, <3>5, <3>6, <3>7
  <2> QED
    BY <2>1, <2>2
<1>5. CASE c = "AA14"
  <2>1. a = 0 /\ trailer = <<>> /\ taken \in ControlTaken
    BY <1>5 DEF AtWork
  <2>2. rest = r
    <3>1. 0 + 1 = 1
      OBVIOUS
    <3> QED
      BY <1>1, <2>1, <3>1, SubSeqFull DEF rest, Drop
  <2>3. Len(r) >= Overhead => LegalLength(LengthField(r)) /\ Len(r) < Total(LengthField(r), <<>>)
    BY <1>4, <2>1, <2>2
  <2>4. Turn(taken) = taken
    <3> HIDE DEF rest
    <3>1. CASE Len(r) < Overhead
      BY <3>1 DEF Turn
    <3>2. CASE Len(r) >= Overhead
      BY <2>3, <3>2 DEF Turn
    <3> QED
      BY <1>1, <3>1, <3>2 DEF Overhead
  <2> QED
    BY <1>5, <2>2, <2>4 DEF After, Leaves, rest
<1>6. CASE c = "AA15"
  <2>1. ResyncToHeader(r) = rest
    <3>1. (a < Len(r) => r[a + 1] = Magic[1]) /\ (a + 1 < Len(r) => r[a + 2] = Magic[2])
      BY <1>1, <1>4
    <3> HIDE DEF r
    <3> QED
      BY <1>1, <3>1, Resyncs DEF rest
  <2> DEFINE dropped == taken.dropped + Len(r) - Len(rest)
  <2>2. FileTurn(taken, trailer) = [taken EXCEPT !.rest = rest, !.dropped = dropped]
    <3>1. ~ (Len(rest) >= Overhead /\ ~ LegalLength(len))
      BY <1>4
    <3>2. Len(rest) < Overhead \/ Len(rest) < total
      <4>1. Len(rest) \in Nat
        BY <1>2
      <4>2. Len(rest) < Overhead \/ Len(rest) >= Overhead
        BY <4>1 DEF Overhead
      <4> QED
        BY <1>4, <4>2
    <3> QED
      BY <2>1, <3>1, <3>2 DEF FileTurn
  <2> HIDE DEF dropped
  <2>3. taken \in FileTaken
    BY <1>6 DEF AtWork
  <2> QED
    BY <1>6, <2>2, <2>3 DEF After, FileTaken, Leaves, rest
<1> QED
  BY <1>5, <1>6 DEF AtWork

-----------------------------------------------------------------------------
(* The loop over a queue of pieces.                                        *)

\* A drain is fed the bytes from s + 1 to ends of the queue's stream.  It starts
\* at a piece, or in what is left of junk; k pieces end in it.
Fed(c, trailer, q, pos, bodies, s, ends, k) ==
    /\ trailer \in Seq(Byte)
    /\ (c = "AA14" /\ trailer = <<>>) \/ c = "AA15"
    /\ q \in Seq(Pieces) /\ Lays(q, pos, bodies)
    /\ \A i \in 1 .. Len(q) :
           \/ Enveloped(q[i].bytes, q[i].body, trailer)
           \/ c = "AA15" /\ Junk(q[i].bytes, q[i].body)
    /\ s \in Nat /\ ends \in Nat /\ s <= ends /\ ends <= Len(Stream(q))
    /\ \/ s = 0
       \/ Len(q) >= 1 /\ s < pos[1] /\ c = "AA15" /\ Junk(q[1].bytes, q[1].body)
    /\ k \in 0 .. Len(q) /\ pos[k] <= ends /\ (k < Len(q) => ends < pos[k + 1])

\* What is left of the next piece, if it is a frame, and nothing of junk.
Left(trailer, q, pos, ends, k) ==
    IF k < Len(q) /\ Enveloped(q[k + 1].bytes, q[k + 1].body, trailer)
    THEN SubSeq(Stream(q), pos[k] + 1, ends) ELSE <<>>

Takens(c) == IF c = "AA14" THEN ControlTaken ELSE FileTaken

\* Junk is no frame.
LEMMA JunkIsNone ==
    ASSUME NEW p \in Pieces, NEW trailer \in Seq(Byte), Junk(p.bytes, p.body)
    PROVE  ~ Enveloped(p.bytes, p.body, trailer) /\ BodyOn(p) = <<>>
<1>1. p.bytes \in Seq(Byte) /\ Len(p.bytes) \in Nat \ {0} /\ p.body \in Seq(Byte)
  BY PieceTyped
<1>2. p.bytes[1] # Magic[1]
  BY <1>1 DEF Junk
<1>3. ASSUME Enveloped(p.bytes, p.body, trailer) PROVE FALSE
  BY <1>1, <1>2, <1>3, EnvelopeIs
<1>4. BodyOn(p) = <<>>
  BY DEF Junk, BodyOn
<1> QED
  BY <1>3, <1>4

\* From piece j on, the next frame is piece e, if any: up to it there is only junk.
NextFrame(trailer, q, j, e) ==
    /\ e \in j + 1 .. Len(q) + 1
    /\ e <= Len(q) => Enveloped(q[e].bytes, q[e].body, trailer)
    /\ \A i \in j + 1 .. e - 1 : Junk(q[i].bytes, q[i].body)

LEMMA NextFrameIs ==
    ASSUME NEW c, NEW trailer, NEW q, NEW pos, NEW bodies, NEW s, NEW ends, NEW k,
           Fed(c, trailer, q, pos, bodies, s, ends, k), NEW j \in 0 .. Len(q)
    PROVE  \E e : NextFrame(trailer, q, j, e) /\ (c = "AA14" => e = j + 1)
<1> DEFINE n == Len(q)
           T == {e \in j + 1 .. n + 1 : e = n + 1 \/ Enveloped(q[e].bytes, q[e].body, trailer)}
<1>1. n \in Nat /\ j \in Nat /\ j <= n
  BY DEF Fed
<1>2. T \subseteq Nat /\ n + 1 \in T
  BY <1>1
<1>3. PICK e \in T : \A m \in T : e <= m
  <2> HIDE DEF T, n
  <2> QED
    BY <1>2, Least
<1>4. e \in j + 1 .. n + 1 /\ (e <= n => Enveloped(q[e].bytes, q[e].body, trailer))
  BY <1>1, <1>3
<1>5. \A i \in j + 1 .. e - 1 : i \in 1 .. n /\ i \notin T /\ i \in j + 1 .. n + 1
  BY <1>1, <1>3, <1>4
<1>6. \A i \in j + 1 .. e - 1 : ~ Enveloped(q[i].bytes, q[i].body, trailer) /\ i \in 1 .. n
  BY <1>5
<1>7. \A i \in j + 1 .. e - 1 : c = "AA15" /\ Junk(q[i].bytes, q[i].body)
  BY <1>6 DEF Fed
<1>8. ASSUME c = "AA14" PROVE e = j + 1
  <2>1. ~ (j + 1 \in j + 1 .. e - 1)
    BY <1>7, <1>8
  <2> QED
    BY <1>1, <1>4, <2>1
<1>9. NextFrame(trailer, q, j, e)
  BY <1>4, <1>7 DEF NextFrame
<1> QED
  BY <1>8, <1>9

\* Over junk no body is added.
LEMMA JunkAddsNone ==
    ASSUME NEW c, NEW trailer, NEW q, NEW pos, NEW bodies, NEW s, NEW ends, NEW k,
           Fed(c, trailer, q, pos, bodies, s, ends, k), NEW j \in 0 .. Len(q), NEW e,
           NextFrame(trailer, q, j, e)
    PROVE  \A m \in j .. e - 1 : bodies[m] = bodies[j]
<1> DEFINE n == Len(q)
           T == {m \in 0 .. e - 1 : m >= j => bodies[m] = bodies[j]}
<1>1. n \in Nat /\ j \in 0 .. n /\ e \in j + 1 .. n + 1 /\ e - 1 \in Nat
  BY DEF Fed, NextFrame
<1>2. 0 \in T
  BY <1>1
<1>3. ASSUME NEW m \in 1 .. e - 1, m - 1 \in T PROVE m \in T
  <2>1. SUFFICES ASSUME m >= j PROVE bodies[m] = bodies[j]
    BY <1>1
  <2>2. CASE m = j
    BY <2>2
  <2>3. CASE m # j
    <3>1. m \in 1 .. n /\ m - 1 \in 0 .. n /\ m \in j + 1 .. e - 1 /\ m - 1 >= j
      BY <1>1, <2>1, <2>3
    <3>2. bodies[m - 1] = bodies[j]
      BY <1>3, <3>1
    <3>3. q[m] \in Pieces /\ Junk(q[m].bytes, q[m].body)
      BY <3>1 DEF Fed, NextFrame
    <3>4. BodyOn(q[m]) = <<>>
      BY <3>3, JunkIsNone DEF Fed
    <3>5. bodies[m] = bodies[m - 1] \o BodyOn(q[m]) /\ bodies[m - 1] \in Bodied
      BY <3>1 DEF Fed, Lays
    <3>6. bodies[m - 1] \o <<>> = bodies[m - 1]
      <4> DEFINE B == Seq(Byte)
                 b == bodies[m - 1]
      <4>1. b \in Seq(B)
        BY <3>5 DEF Bodied
      <4> HIDE DEF B, b
      <4>2. b \o <<>> = b
        BY <4>1, ConcatEmptySeq
      <4> QED
        BY <4>2 DEF b
    <3> QED
      BY <3>2, <3>4, <3>5, <3>6
  <2> QED
    BY <2>2, <2>3
<1>4. \A m \in 0 .. e - 1 : m \in T
  <2> DEFINE w == e - 1
  <2>1. w \in Nat /\ 0 \in T /\ \A m \in 1 .. w : m - 1 \in T => m \in T
    BY <1>1, <1>2, <1>3
  <2> HIDE DEF T, w
  <2>2. \A m \in 0 .. w : m \in T
    BY <2>1, UpTo
  <2> QED
    BY <2>2 DEF w
<1> QED
  BY <1>1, <1>4

\* From byte a on, at piece j, the bytes up to the next frame are none of the magic's first.
LEMMA JunkAhead ==
    ASSUME NEW c, NEW trailer, NEW q, NEW pos, NEW bodies, NEW s, NEW ends, NEW k,
           Fed(c, trailer, q, pos, bodies, s, ends, k), NEW j \in 0 .. Len(q), NEW e,
           NextFrame(trailer, q, j, e), NEW a \in Nat, a = pos[j] \/ (j = 0 /\ a = s)
    PROVE  /\ a <= pos[e - 1] /\ pos[e - 1] \in Nat /\ pos[e - 1] <= Len(Stream(q))
           /\ \A x \in a + 1 .. pos[e - 1] : Stream(q)[x] # Magic[1]
<1> DEFINE n == Len(q)
           b == pos[e - 1]
<1>1. /\ n \in Nat /\ (\A i \in 0 .. n : pos[i] \in Nat) /\ pos[0] = 0
      /\ q \in Seq(Pieces) /\ Lays(q, pos, bodies) /\ trailer \in Seq(Byte)
  BY PiecesStart DEF Fed
<1>2. j \in 0 .. n /\ e \in j + 1 .. n + 1 /\ e - 1 \in 0 .. n /\ j <= e - 1
  BY <1>1 DEF NextFrame
<1>3. b \in Nat /\ pos[j] \in Nat /\ pos[j] <= b
  BY <1>1, <1>2, InOrder
<1>4. b <= Len(Stream(q))
  <2>1. e - 1 <= n /\ n \in 0 .. n
    BY <1>1, <1>2
  <2>2. pos[e - 1] <= pos[n]
    BY <1>1, <1>2, <2>1, InOrder
  <2>3. Len(Stream(q)) = pos[n]
    BY <1>1 DEF Lays
  <2> QED
    BY <2>2, <2>3
<1>5. a <= b
  <2>1. CASE a = pos[j] \/ s = 0
    BY <1>1, <1>3, <2>1
  <2>2. CASE j = 0 /\ a = s /\ s # 0
    <3>1. n >= 1 /\ s < pos[1] /\ Junk(q[1].bytes, q[1].body) /\ q[1] \in Pieces /\ s \in Nat
      BY <1>1, <2>2 DEF Fed
    <3>2. ~ Enveloped(q[1].bytes, q[1].body, trailer)
      BY <1>1, <3>1, JunkIsNone
    <3>3. e # 1
      BY <3>1, <3>2 DEF NextFrame
    <3>4. 1 \in 0 .. n /\ 1 <= e - 1
      BY <1>1, <1>2, <2>2, <3>1, <3>3
    <3>5. pos[1] <= b /\ pos[1] \in Nat
      BY <1>1, <1>2, <3>4, InOrder
    <3> QED
      BY <1>3, <2>2, <3>1, <3>5
  <2> QED
    BY <2>1, <2>2
<1>6. pos[j] <= a
  BY <1>1, <1>3 DEF Fed
<1>7. ASSUME NEW x \in a + 1 .. b PROVE Stream(q)[x] # Magic[1]
  <2>1. x \in 1 .. Len(Stream(q))
    BY <1>3, <1>4, <1>5 DEF Lays
  <2>2. PICK i \in 1 .. n : x - pos[i - 1] \in 1 .. Len(q[i].bytes)
                            /\ Stream(q)[x] = q[i].bytes[x - pos[i - 1]]
    BY <1>1, <2>1, PieceAt
  <2>3. i \in 0 .. n /\ i - 1 \in 0 .. n /\ pos[i] \in Nat /\ pos[i - 1] \in Nat
        /\ pos[i] = pos[i - 1] + Len(q[i].bytes) /\ Len(q[i].bytes) \in Nat
    <3>1. i \in 0 .. n /\ i - 1 \in 0 .. n
      BY <1>1
    <3>2. pos[i] = pos[i - 1] + Len(q[i].bytes) /\ Len(q[i].bytes) \in Nat
      BY <1>1, PiecesStart
    <3> QED
      BY <1>1, <3>1, <3>2
  <2>4. pos[i - 1] < x /\ x <= pos[i]
    <3> DEFINE len == Len(q[i].bytes)
               p == pos[i - 1]
    <3>1. p \in Nat /\ len \in Nat /\ pos[i] = p + len /\ x \in Nat /\ x - p \in 1 .. len
      BY <2>1, <2>2, <2>3
    <3> HIDE DEF len, p
    <3>2. p < x /\ x <= pos[i]
      BY <3>1
    <3> QED
      BY <3>2 DEF p
  <2>5. i > j
    <3>1. ASSUME i <= j PROVE FALSE
      <4>1. pos[i] <= pos[j]
        BY <1>1, <1>2, <2>3, <3>1, InOrder
      <4> QED
        BY <1>3, <1>6, <2>3, <2>4, <4>1
    <3> QED
      BY <1>2, <2>3, <3>1
  <2>6. i < e
    <3>1. ASSUME i >= e PROVE FALSE
      <4>1. e - 1 <= i - 1
        BY <1>2, <2>3, <3>1
      <4>2. b <= pos[i - 1]
        BY <1>1, <1>2, <2>3, <4>1, InOrder
      <4> QED
        BY <1>3, <2>3, <2>4, <4>2
    <3> QED
      BY <1>2, <2>3, <3>1
  <2>7. i \in j + 1 .. e - 1
    BY <1>2, <2>3, <2>5, <2>6
  <2>8. \A y \in DOMAIN q[i].bytes : q[i].bytes[y] # Magic[1]
    BY <2>7 DEF NextFrame, Junk
  <2>9. DOMAIN q[i].bytes = 1 .. Len(q[i].bytes)
    <3>1. q[i].bytes \in Seq(Byte)
      BY <1>1, PieceTyped
    <3> QED
      BY <3>1
  <2> QED
    BY <2>2, <2>8, <2>9
<1> QED
  BY <1>3, <1>4, <1>5, <1>7

\* A drain that stands at byte a, at piece j, takes the next frame, or comes to
\* what is left and to the bodies of the k pieces.
LEMMA OneTurn ==
    ASSUME NEW c, NEW trailer, NEW q, NEW pos, NEW bodies, NEW s, NEW ends, NEW k,
           Fed(c, trailer, q, pos, bodies, s, ends, k),
           NEW j \in 0 .. k, NEW a \in Nat, a <= ends, a = pos[j] \/ (j = 0 /\ a = s),
           NEW t \in Takens(c), t.frames = bodies[j], t.rest = SubSeq(Stream(q), a + 1, ends)
    PROVE  LET u == After(c, t, trailer)
           IN  \/ \E i \in 1 .. k : /\ pos[i] > a
                                    /\ u.frames = bodies[i]
                                    /\ u.rest = SubSeq(Stream(q), pos[i] + 1, ends)
               \/ u.frames = bodies[k] /\ u.rest = Left(trailer, q, pos, ends, k)
<1> DEFINE n == Len(q)
           T == Stream(q)
           u == After(c, t, trailer)
           r == SubSeq(T, a + 1, ends)
<1>1. /\ n \in Nat /\ (\A i \in 0 .. n : pos[i] \in Nat) /\ pos[0] = 0
      /\ q \in Seq(Pieces) /\ Lays(q, pos, bodies) /\ trailer \in Seq(Byte)
      /\ T \in Seq(Byte) /\ Len(T) = pos[n] /\ ends \in Nat /\ s \in Nat /\ ends <= Len(T)
      /\ k \in 0 .. n /\ pos[k] <= ends
  BY PiecesStart DEF Fed, Lays
<1>2. j \in 0 .. n
  BY <1>1
<1>3. PICK e : NextFrame(trailer, q, j, e) /\ (c = "AA14" => e = j + 1)
  BY <1>2, NextFrameIs
<1> DEFINE b == pos[e - 1]
<1>4. /\ e \in j + 1 .. n + 1 /\ e - 1 \in 0 .. n /\ e \in Nat
      /\ e <= n => Enveloped(q[e].bytes, q[e].body, trailer)
      /\ \A i \in j + 1 .. e - 1 : Junk(q[i].bytes, q[i].body)
  <2>1. e \in j + 1 .. n + 1 /\ j \in Nat /\ n \in Nat
    BY <1>1, <1>2, <1>3 DEF NextFrame
  <2>2. e - 1 \in 0 .. n /\ e \in Nat
    <3> HIDE DEF n
    <3> QED
      BY <2>1
  <2>3. \A i \in j + 1 .. e - 1 : Junk(q[i].bytes, q[i].body)
    BY <1>3 DEF NextFrame
  <2>4. e <= n => Enveloped(q[e].bytes, q[e].body, trailer)
    BY <1>3 DEF NextFrame
  <2> QED
    BY <2>1, <2>2, <2>3, <2>4
<1>5. a <= b /\ b \in Nat /\ b <= Len(T) /\ \A x \in a + 1 .. b : T[x] # Magic[1]
  BY <1>2, <1>3, JunkAhead
<1>6. \A m \in j .. e - 1 : bodies[m] = bodies[j]
  BY <1>2, <1>3, JunkAddsNone
<1>7. /\ r \in Seq(Byte) /\ Len(r) = ends - a /\ ends - a \in Nat
      /\ \A x \in 1 .. ends - a : r[x] = T[a + x]
  <2>1. T \in Seq(Byte) /\ ends \in Nat /\ ends <= Len(T)
    BY <1>1
  <2> HIDE DEF T
  <2>2. ends - a \in Nat
    BY <2>1
  <2> QED
    BY <2>1, <2>2, Cut
<1>8. c = "AA14" => a = b
  <2>1. SUFFICES ASSUME c = "AA14" PROVE a = b
    OBVIOUS
  <2>2. s = 0
    BY <2>1 DEF Fed
  <2>3. a = pos[j]
    BY <1>1, <2>2
  <2>4. e = j + 1 /\ j \in Int
    BY <1>2, <1>3, <2>1
  <2>5. e - 1 = j
    BY <2>4
  <2> QED
    BY <2>3, <2>5 DEF b
<1>9. \/ c = "AA14" /\ t \in ControlTaken /\ trailer = <<>>
      \/ c = "AA15" /\ t \in FileTaken
  <2>1. (c = "AA14" /\ trailer = <<>>) \/ c = "AA15"
    BY DEF Fed
  <2>2. t \in IF c = "AA14" THEN ControlTaken ELSE FileTaken
    BY DEF Takens
  <2>3. CASE c = "AA14"
    BY <2>1, <2>2, <2>3
  <2>4. CASE c # "AA14"
    BY <2>1, <2>2, <2>4
  <2> QED
    BY <2>3, <2>4
<1>10. t.rest = r
  OBVIOUS
<1> HIDE DEF T, u, r, b
<1>20. a \in Nat /\ b \in Nat /\ ends \in Nat /\ a <= b /\ a <= ends
  BY <1>1, <1>5
<1>21. k \in Nat /\ n \in Nat /\ k <= n /\ e \in Nat /\ e <= n + 1 /\ j \in Nat /\ j <= k /\ j + 1 <= e
  BY <1>1, <1>4
<1>11. \A d \in Nat : d <= ends - a => Drop(r, d) = SubSeq(T, (a + d) + 1, ends)
  <2> SUFFICES ASSUME NEW d \in Nat, d <= ends - a PROVE Drop(r, d) = SubSeq(T, (a + d) + 1, ends)
    OBVIOUS
  <2>1. T \in Seq(Byte) /\ ends <= Len(T)
    BY <1>1
  <2>2. Drop(SubSeq(T, a + 1, ends), d) = SubSeq(T, (a + d) + 1, ends)
    BY <1>20, <2>1, CutCut
  <2> QED
    BY <2>2 DEF r
<1>12. CASE e <= k
  <2>1. e \in 1 .. n /\ e \in 0 .. n /\ q[e] \in Pieces
    <3>1. e \in 1 .. n /\ e \in 0 .. n
      BY <1>12, <1>21
    <3> QED
      BY <1>1, <3>1
  <2>2. q[e].bytes \in Seq(Byte) /\ Len(q[e].bytes) \in Nat \ {0} /\ q[e].body \in Seq(Byte)
    BY <2>1, PieceTyped
  <2>3. pos[e] = b + Len(q[e].bytes) /\ pos[e] <= ends
    <3>1. pos[e] <= pos[k] /\ pos[e] \in Nat /\ pos[k] \in Nat
      BY <1>1, <1>12, <2>1, InOrder
    <3>2. pos[e] = b + Len(q[e].bytes)
      BY <1>1, <2>1, PiecesStart DEF b
    <3>4. pos[k] <= ends
      BY <1>1
    <3>3. pos[e] <= ends
      BY <1>20, <3>1, <3>4
    <3> QED
      BY <3>2, <3>3
  <2> DEFINE d == b - a
             bytes == q[e].bytes
             len == Len(bytes)
  <2>4. /\ d \in Nat /\ d <= ends - a /\ d + len <= ends - a /\ d + len \in Nat
        /\ a + (d + len) = pos[e] /\ a + d = b /\ pos[e] > a
    <3>1. len \in Nat \ {0} /\ pos[e] = b + len
      BY <2>2, <2>3
    <3>2. pos[e] <= ends
      BY <2>3
    <3> HIDE DEF len
    <3> QED
      BY <1>20, <3>1, <3>2
  <2>5. \A x \in 1 .. len : r[d + x] = bytes[x]
    <3> SUFFICES ASSUME NEW x \in 1 .. len PROVE r[d + x] = bytes[x]
      OBVIOUS
    <3>1. T[b + x] = bytes[x]
      BY <1>1, <2>1 DEF Lays, T, b
    <3>2. len \in Nat /\ x \in Nat /\ x >= 1 /\ x <= len
      BY <2>2
    <3>4. d \in Nat /\ d + len <= ends - a /\ a + d = b
      BY <2>4
    <3> HIDE DEF d, len
    <3>3. d + x \in 1 .. ends - a /\ a + (d + x) = b + x
      BY <1>20, <3>2, <3>4
    <3> QED
      BY <1>7, <3>1, <3>3
  <2>6. AtWork(c, t, trailer, d)
    <3>1. \A x \in 1 .. d : r[x] # Magic[1]
      <4> SUFFICES ASSUME NEW x \in 1 .. d PROVE r[x] # Magic[1]
        OBVIOUS
      <4>2. d \in Nat /\ d <= ends - a /\ a + d = b
        BY <2>4
      <4> HIDE DEF d
      <4>1. x \in 1 .. ends - a /\ a + x \in a + 1 .. b
        BY <1>20, <4>2
      <4> QED
        BY <1>5, <1>7, <4>1
    <3>2. c = "AA14" => d = 0
      BY <1>8, <1>20
    <3>3. d \in Nat /\ d <= ends - a
      BY <2>4
    <3> HIDE DEF d
    <3> QED
      BY <1>1, <1>7, <1>9, <1>10, <3>1, <3>2, <3>3 DEF AtWork
  <2>7. Enveloped(bytes, q[e].body, trailer)
    BY <1>4, <2>1
  <2> HIDE DEF d, bytes
  <2>8. bytes \in Seq(Byte) /\ len = Len(bytes)
    BY <2>2 DEF bytes
  <2>9. /\ u.frames = t.frames \o BodiesOf(q[e].body)
        /\ u.rest = Drop(r, d + Len(bytes))
    <3>1. d + Len(bytes) <= Len(t.rest)
      BY <1>7, <1>10, <2>4, <2>8
    <3>2. \A x \in 1 .. Len(bytes) : t.rest[d + x] = bytes[x]
      BY <1>10, <2>5, <2>8
    <3>3. /\ After(c, t, trailer).frames = t.frames \o BodiesOf(q[e].body)
          /\ After(c, t, trailer).rest = Drop(t.rest, d + Len(bytes))
      <4> DEFINE body == q[e].body
      <4>1. Comes(t, trailer, d, bytes, body)
        BY <2>2, <2>7, <2>8, <3>1, <3>2 DEF Comes
      <4> HIDE DEF body
      <4>2. Takes(c, t, trailer, d, bytes, body)
        BY <2>6, <4>1, TakesPiece
      <4> QED
        BY <4>2 DEF body, Takes
    <3> QED
      BY <1>10, <3>3 DEF u
  <2>10. u.rest = SubSeq(T, pos[e] + 1, ends)
    BY <1>11, <2>4, <2>8, <2>9
  <2>11. u.frames = bodies[e]
    <3>1. bodies[e] = bodies[e - 1] \o BodyOn(q[e])
      BY <1>1, <2>1 DEF Lays
    <3>2. bodies[e - 1] = bodies[j]
      BY <1>2, <1>4, <1>6
    <3>3. BodyOn(q[e]) = BodiesOf(q[e].body)
      BY DEF BodyOn, BodiesOf
    <3> QED
      BY <2>9, <3>1, <3>2, <3>3
  <2>12. e \in 1 .. k
    BY <1>1, <1>12, <2>1
  <2> QED
    BY <2>4, <2>10, <2>11, <2>12 DEF T, u
<1>13. CASE e > k
  <2>1. bodies[k] = bodies[j]
    <3>1. k \in j .. e - 1
      BY <1>13, <1>21
    <3> QED
      BY <1>6, <3>1
  <2>2. CASE e = k + 1 /\ e <= n
    <3> DEFINE d == b - a
               bytes == q[e].bytes
    <3>1. e \in 1 .. n /\ q[e] \in Pieces /\ e - 1 = k /\ b = pos[k] /\ k < n
      BY <1>1, <1>4, <2>2 DEF b
    <3>2. bytes \in Seq(Byte) /\ Len(bytes) \in Nat \ {0} /\ q[e].body \in Seq(Byte)
          /\ Enveloped(bytes, q[e].body, trailer)
      BY <1>4, <2>2, <3>1, PieceTyped
    <3>3. ends - b < Len(bytes)
      <4>1. pos[k + 1] = pos[(k + 1) - 1] + Len(q[k + 1].bytes) /\ (k + 1) - 1 = k
        BY <1>1, <2>2, <3>1, PiecesStart
      <4>2. ends < pos[k + 1]
        BY <3>1 DEF Fed
      <4> DEFINE len == Len(bytes)
      <4>3. ends < b + len /\ len \in Nat
        BY <2>2, <3>1, <3>2, <4>1, <4>2
      <4> HIDE DEF len
      <4>4. ends - b < len
        BY <1>1, <1>5, <4>3
      <4> QED
        BY <4>4 DEF len
    <3>4. d \in Nat /\ d <= ends - a /\ (ends - a) - d = ends - b /\ a + d = b
      <4> HIDE DEF bytes
      <4>1. b <= ends
        BY <1>1, <3>1
      <4> QED
        BY <1>20, <4>1
    <3>5. \A x \in 1 .. ends - b : r[d + x] = bytes[x]
      <4> SUFFICES ASSUME NEW x \in 1 .. ends - b PROVE r[d + x] = bytes[x]
        OBVIOUS
      <4>1. x \in 1 .. Len(bytes)
        <5> DEFINE len == Len(bytes)
        <5>1. len \in Nat /\ ends - b < len
          BY <3>2, <3>3
        <5> HIDE DEF len
        <5>2. x \in 1 .. len
          BY <1>20, <5>1
        <5> QED
          BY <5>2 DEF len
      <4>2. T[b + x] = bytes[x]
        BY <1>1, <3>1, <4>1 DEF Lays, T, b
      <4>4. d \in Nat /\ d <= ends - a /\ (ends - a) - d = ends - b /\ a + d = b
        BY <3>4
      <4> HIDE DEF d
      <4>3. d + x \in 1 .. ends - a /\ a + (d + x) = b + x
        BY <1>20, <4>4
      <4> QED
        BY <1>7, <4>2, <4>3
    <3>6. AtWork(c, t, trailer, d)
      <4>1. \A x \in 1 .. d : r[x] # Magic[1]
        <5> SUFFICES ASSUME NEW x \in 1 .. d PROVE r[x] # Magic[1]
          OBVIOUS
        <5>2. d \in Nat /\ d <= ends - a /\ a + d = b
          BY <3>4
        <5> HIDE DEF d
        <5>1. x \in 1 .. ends - a /\ a + x \in a + 1 .. b
          BY <1>20, <5>2
        <5> QED
          BY <1>5, <1>7, <5>1
      <4>2. c = "AA14" => d = 0
        BY <1>8, <1>20
      <4>3. d \in Nat /\ d <= ends - a
        BY <3>4
      <4> HIDE DEF d
      <4> QED
        BY <1>1, <1>7, <1>9, <1>10, <4>1, <4>2, <4>3 DEF AtWork
    <3> HIDE DEF d, bytes
    <3>7. ComesLess(t, trailer, d)
      <4>1. Len(t.rest) - d = ends - b
        BY <1>7, <1>10, <3>4
      <4> QED
        BY <1>10, <3>2, <3>3, <3>5, <4>1 DEF ComesLess
    <3>8. u.frames = t.frames /\ u.rest = Drop(r, d)
      <4>1. After(c, t, trailer).frames = t.frames /\ After(c, t, trailer).rest = Drop(t.rest, d)
        <5>1. Leaves(c, t, trailer, d)
          BY <3>6, <3>7, TakesNone
        <5> QED
          BY <5>1 DEF Leaves
      <4> QED
        BY <1>10, <4>1 DEF u
    <3>9. u.rest = SubSeq(T, pos[k] + 1, ends)
      BY <1>11, <3>1, <3>4, <3>8
    <3>10. Left(trailer, q, pos, ends, k) = SubSeq(T, pos[k] + 1, ends)
      BY <1>4, <2>2, <3>1 DEF Left, T
    <3> QED
      BY <2>1, <3>8, <3>9, <3>10 DEF u
  <2>3. CASE ~ (e = k + 1 /\ e <= n)
    <3>1. ends <= b
      <4>1. CASE e = n + 1 /\ e = k + 1
        <5>1. e - 1 = n
          BY <1>1, <4>1
        <5> QED
          BY <1>1, <5>1 DEF b
      <4>2. CASE ~ (e = n + 1 /\ e = k + 1)
        <5>1. k < n /\ k + 1 \in 0 .. n /\ k + 1 <= e - 1
          BY <1>13, <1>21, <2>3, <4>2
        <5>2. pos[k + 1] <= b
          BY <1>1, <1>4, <5>1, InOrder DEF b
        <5>3. ends < pos[k + 1] /\ pos[k + 1] \in Nat
          BY <1>1, <5>1 DEF Fed
        <5> QED
          BY <1>1, <1>5, <5>2, <5>3
      <4> QED
        BY <4>1, <4>2
    <3> DEFINE d == ends - a
    <3>2. d \in Nat /\ d <= ends - a /\ d = Len(t.rest)
      BY <1>7, <1>10, <1>20
    <3>3. AtWork(c, t, trailer, d)
      <4>1. \A x \in 1 .. d : r[x] # Magic[1]
        <5> SUFFICES ASSUME NEW x \in 1 .. d PROVE r[x] # Magic[1]
          OBVIOUS
        <5>1. x \in 1 .. ends - a /\ a + x \in a + 1 .. b
          BY <1>20, <3>1
        <5> QED
          BY <1>5, <1>7, <5>1
      <4>2. c = "AA14" => d = 0
        BY <1>8, <1>20, <3>1
      <4> HIDE DEF d
      <4> QED
        BY <1>1, <1>7, <1>9, <1>10, <3>2, <4>1, <4>2 DEF AtWork
    <3> HIDE DEF d
    <3>4. u.frames = t.frames /\ u.rest = Drop(r, d)
      <4>1. After(c, t, trailer).frames = t.frames /\ After(c, t, trailer).rest = Drop(t.rest, d)
        <5>1. ComesLess(t, trailer, d)
          BY <3>2 DEF ComesLess
        <5>2. Leaves(c, t, trailer, d)
          BY <3>3, <5>1, TakesNone
        <5> QED
          BY <5>2 DEF Leaves
      <4> QED
        BY <1>10, <4>1 DEF u
    <3>5. Drop(r, d) = <<>>
      <4>1. Drop(r, d) \in Seq(Byte) /\ Len(Drop(r, d)) = 0
        <5>1. d <= Len(r) /\ Len(r) - d = 0
          BY <1>7, <3>2 DEF d
        <5> QED
          BY <1>7, <3>2, <5>1, DropIs
      <4> QED
        BY <4>1, EmptySeq
    <3>6. Left(trailer, q, pos, ends, k) = <<>>
      <4>1. ASSUME k < n PROVE ~ Enveloped(q[k + 1].bytes, q[k + 1].body, trailer)
        <5>1. k + 1 \in j + 1 .. e - 1 /\ k + 1 \in 1 .. n
          BY <1>1, <1>4, <1>13, <2>3, <4>1
        <5>2. q[k + 1] \in Pieces /\ Junk(q[k + 1].bytes, q[k + 1].body)
          BY <1>1, <1>4, <5>1
        <5> QED
          BY <1>1, <5>2, JunkIsNone
      <4> QED
        BY <4>1 DEF Left
    <3> QED
      BY <2>1, <3>4, <3>5, <3>6 DEF u
  <2> QED
    BY <2>2, <2>3
<1>14. e <= k \/ e > k
  BY <1>1, <1>4
<1> QED
  BY <1>12, <1>13, <1>14

\* A drain that has come to what is left stays there.
LEMMA StaysThere ==
    ASSUME NEW c, NEW trailer, NEW q, NEW pos, NEW bodies, NEW s, NEW ends, NEW k,
           Fed(c, trailer, q, pos, bodies, s, ends, k),
           NEW t \in Takens(c), t.rest = Left(trailer, q, pos, ends, k)
    PROVE  /\ After(c, t, trailer).frames = t.frames
           /\ After(c, t, trailer).rest = t.rest
<1> DEFINE n == Len(q)
           T == Stream(q)
<1>1. /\ n \in Nat /\ (\A i \in 0 .. n : pos[i] \in Nat) /\ trailer \in Seq(Byte)
      /\ q \in Seq(Pieces) /\ Lays(q, pos, bodies)
      /\ T \in Seq(Byte) /\ ends \in Nat /\ ends <= Len(T)
      /\ k \in 0 .. n /\ pos[k] <= ends
  BY PiecesStart DEF Fed, Lays
<1>2. t.rest \in Seq(Byte) /\ Len(t.rest) \in Nat
  BY DEF Takens, ControlTaken, FileTaken
<1>3. AtWork(c, t, trailer, 0)
  <2>2. \/ c = "AA14" /\ t \in ControlTaken /\ trailer = <<>>
        \/ c = "AA15" /\ t \in FileTaken
    <3>1. (c = "AA14" /\ trailer = <<>>) \/ c = "AA15"
      BY DEF Fed
    <3>2. t \in IF c = "AA14" THEN ControlTaken ELSE FileTaken
      BY DEF Takens
    <3>3. CASE c = "AA14"
      BY <3>1, <3>2, <3>3
    <3>4. CASE c # "AA14"
      BY <3>1, <3>2, <3>4
    <3> QED
      BY <3>3, <3>4
  <2>3. \A x \in 1 .. 0 : t.rest[x] # Magic[1]
    OBVIOUS
  <2> QED
    BY <1>1, <1>2, <2>2, <2>3 DEF AtWork
<1>4. ComesLess(t, trailer, 0)
  <2>1. CASE ~ (k < n /\ Enveloped(q[k + 1].bytes, q[k + 1].body, trailer))
    BY <2>1 DEF Left, ComesLess
  <2>2. CASE k < n /\ Enveloped(q[k + 1].bytes, q[k + 1].body, trailer)
    <3> DEFINE bytes == q[k + 1].bytes
               a == pos[k]
    <3>1. k + 1 \in 1 .. n /\ q[k + 1] \in Pieces /\ (k + 1) - 1 = k /\ k \in 0 .. n
      BY <1>1, <2>2
    <3>2. bytes \in Seq(Byte) /\ Len(bytes) \in Nat \ {0} /\ q[k + 1].body \in Seq(Byte)
      BY <3>1, PieceTyped
    <3>3. pos[k + 1] = a + Len(bytes) /\ a \in Nat
      BY <1>1, <3>1, PiecesStart
    <3>4. ends < a + Len(bytes)
      BY <2>2, <3>3 DEF Fed
    <3>5. \A x \in 1 .. Len(bytes) : T[a + x] = bytes[x]
      <4>1. \A x \in 1 .. Len(q[k + 1].bytes) : Stream(q)[pos[(k + 1) - 1] + x] = q[k + 1].bytes[x]
        BY <1>1, <3>1 DEF Lays
      <4> QED
        BY <3>1, <4>1
    <3>6. t.rest = SubSeq(T, a + 1, ends)
      BY <2>2 DEF Left
    <3> HIDE DEF bytes, a, T
    <3>7. a <= ends /\ Len(t.rest) = ends - a /\ \A x \in 1 .. ends - a : t.rest[x] = T[a + x]
      <4>1. a <= ends
        BY <1>1 DEF a
      <4> QED
        BY <1>1, <3>3, <3>6, <4>1, Cut
    <3>8. ends - a < Len(bytes) /\ \A x \in 1 .. ends - a : x \in 1 .. Len(bytes)
      BY <1>1, <3>2, <3>3, <3>4, <3>7
    <3>9. Len(t.rest) - 0 = ends - a /\ \A x \in 1 .. ends - a : 0 + x = x
      BY <1>1, <3>3, <3>7
    <3>10. /\ Len(t.rest) - 0 < Len(bytes)
           /\ \A x \in 1 .. Len(t.rest) - 0 : t.rest[0 + x] = bytes[x]
      BY <3>5, <3>7, <3>8, <3>9
    <3> QED
      BY <2>2, <3>2, <3>10 DEF bytes, ComesLess
  <2> QED
    BY <2>1, <2>2
<1>5. After(c, t, trailer).frames = t.frames /\ After(c, t, trailer).rest = Drop(t.rest, 0)
  <2>1. Leaves(c, t, trailer, 0)
    BY <1>3, <1>4, TakesNone
  <2> QED
    BY <2>1 DEF Leaves
<1>6. Drop(t.rest, 0) = t.rest
  <2>1. 0 + 1 = 1
    OBVIOUS
  <2> QED
    BY <1>2, <2>1, SubSeqFull DEF Drop
<1> QED
  BY <1>5, <1>6

\* f is a run of the loop over the bytes from s + 1 to ends, a turn for each.
Drains(f, c, trailer, q, s, ends) ==
    /\ f \in [0 .. ends - s -> Takens(c)]
    /\ f[0].frames = <<>> /\ f[0].rest = SubSeq(Stream(q), s + 1, ends)
    /\ \A i \in 1 .. ends - s : f[i] = After(c, f[i - 1], trailer)

\* A run of the loop that has as many turns as bytes ends with the bodies of the
\* k pieces and with what is left.
LEMMA Drained ==
    ASSUME NEW c, NEW trailer, NEW q, NEW pos, NEW bodies, NEW s, NEW ends, NEW k,
           Fed(c, trailer, q, pos, bodies, s, ends, k), s < ends,
           NEW f, Drains(f, c, trailer, q, s, ends)
    PROVE  /\ f[ends - s].frames = bodies[k]
           /\ f[ends - s].rest = Left(trailer, q, pos, ends, k)
<1> DEFINE n == Len(q)
           N == ends - s
           Done(t) == t.frames = bodies[k] /\ t.rest = Left(trailer, q, pos, ends, k)
           Stands(t, j, a) == /\ a = pos[j] \/ (j = 0 /\ a = s)
                              /\ t.frames = bodies[j] /\ t.rest = SubSeq(Stream(q), a + 1, ends)
           T == {i \in 0 .. N : Done(f[i]) \/ \E j \in 0 .. k : \E a \in s + i .. ends : Stands(f[i], j, a)}
<1>1. /\ n \in Nat /\ (\A i \in 0 .. n : pos[i] \in Nat) /\ pos[0] = 0 /\ bodies[0] = <<>>
      /\ q \in Seq(Pieces) /\ Lays(q, pos, bodies)
      /\ ends \in Nat /\ s \in Nat /\ k \in 0 .. n /\ pos[k] <= ends
  BY PiecesStart DEF Fed, Lays
<1>2. N \in Nat /\ k \in Nat /\ 0 \in 0 .. k
  BY <1>1
<1>0. /\ f \in [0 .. N -> Takens(c)]
      /\ f[0].frames = <<>> /\ f[0].rest = SubSeq(Stream(q), s + 1, ends)
      /\ \A i \in 1 .. N : f[i] = After(c, f[i - 1], trailer)
  BY DEF Drains
<1>3. 0 \in T
  <2>1. s \in s + 0 .. ends
    BY <1>1
  <2>2. Stands(f[0], 0, s)
    BY <1>0, <1>1
  <2> HIDE DEF Stands, Done
  <2>3. 0 \in 0 .. N
    BY <1>2
  <2> HIDE DEF N
  <2> QED
    BY <1>2, <2>1, <2>2, <2>3
<1>4. ASSUME NEW i \in 1 .. N, i - 1 \in T PROVE i \in T
  <2>1. i - 1 \in 0 .. N /\ i \in 0 .. N /\ i \in Nat
    BY <1>2
  <2> DEFINE t == f[i - 1]
  <2>2. f[i] = After(c, t, trailer)
    BY <1>0
  <2>3. t \in Takens(c)
    <3> HIDE DEF N
    <3> QED
      BY <1>0, <2>1
  <2>4. Done(t) \/ \E j \in 0 .. k : \E a \in s + (i - 1) .. ends : Stands(t, j, a)
    BY <1>4
  <2> HIDE DEF t, N
  <2>5. CASE Done(t)
    <3>1. After(c, t, trailer).frames = t.frames /\ After(c, t, trailer).rest = t.rest
      BY <2>3, <2>5, StaysThere
    <3>2. Done(f[i])
      BY <2>2, <2>5, <3>1
    <3> HIDE DEF Done, Stands
    <3> QED
      BY <2>1, <3>2
  <2>6. ASSUME NEW j \in 0 .. k, NEW a \in s + (i - 1) .. ends, Stands(t, j, a) PROVE i \in T
    <3>1. a \in Nat /\ a <= ends /\ s + (i - 1) <= a
      BY <1>1, <2>1
    <3>2. (a = pos[j] \/ (j = 0 /\ a = s)) /\ t.frames = bodies[j] /\ t.rest = SubSeq(Stream(q), a + 1, ends)
      BY <2>6
    <3>3. \/ \E m \in 1 .. k : /\ pos[m] > a
                               /\ f[i].frames = bodies[m]
                               /\ f[i].rest = SubSeq(Stream(q), pos[m] + 1, ends)
          \/ Done(f[i])
      BY <2>2, <2>3, <3>1, <3>2, OneTurn
    <3>4. ASSUME NEW m \in 1 .. k, pos[m] > a, f[i].frames = bodies[m],
                 f[i].rest = SubSeq(Stream(q), pos[m] + 1, ends)
          PROVE  i \in T
      <4>1. m \in 0 .. n /\ m \in 0 .. k /\ m <= k /\ k \in 0 .. n
        BY <1>1
      <4>2. pos[m] \in Nat /\ pos[k] \in Nat /\ pos[m] <= pos[k]
        BY <1>1, <4>1, InOrder
      <4>3. pos[m] \in s + i .. ends
        <5>1. pos[m] <= ends /\ pos[m] > a
          BY <1>1, <3>4, <4>2
        <5>2. s \in Nat /\ ends \in Nat
          BY <1>1
        <5> QED
          BY <2>1, <3>1, <4>2, <5>1, <5>2
      <4>4. Stands(f[i], m, pos[m])
        BY <3>4
      <4> HIDE DEF Stands, Done
      <4> QED
        BY <2>1, <4>1, <4>3, <4>4
    <3>5. Done(f[i]) => i \in T
      <4> HIDE DEF Stands, Done
      <4> QED
        BY <2>1
    <3> HIDE DEF T, Done, Stands
    <3> QED
      BY <3>3, <3>4, <3>5
  <2> HIDE DEF T, Done, Stands
  <2> QED
    BY <2>4, <2>5, <2>6
<1>5. \A i \in 0 .. N : i \in T
  <2> HIDE DEF T, N
  <2> QED
    BY <1>2, <1>3, <1>4, UpTo
<1>6. N \in 0 .. N /\ s + N = ends
  BY <1>1
<1>7. Done(f[N]) \/ \E j \in 0 .. k : \E a \in ends .. ends : Stands(f[N], j, a)
  <2> HIDE DEF N, Done, Stands
  <2>1. N \in T
    BY <1>5, <1>6
  <2> QED
    BY <1>6, <2>1
<1>8. ASSUME NEW j \in 0 .. k, NEW a \in ends .. ends, Stands(f[N], j, a) PROVE Done(f[N])
  <2>1. a = ends /\ a = pos[j] /\ f[N].frames = bodies[j] /\ f[N].rest = SubSeq(Stream(q), ends + 1, ends)
    <3>1. a = ends
      BY <1>1
    <3>2. a # s
      BY <1>1, <3>1
    <3> HIDE DEF N
    <3> QED
      BY <1>8, <3>1, <3>2
  <2>2. j = k
    <3>1. ASSUME j < k PROVE FALSE
      <4>1. j \in 0 .. n /\ k \in 0 .. n /\ j <= k
        BY <1>1, <3>1
      <4>2. pos[j] < pos[k] /\ pos[j] \in Nat /\ pos[k] \in Nat
        BY <1>1, <3>1, <4>1, InOrder
      <4> QED
        BY <1>1, <2>1, <4>2
    <3> QED
      BY <1>2, <3>1
  <2>3. SubSeq(Stream(q), ends + 1, ends) = <<>>
    BY <1>1, SubSeqEmpty
  <2>4. Left(trailer, q, pos, ends, k) = <<>>
    BY <2>1, <2>2, <2>3 DEF Left
  <2> HIDE DEF N
  <2> QED
    BY <2>1, <2>2, <2>3, <2>4
<1> HIDE DEF Stands
<1> QED
  BY <1>7, <1>8

-----------------------------------------------------------------------------
(* The two drains are runs of that loop.                                   *)

LEMMA DrainRuns ==
    ASSUME NEW x \in Seq(Byte)
    PROVE  LET f == DrainTurns(x)
           IN  /\ f \in [0 .. Len(x) -> ControlTaken]
               /\ f[0] = [frames |-> <<>>, rest |-> x]
               /\ \A i \in 1 .. Len(x) : f[i] = Turn(f[i - 1])
<1> DEFINE n == Len(x)
           S == ControlTaken
           base == [frames |-> <<>>, rest |-> x]
           step == [i \in 1 .. n |-> [t \in S |-> Turn(t)]]
           IsRun(g) == g = [i \in 0 .. n |-> IF i = 0 THEN base ELSE Turn(g[i - 1])]
           f == DrainTurns(x)
<1>1. n \in Nat /\ base \in S
  BY EmptySeq DEF ControlTaken, Bodied
<1>2. \A i \in 1 .. n : \A t \in S : step[i][t] = Turn(t) /\ step[i][t] \in S
  BY DrainTurnTyped
<1>3. PICK g : g \in [0 .. n -> S] /\ g[0] = base /\ \A i \in 1 .. n : g[i] = step[i][g[i - 1]]
  <2> HIDE DEF n, step, S, base
  <2>1. \A i \in 1 .. n : \A t \in S : step[i][t] \in S
    BY <1>2
  <2>2. \E g : RunsThrough(g, n, S, base, step)
    BY <1>1, <2>1, Turns
  <2> QED
    BY <2>2 DEF RunsThrough
<1>4. \A i \in 1 .. n : g[i] = Turn(g[i - 1])
  <2> SUFFICES ASSUME NEW i \in 1 .. n PROVE g[i] = Turn(g[i - 1])
    OBVIOUS
  <2>1. g[i - 1] \in S
    <3>1. i - 1 \in 0 .. n
      BY <1>1
    <3> HIDE DEF n, S
    <3> QED
      BY <1>3, <3>1
  <2> HIDE DEF step, S
  <2> QED
    BY <1>2, <1>3, <2>1
<1>5. IsRun(g)
  <2>1. \A i \in 0 .. n : i # 0 => i \in 1 .. n
    BY <1>1
  <2> HIDE DEF n, step, S, base
  <2>2. \A i \in 0 .. n : g[i] = IF i = 0 THEN base ELSE Turn(g[i - 1])
    BY <1>3, <1>4, <2>1
  <2> QED
    BY <1>3, <2>2
<1>6. f = CHOOSE h : IsRun(h)
  BY DEF DrainTurns
<1>7. IsRun(f)
  <2> HIDE DEF IsRun, f
  <2> QED
    BY <1>5, <1>6
<1> HIDE DEF f, S, base
<1>8. f[0] = base /\ \A i \in 1 .. n : f[i] = Turn(f[i - 1])
  <2>1. 0 \in 0 .. n /\ \A i \in 1 .. n : i \in 0 .. n /\ i # 0
    BY <1>1
  <2> HIDE DEF n
  <2>2. \A i \in 0 .. n : f[i] = IF i = 0 THEN base ELSE Turn(f[i - 1])
    BY <1>7
  <2> QED
    BY <2>1, <2>2
<1>9. \A i \in 0 .. n : f[i] \in S
  <2> DEFINE T == {i \in 0 .. n : f[i] \in S}
  <2>1. 0 \in T
    BY <1>1, <1>8
  <2>2. \A i \in 1 .. n : i - 1 \in T => i \in T
    BY <1>1, <1>8, DrainTurnTyped DEF S
  <2>3. \A i \in 0 .. n : i \in T
    <3> HIDE DEF T, n
    <3> QED
      BY <1>1, <2>1, <2>2, UpTo
  <2> QED
    BY <2>3
<1>10. f \in [0 .. n -> S]
  BY <1>7, <1>9
<1> QED
  BY <1>8, <1>10 DEF f, S, base

LEMMA FileDrainRuns ==
    ASSUME NEW x \in Seq(Byte), NEW trailer \in Seq(Byte)
    PROVE  LET f == FileDrainTurns(x, trailer)
           IN  /\ f \in [0 .. Len(x) -> FileTaken]
               /\ f[0] = [frames |-> <<>>, rest |-> x, dropped |-> 0]
               /\ \A i \in 1 .. Len(x) : f[i] = FileTurn(f[i - 1], trailer)
<1> DEFINE n == Len(x)
           S == FileTaken
           base == [frames |-> <<>>, rest |-> x, dropped |-> 0]
           step == [i \in 1 .. n |-> [t \in S |-> FileTurn(t, trailer)]]
           IsRun(g) == g = [i \in 0 .. n |-> IF i = 0 THEN base ELSE FileTurn(g[i - 1], trailer)]
           f == FileDrainTurns(x, trailer)
<1>1. n \in Nat /\ base \in S
  BY EmptySeq DEF FileTaken, Bodied
<1>2. \A i \in 1 .. n : \A t \in S : step[i][t] = FileTurn(t, trailer) /\ step[i][t] \in S
  BY FileTurnTyped
<1>3. PICK g : g \in [0 .. n -> S] /\ g[0] = base /\ \A i \in 1 .. n : g[i] = step[i][g[i - 1]]
  <2> HIDE DEF n, step, S, base
  <2>1. \A i \in 1 .. n : \A t \in S : step[i][t] \in S
    BY <1>2
  <2>2. \E g : RunsThrough(g, n, S, base, step)
    BY <1>1, <2>1, Turns
  <2> QED
    BY <2>2 DEF RunsThrough
<1>4. \A i \in 1 .. n : g[i] = FileTurn(g[i - 1], trailer)
  <2> SUFFICES ASSUME NEW i \in 1 .. n PROVE g[i] = FileTurn(g[i - 1], trailer)
    OBVIOUS
  <2>1. g[i - 1] \in S
    <3>1. i - 1 \in 0 .. n
      BY <1>1
    <3> HIDE DEF n, S
    <3> QED
      BY <1>3, <3>1
  <2> HIDE DEF step, S
  <2> QED
    BY <1>2, <1>3, <2>1
<1>5. IsRun(g)
  <2>1. \A i \in 0 .. n : i # 0 => i \in 1 .. n
    BY <1>1
  <2> HIDE DEF n, step, S, base
  <2>2. \A i \in 0 .. n : g[i] = IF i = 0 THEN base ELSE FileTurn(g[i - 1], trailer)
    BY <1>3, <1>4, <2>1
  <2> QED
    BY <1>3, <2>2
<1>6. f = CHOOSE h : IsRun(h)
  BY DEF FileDrainTurns
<1>7. IsRun(f)
  <2> HIDE DEF IsRun, f
  <2> QED
    BY <1>5, <1>6
<1> HIDE DEF f, S, base
<1>8. f[0] = base /\ \A i \in 1 .. n : f[i] = FileTurn(f[i - 1], trailer)
  <2>1. 0 \in 0 .. n /\ \A i \in 1 .. n : i \in 0 .. n /\ i # 0
    BY <1>1
  <2> HIDE DEF n
  <2>2. \A i \in 0 .. n : f[i] = IF i = 0 THEN base ELSE FileTurn(f[i - 1], trailer)
    BY <1>7
  <2> QED
    BY <2>1, <2>2
<1>9. \A i \in 0 .. n : f[i] \in S
  <2> DEFINE T == {i \in 0 .. n : f[i] \in S}
  <2>1. 0 \in T
    BY <1>1, <1>8
  <2>2. \A i \in 1 .. n : i - 1 \in T => i \in T
    BY <1>1, <1>8, FileTurnTyped DEF S
  <2>3. \A i \in 0 .. n : i \in T
    <3> HIDE DEF T, n
    <3> QED
      BY <1>1, <2>1, <2>2, UpTo
  <2> QED
    BY <2>3
<1>10. f \in [0 .. n -> S]
  BY <1>7, <1>9
<1> QED
  BY <1>8, <1>10 DEF f, S, base

-----------------------------------------------------------------------------
(* The pieces a push finishes.                                             *)

\* Of the pieces of q, k end in the first n bytes, and the next one does not.
Ends(q, pos, n, k) ==
    k \in 0 .. Len(q) /\ pos[k] <= n /\ (k < Len(q) => n < pos[k + 1])

LEMMA FinishedIs ==
    ASSUME queue \in Seq(Pieces), NEW pos, NEW bodies, Lays(queue, pos, bodies),
           NEW n \in Nat, n <= Len(Stream(queue))
    PROVE  \E k : /\ Ends(queue, pos, n, k)
                  /\ Finished(n) = SubSeq(queue, 1, k) /\ Len(Finished(n)) = k
                  /\ Len(Stream(Finished(n))) = pos[k] /\ Bodies(Finished(n)) = bodies[k]
<1> DEFINE N == Len(queue)
           T == {m \in 0 .. N : m = N \/ pos[m + 1] > n}
           Fits(m) == /\ Len(Stream(SubSeq(queue, 1, m))) <= n
                      /\ m < N => Len(Stream(SubSeq(queue, 1, m + 1))) > n
           k == CHOOSE m \in 0 .. N : Fits(m)
<1>1. N \in Nat /\ pos[0] = 0 /\ (\A i \in 0 .. N : pos[i] \in Nat) /\ n <= pos[N]
  BY PiecesStart DEF Lays
<1>2. T \subseteq Nat /\ N \in T
  BY <1>1
<1>3. PICK m \in T : \A i \in T : m <= i
  <2> HIDE DEF T, N
  <2> QED
    BY <1>2, Least
<1>4. m \in 0 .. N /\ (m < N => pos[m + 1] > n)
  BY <1>3
<1>5. pos[m] <= n
  <2>1. CASE m = 0
    BY <1>1, <2>1
  <2>2. CASE m # 0
    <3>1. m - 1 \in 0 .. N /\ m - 1 # N /\ ~ (m <= m - 1) /\ (m - 1) + 1 = m
      BY <1>1, <1>4, <2>2
    <3>2. m - 1 \notin T
      BY <1>3, <3>1
    <3>3. ~ (pos[m] > n)
      BY <3>1, <3>2
    <3> QED
      BY <1>1, <1>4, <3>3
  <2> QED
    BY <2>1, <2>2
<1>6. \A i \in 0 .. N : Len(Stream(SubSeq(queue, 1, i))) = pos[i] /\ Bodies(SubSeq(queue, 1, i)) = bodies[i]
  BY DEF Lays
<1>7. \A i \in 0 .. N : i < N => i + 1 \in 0 .. N
  BY <1>1
<1>8. Fits(m)
  BY <1>4, <1>5, <1>6, <1>7
<1>9. k \in 0 .. N /\ Fits(k)
  <2> HIDE DEF Fits, N
  <2> QED
    BY <1>4, <1>8
<1> HIDE DEF k
<1>10. pos[k] <= n /\ (k < N => n < pos[k + 1])
  <2>1. pos[k] <= n /\ (k < N => pos[k + 1] > n)
    BY <1>6, <1>7, <1>9
  <2>2. k < N => pos[k + 1] \in Nat
    BY <1>1, <1>7, <1>9
  <2> QED
    BY <2>1, <2>2
<1>11. Finished(n) = SubSeq(queue, 1, k)
  BY DEF Finished, k
<1>12. Len(SubSeq(queue, 1, k)) = k
  BY <1>1, <1>9
<1> QED
  BY <1>6, <1>9, <1>10, <1>11, <1>12 DEF Ends

\* A sequence cut in two.
LEMMA Continued ==
    ASSUME NEW S, NEW s \in Seq(S), NEW a \in Nat, NEW b \in Nat, a <= b, b <= Len(s)
    PROVE  SubSeq(s, 1, a) \o SubSeq(s, a + 1, b) = SubSeq(s, 1, b)
<1> DEFINE u == SubSeq(s, 0 + 1, a)
           v == SubSeq(s, a + 1, b)
           w == SubSeq(s, 0 + 1, b)
           both == u \o v
<1>1. u \in Seq(S) /\ Len(u) = a - 0 /\ \A x \in 1 .. a - 0 : u[x] = s[0 + x]
  <2>1. 0 <= a /\ a <= Len(s)
    OBVIOUS
  <2> QED
    BY <2>1, Cut
<1>2. w \in Seq(S) /\ Len(w) = b - 0 /\ \A x \in 1 .. b - 0 : w[x] = s[0 + x]
  <2>1. 0 <= b
    OBVIOUS
  <2> QED
    BY <2>1, Cut
<1>3. v \in Seq(S) /\ Len(v) = b - a /\ \A x \in 1 .. b - a : v[x] = s[a + x]
  BY Cut
<1> HIDE DEF u, v, w
<1>4. Joins(S, u, v, both)
  BY <1>1, <1>3, Concatenated
<1> HIDE DEF both
<1>5. both \in Seq(S) /\ Len(both) = b /\ Len(w) = b
  BY <1>1, <1>2, <1>3, <1>4 DEF Joins
<1>6. ASSUME NEW x \in 1 .. b PROVE both[x] = w[x]
  <2>1. w[x] = s[x]
    BY <1>2
  <2>2. CASE x <= a
    <3>1. x \in 1 .. Len(u) /\ x \in 1 .. a - 0 /\ 0 + x = x
      BY <1>1, <2>2
    <3> QED
      BY <1>1, <1>4, <2>1, <3>1 DEF Joins
  <2>3. CASE x > a
    <3>1. x - a \in 1 .. Len(v) /\ x - a \in 1 .. b - a /\ a + (x - a) = x /\ Len(u) = a
      BY <1>1, <1>3, <2>3
    <3>2. both[Len(u) + (x - a)] = v[x - a]
      BY <1>4, <3>1 DEF Joins
    <3> QED
      BY <1>3, <2>1, <3>1, <3>2
  <2> QED
    BY <2>2, <2>3
<1>7. both = w
  <2>1. Len(both) = Len(w) /\ \A x \in 1 .. Len(both) : both[x] = w[x]
    BY <1>5, <1>6
  <2> QED
    BY <1>2, <1>5, <2>1, Same
<1>8. 0 + 1 = 1
  OBVIOUS
<1> QED
  BY <1>7, <1>8 DEF both, u, v, w

-----------------------------------------------------------------------------
(* A broken piece in a notification of its own.                            *)

\* A turn that changes nothing is the last that matters.
LEMMA Settled ==
    ASSUME NEW n \in Nat, NEW f, \A i \in 1 .. n : f[i] = Turn(f[i - 1]),
           NEW m \in 0 .. n, Turn(f[m]) = f[m]
    PROVE  f[n] = f[m]
<1> DEFINE T == {i \in 0 .. n : i >= m => f[i] = f[m]}
<1>1. 0 \in T
  <2>1. 0 >= m => m = 0
    OBVIOUS
  <2> QED
    BY <2>1
<1>2. ASSUME NEW i \in 1 .. n, i - 1 \in T PROVE i \in T
  <2>1. SUFFICES ASSUME i >= m PROVE f[i] = f[m]
    OBVIOUS
  <2>2. CASE i = m
    BY <2>2
  <2>3. CASE i # m
    <3>1. i - 1 >= m
      BY <2>1, <2>3
    <3>2. f[i - 1] = f[m]
      BY <1>2, <3>1
    <3> QED
      BY <3>2
  <2> QED
    BY <2>2, <2>3
<1>3. \A i \in 0 .. n : i \in T
  <2> HIDE DEF T
  <2> QED
    BY <1>1, <1>2, UpTo
<1>4. n \in 0 .. n /\ n >= m
  OBVIOUS
<1> QED
  BY <1>3, <1>4

\* A turn at a whole frame takes it, and the next finds nothing.
LEMMA LastFrame ==
    ASSUME NEW t \in ControlTaken, NEW body \in Seq(Byte), Enveloped(t.rest, body, <<>>),
           t.frames = <<>>
    PROVE  /\ Turn(t).frames = BodiesOf(body) /\ Turn(t).rest = <<>>
           /\ Turn(Turn(t)) = Turn(t)
<1> DEFINE bytes == t.rest
           u == Turn(t)
<1>1. bytes \in Seq(Byte) /\ Len(bytes) \in Nat /\ <<>> \in Seq(Byte) /\ BodiesOf(body) \in Bodied
  <2>1. bytes \in Seq(Byte) /\ Len(bytes) \in Nat /\ <<>> \in Seq(Byte)
    BY EmptySeq DEF ControlTaken
  <2> DEFINE B == Seq(Byte)
  <2> HIDE DEF B
  <2>2. body \in B => <<body>> \in Seq(B)
    OBVIOUS
  <2>3. <<>> \in Seq(B)
    BY EmptySeq
  <2> QED
    BY <2>1, <2>2, <2>3 DEF Bodied, BodiesOf, B
<1>2. AtWork("AA14", t, <<>>, 0)
  <2>1. 0 <= Len(t.rest) /\ \A x \in 1 .. 0 : t.rest[x] # Magic[1]
    BY <1>1
  <2> QED
    BY <1>1, <2>1 DEF AtWork
<1>3. Comes(t, <<>>, 0, bytes, body)
  <2>1. 0 + Len(bytes) <= Len(t.rest) /\ \A x \in 1 .. Len(bytes) : t.rest[0 + x] = bytes[x]
    BY <1>1
  <2> QED
    BY <1>1, <2>1 DEF Comes
<1>4. Takes("AA14", t, <<>>, 0, bytes, body)
  BY <1>2, <1>3, TakesPiece
<1>5. u.frames = t.frames \o BodiesOf(body) /\ u.rest = Drop(t.rest, 0 + Len(bytes))
  BY <1>4 DEF Takes, After
<1>6. u.frames = BodiesOf(body)
  <2> DEFINE b == BodiesOf(body)
             B == Seq(Byte)
  <2>1. b \in Seq(B)
    BY <1>1 DEF Bodied
  <2> HIDE DEF b, B
  <2>2. <<>> \o b = b
    BY <2>1, ConcatEmptySeq
  <2> QED
    BY <1>5, <2>2 DEF b
<1>7. u.rest = <<>>
  <2>1. 0 + Len(bytes) = Len(bytes) /\ Len(bytes) + 1 > Len(bytes)
    BY <1>1
  <2>2. Drop(bytes, Len(bytes)) = <<>>
    <3>1. Drop(bytes, Len(bytes)) \in Seq(Byte) /\ Len(Drop(bytes, Len(bytes))) = Len(bytes) - Len(bytes)
      <4>1. Len(bytes) <= Len(bytes)
        BY <1>1
      <4> HIDE DEF bytes
      <4> QED
        BY <1>1, <4>1, DropIs
    <3>2. Len(bytes) - Len(bytes) = 0
      BY <1>1
    <3> QED
      BY <3>1, <3>2, EmptySeq
  <2> QED
    BY <1>5, <2>1, <2>2
<1>8. Turn(u) = u
  <2>1. Len(u.rest) < Overhead
    BY <1>7 DEF Overhead
  <2> HIDE DEF u
  <2> QED
    BY <2>1 DEF Turn
<1> QED
  BY <1>6, <1>7, <1>8

\* What a broken piece drains to when it comes alone: its body, and nothing to keep.
LEMMA BrokenAlone ==
    ASSUME NEW p \in BrokenPieces
    PROVE  /\ Drain(p.bytes).frames = BodyOn(p)
           /\ Residual(Drain(p.bytes).rest) \in {"Empty", "Foreign"}
<1> DEFINE b == p.bytes
           n == Len(b)
           f == DrainTurns(b)
<1>1. /\ b \in Seq(Byte) /\ n \in Nat \ {0} /\ p.body \in Seq(Byte)
      /\ \/ Enveloped(b, p.body, <<>>)
         \/ Restarted(b, p.body)
         \/ WrongLength(b, p.body)
  <2>1. p \in Pieces
    BY DEF Pieces
  <2> QED
    BY <2>1, PieceTyped, StreamAssumption
<1>2. /\ f \in [0 .. n -> ControlTaken]
      /\ f[0] = [frames |-> <<>>, rest |-> b]
      /\ \A i \in 1 .. n : f[i] = Turn(f[i - 1])
  BY <1>1, DrainRuns
<1>3. Drain(b) = f[n] /\ BodyOn(p) = BodiesOf(p.body)
  BY DEF Drain, BodyOn, BodiesOf
<1>4. Residual(<<>>) = "Empty" /\ <<>> \in Seq(Byte)
  BY EmptySeq DEF Residual
<1>5. 0 \in 0 .. n /\ f[0] \in ControlTaken /\ f[0].frames = <<>> /\ f[0].rest = b /\ f[1] = Turn(f[0])
  <2>1. 0 \in 0 .. n /\ 1 \in 1 .. n /\ 1 - 1 = 0
    BY <1>1
  <2> HIDE DEF f, n
  <2>2. f[1] = Turn(f[1 - 1])
    BY <1>2, <2>1
  <2> QED
    BY <1>2, <2>1, <2>2
<1> HIDE DEF b, f, n
<1>6. CASE Enveloped(b, p.body, <<>>)
  <2>1. /\ Turn(f[0]).frames = BodiesOf(p.body) /\ Turn(f[0]).rest = <<>>
        /\ Turn(Turn(f[0])) = Turn(f[0])
    BY <1>1, <1>5, <1>6, LastFrame
  <2>2. 1 \in 0 .. n /\ n \in Nat
    BY <1>1
  <2>4. Turn(f[1]) = f[1]
    BY <1>5, <2>1
  <2>3. f[n] = f[1]
    BY <1>2, <2>2, <2>4, Settled
  <2> QED
    BY <1>3, <1>4, <1>5, <2>1, <2>3 DEF b
<1>7. ASSUME n >= Overhead, SubSeq(b, 1, 2) = Magic, ~ LegalLength(LengthField(b))
      PROVE  f[1].frames = <<>> /\ f[1].rest = Drop(b, 2) /\ f[1] \in ControlTaken
  <2>1. ~ (Len(f[0].rest) < Overhead \/ SubSeq(f[0].rest, 1, 2) # Magic)
    BY <1>1, <1>5, <1>7 DEF n, Overhead
  <2>2. Turn(f[0]) = [f[0] EXCEPT !.rest = Drop(b, 2)]
    BY <1>5, <1>7, <2>1 DEF Turn
  <2>3. f[1] \in ControlTaken
    BY <1>5, DrainTurnTyped
  <2> QED
    BY <1>5, <2>2, <2>3 DEF ControlTaken
<1>8. CASE Restarted(b, p.body)
  <2> DEFINE d == Drop(b, 2)
  <2>1. SubSeq(b, 1, 2) = Magic /\ Enveloped(d, p.body, <<>>)
    BY <1>8 DEF Restarted
  <2>2. n >= 2
    <3>1. ASSUME n = 1 PROVE FALSE
      <4>1. Len(SubSeq(b, 1, 2)) = 2
        BY <2>1, MagicTyped
      <4>2. Drop(b, 2) = <<>>
        <5>1. Len(b) \in Nat /\ 2 + 1 > Len(b)
          BY <1>1, <3>1 DEF n
        <5> QED
          BY <1>1, <5>1, SubSeqEmpty DEF Drop
      <4>3. Len(<<>>) >= Overhead + 2
        BY <1>1, <1>4, <2>1, <4>2, EnvelopeIs
      <4> QED
        BY <4>3 DEF Overhead
    <3> QED
      BY <1>1, <3>1
  <2>3. d \in Seq(Byte) /\ Len(d) = n - 2 /\ \A x \in 1 .. n - 2 : d[x] = b[2 + x]
    <3>1. 2 \in Nat /\ 2 <= Len(b)
      BY <2>2 DEF n
    <3> QED
      BY <1>1, <3>1, DropIs DEF n
  <2> HIDE DEF d
  <2>4. Len(d) >= Overhead + 2 /\ d[1] = Magic[1] /\ d[2] = Magic[2]
    BY <1>1, <1>4, <2>1, <2>3, EnvelopeIs
  <2>5. n >= Overhead + 4
    BY <1>1, <2>3, <2>4 DEF Overhead
  <2>6. LengthField(b) = Magic[1] * Base + Magic[2]
    <3>1. 1 \in 1 .. n - 2 /\ 2 \in 1 .. n - 2 /\ 2 + 1 = 3 /\ 2 + 2 = 4
      BY <1>1, <2>5 DEF Overhead
    <3>2. b[2 + 1] = Magic[1] /\ b[2 + 2] = Magic[2]
      BY <2>3, <2>4, <3>1
    <3> QED
      BY <3>1, <3>2 DEF LengthField
  <2>7. f[1].frames = <<>> /\ f[1].rest = d /\ f[1] \in ControlTaken
    <3>1. n >= Overhead
      BY <1>1, <2>5 DEF Overhead
    <3>2. ~ LegalLength(LengthField(b))
      BY <2>6, FramingAssumption
    <3> QED
      BY <1>7, <2>1, <3>1, <3>2 DEF d
  <2>8. f[2] = Turn(f[1])
    <3>1. 2 \in 1 .. n /\ 2 - 1 = 1
      BY <1>1, <2>2
    <3>2. f[2] = Turn(f[2 - 1])
      BY <1>2, <3>1
    <3> QED
      BY <3>1, <3>2
  <2>9. /\ Turn(f[1]).frames = BodiesOf(p.body) /\ Turn(f[1]).rest = <<>>
        /\ Turn(Turn(f[1])) = Turn(f[1])
    BY <1>1, <2>1, <2>7, LastFrame
  <2>10. 2 \in 0 .. n /\ n \in Nat
    BY <1>1, <2>2
  <2>12. Turn(f[2]) = f[2]
    BY <2>8, <2>9
  <2>11. f[n] = f[2]
    BY <1>2, <2>10, <2>12, Settled
  <2> QED
    BY <1>3, <1>4, <2>8, <2>9, <2>11 DEF b
<1>9. CASE WrongLength(b, p.body)
  <2> DEFINE d == Drop(b, 2)
  <2>1. /\ p.body = <<>> /\ n >= Overhead /\ SubSeq(b, 1, 2) = Magic
        /\ ~ LegalLength(LengthField(b)) /\ ~ IsPartialFramePrefix(d)
    BY <1>9 DEF WrongLength, n
  <2>2. f[1].frames = <<>> /\ f[1].rest = d /\ d \in Seq(Byte)
    BY <1>7, <2>1 DEF ControlTaken
  <2> HIDE DEF d
  <2>3. Len(d) < Overhead \/ SubSeq(d, 1, 2) # Magic
    <3>1. Len(d) \in Nat
      BY <2>2
    <3>2. ASSUME Len(d) >= Overhead PROVE SubSeq(d, 1, 2) # Magic
      <4>2. Len(d) >= 4
        BY <3>2 DEF Overhead
      <4>3. \A l \in Nat : l >= 4 => l >= 2 /\ l # 1
        OBVIOUS
      <4>1. Len(d) >= 2 /\ Len(d) # 1
        BY <3>1, <4>2, <4>3
      <4> QED
        BY <2>1, <4>1 DEF IsPartialFramePrefix
    <3> QED
      BY <3>1, <3>2 DEF Overhead
  <2>4. Turn(f[1]) = f[1]
    BY <2>2, <2>3 DEF Turn
  <2>5. 1 \in 0 .. n /\ n \in Nat
    BY <1>1
  <2>6. f[n] = f[1]
    BY <1>2, <2>4, <2>5, Settled
  <2>7. Residual(d) \in {"Empty", "Foreign"}
    BY <2>1 DEF Residual
  <2> QED
    BY <1>3, <2>1, <2>2, <2>6, <2>7 DEF b, BodiesOf
<1> QED
  BY <1>1, <1>6, <1>8, <1>9

-----------------------------------------------------------------------------
(* What push_detailed keeps of a frame that has begun.                     *)

LEMMA BegunIsKept ==
    ASSUME NEW bytes \in Seq(Byte), NEW body \in Seq(Byte), Enveloped(bytes, body, <<>>),
           NEW m \in Nat, m < Len(bytes)
    PROVE  LET r == SubSeq(bytes, 1, m)
           IN  r \in Seq(Byte) /\ Residual(r) \in {"Empty", "PartialFrame"} /\ Kept(r) = r
<1> DEFINE r == SubSeq(bytes, 0 + 1, m)
<1>1. r \in Seq(Byte) /\ Len(r) = m /\ \A x \in 1 .. m : r[x] = bytes[x]
  <2>1. 0 <= m /\ m <= Len(bytes)
    OBVIOUS
  <2>2. r \in Seq(Byte) /\ Len(r) = m - 0 /\ \A x \in 1 .. m - 0 : r[x] = bytes[0 + x]
    BY <2>1, Cut
  <2>3. m - 0 = m /\ \A x \in 1 .. m : 0 + x = x
    OBVIOUS
  <2> HIDE DEF r
  <2> QED
    BY <2>2, <2>3
<1> HIDE DEF r
<1>2. <<>> \in Seq(Byte) /\ Len(<<>>) = 0
  BY EmptySeq
<1>3. /\ LegalLength(LengthField(bytes)) /\ LengthField(bytes) \in Nat
      /\ Len(bytes) = Total(LengthField(bytes), <<>>)
  BY <1>2, EnvelopeIs
<1>4. Len(r) <= Overhead + MaxLengthField
  <2> DEFINE len == LengthField(bytes)
  <2>1. len <= MaxLengthField
    BY <1>3 DEF LegalLength
  <2>2. m < Overhead + len
    BY <1>2, <1>3 DEF Total, Overhead
  <2> HIDE DEF len
  <2> QED
    BY <1>1, <1>3, <2>1, <2>2, FramingAssumption DEF Overhead, len
<1>5. CASE m = 0
  <2>1. r = <<>>
    BY <1>1, <1>5, EmptySeq
  <2> QED
    BY <1>1, <2>1 DEF Residual, Kept, r
<1>6. CASE m # 0
  <2>0. m <= Len(r) /\ m <= Len(bytes)
    BY <1>1
  <2>1. m >= 1 => r[1] = Magic[1]
    BY <1>1, <1>2, <2>0, StartsAs
  <2>2. m >= 2 => SubSeq(r, 1, 2) = Magic
    BY <1>1, <1>2, <2>0, StartsAs
  <2>3. IsPartialFramePrefix(r)
    BY <1>1, <1>6, <2>1, <2>2 DEF IsPartialFramePrefix
  <2>4. r # <<>>
    BY <1>1, <1>2, <1>6
  <2>5. ~ (Len(r) > Overhead + MaxLengthField)
    BY <1>1, <1>4, FramingAssumption DEF Overhead
  <2>6. Residual(r) = "PartialFrame"
    BY <2>3, <2>4, <2>5 DEF Residual
  <2> QED
    BY <1>1, <2>6 DEF Kept, r
<1> QED
  BY <1>5, <1>6

-----------------------------------------------------------------------------
(* One push.                                                               *)

\* m bytes of the first piece of q have been pushed: of a frame they are in
\* the buffer b, of junk they are gone.
Held(p, trailer, m) == IF Enveloped(p.bytes, p.body, trailer) THEN SubSeq(p.bytes, 1, m) ELSE <<>>

Buffered(q, trailer, m, b) ==
    IF q = <<>> THEN m = 0 /\ b = <<>>
    ELSE m \in 0 .. Len(q[1].bytes) - 1 /\ b = Held(q[1], trailer, m)

\* What the link of channel c carries when it cuts the stream where it likes.
Carries(c, trailer, q) ==
    /\ trailer \in Seq(Byte)
    /\ (c = "AA14" /\ trailer = <<>>) \/ c = "AA15"
    /\ q \in Seq(Pieces)
    /\ \A i \in 1 .. Len(q) :
           \/ Enveloped(q[i].bytes, q[i].body, trailer)
           \/ c = "AA15" /\ Junk(q[i].bytes, q[i].body)

\* A push: with b in the buffer, the stream up to ends, in which k pieces end.
Pushes(c, trailer, q, pos, bodies, m, b, ends, k) ==
    /\ Carries(c, trailer, q) /\ q # <<>> /\ Lays(q, pos, bodies)
    /\ Buffered(q, trailer, m, b)
    /\ ends \in Nat /\ m < ends /\ ends <= Len(Stream(q))
    /\ Ends(q, pos, ends, k)

Continues(c, trailer, q, pos, bodies, m, b, ends, k, s) ==
    /\ s \in 0 .. ends - 1
    /\ Fed(c, trailer, q, pos, bodies, s, ends, k)
    /\ b \o SubSeq(Stream(q), m + 1, ends) = SubSeq(Stream(q), s + 1, ends)

\* With what is in the buffer, a chunk continues the stream from a piece on.
LEMMA ChunkIsFed ==
    ASSUME NEW c, NEW trailer, NEW q, NEW pos, NEW bodies, NEW m, NEW b, NEW ends, NEW k,
           Pushes(c, trailer, q, pos, bodies, m, b, ends, k)
    PROVE  \E s : Continues(c, trailer, q, pos, bodies, m, b, ends, k, s)
<1>0. /\ Carries(c, trailer, q) /\ q # <<>> /\ Lays(q, pos, bodies)
      /\ Buffered(q, trailer, m, b)
      /\ ends \in Nat /\ m < ends /\ ends <= Len(Stream(q))
      /\ Ends(q, pos, ends, k)
  BY DEF Pushes
<1> DEFINE T == Stream(q)
           bytes == q[1].bytes
           len == Len(bytes)
           chunk == SubSeq(T, m + 1, ends)
<1>1. q \in Seq(Pieces) /\ Len(q) \in Nat /\ Len(q) >= 1 /\ 1 \in 1 .. Len(q) /\ q[1] \in Pieces
  <2>1. q \in Seq(Pieces)
    BY <1>0 DEF Carries
  <2>2. Len(q) \in Nat /\ Len(q) # 0
    BY <1>0, <2>1, EmptySeq
  <2>3. 1 \in 1 .. Len(q)
    BY <2>2
  <2> QED
    BY <2>1, <2>2, <2>3
<1>2. bytes \in Seq(Byte) /\ len \in Nat \ {0} /\ q[1].body \in Seq(Byte)
  BY <1>1, PieceTyped
<1>3. m \in Nat /\ m < len /\ b = Held(q[1], trailer, m)
  <2>1. m \in 0 .. len - 1 /\ b = Held(q[1], trailer, m)
    BY <1>0 DEF Buffered
  <2> HIDE DEF len
  <2> QED
    BY <1>2, <2>1
<1>4. /\ T \in Seq(Byte) /\ Len(T) \in Nat /\ pos[1] = len /\ len <= Len(T)
      /\ \A x \in 1 .. len : T[x] = bytes[x]
  <2>1. T \in Seq(Byte) /\ pos[0] = 0 /\ pos[1] = pos[0] + len /\ Len(T) = pos[Len(q)]
    <3>1. 1 - 1 = 0
      OBVIOUS
    <3>2. pos[1] = pos[1 - 1] + len
      BY <1>0, <1>1 DEF Lays
    <3> QED
      BY <1>0, <3>1, <3>2 DEF Lays
  <2>2. \A x \in 1 .. len : T[pos[1 - 1] + x] = bytes[x]
    BY <1>0, <1>1 DEF Lays
  <2>3. \A x \in 1 .. len : pos[1 - 1] + x = x
    <3>1. pos[1 - 1] = 0
      BY <2>1
    <3> HIDE DEF len
    <3> QED
      BY <3>1
  <2>4. len <= Len(T)
    <3>1. 1 \in 0 .. Len(q) /\ Len(q) \in 0 .. Len(q)
      BY <1>1
    <3>2. pos[1] <= pos[Len(q)]
      BY <1>0, <1>1, <3>1, InOrder
    <3> HIDE DEF len
    <3> QED
      BY <1>2, <2>1, <3>2
  <2>5. Len(T) \in Nat
    BY <2>1
  <2> HIDE DEF T, bytes, len
  <2> QED
    BY <1>2, <2>1, <2>2, <2>3, <2>4, <2>5
<1>5. \/ Enveloped(bytes, q[1].body, trailer)
      \/ c = "AA15" /\ Junk(bytes, q[1].body)
  BY <1>0, <1>1 DEF Carries
<1>6. ASSUME NEW s \in Nat, s = 0 \/ (s = m /\ c = "AA15" /\ Junk(bytes, q[1].body))
      PROVE  s \in 0 .. ends - 1 /\ Fed(c, trailer, q, pos, bodies, s, ends, k)
  <2>1. s <= ends /\ s \in 0 .. ends - 1
    BY <1>0, <1>3, <1>6
  <2>2. s = 0 \/ (s < pos[1] /\ c = "AA15" /\ Junk(bytes, q[1].body))
    BY <1>3, <1>4, <1>6
  <2> HIDE DEF T, len
  <2> QED
    BY <1>0, <1>1, <1>6, <2>1, <2>2 DEF Fed, Carries, Ends, T
<1>7. CASE Enveloped(bytes, q[1].body, trailer)
  <2>1. b = SubSeq(bytes, 1, m)
    BY <1>3, <1>7 DEF Held
  <2>2. SubSeq(bytes, 1, m) = SubSeq(T, 1, m)
    <3> HIDE DEF T, bytes, len
    <3>1. m <= Len(T) /\ 0 <= m /\ m - 0 = m /\ 0 + 1 = 1
      BY <1>2, <1>3, <1>4
    <3>2. /\ SubSeq(T, 0 + 1, m) \in Seq(Byte) /\ Len(SubSeq(T, 0 + 1, m)) = m - 0
          /\ \A x \in 1 .. m - 0 : SubSeq(T, 0 + 1, m)[x] = T[0 + x]
      BY <1>3, <1>4, <3>1, Cut
    <3>3. /\ SubSeq(bytes, 0 + 1, m) \in Seq(Byte) /\ Len(SubSeq(bytes, 0 + 1, m)) = m - 0
          /\ \A x \in 1 .. m - 0 : SubSeq(bytes, 0 + 1, m)[x] = bytes[0 + x]
      BY <1>2, <1>3, <3>1, Cut DEF len
    <3>4. \A x \in 1 .. m - 0 : T[0 + x] = bytes[0 + x]
      BY <1>2, <1>3, <1>4
    <3>5. \A x \in 1 .. m - 0 : SubSeq(bytes, 0 + 1, m)[x] = SubSeq(T, 0 + 1, m)[x]
      BY <3>2, <3>3, <3>4
    <3>6. SubSeq(bytes, 0 + 1, m) = SubSeq(T, 0 + 1, m)
      BY <3>2, <3>3, <3>5, Same
    <3> QED
      BY <3>1, <3>6
  <2>3. SubSeq(T, 1, m) \o SubSeq(T, m + 1, ends) = SubSeq(T, 1, ends)
    <3>1. m <= ends
      BY <1>0, <1>3
    <3> HIDE DEF T
    <3> QED
      BY <1>0, <1>3, <1>4, <3>1, Continued DEF T
  <2>4. b \o SubSeq(T, m + 1, ends) = SubSeq(T, 0 + 1, ends)
    <3>1. 0 + 1 = 1
      OBVIOUS
    <3> HIDE DEF T, bytes
    <3> QED
      BY <2>1, <2>2, <2>3, <3>1
  <2>5. 0 \in 0 .. ends - 1 /\ Fed(c, trailer, q, pos, bodies, 0, ends, k)
    BY <1>6
  <2> QED
    BY <2>4, <2>5 DEF Continues
<1>8. CASE c = "AA15" /\ Junk(bytes, q[1].body)
  <2>1. ~ Enveloped(bytes, q[1].body, trailer)
    BY <1>0, <1>1, <1>8, JunkIsNone DEF Carries
  <2>2. b = <<>>
    BY <1>3, <2>1 DEF Held
  <2>3. chunk \in Seq(Byte)
    <3>1. m <= ends
      BY <1>0, <1>3
    <3> HIDE DEF T
    <3> QED
      BY <1>0, <1>3, <1>4, <3>1, Cut DEF T
  <2>4. b \o chunk = chunk
    <3> HIDE DEF chunk
    <3> QED
      BY <2>2, <2>3, ConcatEmptySeq
  <2>5. m \in 0 .. ends - 1 /\ Fed(c, trailer, q, pos, bodies, m, ends, k)
    BY <1>3, <1>6, <1>8
  <2> QED
    BY <2>4, <2>5 DEF Continues
<1> QED
  BY <1>5, <1>7, <1>8

\* What is left after k pieces is what the queue from the next one on has buffered.
LEMMA LeftIsBuffered ==
    ASSUME NEW c, NEW trailer, NEW q, Carries(c, trailer, q),
           NEW pos, NEW bodies, Lays(q, pos, bodies),
           NEW ends \in Nat, ends <= Len(Stream(q)), NEW k, Ends(q, pos, ends, k)
    PROVE  /\ Buffered(SubSeq(q, k + 1, Len(q)), trailer, ends - pos[k], Left(trailer, q, pos, ends, k))
           /\ Left(trailer, q, pos, ends, k) \in Seq(Byte)
           /\ c = "AA14" =>
                  /\ Kept(Left(trailer, q, pos, ends, k)) = Left(trailer, q, pos, ends, k)
                  /\ Residual(Left(trailer, q, pos, ends, k)) \in {"Empty", "PartialFrame"}
<1> DEFINE n == Len(q)
           later == SubSeq(q, k + 1, n)
           left == Left(trailer, q, pos, ends, k)
           T == Stream(q)
<1>1. /\ q \in Seq(Pieces) /\ n \in Nat /\ k \in 0 .. n /\ k \in Nat /\ k <= n
      /\ (\A i \in 0 .. n : pos[i] \in Nat) /\ pos[k] <= ends /\ pos[k] \in Nat
      /\ T \in Seq(Byte) /\ Len(T) = pos[n]
  <2>1. q \in Seq(Pieces) /\ k \in 0 .. n /\ pos[k] <= ends
    BY DEF Carries, Ends
  <2>2. n \in Nat /\ \A i \in 0 .. n : pos[i] \in Nat
    BY <2>1, PiecesStart
  <2>3. T \in Seq(Byte) /\ Len(T) = pos[n]
    BY DEF Lays
  <2> QED
    BY <2>1, <2>2, <2>3
<1>2. later \in Seq(Pieces) /\ Len(later) = n - k /\ \A x \in 1 .. n - k : later[x] = q[k + x]
  <2>1. n <= Len(q)
    BY <1>1
  <2> QED
    BY <1>1, <2>1, Cut
<1>3. Kept(<<>>) = <<>> /\ Residual(<<>>) = "Empty" /\ <<>> \in Seq(Byte)
  BY EmptySeq DEF Kept, Residual
<1>4. CASE k = n
  <2>1. later = <<>>
    <3>1. Len(later) = 0
      BY <1>1, <1>2, <1>4
    <3> HIDE DEF later
    <3> QED
      BY <1>2, <3>1, EmptySeq
  <2>2. ends - pos[k] = 0
    <3> HIDE DEF T, n
    <3> QED
      BY <1>1, <1>4 DEF T
  <2>3. left = <<>>
    BY <1>1, <1>4 DEF Left
  <2> HIDE DEF later, left, n
  <2> QED
    BY <1>3, <2>1, <2>2, <2>3 DEF Buffered, later, left, n
<1>5. CASE k # n
  <2> DEFINE p == q[k + 1]
             bytes == p.bytes
             m == ends - pos[k]
  <2>1. k < n /\ k + 1 \in 1 .. n /\ (k + 1) - 1 = k /\ p \in Pieces
    BY <1>1, <1>5
  <2>2. bytes \in Seq(Byte) /\ Len(bytes) \in Nat \ {0} /\ p.body \in Seq(Byte)
    BY <2>1, PieceTyped
  <2>3. pos[k + 1] = pos[k] + Len(bytes) /\ ends < pos[k + 1]
    <3>1. pos[k + 1] = pos[(k + 1) - 1] + Len(q[k + 1].bytes)
      BY <2>1 DEF Lays
    <3>2. ends < pos[k + 1]
      BY <2>1 DEF Ends
    <3> QED
      BY <2>1, <3>1, <3>2
  <2>4. m \in Nat /\ m < Len(bytes) /\ m \in 0 .. Len(bytes) - 1
    <3> DEFINE len == Len(bytes)
               a == pos[k]
    <3>1. a \in Nat /\ len \in Nat /\ ends < a + len /\ a <= ends
      BY <1>1, <2>2, <2>3
    <3> HIDE DEF len, a
    <3>2. ends - a \in Nat /\ ends - a < len /\ ends - a \in 0 .. len - 1
      BY <3>1
    <3> QED
      BY <3>2 DEF len, a
  <2>5. later # <<>> /\ later[1] = p
    <3>1. 1 \in 1 .. n - k /\ Len(later) # 0
      BY <1>1, <1>2, <2>1
    <3>2. later[1] = q[k + 1]
      BY <1>2, <3>1
    <3>3. later # <<>>
      BY <3>1, EmptySeq
    <3> QED
      BY <3>2, <3>3
  <2>6. SubSeq(T, pos[k] + 1, ends) = SubSeq(bytes, 1, m)
    <3> DEFINE a == pos[k]
    <3>1. \A x \in 1 .. Len(bytes) : T[a + x] = bytes[x]
      <4>1. \A x \in 1 .. Len(q[k + 1].bytes) : Stream(q)[pos[(k + 1) - 1] + x] = q[k + 1].bytes[x]
        BY <2>1 DEF Lays
      <4> QED
        BY <2>1, <4>1
    <3>2. a \in Nat /\ a <= ends /\ ends <= Len(T) /\ T \in Seq(Byte)
      BY <1>1
    <3>3. m = ends - a /\ m - 0 = m /\ 0 + 1 = 1 /\ 0 <= m /\ m <= Len(bytes)
      BY <2>2, <2>4
    <3> HIDE DEF a, T, bytes, m, p
    <3> DEFINE u == SubSeq(T, a + 1, ends)
               v == SubSeq(bytes, 0 + 1, m)
    <3>4. u \in Seq(Byte) /\ Len(u) = ends - a /\ \A x \in 1 .. ends - a : u[x] = T[a + x]
      BY <3>2, Cut
    <3>5. v \in Seq(Byte) /\ Len(v) = m - 0 /\ \A x \in 1 .. m - 0 : v[x] = bytes[0 + x]
      BY <2>2, <2>4, <3>3, Cut
    <3> HIDE DEF u, v
    <3>6. \A x \in 1 .. m : x \in 1 .. Len(bytes) /\ 0 + x = x
      BY <2>2, <2>4
    <3>7. Len(u) = Len(v) /\ \A x \in 1 .. Len(u) : u[x] = v[x]
      BY <3>1, <3>3, <3>4, <3>5, <3>6
    <3>8. u = v
      BY <3>4, <3>5, <3>7, Same
    <3> QED
      BY <3>3, <3>8 DEF u, v, a
  <2>7. left = Held(p, trailer, m)
    <3>1. left = IF Enveloped(bytes, p.body, trailer) THEN SubSeq(T, pos[k] + 1, ends) ELSE <<>>
      BY <2>1 DEF Left
    <3> HIDE DEF left, T, m, p
    <3> QED
      BY <2>6, <3>1 DEF Held
  <2>8. Buffered(later, trailer, m, left)
    <3> HIDE DEF left, later, m, p
    <3> QED
      BY <2>4, <2>5, <2>7 DEF Buffered, bytes
  <2>9. left \in Seq(Byte)
    <3>1. m <= Len(bytes) /\ 0 <= m /\ 0 + 1 = 1
      BY <2>2, <2>4
    <3> HIDE DEF m, left, p
    <3>2. SubSeq(bytes, 0 + 1, m) \in Seq(Byte)
      BY <2>2, <2>4, <3>1, Cut
    <3> QED
      BY <1>3, <2>7, <3>1, <3>2 DEF Held
  <2>10. c = "AA14" => Kept(left) = left /\ Residual(left) \in {"Empty", "PartialFrame"}
    <3> SUFFICES ASSUME c = "AA14" PROVE Kept(left) = left /\ Residual(left) \in {"Empty", "PartialFrame"}
      OBVIOUS
    <3>1. trailer = <<>>
      BY DEF Carries
    <3> HIDE DEF m, left, p
    <3>2. CASE Enveloped(bytes, p.body, trailer)
      <4>1. left = SubSeq(bytes, 1, m)
        BY <2>7, <3>2 DEF Held
      <4>2. /\ Residual(SubSeq(bytes, 1, m)) \in {"Empty", "PartialFrame"}
            /\ Kept(SubSeq(bytes, 1, m)) = SubSeq(bytes, 1, m)
        BY <2>2, <2>4, <3>1, <3>2, BegunIsKept
      <4> QED
        BY <4>1, <4>2
    <3>3. CASE ~ Enveloped(bytes, p.body, trailer)
      <4>1. left = <<>>
        BY <2>7, <3>3 DEF Held
      <4> QED
        BY <1>3, <4>1
    <3> QED
      BY <3>2, <3>3
  <2> QED
    BY <2>8, <2>9, <2>10
<1> QED
  BY <1>4, <1>5

\* So a push takes out the bodies of the pieces it finishes, and leaves the next one's bytes.
LEMMA PushDrains ==
    ASSUME NEW c, NEW trailer, NEW q, NEW pos, NEW bodies, NEW m, NEW b, NEW ends, NEW k,
           Pushes(c, trailer, q, pos, bodies, m, b, ends, k)
    PROVE  LET x == b \o SubSeq(Stream(q), m + 1, ends)
           IN  /\ c = "AA14" => /\ Drain(x).frames = bodies[k]
                                /\ Drain(x).rest = Left(trailer, q, pos, ends, k)
               /\ c = "AA15" => /\ DrainFileFrames(x, trailer).frames = bodies[k]
                                /\ DrainFileFrames(x, trailer).rest = Left(trailer, q, pos, ends, k)
<1> DEFINE T == Stream(q)
           x == b \o SubSeq(T, m + 1, ends)
<1>0. PICK s : Continues(c, trailer, q, pos, bodies, m, b, ends, k, s)
  BY ChunkIsFed
<1>1. /\ s \in 0 .. ends - 1 /\ Fed(c, trailer, q, pos, bodies, s, ends, k)
      /\ x = SubSeq(T, s + 1, ends)
  BY <1>0 DEF Continues
<1>2. /\ T \in Seq(Byte) /\ trailer \in Seq(Byte) /\ ends \in Nat /\ ends <= Len(T)
      /\ s \in Nat /\ s < ends /\ s <= ends
  BY <1>1 DEF Pushes, Lays, Carries
<1> HIDE DEF x
<1>3. x \in Seq(Byte) /\ Len(x) = ends - s
  <2> HIDE DEF T
  <2> QED
    BY <1>1, <1>2, Cut DEF T
<1>4. ASSUME c = "AA14"
      PROVE  Drain(x).frames = bodies[k] /\ Drain(x).rest = Left(trailer, q, pos, ends, k)
  <2> DEFINE f == DrainTurns(x)
  <2>1. /\ f \in [0 .. ends - s -> ControlTaken]
        /\ f[0] = [frames |-> <<>>, rest |-> x]
        /\ \A i \in 1 .. ends - s : f[i] = Turn(f[i - 1])
    BY <1>3, DrainRuns
  <2> HIDE DEF f
  <2>2. /\ f \in [0 .. ends - s -> Takens(c)] /\ f[0].frames = <<>>
        /\ f[0].rest = SubSeq(Stream(q), s + 1, ends)
        /\ \A i \in 1 .. ends - s : f[i] = After(c, f[i - 1], trailer)
    <3>1. Takens(c) = ControlTaken /\ x = SubSeq(Stream(q), s + 1, ends)
      BY <1>1, <1>4 DEF Takens
    <3>2. \A t : After(c, t, trailer) = Turn(t)
      BY <1>4 DEF After
    <3>3. f \in [0 .. ends - s -> Takens(c)]
      BY <2>1, <3>1
    <3>4. f[0].frames = <<>> /\ f[0].rest = x
      BY <2>1
    <3>5. \A i \in 1 .. ends - s : f[i] = After(c, f[i - 1], trailer)
      BY <2>1, <3>2
    <3> QED
      BY <3>1, <3>3, <3>4, <3>5
  <2>3. f[ends - s].frames = bodies[k] /\ f[ends - s].rest = Left(trailer, q, pos, ends, k)
    <3>1. Drains(f, c, trailer, q, s, ends)
      BY <2>2 DEF Drains
    <3> QED
      BY <1>1, <1>2, <3>1, Drained
  <2> QED
    BY <1>3, <2>3 DEF Drain, f
<1>5. ASSUME c = "AA15"
      PROVE  /\ DrainFileFrames(x, trailer).frames = bodies[k]
             /\ DrainFileFrames(x, trailer).rest = Left(trailer, q, pos, ends, k)
  <2> DEFINE f == FileDrainTurns(x, trailer)
  <2>1. /\ f \in [0 .. ends - s -> FileTaken]
        /\ f[0] = [frames |-> <<>>, rest |-> x, dropped |-> 0]
        /\ \A i \in 1 .. ends - s : f[i] = FileTurn(f[i - 1], trailer)
    BY <1>2, <1>3, FileDrainRuns
  <2> HIDE DEF f
  <2>2. /\ f \in [0 .. ends - s -> Takens(c)] /\ f[0].frames = <<>>
        /\ f[0].rest = SubSeq(Stream(q), s + 1, ends)
        /\ \A i \in 1 .. ends - s : f[i] = After(c, f[i - 1], trailer)
    <3>1. Takens(c) = FileTaken /\ x = SubSeq(Stream(q), s + 1, ends)
      BY <1>1, <1>5 DEF Takens
    <3>2. \A t : After(c, t, trailer) = FileTurn(t, trailer)
      BY <1>5 DEF After
    <3>3. f \in [0 .. ends - s -> Takens(c)]
      BY <2>1, <3>1
    <3>4. f[0].frames = <<>> /\ f[0].rest = x
      BY <2>1
    <3>5. \A i \in 1 .. ends - s : f[i] = After(c, f[i - 1], trailer)
      BY <2>1, <3>2
    <3> QED
      BY <3>1, <3>3, <3>4, <3>5
  <2>3. f[ends - s].frames = bodies[k] /\ f[ends - s].rest = Left(trailer, q, pos, ends, k)
    <3>1. Drains(f, c, trailer, q, s, ends)
      BY <2>2 DEF Drains
    <3> QED
      BY <1>1, <1>2, <3>1, Drained
  <2> QED
    BY <1>3, <2>3 DEF DrainFileFrames, f
<1> QED
  BY <1>4, <1>5 DEF x

-----------------------------------------------------------------------------
(* The invariant.                                                          *)

Trailer == IF channel = "AA15" THEN FileTrailer ELSE <<>>

\* What the three kinds of link carry.
FromLink ==
    \/ channel = "AA14" /\ whole = FALSE /\ queue \in Seq(ControlPieces)
    \/ channel = "AA14" /\ whole = TRUE /\ queue \in Seq(BrokenPieces)
    \/ channel = "AA15" /\ whole = FALSE /\ queue \in Seq(FilePieces)

Verdicts ==
    IF channel = "AA15" THEN {"Empty", "Desynced"} ELSE {"Empty", "PartialFrame", "Foreign"}

\* The buffer holds what has come of the frame under way, and nothing else.
StreamInv ==
    /\ FromLink
    /\ whole => offset = 0
    /\ Buffered(queue, Trailer, offset, buffer)
    /\ residual \in Verdicts
    /\ frames \in Bodied
    /\ expected = frames

LEMMA CarriesIs ==
    ASSUME FromLink, whole = FALSE
    PROVE  Carries(channel, Trailer, queue)
<1> USE StreamAssumption DEF Pieces
<1>1. CASE channel = "AA14"
  <2>1. queue \in Seq(ControlPieces) /\ Trailer = <<>> /\ ControlPieces \subseteq Pieces
    BY <1>1 DEF FromLink, Trailer
  <2>2. queue \in Seq(Pieces) /\ \A i \in 1 .. Len(queue) : queue[i] \in ControlPieces
    <3> DEFINE P == Pieces
    <3>1. ControlPieces \subseteq P
      OBVIOUS
    <3> HIDE DEF P
    <3>2. ControlPieces \subseteq P => Seq(ControlPieces) \subseteq Seq(P)
      OBVIOUS
    <3>3. queue \in Seq(P)
      BY <2>1, <3>1, <3>2
    <3> QED
      BY <2>1, <3>3, ElementOfSeq DEF P
  <2>3. \A i \in 1 .. Len(queue) : Enveloped(queue[i].bytes, queue[i].body, Trailer)
    BY <2>1, <2>2
  <2>4. Trailer \in Seq(Byte)
    BY <2>1, EmptySeq
  <2> QED
    BY <1>1, <2>1, <2>2, <2>3, <2>4 DEF Carries
<1>2. CASE channel = "AA15"
  <2>1. queue \in Seq(FilePieces) /\ Trailer = FileTrailer /\ FilePieces \subseteq Pieces
    BY <1>2 DEF FromLink, Trailer
  <2>2. queue \in Seq(Pieces) /\ \A i \in 1 .. Len(queue) : queue[i] \in FilePieces
    <3> DEFINE P == Pieces
    <3>1. FilePieces \subseteq P
      OBVIOUS
    <3> HIDE DEF P
    <3>2. FilePieces \subseteq P => Seq(FilePieces) \subseteq Seq(P)
      OBVIOUS
    <3>3. queue \in Seq(P)
      BY <2>1, <3>1, <3>2
    <3> QED
      BY <2>1, <3>3, ElementOfSeq DEF P
  <2>3. \A i \in 1 .. Len(queue) :
            \/ Enveloped(queue[i].bytes, queue[i].body, Trailer)
            \/ Junk(queue[i].bytes, queue[i].body)
    BY <2>1, <2>2
  <2> QED
    BY <1>2, <2>1, <2>2, <2>3 DEF Carries
<1> QED
  BY <1>1, <1>2 DEF FromLink

LEMMA QueueTyped == FromLink => queue \in Seq(Pieces)
<1> DEFINE P == Pieces
<1>1. ControlPieces \subseteq P /\ BrokenPieces \subseteq P /\ FilePieces \subseteq P
  BY DEF Pieces
<1> HIDE DEF P
<1>2. \A S : S \subseteq P => Seq(S) \subseteq Seq(P)
  OBVIOUS
<1>3. FromLink => queue \in Seq(P)
  BY <1>1, <1>2 DEF FromLink
<1> QED
  BY <1>3 DEF P

\* A queue loses its first pieces and stays one of the same link's.
LEMMA LinkKept ==
    ASSUME FromLink, NEW k \in 0 .. Len(queue),
           queue' = SubSeq(queue, k + 1, Len(queue)), UNCHANGED <<channel, whole>>
    PROVE  FromLink'
<1>1. ASSUME NEW S, queue \in Seq(S) PROVE queue' \in Seq(S)
  <2>1. Len(queue) \in Nat /\ k \in Nat /\ k <= Len(queue) /\ Len(queue) <= Len(queue)
    BY <1>1
  <2> QED
    BY <1>1, <2>1, Cut
<1> QED
  BY <1>1 DEF FromLink

LEMMA StartsInv == StreamInit => StreamInv
<1> SUFFICES ASSUME StreamInit PROVE StreamInv
  OBVIOUS
<1>1. ASSUME NEW S, queue \in Queues(S) PROVE queue \in Seq(S) /\ queue # <<>> /\ Len(queue) \in Nat \ {0}
  <2>1. PICK n \in 1 .. MaxPieces : queue \in [1 .. n -> S]
    BY <1>1 DEF Queues
  <2>2. n \in Nat \ {0}
    BY StreamAssumption
  <2>3. queue \in Seq(S) /\ Len(queue) = n
    BY <2>1, <2>2
  <2> QED
    BY <2>2, <2>3, EmptySeq
<1>2. FromLink
  BY <1>1 DEF StreamInit, FromLink
<1>3. queue # <<>> /\ Len(queue) \in Nat \ {0}
  BY <1>1 DEF StreamInit
<1>4. queue[1] \in Pieces
  BY <1>2, <1>3, QueueTyped, ElementOfSeq
<1>5. Len(queue[1].bytes) \in Nat \ {0} /\ queue[1].bytes \in Seq(Byte)
  BY <1>4, PieceTyped
<1>6. Buffered(queue, Trailer, 0, <<>>)
  <2>1. SubSeq(queue[1].bytes, 1, 0) = <<>>
    BY <1>5, SubSeqEmpty
  <2>2. 0 \in 0 .. Len(queue[1].bytes) - 1
    BY <1>5
  <2> QED
    BY <1>3, <2>1, <2>2 DEF Buffered, Held
<1>7. frames \in Bodied /\ frames = expected /\ residual \in Verdicts
  BY EmptySeq DEF StreamInit, Bodied, Verdicts
<1> QED
  BY <1>2, <1>6, <1>7 DEF StreamInit, StreamInv

\* Frames and what they are joined with are sequences of bodies.
LEMMA BodiedJoined ==
    ASSUME NEW s \in Bodied, NEW t \in Bodied
    PROVE  s \o t \in Bodied
<1> DEFINE B == Seq(Byte)
<1>1. s \in Seq(B) /\ t \in Seq(B)
  BY DEF Bodied
<1> HIDE DEF B
<1>2. s \o t \in Seq(B)
  BY <1>1
<1> QED
  BY <1>2 DEF Bodied, B

\* A push on a link that cuts where it likes.
LEMMA CutKeeps ==
    ASSUME StreamInv, queue # <<>>, whole = FALSE,
           NEW n \in 1 .. Len(Stream(queue)) - offset, Push(n)
    PROVE  StreamInv'
<1> DEFINE ends == offset + n
           done == Finished(ends)
           x == buffer \o SubSeq(Stream(queue), offset + 1, ends)
<1>1. /\ FromLink /\ Buffered(queue, Trailer, offset, buffer) /\ frames \in Bodied
      /\ expected = frames /\ (channel = "AA14" \/ channel = "AA15")
  BY DEF StreamInv, FromLink
<1>2. queue \in Seq(Pieces) /\ Carries(channel, Trailer, queue)
  BY <1>1, QueueTyped, CarriesIs
<1>3. PICK pos, bodies : Lays(queue, pos, bodies)
  BY <1>2, LaidOut
<1>4. offset \in Nat /\ ends \in Nat /\ offset < ends /\ ends <= Len(Stream(queue))
  <2>1. offset \in Nat
    BY <1>1 DEF Buffered
  <2>2. Len(Stream(queue)) \in Nat
    BY <1>3 DEF Lays
  <2> QED
    BY <2>1, <2>2
<1> HIDE DEF ends, done, x
<1>5. PICK k : /\ Ends(queue, pos, ends, k)
               /\ done = SubSeq(queue, 1, k) /\ Len(done) = k
               /\ Len(Stream(done)) = pos[k] /\ Bodies(done) = bodies[k]
  BY <1>2, <1>3, <1>4, FinishedIs DEF done
<1>6. k \in 0 .. Len(queue) /\ bodies[k] \in Bodied
  <2>1. k \in 0 .. Len(queue)
    BY <1>5 DEF Ends
  <2> QED
    BY <1>3, <2>1 DEF Lays
<1>7. Pushes(channel, Trailer, queue, pos, bodies, offset, buffer, ends, k)
  BY <1>1, <1>2, <1>3, <1>4, <1>5 DEF Pushes
<1> DEFINE left == Left(Trailer, queue, pos, ends, k)
<1>8. /\ channel = "AA14" => Drain(x).frames = bodies[k] /\ Drain(x).rest = left
      /\ channel = "AA15" => /\ DrainFileFrames(x, Trailer).frames = bodies[k]
                             /\ DrainFileFrames(x, Trailer).rest = left
  BY <1>7, PushDrains DEF x
<1>9. /\ Buffered(SubSeq(queue, k + 1, Len(queue)), Trailer, ends - pos[k], left)
      /\ channel = "AA14" => Kept(left) = left /\ Residual(left) \in {"Empty", "PartialFrame"}
  BY <1>2, <1>3, <1>4, <1>5, LeftIsBuffered
<1> HIDE DEF left
<1>10. /\ \/ channel = "AA14" /\ PushControl(SubSeq(Stream(queue), offset + 1, ends))
          \/ channel = "AA15" /\ PushFile(SubSeq(Stream(queue), offset + 1, ends))
       /\ expected' = expected \o bodies[k]
       /\ queue' = SubSeq(queue, k + 1, Len(queue))
       /\ offset' = ends - pos[k]
       /\ channel' = channel /\ whole' = whole
  BY <1>5 DEF Push, ends, done
<1>11. frames' = frames \o bodies[k] /\ buffer' = left /\ residual' \in Verdicts
  <2>1. CASE channel = "AA14"
    <3>1. PushControl(SubSeq(Stream(queue), offset + 1, ends))
      BY <1>10, <2>1
    <3>2. /\ frames' = frames \o Drain(x).frames
          /\ residual' = Residual(Drain(x).rest)
          /\ buffer' = Kept(Drain(x).rest)
      BY <3>1 DEF PushControl, x
    <3> QED
      BY <1>8, <1>9, <2>1, <3>2 DEF Verdicts
  <2>2. CASE channel = "AA15"
    <3>1. PushFile(SubSeq(Stream(queue), offset + 1, ends)) /\ Trailer = FileTrailer
      BY <1>10, <2>2 DEF Trailer
    <3>2. /\ frames' = frames \o DrainFileFrames(x, Trailer).frames
          /\ residual' \in {"Empty", "Desynced"}
          /\ buffer' = DrainFileFrames(x, Trailer).rest
      BY <3>1 DEF PushFile, x
    <3> QED
      BY <1>8, <2>2, <3>2 DEF Verdicts
  <2> QED
    BY <1>1, <2>1, <2>2
<1>12. Trailer' = Trailer /\ Verdicts' = Verdicts
  BY <1>10 DEF Trailer, Verdicts
<1>13. FromLink'
  BY <1>1, <1>6, <1>10, LinkKept
<1>14. frames' \in Bodied /\ expected' = frames'
  BY <1>1, <1>6, <1>10, <1>11, BodiedJoined
<1>15. Buffered(queue', Trailer', offset', buffer')
  BY <1>9, <1>10, <1>11, <1>12
<1>16. ~ whole'
  BY <1>10
<1> QED
  BY <1>11, <1>12, <1>13, <1>14, <1>15, <1>16 DEF StreamInv

\* A push on a link that brings a piece at a time.
LEMMA WholeKeeps ==
    ASSUME StreamInv, queue # <<>>, whole = TRUE,
           NEW n \in 1 .. Len(Stream(queue)) - offset, n = Len(Head(queue).bytes), Push(n)
    PROVE  StreamInv'
<1> DEFINE ends == offset + n
           done == Finished(ends)
           p == queue[1]
           chunk == SubSeq(Stream(queue), offset + 1, ends)
<1>1. /\ FromLink /\ offset = 0 /\ channel = "AA14" /\ queue \in Seq(BrokenPieces)
      /\ Buffered(queue, Trailer, offset, buffer)
      /\ frames \in Bodied /\ expected = frames
  BY DEF StreamInv, FromLink
<1>2. queue \in Seq(Pieces) /\ Len(queue) \in Nat /\ Len(queue) >= 1 /\ p = Head(queue)
  <2>1. queue \in Seq(Pieces)
    BY <1>1, QueueTyped
  <2>2. Len(queue) \in Nat /\ Len(queue) # 0
    BY <2>1, EmptySeq
  <2> QED
    BY <2>1, <2>2
<1>3. p \in BrokenPieces /\ p \in Pieces
  <2>1. 1 \in 1 .. Len(queue)
    BY <1>2
  <2> QED
    BY <1>1, <1>2, <2>1, ElementOfSeq
<1>4. p.bytes \in Seq(Byte) /\ Len(p.bytes) \in Nat \ {0} /\ BodyOn(p) \in Bodied
  BY <1>3, PieceTyped
<1>5. PICK pos, bodies : Lays(queue, pos, bodies)
  BY <1>2, LaidOut
<1>6. ends = Len(p.bytes) /\ n = Len(p.bytes)
  BY <1>1, <1>2, <1>4
<1>7. /\ Stream(queue) \in Seq(Byte) /\ Len(Stream(queue)) \in Nat /\ n <= Len(Stream(queue))
      /\ pos[1] = n /\ bodies[1] = BodyOn(p)
      /\ \A y \in 1 .. n : Stream(queue)[0 + y] = p.bytes[y]
  <2>1. 1 \in 1 .. Len(queue) /\ 1 - 1 = 0
    BY <1>2
  <2>2. /\ Stream(queue) \in Seq(Byte) /\ pos[0] = 0 /\ bodies[0] = <<>>
        /\ pos[1] = pos[1 - 1] + Len(p.bytes) /\ bodies[1] = bodies[1 - 1] \o BodyOn(p)
        /\ \A y \in 1 .. Len(p.bytes) : Stream(queue)[pos[1 - 1] + y] = p.bytes[y]
    BY <1>5, <2>1 DEF Lays
  <2>3. pos[1] = n /\ n \in Nat
    BY <1>4, <1>6, <2>1, <2>2
  <2>4. bodies[1] = BodyOn(p)
    <3> DEFINE B == Seq(Byte)
               b == BodyOn(p)
    <3>1. b \in Seq(B)
      BY <1>4 DEF Bodied
    <3> HIDE DEF B, b
    <3>2. <<>> \o b = b
      BY <3>1, ConcatEmptySeq
    <3> QED
      BY <2>1, <2>2, <3>2 DEF b
  <2>5. Len(Stream(queue)) \in Nat
    BY <2>2
  <2>6. n <= Len(Stream(queue))
    BY <1>1, <2>5
  <2> HIDE DEF p
  <2> QED
    BY <1>6, <2>1, <2>2, <2>3, <2>4, <2>5, <2>6
<1>8. chunk = p.bytes
  <2>1. SubSeq(Stream(queue), 0 + 1, 0 + Len(p.bytes)) = p.bytes
    <3> DEFINE T == Stream(queue)
               b == p.bytes
    <3>1. T \in Seq(Byte) /\ b \in Seq(Byte) /\ 0 + Len(b) <= Len(T)
      BY <1>4, <1>6, <1>7
    <3>2. \A y \in 1 .. Len(b) : T[0 + y] = b[y]
      BY <1>6, <1>7
    <3> HIDE DEF T, b
    <3>3. SubSeq(T, 0 + 1, 0 + Len(b)) = b
      BY <3>1, <3>2, CutIs
    <3> QED
      BY <3>3 DEF T, b
  <2>2. 0 + Len(p.bytes) = ends /\ offset = 0
    BY <1>1, <1>4, <1>6
  <2> HIDE DEF ends
  <2> QED
    BY <2>1, <2>2
<1>9. buffer = <<>>
  <2>1. buffer = Held(p, Trailer, 0)
    BY <1>1 DEF Buffered
  <2>2. SubSeq(p.bytes, 1, 0) = <<>>
    BY <1>4, SubSeqEmpty
  <2> QED
    BY <2>1, <2>2 DEF Held
<1>10. buffer \o chunk = p.bytes
  BY <1>4, <1>8, <1>9, ConcatEmptySeq
<1> HIDE DEF ends, done, chunk, p
<1>11. PICK k : /\ Ends(queue, pos, ends, k)
                /\ done = SubSeq(queue, 1, k) /\ Len(done) = k
                /\ Len(Stream(done)) = pos[k] /\ Bodies(done) = bodies[k]
  <2>1. ends \in Nat /\ ends <= Len(Stream(queue))
    BY <1>4, <1>6, <1>7
  <2> QED
    BY <1>2, <1>5, <2>1, FinishedIs DEF done
<1>12. k = 1
  <2>1. k \in 0 .. Len(queue) /\ pos[k] <= ends /\ (k < Len(queue) => ends < pos[k + 1])
    BY <1>11 DEF Ends
  <2>2. (\A i \in 0 .. Len(queue) : pos[i] \in Nat) /\ pos[1] = ends /\ ends \in Nat
    BY <1>2, <1>4, <1>5, <1>6, <1>7, PiecesStart
  <2>3. ASSUME k = 0 PROVE FALSE
    <3>1. ends < pos[0 + 1] /\ 0 + 1 = 1
      BY <1>2, <2>1, <2>3
    <3> QED
      BY <2>2, <3>1
  <2>4. ASSUME k > 1 PROVE FALSE
    <3>1. 1 \in 0 .. Len(queue) /\ 1 <= k /\ 1 < k
      BY <1>2, <2>1, <2>4
    <3>2. pos[1] < pos[k] /\ pos[k] \in Nat
      BY <1>2, <1>5, <2>1, <2>2, <3>1, InOrder
    <3> QED
      BY <2>1, <2>2, <3>2
  <2> QED
    BY <1>2, <2>1, <2>3, <2>4
<1>13. /\ Drain(p.bytes).frames = BodyOn(p)
       /\ Residual(Drain(p.bytes).rest) \in {"Empty", "Foreign"}
  BY <1>3, BrokenAlone
<1>14. /\ PushControl(chunk)
       /\ expected' = expected \o BodyOn(p)
       /\ queue' = SubSeq(queue, 1 + 1, Len(queue))
       /\ offset' = ends - n
       /\ channel' = channel /\ whole' = whole
  BY <1>1, <1>7, <1>11, <1>12 DEF Push, ends, done, chunk
<1>15. /\ frames' = frames \o BodyOn(p)
       /\ residual' \in {"Empty", "Foreign"}
       /\ buffer' = <<>>
  BY <1>10, <1>13, <1>14 DEF PushControl, Kept
<1>16. FromLink'
  <2>1. 1 \in 0 .. Len(queue)
    BY <1>2
  <2> QED
    BY <1>1, <1>14, <2>1, LinkKept
<1>17. offset' = 0
  BY <1>4, <1>6, <1>14
<1>18. Buffered(queue', Trailer', offset', buffer')
  <2>1. queue' \in Seq(Pieces)
    <3>1. 1 <= Len(queue) /\ Len(queue) <= Len(queue)
      BY <1>2
    <3> QED
      BY <1>2, <1>14, <3>1, Cut
  <2> DEFINE q == queue'
  <2>2. CASE q # <<>>
    <3>1. 1 \in 1 .. Len(q)
      BY <2>1, <2>2, EmptySeq
    <3>2. q[1] \in Pieces
      BY <2>1, <3>1, ElementOfSeq
    <3>3. q[1].bytes \in Seq(Byte) /\ Len(q[1].bytes) \in Nat \ {0}
      BY <3>2, PieceTyped
    <3>4. SubSeq(q[1].bytes, 1, 0) = <<>> /\ 0 \in 0 .. Len(q[1].bytes) - 1
      BY <3>3, SubSeqEmpty
    <3> QED
      BY <1>15, <1>17, <2>2, <3>4 DEF Buffered, Held
  <2>3. CASE q = <<>>
    BY <1>15, <1>17, <2>3 DEF Buffered
  <2> QED
    BY <2>2, <2>3
<1>19. frames' \in Bodied /\ expected' = frames'
  BY <1>1, <1>4, <1>14, <1>15, BodiedJoined
<1>20. residual' \in Verdicts'
  BY <1>1, <1>14, <1>15 DEF Verdicts
<1> QED
  BY <1>16, <1>17, <1>18, <1>19, <1>20 DEF StreamInv

LEMMA ReconnectKeeps == ASSUME StreamInv, Reconnect PROVE StreamInv'
<1>1. /\ FromLink /\ Buffered(queue, Trailer, offset, buffer)
      /\ frames \in Bodied /\ expected = frames
  BY DEF StreamInv
<1>2. /\ offset > 0 /\ queue' = Tail(queue) /\ offset' = 0 /\ buffer' = <<>> /\ residual' = "Empty"
      /\ channel' = channel /\ whole' = whole /\ frames' = frames /\ expected' = expected
  BY DEF Reconnect
<1>3. queue # <<>> /\ queue \in Seq(Pieces)
  BY <1>1, <1>2, QueueTyped DEF Buffered
<1>4. Len(queue) \in Nat /\ Len(queue) >= 1 /\ queue' \in Seq(Pieces)
  BY <1>2, <1>3, EmptySeq, HeadTailProperties
<1>5. FromLink'
  <2>1. ASSUME NEW S, queue \in Seq(S) PROVE queue' \in Seq(S)
    BY <1>2, <1>3, <2>1, HeadTailProperties
  <2> QED
    BY <1>1, <1>2, <2>1 DEF FromLink
<1>6. Buffered(queue', Trailer', offset', buffer')
  <2> DEFINE q == queue'
  <2>2. CASE q # <<>>
    <3>1. 1 \in 1 .. Len(q)
      BY <1>4, <2>2, EmptySeq
    <3>2. q[1] \in Pieces
      BY <1>4, <3>1, ElementOfSeq
    <3>3. q[1].bytes \in Seq(Byte) /\ Len(q[1].bytes) \in Nat \ {0}
      BY <3>2, PieceTyped
    <3>4. SubSeq(q[1].bytes, 1, 0) = <<>> /\ 0 \in 0 .. Len(q[1].bytes) - 1
      BY <3>3, SubSeqEmpty
    <3> QED
      BY <1>2, <2>2, <3>4 DEF Buffered, Held
  <2>3. CASE q = <<>>
    BY <1>2, <2>3 DEF Buffered
  <2> QED
    BY <2>2, <2>3
<1> QED
  BY <1>1, <1>2, <1>5, <1>6 DEF StreamInv, Verdicts

LEMMA StreamStep == StreamInv /\ [StreamNext]_streamVars => StreamInv'
<1> SUFFICES ASSUME StreamInv, [StreamNext]_streamVars PROVE StreamInv'
  OBVIOUS
<1>1. ASSUME Notify PROVE StreamInv'
  <2>1. queue # <<>> /\ \E n \in 1 .. Len(Stream(queue)) - offset :
            (whole => n = Len(Head(queue).bytes)) /\ Push(n)
    BY <1>1 DEF Notify
  <2>2. PICK n \in 1 .. Len(Stream(queue)) - offset :
            (whole => n = Len(Head(queue).bytes)) /\ Push(n)
    BY <2>1
  <2>3. whole = TRUE \/ whole = FALSE
    BY DEF StreamInv, FromLink
  <2> QED
    BY <2>1, <2>2, <2>3, CutKeeps, WholeKeeps
<1>2. ASSUME UNCHANGED streamVars PROVE StreamInv'
  BY <1>2 DEF streamVars, StreamInv, FromLink, Trailer, Verdicts
<1> QED
  BY <1>1, <1>2, ReconnectKeeps DEF StreamNext, Delivered

\* Whatever the link does, the buffer holds the frame under way and nothing else.
THEOREM StreamInvariant == StreamSpec => []StreamInv
  BY StartsInv, StreamStep, PTL DEF StreamSpec

\* EveryFrameOnce: for every set of frames, damaged frames, broken headers and junk,
\* every queue of them, however long, every alphabet of bytes and every cut of the
\* stream, push() hands out each undamaged frame once, in order, in the push that
\* completes it, and nothing that was not sent.
THEOREM FramesComeOnce == StreamSpec => []EveryFrameOnce
<1>1. StreamInv => EveryFrameOnce
  BY DEF StreamInv, EveryFrameOnce
<1> QED
  BY <1>1, StreamInvariant, PTL

\* StreamTypeOK: of push_detailed's four verdicts "Overflowed" never is the answer.
THEOREM NeverOverflows == StreamSpec => []StreamTypeOK
<1>1. StreamInv => StreamTypeOK
  <2> SUFFICES ASSUME StreamInv PROVE StreamTypeOK
    OBVIOUS
  <2>1. queue \in Seq(Pieces)
    BY QueueTyped DEF StreamInv
  <2>2. offset \in Nat /\ buffer \in Seq(Byte)
    <3>1. CASE queue = <<>>
      BY <3>1, EmptySeq DEF StreamInv, Buffered
    <3>2. CASE queue # <<>>
      <4>1. queue[1] \in Pieces
        BY <2>1, <3>2, EmptySeq, ElementOfSeq
      <4>2. queue[1].bytes \in Seq(Byte) /\ Len(queue[1].bytes) \in Nat \ {0}
        BY <4>1, PieceTyped
      <4>3. offset \in 0 .. Len(queue[1].bytes) - 1 /\ buffer = Held(queue[1], Trailer, offset)
        BY <3>2 DEF StreamInv, Buffered
      <4> DEFINE b == queue[1].bytes
      <4>4. offset \in Nat /\ 0 <= offset /\ offset <= Len(b) /\ 0 + 1 = 1
        BY <4>2, <4>3
      <4>5. SubSeq(b, 0 + 1, offset) \in Seq(Byte)
        <5> HIDE DEF b
        <5> QED
          BY <4>2, <4>4, Cut DEF b
      <4> QED
        BY <4>3, <4>4, <4>5, EmptySeq DEF Held
    <3> QED
      BY <3>1, <3>2
  <2> QED
    BY <2>1, <2>2 DEF StreamInv, StreamTypeOK, Pieces, Verdicts, Bodied
<1> QED
  BY <1>1, StreamInvariant, PTL
=============================================================================
