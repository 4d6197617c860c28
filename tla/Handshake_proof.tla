---------------------------- MODULE Handshake_proof ----------------------------
(***************************************************************************)
(* For every list of reads, every burst and every channel.  A device whose *)
(* record duration the crate refuses to believe costs a handshake its      *)
(* whole budget, however fast it answers.  The end of the link is never    *)
(* lost to a full channel: the Disconnected the pump sends last stays the  *)
(* newest event (DropIsNews) until the call receives it, and only a call   *)
(* that ended before its turn came returns without it.  And a field that   *)
(* is missing from an Ok has its cause: at any time the reply that fills   *)
(* it is somewhere, or was lost, overwritten or refused (AllAccounted).    *)
(***************************************************************************)
EXTENDS Handshake, SequenceTheorems, TLAPS

\* The refused duration is never among the fields, and an Ok without it is late.
RefusalInv ==
    /\ ~ believable => "RecordSeconds" \notin got
    /\ RefusalCostsTheBudget

ReportsDuration == "RecordSeconds" \in ToSet(Burst)

-----------------------------------------------------------------------------
LEMMA InitInv == Init => RefusalInv
  BY DEF Init, RefusalInv, RefusalCostsTheBudget

\* Without the duration no collection of fields is complete.
LEMMA NeverComplete ==
    ASSUME ReportsDuration, NEW fields, "RecordSeconds" \notin fields
    PROVE  ~ IsComplete(fields)
  BY DEF ReportsDuration, IsComplete, Fields

\* A turn that is not complete ends the call at the deadline only.
LEMMA TurnInv ==
    ASSUME RefusalInv, NEW complete, NextTurn(complete), phase = "collecting",
           UNCHANGED believable,
           ~ believable => ~ complete /\ "RecordSeconds" \notin got'
    PROVE  RefusalInv'
  BY DEF RefusalInv, RefusalCostsTheBudget, NextTurn

\* A step that ends no call and collects nothing.
LEMMA OtherInv ==
    ASSUME RefusalInv, UNCHANGED <<believable, got>>,
           phase' # "ok" \/ UNCHANGED <<phase, timer>>
    PROVE  RefusalInv'
  BY DEF RefusalInv, RefusalCostsTheBudget

LEMMA ReceiveInv == ReportsDuration /\ RefusalInv /\ Receive => RefusalInv'
  <1> SUFFICES ASSUME ReportsDuration, RefusalInv, Receive PROVE RefusalInv'
    OBVIOUS
  <1> DEFINE event == Head(inbox)
  <1>1. phase = "collecting" /\ UNCHANGED believable /\ Take(event)
    BY DEF Receive, device
  <1>2. CASE event.kind = "Reply" /\ Ingest(event.name) /\ NextTurn(IsComplete(got'))
    <2>1. ~ believable => "RecordSeconds" \notin got'
      BY <1>1, <1>2 DEF Ingest, RefusalInv
    <2>2. ~ believable => ~ IsComplete(got')
      BY <2>1, NeverComplete
    <2> QED
      BY <1>1, <1>2, <2>1, <2>2, TurnInv
  <1>3. CASE phase' = "disconnected" /\ UNCHANGED <<timer, got>>
    BY <1>1, <1>3, OtherInv
  <1>4. CASE NextTurn(IsComplete(got)) /\ UNCHANGED got
    <2>1. ~ believable => "RecordSeconds" \notin got' /\ ~ IsComplete(got)
      BY <1>4, NeverComplete DEF RefusalInv
    <2> QED
      BY <1>1, <1>4, <2>1, TurnInv
  <1> QED
    BY <1>1, <1>2, <1>3, <1>4 DEF Take

-----------------------------------------------------------------------------
\* The invariant is inductive.
LEMMA NextInv == ReportsDuration /\ RefusalInv /\ [Next]_vars => RefusalInv'
  <1> SUFFICES ASSUME ReportsDuration, RefusalInv, [Next]_vars PROVE RefusalInv'
    OBVIOUS
  <1>1. CASE UNCHANGED vars
    BY <1>1, OtherInv DEF vars, device
  <1>2. CASE DeviceReplies \/ LoseReply \/ DevicePushes \/ LinkDrops
    <2>1. UNCHANGED <<believable, got, phase, timer>>
      BY <1>2 DEF DeviceReplies, LoseReply, DevicePushes, LinkDrops, device
    <2> QED
      BY <2>1, OtherInv
  <1>3. CASE Call
    BY <1>3, OtherInv DEF Call, device
  <1>4. CASE WriteRead
    BY <1>4, OtherInv DEF WriteRead
  <1>5. CASE WriteFails
    BY <1>5, OtherInv DEF WriteFails
  <1>6. CASE ReceiveLagged
    <2>1. NextTurn(FALSE) /\ phase = "collecting" /\ UNCHANGED <<believable, got>>
      BY <1>6 DEF ReceiveLagged, device
    <2> QED
      BY <2>1, TurnInv DEF RefusalInv
  <1>7. CASE Receive
    BY <1>7, ReceiveInv
  <1>8. CASE Expire
    BY <1>8 DEF Expire, device, RefusalInv, RefusalCostsTheBudget
  <1>9. CASE Tick
    BY <1>9, OtherInv DEF Tick, device
  <1> QED
    BY <1>1, <1>2, <1>3, <1>4, <1>5, <1>6, <1>7, <1>8, <1>9 DEF Next, ClientStep

\* A handshake with a device whose record duration is out of range never ends with
\* an Ok before its deadline: SwitchStates::ingest leaves the field None and
\* Handshake::is_complete asks for it.
THEOREM RefusalIsSlow ==
    ASSUME ReportsDuration
    PROVE  Spec => []RefusalCostsTheBudget
  <1>1. RefusalInv /\ [Next]_vars => RefusalInv'
    BY NextInv
  <1>2. RefusalInv => RefusalCostsTheBudget
    BY DEF RefusalInv
  <1> QED
    BY <1>1, <1>2, InitInv, PTL DEF Spec
-----------------------------------------------------------------------------
\* What a full channel loses to the next event.
Gone == IF Len(inbox) = EventBuffer THEN 1 ELSE 0

LEMMA SendOne ==
    ASSUME NEW S, inbox \in Seq(S), Len(inbox) <= EventBuffer,
           NEW event \in S, Publish(TRUE, <<event>>)
    PROVE  /\ inbox' \in Seq(S)
           /\ Len(inbox') = Len(inbox) + 1 - Gone /\ Len(inbox') <= EventBuffer
           /\ inbox' # <<>> /\ inbox'[Len(inbox')] = event
           /\ \A i \in 1 .. Len(inbox) - Gone : inbox'[i] = inbox[i + Gone]
  <1> DEFINE all == inbox \o <<event>>
  <1>1. /\ all \in Seq(S) /\ Len(all) = Len(inbox) + 1 /\ Len(inbox) \in Nat
        /\ \A i \in 1 .. Len(inbox) : all[i] = inbox[i]
        /\ all[Len(inbox) + 1] = event
    <2>1. <<event>> \in Seq(S) /\ Len(<<event>>) = 1 /\ <<event>>[1] = event
      OBVIOUS
    <2>2. Len(inbox) \in Nat
      BY LenProperties
    <2> QED
      BY <2>1, <2>2, ConcatProperties
  <1> HIDE DEF all
  <1>2. inbox' = SubSeq(all, Gone + 1, Len(all))
    <2> DEFINE excess == IF Len(all) > EventBuffer THEN Len(all) - EventBuffer ELSE 0
    <2>1. inbox' = SubSeq(all, excess + 1, Len(all))
      BY DEF Publish, all
    <2>2. excess = Gone
      BY <1>1, ChannelAssumption DEF Gone
    <2> QED
      BY <2>1, <2>2
  <1>9. Gone \in {0, 1}
    BY DEF Gone
  <1>3. \A i \in Gone + 1 .. Len(all) : all[i] \in S
    BY <1>1, <1>9, ElementOfSeq
  <1>4. /\ inbox' \in Seq(S)
        /\ Len(inbox') = Len(all) - Gone
        /\ \A i \in 1 .. Len(all) - Gone : inbox'[i] = all[Gone + i]
    BY <1>9, <1>1, <1>2, <1>3, SubSeqProperties
  <1>5. Len(inbox') >= 1 /\ Len(inbox') <= EventBuffer
    BY <1>9, <1>1, <1>2, <1>4, ChannelAssumption DEF Gone
  <1>6. inbox' # <<>> /\ inbox'[Len(inbox')] = event
    <2>1. Len(inbox') \in 1 .. Len(all) - Gone /\ Gone + Len(inbox') = Len(inbox) + 1
      BY <1>9, <1>1, <1>4, <1>5
    <2>2. inbox'[Len(inbox')] = all[Gone + Len(inbox')]
      BY <2>1, <1>4
    <2>3. inbox' # <<>>
      BY <1>5, <1>4, EmptySeq
    <2> QED
      BY <2>1, <2>2, <2>3, <1>1
  <1>7. \A i \in 1 .. Len(inbox) - Gone : inbox'[i] = inbox[i + Gone]
    BY <1>9, <1>1, <1>2, <1>4
  <1> QED
    BY <1>1, <1>4, <1>5, <1>6, <1>7, <1>9

\* The names of replies: those the reads ask for, and what the device pushes unasked.
Word == STRING \cup {"Battery"}

\* What the channel carries.
Events == {Other, Disconnected} \cup {Reply(name) : name \in Word}

\* What the channel and the device's queue hold, and how far the writing is.
Shape ==
    /\ inbox \in Seq(Events) /\ Len(inbox) <= EventBuffer
    /\ asked \in Seq(Word)
    /\ written \in 0 .. Len(Reads)
    /\ phase = "idle" => written = 0
    /\ phase = "writing" => written < Len(Reads)
    /\ phase = "collecting" => written = Len(Reads)

\* The pump's last words are the newest event, and stay the newest: nothing is sent
\* on a dead link, and a handshake whose link died while it wrote never collects.
DropIsNews ==
    phase = "collecting" /\ ~ link => inbox # <<>> /\ inbox[Len(inbox)] = Disconnected

\* Where the reply that fills a field can be.
Whereabouts == got \cup lost \cup overrun \cup ToSet(asked) \cup Names(inbox)
Accounted(f) == f \in Whereabouts \/ (f = "RecordSeconds" /\ ~ believable)

\* Every field that a read written so far asked for.
AllAccounted ==
    \A f \in Fields : (\E k \in 1 .. written : f \in ToSet(Replies(Reads[k]))) => Accounted(f)

ReplyInv == Shape /\ DropIsNews /\ (Listening => AllAccounted)

\* What nobody asked for and what the pump says last are events, too.
LEMMA PushesAreEvents == {Other, Reply("Battery"), Disconnected} \subseteq Events
  <1>1. \A name \in Word : Reply(name) \in Events
    BY DEF Events
  <1>2. "Battery" \in Word
    BY DEF Word
  <1>3. Reply("Battery") \in Events
    BY <1>1, <1>2
  <1> QED
    BY <1>3 DEF Events

\* What Send does for whoever listens.
LEMMA SendKeeps ==
    ASSUME Shape, Listening, NEW event \in Events, Send(event)
    PROVE  /\ inbox' \in Seq(Events) /\ Len(inbox') <= EventBuffer
           /\ inbox' # <<>> /\ inbox'[Len(inbox')] = event
           /\ overrun \cup Names(inbox) \subseteq overrun' \cup Names(inbox')
           /\ event.kind = "Reply" => event.name \in Names(inbox')
  <1>1. /\ inbox' \in Seq(Events)
        /\ Len(inbox') = Len(inbox) + 1 - Gone /\ Len(inbox') <= EventBuffer
        /\ inbox' # <<>> /\ inbox'[Len(inbox')] = event
        /\ \A i \in 1 .. Len(inbox) - Gone : inbox'[i] = inbox[i + Gone]
    <2>1. Publish(TRUE, <<event>>)
      BY DEF Send
    <2> QED
      BY <2>1, SendOne DEF Shape
  <1>2. /\ DOMAIN inbox = 1 .. Len(inbox) /\ DOMAIN inbox' = 1 .. Len(inbox')
        /\ Len(inbox) \in Nat /\ Len(inbox') \in Nat \ {0} /\ Gone \in {0, 1}
    BY <1>1, LenProperties, EmptySeq DEF Shape, Gone
  <1>3. event.kind = "Reply" => event.name \in Names(inbox')
    BY <1>1, <1>2 DEF Names
  <1>4. ASSUME NEW f \in Names(inbox), f \notin overrun'
        PROVE  f \in Names(inbox')
    <2>1. PICK i \in 1 .. Len(inbox) : inbox[i].kind = "Reply" /\ inbox[i].name = f
      BY <1>2 DEF Names
    <2>2. CASE i > Gone
      <3>1. i - Gone \in DOMAIN inbox' /\ inbox'[i - Gone] = inbox[i]
        BY <1>1, <1>2, <2>2
      <3> QED
        BY <2>1, <3>1 DEF Names
    <2>3. CASE i = 1 /\ Gone = 1
      <3>1. Len(inbox) = EventBuffer /\ overrun' = overrun \cup Names(<<Head(inbox)>>)
        BY <2>3 DEF Gone, Send
      <3>2. Head(inbox) = inbox[1]
        BY <2>1
      <3>3. f \in Names(<<inbox[1]>>)
        BY <2>1, <2>3 DEF Names
      <3> QED
        BY <3>1, <3>2, <3>3, <1>4
    <2> QED
      BY <1>2, <2>2, <2>3
  <1>5. overrun \subseteq overrun'
    BY DEF Send
  <1> QED
    BY <1>1, <1>3, <1>4, <1>5

\* What is not sent, or sent to no one, leaves the channel to whoever subscribes next.
LEMMA SendToNoOne ==
    ASSUME Shape, ~ Listening, NEW event, Send(event)
    PROVE  UNCHANGED <<inbox, overrun>>
  BY DEF Send, Publish, channel

\* The oldest event and the rest.
LEMMA OldestAndRest ==
    ASSUME NEW s \in Seq(Events), s # <<>>
    PROVE  /\ Head(s) \in Events /\ Head(s) = s[1]
           /\ Tail(s) \in Seq(Events) /\ Len(Tail(s)) = Len(s) - 1
           /\ Len(s) > 1 => Tail(s) # <<>> /\ Tail(s)[Len(Tail(s))] = s[Len(s)]
           /\ \A f \in Names(s) \ Names(Tail(s)) : Head(s).kind = "Reply" /\ Head(s).name = f
  <1>1. /\ Head(s) \in Events /\ Head(s) = s[1]
        /\ Tail(s) \in Seq(Events) /\ Len(Tail(s)) = Len(s) - 1
        /\ \A i \in 1 .. Len(Tail(s)) : Tail(s)[i] = s[i + 1]
    BY HeadTailProperties
  <1>2. /\ DOMAIN s = 1 .. Len(s) /\ DOMAIN Tail(s) = 1 .. Len(s) - 1
        /\ Len(s) \in Nat \ {0}
    BY <1>1, LenProperties, EmptySeq
  <1>3. Len(s) > 1 => Tail(s) # <<>> /\ Tail(s)[Len(Tail(s))] = s[Len(s)]
    <2> SUFFICES ASSUME Len(s) > 1
                 PROVE  Tail(s) # <<>> /\ Tail(s)[Len(Tail(s))] = s[Len(s)]
      OBVIOUS
    <2>1. Len(Tail(s)) \in 1 .. Len(Tail(s)) /\ Len(Tail(s)) + 1 = Len(s)
      BY <1>1, <1>2
    <2>2. Tail(s) # <<>>
      <3>1. Len(<<>>) = 0
        OBVIOUS
      <3> QED
        BY <1>1, <1>2, <3>1
    <2>3. Tail(s)[Len(Tail(s))] = s[Len(Tail(s)) + 1]
      BY <1>1, <2>1
    <2> QED
      BY <2>1, <2>2, <2>3
  <1>4. ASSUME NEW f \in Names(s), f \notin Names(Tail(s))
        PROVE  Head(s).kind = "Reply" /\ Head(s).name = f
    <2>1. PICK i \in 1 .. Len(s) : s[i].kind = "Reply" /\ s[i].name = f
      BY <1>2 DEF Names
    <2>2. CASE i = 1
      BY <1>1, <2>1, <2>2
    <2>3. CASE i > 1
      <3>1. i - 1 \in DOMAIN Tail(s) /\ Tail(s)[i - 1] = s[i]
        BY <1>1, <1>2, <2>3
      <3> QED
        BY <2>1, <3>1, <1>4 DEF Names
    <2> QED
      BY <2>2, <2>3
  <1> QED
    BY <1>1, <1>3, <1>4

\* The next reply the device owes and the others.
LEMMA NextReply ==
    ASSUME Shape, asked # <<>>
    PROVE  /\ Head(asked) \in Word /\ Tail(asked) \in Seq(Word)
           /\ Reply(Head(asked)) \in Events
           /\ ToSet(asked) \subseteq ToSet(Tail(asked)) \cup {Head(asked)}
  <1>1. /\ Head(asked) \in Word /\ Head(asked) = asked[1]
        /\ Tail(asked) \in Seq(Word) /\ Len(Tail(asked)) = Len(asked) - 1
        /\ \A i \in 1 .. Len(Tail(asked)) : Tail(asked)[i] = asked[i + 1]
    BY HeadTailProperties DEF Shape
  <1>2. ASSUME NEW i \in DOMAIN asked PROVE asked[i] \in ToSet(Tail(asked)) \cup {Head(asked)}
    <2>1. DOMAIN asked = 1 .. Len(asked) /\ Len(asked) \in Nat
      BY LenProperties DEF Shape
    <2>2. CASE i > 1
      <3>1. i - 1 \in DOMAIN Tail(asked) /\ Tail(asked)[i - 1] = asked[i]
        BY <1>1, <2>1, <2>2, LenProperties
      <3> QED
        BY <3>1 DEF ToSet
    <2> QED
      BY <1>1, <2>1, <2>2
  <1> QED
    BY <1>1, <1>2 DEF ToSet, Events

\* The replies to a read, and the queue they join.
LEMMA RepliesJoin ==
    ASSUME Shape, NEW k \in 1 .. Len(Reads)
    PROVE  /\ asked \o Replies(Reads[k]) \in Seq(Word)
           /\ ToSet(asked \o Replies(Reads[k])) = ToSet(asked) \cup ToSet(Replies(Reads[k]))
  <1> DEFINE more == Replies(Reads[k])
  <1>1. more \in Seq(Word)
    <2>1. Reads[k] \in Word
      BY HandshakeAssumption, ElementOfSeq DEF Word
    <2>2. <<Reads[k]>> \in Seq(Word)
      BY <2>1
    <2>3. Burst \in Seq(Word)
      BY HandshakeAssumption, SeqMonotonic DEF Word
    <2> QED
      BY <2>2, <2>3 DEF Replies
  <1> HIDE DEF more
  <1>2. /\ asked \o more \in Seq(Word)
        /\ Len(asked \o more) = Len(asked) + Len(more)
        /\ \A i \in 1 .. Len(asked) + Len(more) :
              (asked \o more)[i] = IF i <= Len(asked) THEN asked[i] ELSE more[i - Len(asked)]
    BY <1>1, ConcatProperties DEF Shape
  <1>3. /\ DOMAIN asked = 1 .. Len(asked) /\ Len(asked) \in Nat
        /\ DOMAIN more = 1 .. Len(more) /\ Len(more) \in Nat
        /\ DOMAIN (asked \o more) = 1 .. Len(asked) + Len(more)
    BY <1>1, <1>2, LenProperties DEF Shape
  <1>4. ToSet(asked \o more) \subseteq ToSet(asked) \cup ToSet(more)
    BY <1>2, <1>3 DEF ToSet
  <1>5. ToSet(asked) \subseteq ToSet(asked \o more)
    BY <1>2, <1>3 DEF ToSet
  <1>6. ASSUME NEW i \in DOMAIN more PROVE more[i] \in ToSet(asked \o more)
    <2>1. /\ Len(asked) + i \in DOMAIN (asked \o more)
          /\ (asked \o more)[Len(asked) + i] = more[i]
      BY <1>2, <1>3
    <2> QED
      BY <2>1 DEF ToSet
  <1>7. ToSet(more) \subseteq ToSet(asked \o more)
    BY <1>6 DEF ToSet
  <1> QED
    BY <1>2, <1>4, <1>5, <1>7 DEF more

-----------------------------------------------------------------------------
\* A step that writes no read has only to keep what was accounted for.
LEMMA KeepsAccount ==
    ASSUME AllAccounted, UNCHANGED <<written, believable>>,
           \A f \in Fields \cap Whereabouts :
               f \in Whereabouts' \/ (f = "RecordSeconds" /\ ~ believable)
    PROVE  AllAccounted'
  BY DEF AllAccounted, Accounted

\* The world's steps: a reply moves from the device to the channel or is lost, and
\* what a full channel overwrites is noted.
LEMMA WorldAccounts ==
    ASSUME ReplyInv, Listening, DeviceReplies \/ LoseReply \/ DevicePushes \/ LinkDrops
    PROVE  AllAccounted'
  <1>1. Shape /\ AllAccounted
    BY DEF ReplyInv
  <1>2. CASE DeviceReplies
    <2>1. /\ Reply(Head(asked)) \in Events
          /\ ToSet(asked) \subseteq ToSet(asked') \cup {Head(asked)}
      BY <1>1, <1>2, NextReply DEF DeviceReplies
    <2>2. /\ overrun \cup Names(inbox) \subseteq overrun' \cup Names(inbox')
          /\ Head(asked) \in Names(inbox')
      BY <1>1, <1>2, <2>1, SendKeeps DEF DeviceReplies, Reply
    <2>3. Whereabouts \subseteq Whereabouts'
      BY <1>2, <2>1, <2>2 DEF DeviceReplies, Whereabouts
    <2> QED
      BY <1>1, <1>2, <2>3, KeepsAccount DEF DeviceReplies
  <1>3. CASE LoseReply
    <2>1. ToSet(asked) \subseteq ToSet(asked') \cup {Head(asked)}
      BY <1>1, <1>3, NextReply DEF LoseReply
    <2>2. Whereabouts \subseteq Whereabouts'
      BY <1>3, <2>1 DEF LoseReply, channel, Whereabouts
    <2> QED
      BY <1>1, <1>3, <2>2, KeepsAccount DEF LoseReply
  <1>4. CASE DevicePushes \/ LinkDrops
    <2>1. PICK event \in {Other, Reply("Battery"), Disconnected} : Send(event)
      BY <1>4 DEF DevicePushes, LinkDrops
    <2>2. overrun \cup Names(inbox) \subseteq overrun' \cup Names(inbox')
      BY <1>1, <2>1, SendKeeps, PushesAreEvents
    <2>3. UNCHANGED <<got, lost, asked, written, believable>>
      BY <1>4 DEF DevicePushes, LinkDrops, device
    <2>4. Whereabouts \subseteq Whereabouts'
      BY <2>2, <2>3 DEF Whereabouts
    <2> QED
      BY <1>1, <2>3, <2>4, KeepsAccount
  <1> QED
    BY <1>2, <1>3, <1>4

\* A read that is written is owed its replies.
LEMMA WriteAccounts ==
    ASSUME ReplyInv, WriteRead
    PROVE  AllAccounted'
  <1>1. Shape /\ AllAccounted /\ phase = "writing"
    BY DEF ReplyInv, WriteRead, Listening
  <1>2. written' = written + 1 /\ written' \in 1 .. Len(Reads) /\ written \in Nat
    BY <1>1 DEF WriteRead, Shape
  <1>3. ToSet(asked') = ToSet(asked) \cup ToSet(Replies(Reads[written']))
    BY <1>1, <1>2, RepliesJoin DEF WriteRead
  <1>4. UNCHANGED <<got, lost, overrun, believable, inbox>>
    BY DEF WriteRead, channel
  <1>5. ASSUME NEW f \in Fields, NEW k \in 1 .. written', f \in ToSet(Replies(Reads[k]))
        PROVE  Accounted(f)'
    <2>1. CASE k = written'
      BY <1>3, <1>5, <2>1 DEF Accounted, Whereabouts
    <2>2. CASE k \in 1 .. written
      <3>1. Accounted(f)
        BY <1>1, <1>5, <2>2 DEF AllAccounted
      <3> QED
        BY <1>3, <1>4, <3>1 DEF Accounted, Whereabouts
    <2> QED
      BY <1>2, <2>1, <2>2
  <1> QED
    BY <1>5 DEF AllAccounted

\* A reply that is received fills its field, unless it is the duration that is refused.
LEMMA ReceiveAccounts ==
    ASSUME ReplyInv, Receive
    PROVE  AllAccounted'
  <1>1. Shape /\ AllAccounted /\ Take(Head(inbox)) /\ inbox # <<>> /\ inbox' = Tail(inbox)
    BY DEF ReplyInv, Receive, Listening, RecvEvent
  <1>2. UNCHANGED <<lost, overrun, asked, written, believable>>
    BY DEF Receive, device
  <1>3. \A f \in Names(inbox) \ Names(inbox') :
            Head(inbox).kind = "Reply" /\ Head(inbox).name = f
    BY <1>1, OldestAndRest DEF Shape
  <1>4. got \subseteq got'
    BY <1>1 DEF Take, Ingest
  <1>5. ASSUME NEW f \in Fields \cap Whereabouts
        PROVE  f \in Whereabouts' \/ (f = "RecordSeconds" /\ ~ believable)
    <2>1. CASE f \in Names(inbox) \ Names(inbox')
      <3>1. Ingest(f)
        BY <1>1, <1>3, <2>1 DEF Take
      <3> QED
        BY <3>1 DEF Ingest, Whereabouts
    <2>2. CASE f \notin Names(inbox) \ Names(inbox')
      BY <1>2, <1>4, <2>2 DEF Whereabouts
    <2> QED
      BY <2>1, <2>2
  <1> QED
    BY <1>1, <1>2, <1>5, KeepsAccount

\* While the call listens, every step but a failing write keeps the account.
LEMMA NextAccounts ==
    ASSUME ReplyInv, [Next]_vars, Listening, phase' # "failed"
    PROVE  AllAccounted'
  <1>1. AllAccounted
    BY DEF ReplyInv
  <1>2. CASE UNCHANGED vars \/ ReceiveLagged \/ Expire \/ Tick
    <2>1. UNCHANGED <<got, lost, overrun, asked, inbox, written, believable>>
      BY <1>2 DEF vars, device, channel, ReceiveLagged, RecvLagged, Expire, Tick
    <2> QED
      BY <1>1, <2>1 DEF AllAccounted, Accounted, Whereabouts
  <1>3. CASE WriteFails
    BY <1>3 DEF WriteFails
  <1>4. CASE Call
    BY <1>4 DEF Call, Listening
  <1> QED
    BY <1>2, <1>3, <1>4, WorldAccounts, WriteAccounts, ReceiveAccounts DEF Next, ClientStep

-----------------------------------------------------------------------------
LEMMA InitReplyInv == Init => ReplyInv
  <1> SUFFICES ASSUME Init PROVE ReplyInv
    OBVIOUS
  <1>1. Len(Reads) \in Nat
    BY HandshakeAssumption, LenProperties
  <1> QED
    BY <1>1, ChannelAssumption DEF Init, ReplyInv, Shape, DropIsNews, Listening

\* What is published is typed, and the pump's last words are its newest.
LEMMA SendShape ==
    ASSUME Shape, DropIsNews, NEW event \in Events, Send(event),
           asked' \in Seq(Word), UNCHANGED <<phase, written>>,
           link /\ (link' \/ event = Disconnected)
    PROVE  Shape' /\ DropIsNews'
  <1>1. CASE Listening
    BY <1>1, SendKeeps DEF Shape, DropIsNews
  <1>2. CASE ~ Listening
    BY <1>2, SendToNoOne DEF Shape, DropIsNews, Listening
  <1> QED
    BY <1>1, <1>2

LEMMA WorldShape ==
    ASSUME ReplyInv, DeviceReplies \/ LoseReply \/ DevicePushes \/ LinkDrops
    PROVE  Shape' /\ DropIsNews'
  <1>1. Shape /\ DropIsNews
    BY DEF ReplyInv
  <1>2. CASE DeviceReplies
    BY <1>1, <1>2, NextReply, SendShape DEF DeviceReplies
  <1>3. CASE LoseReply
    BY <1>1, <1>3, NextReply DEF LoseReply, channel, Shape, DropIsNews
  <1>4. CASE DevicePushes
    <2>1. PICK event \in {Other, Reply("Battery")} : Send(event)
      BY <1>4 DEF DevicePushes
    <2>2. event \in Events
      BY PushesAreEvents
    <2> QED
      BY <1>1, <1>4, <2>1, <2>2, SendShape DEF DevicePushes, Shape
  <1>5. CASE LinkDrops
    <2>1. Disconnected \in Events
      BY PushesAreEvents
    <2> QED
      BY <1>1, <1>5, <2>1, SendShape DEF LinkDrops, device, Shape
  <1> QED
    BY <1>2, <1>3, <1>4, <1>5

LEMMA WriteShape ==
    ASSUME ReplyInv, WriteRead \/ WriteFails
    PROVE  Shape' /\ DropIsNews'
  <1>1. Shape /\ written + 1 \in 1 .. Len(Reads) /\ Len(Reads) \in Nat
    BY HandshakeAssumption, LenProperties DEF ReplyInv, WriteRead, WriteFails, Shape
  <1>2. asked' \in Seq(Word)
    BY <1>1, RepliesJoin DEF WriteRead, WriteFails, Shape
  <1>3. UNCHANGED <<inbox, link>> /\ written' \in {written, written + 1}
    BY DEF WriteRead, WriteFails, channel
  <1>4. CASE WriteRead
    BY <1>1, <1>2, <1>3, <1>4 DEF WriteRead, Shape, DropIsNews
  <1>5. CASE WriteFails
    BY <1>1, <1>2, <1>3, <1>5 DEF WriteFails, Shape, DropIsNews
  <1> QED
    BY <1>4, <1>5

\* A turn leaves the newest event where it is, unless it takes it: the pump's last
\* words are received by the turn that ends the call with them.
LEMMA ReceiveLeavesLast ==
    ASSUME Shape, DropIsNews, Receive
    PROVE  /\ inbox' \in Seq(Events) /\ Len(inbox') = Len(inbox) - 1
           /\ phase' \in {"collecting", "ok", "disconnected"}
           /\ ~ link /\ phase' # "disconnected" =>
                inbox' # <<>> /\ inbox'[Len(inbox')] = Disconnected
  <1>1. /\ phase = "collecting" /\ Take(Head(inbox))
        /\ inbox # <<>> /\ inbox' = Tail(inbox)
    BY DEF Receive, RecvEvent
  <1>2. /\ Head(inbox) = inbox[1]
        /\ inbox' \in Seq(Events) /\ Len(inbox') = Len(inbox) - 1
        /\ Len(inbox) > 1 => inbox' # <<>> /\ inbox'[Len(inbox')] = inbox[Len(inbox)]
    BY <1>1, OldestAndRest DEF Shape
  <1>3. phase' \in {"collecting", "ok", "disconnected"}
    BY <1>1 DEF Take, NextTurn
  <1>4. Len(inbox) \in Nat /\ Len(inbox) > 0
    BY <1>1, EmptySeq DEF Shape
  <1>5. ASSUME ~ link, phase' # "disconnected"
        PROVE  inbox' # <<>> /\ inbox'[Len(inbox')] = Disconnected
    <2>1. inbox[Len(inbox)] = Disconnected
      BY <1>1, <1>5 DEF DropIsNews
    <2>2. Head(inbox).kind # "Disconnected"
      BY <1>1, <1>5 DEF Take
    <2>3. Len(inbox) # 1
      BY <1>2, <2>1, <2>2 DEF Disconnected
    <2> DEFINE n == Len(inbox)
    <2>4. n > 1
      <3>1. n \in Nat /\ n > 0 /\ n # 1
        BY <1>4, <2>3
      <3> HIDE DEF n
      <3> QED
        BY <3>1
    <2> QED
      BY <1>2, <2>1, <2>4
  <1> QED
    BY <1>2, <1>3, <1>5

LEMMA ReceiveShape ==
    ASSUME ReplyInv, Receive
    PROVE  Shape' /\ DropIsNews'
  <1>1. Shape /\ DropIsNews /\ phase = "collecting" /\ UNCHANGED <<link, written, asked>>
    BY DEF ReplyInv, Receive, device
  <1>2. /\ inbox' \in Seq(Events) /\ Len(inbox') = Len(inbox) - 1
        /\ phase' \in {"collecting", "ok", "disconnected"}
        /\ ~ link /\ phase' # "disconnected" =>
              inbox' # <<>> /\ inbox'[Len(inbox')] = Disconnected
    BY <1>1, ReceiveLeavesLast
  <1>3. Len(inbox) \in Nat
    BY <1>1, LenProperties DEF Shape
  <1>4. Shape'
    BY <1>1, <1>2, <1>3, ChannelAssumption DEF Shape
  <1>5. DropIsNews'
    BY <1>1, <1>2 DEF DropIsNews
  <1> QED
    BY <1>4, <1>5

\* The invariant is inductive.
LEMMA NextReplyInv == ReplyInv /\ [Next]_vars => ReplyInv'
  <1> SUFFICES ASSUME ReplyInv, [Next]_vars PROVE ReplyInv'
    OBVIOUS
  <1>1. Shape' /\ DropIsNews'
    <2>1. CASE UNCHANGED vars \/ Tick
      <3>1. UNCHANGED <<link, phase, written, asked, inbox>>
        BY <2>1 DEF vars, device, channel, Tick
      <3> QED
        BY <3>1 DEF ReplyInv, Shape, DropIsNews
    <2>2. CASE Call
      BY <2>2, ChannelAssumption, HandshakeAssumption, LenProperties, EmptySeq
         DEF Call, Subscribe, device, ReplyInv, Shape, DropIsNews
    <2>3. CASE ReceiveLagged \/ Expire
      <3>1. UNCHANGED <<link, written, asked, inbox>> /\ phase = "collecting"
        BY <2>3 DEF ReceiveLagged, RecvLagged, Expire, device, channel
      <3>2. phase' \in {"collecting", "ok"}
        BY <2>3 DEF ReceiveLagged, NextTurn, Expire
      <3> QED
        BY <3>1, <3>2 DEF ReplyInv, Shape, DropIsNews
    <2> QED
      BY <2>1, <2>2, <2>3, WorldShape, WriteShape, ReceiveShape DEF Next, ClientStep
  <1>2. Listening' => AllAccounted'
    <2> SUFFICES ASSUME Listening' PROVE AllAccounted'
      OBVIOUS
    <2>1. CASE Listening
      BY <2>1, NextAccounts DEF Listening
    <2>2. CASE ~ Listening
      <3>1. Call
        BY <2>2 DEF Next, ClientStep, vars, device, DeviceReplies, LoseReply, DevicePushes,
                    LinkDrops, WriteRead, WriteFails, ReceiveLagged, Receive, Expire, Tick,
                    Listening
      <3>2. written' = 0
        BY <3>1 DEF Call, ReplyInv, Shape
      <3> QED
        BY <3>2 DEF AllAccounted
    <2> QED
      BY <2>1, <2>2
  <1> QED
    BY <1>1, <1>2 DEF ReplyInv

LEMMA ReplyInvariance == Spec => []ReplyInv
  BY InitReplyInv, NextReplyInv, PTL DEF Spec

\* However full the channel is, a handshake that returns Ok over a dead link has the
\* pump's last words still before it, behind what came earlier: it ended because its
\* fields were complete or its deadline over, and never by waiting out the deadline
\* on an empty channel.
THEOREM DropIsKept == Spec => DropIsNotLost
  <1> DEFINE Waits == inbox' # <<>> /\ Last(inbox') = Disconnected
             Done == timer = 0 \/ IsComplete(got')
  <1>1. ReplyInv /\ [Next]_vars /\ phase = "collecting" /\ phase' = "ok" /\ ~ link
            => Waits /\ Done
    <2> SUFFICES ASSUME ReplyInv, [Next]_vars, phase = "collecting", phase' = "ok", ~ link
                 PROVE  Waits /\ Done
      OBVIOUS
    <2>1. Shape /\ DropIsNews /\ inbox # <<>> /\ inbox[Len(inbox)] = Disconnected
      BY DEF ReplyInv, DropIsNews
    <2>2. CASE ReceiveLagged
      <3>1. inbox' = inbox /\ NextTurn(FALSE)
        BY <2>2 DEF ReceiveLagged, RecvLagged
      <3> QED
        BY <2>1, <3>1 DEF NextTurn, Last
    <2>3. CASE Receive
      <3>1. Waits
        BY <2>1, <2>3, ReceiveLeavesLast DEF Last
      <3>2. Done
        BY <2>3 DEF Receive, Take, NextTurn
      <3> QED
        BY <3>1, <3>2
    <2>4. ~ Expire
      BY <2>1 DEF Expire, NothingReady
    <2> QED
      BY <2>2, <2>3, <2>4
         DEF Next, ClientStep, vars, device, DeviceReplies, LoseReply, DevicePushes,
             LinkDrops, Call, WriteRead, WriteFails, Tick
  <1> QED
    BY <1>1, ReplyInvariance, PTL DEF Spec, DropIsNotLost

\* Every field is asked for by a read, if the switches are read at all.
LEMMA FieldIsAskedFor ==
    ASSUME "Switches" \in ToSet(Reads), NEW f \in Fields
    PROVE  \E k \in 1 .. Len(Reads) : f \in ToSet(Replies(Reads[k]))
  <1>1. DOMAIN Reads = 1 .. Len(Reads)
    BY HandshakeAssumption, LenProperties
  <1>2. CASE f \in ToSet(Burst)
    <2>1. PICK k \in DOMAIN Reads : Reads[k] = "Switches"
      BY DEF ToSet
    <2> QED
      BY <1>1, <1>2, <2>1 DEF Replies
  <1>3. CASE f \in ToSet(Reads) \ {"Switches"}
    <2>1. PICK k \in DOMAIN Reads : Reads[k] = f
      BY <1>3 DEF ToSet
    <2>2. Replies(Reads[k]) = <<f>> /\ f \in ToSet(<<f>>)
      BY <1>3, <2>1 DEF Replies, ToSet
    <2> QED
      BY <1>1, <2>1, <2>2
  <1> QED
    BY <1>2, <1>3 DEF Fields

\* A None in the result of a handshake that ends with an Ok always has its cause:
\* the reply was lost, overwritten, refused or still on its way.
THEOREM MissingExplained ==
    ASSUME "Switches" \in ToSet(Reads)
    PROVE  Spec => MissingHasCause
  <1> DEFINE Explained ==
        \A f \in Fields \ got' :
            \/ f \in lost \cup overrun \cup ToSet(asked) \cup Names(inbox')
            \/ f = "RecordSeconds" /\ ~ believable
  <1>1. ReplyInv /\ [Next]_vars /\ phase = "collecting" /\ phase' = "ok" => Explained
    <2> SUFFICES ASSUME ReplyInv, [Next]_vars, phase = "collecting", phase' = "ok"
                 PROVE  Explained
      OBVIOUS
    <2>1. AllAccounted' /\ Shape'
      BY NextAccounts, NextReplyInv DEF Listening, ReplyInv
    <2>2. ReceiveLagged \/ Receive \/ Expire
      BY DEF Next, ClientStep, vars, device, DeviceReplies, LoseReply, DevicePushes,
             LinkDrops, Call, WriteRead, WriteFails, Tick
    <2>3. UNCHANGED <<written, lost, overrun, asked, believable>> /\ written = Len(Reads)
      BY <2>2 DEF ReceiveLagged, Receive, Expire, device, ReplyInv, Shape
    <2>4. \A f \in Fields : Accounted(f)'
      BY <2>1, <2>3, FieldIsAskedFor DEF AllAccounted
    <2> QED
      BY <2>3, <2>4 DEF Accounted, Whereabouts
  <1> QED
    BY <1>1, ReplyInvariance, PTL DEF Spec, MissingHasCause

=============================================================================
