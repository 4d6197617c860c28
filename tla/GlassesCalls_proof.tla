--------------------------- MODULE GlassesCalls_proof ---------------------------
(***************************************************************************)
(* The two calls of Glasses that wait for an answer which does not say     *)
(* which request it is for: a photo's frames name no photo, and a 0x25     *)
(* names no service.  For every size of a photo, every channel, every      *)
(* deadline and any number of calls: as long as no call before it gave up, *)
(* take_photo returns its own photo and an aborted transfer has lost a     *)
(* frame of its own; and open_wifi returns on a 0x25 of its own service or *)
(* of one an earlier call gave up on.  Both proofs follow the requests:    *)
(* what a call that got its answer leaves behind in the glasses, on the    *)
(* air, in the pump and in the channel is nothing.                         *)
(***************************************************************************)
EXTENDS PhotoCapture, OpenWifi, SequenceTheorems, FiniteSetTheorems, TLAPS

-----------------------------------------------------------------------------
(* take_photo.                                                             *)

Answered == {"photo", "aborted", "rejected"}
Answers == {"Completed", "HdImageFailed"} \cup Files!Aborts

InfoFrame(p) == [cmd |-> "Info", photo |-> p]
DataFrame(p, a) == [cmd |-> "Data", photo |-> p, addr |-> a]
EndFrame(p) == [cmd |-> "End", photo |-> p]
Offsets == 0 .. Size - 1
Frames(p) == {InfoFrame(p), EndFrame(p)} \cup {DataFrame(p, a) : a \in Offsets}

\* In every behaviour.
History ==
    /\ inbox \in Seq(Range(inbox))
    /\ phase \in Over \cup {"idle", "waiting"}
    /\ outcomes \in Seq(Over)
    /\ calls \in Nat
    /\ calls = 0 <=> phase = "idle"

\* Who was told of the end of the link never waits again.
LinkWords ==
    /\ link => phase # "disconnected" /\ \A j \in DOMAIN inbox : inbox[j].kind # "Disconnected"
    /\ (\E k \in DOMAIN outcomes : outcomes[k] = "disconnected") => ~ link /\ phase = "failed"

Clean ==
    /\ \A k \in DOMAIN outcomes : outcomes[k] \in Answered
    /\ phase \in Answered \cup {"idle", "waiting"}

AtRest == pending = <<>> /\ air = <<>> /\ ~ Files!IsOpen

Transfer ==
    /\ declared_total \in {0, Size}
    /\ received \subseteq 0 .. declared_total - 1
    /\ DOMAIN data = 0 .. declared_total - 1
    /\ \A i \in received : data[i] = calls

Requests ==
    IF phase = "waiting"
    THEN pending = <<>> \/ (pending = <<calls>> /\ air = <<>> /\ ~ Files!IsOpen)
    ELSE AtRest

OnAir ==
    /\ air \in Seq(Frames(calls))
    /\ \A i \in DOMAIN air :
          /\ air[i].cmd = "End" <=> i = Len(air)
          /\ air[i].cmd = "Info" => i = 1 /\ ~ Files!IsOpen

Lost(cmd) == <<calls, cmd>> \in lost

Traced ==
    air # <<>> =>
        /\ air[1].cmd = "Info" \/ Files!IsOpen \/ Lost("Info")
        /\ \A a \in Offsets :
              \/ \E i \in DOMAIN air : air[i] = DataFrame(calls, a)
              \/ a \in received \/ Lost("Data") \/ Lost("Info")

Own(photo) == DOMAIN photo # {} /\ \A i \in DOMAIN photo : photo[i] = calls
SomethingLost == \E cmd \in {"Info", "Data", "End"} : Lost(cmd)

\* An event that answers the call is the last of it, and true.
Fits(event) ==
    /\ event.kind \in Answers => AtRest
    /\ event.kind = "Completed" => Own(event.data)
    /\ event.kind \in Files!Aborts => SomethingLost

Told == \A j \in DOMAIN inbox : Fits(inbox[j])

Returned ==
    /\ phase = "photo" => Own(result)
    /\ phase = "aborted" => SomethingLost

CleanInv == Transfer /\ Requests /\ OnAir /\ Traced /\ Told /\ Returned
PhotoInv == History /\ LinkWords /\ (Clean => CleanInv)

-----------------------------------------------------------------------------
\* What is published joins the channel, and nothing else does.
LEMMA PublishMore ==
    ASSUME inbox \in Seq(Range(inbox)), NEW evts, evts \in Seq(Range(evts)), NEW listening,
           Publish(listening, evts)
    PROVE  /\ inbox' \in Seq(Range(inbox'))
           /\ \A j \in DOMAIN inbox' :
                 \/ \E i \in DOMAIN inbox : inbox'[j] = inbox[i]
                 \/ \E i \in DOMAIN evts : inbox'[j] = evts[i]
  <1>1. CASE ~ listening
    <2>1. inbox' = inbox
      BY <1>1 DEF Publish, channel
    <2> QED
      BY <2>1
  <1>2. CASE listening
    <2> DEFINE S == Range(inbox) \cup Range(evts)
               all == inbox \o evts
               size == Len(all)
               excess == IF Len(all) > EventBuffer THEN Len(all) - EventBuffer ELSE 0
    <2>1. inbox' = SubSeq(all, excess + 1, Len(all))
      BY <1>2 DEF Publish
    <2>2. inbox \in Seq(S) /\ evts \in Seq(S)
      BY SeqMonotonic
    <2> HIDE DEF S
    <2>3. /\ all \in Seq(S) /\ size = Len(inbox) + Len(evts)
          /\ \A i \in 1 .. size : all[i] = IF i <= Len(inbox) THEN inbox[i] ELSE evts[i - Len(inbox)]
          /\ DOMAIN inbox = 1 .. Len(inbox) /\ Len(inbox) \in Nat
          /\ DOMAIN evts = 1 .. Len(evts) /\ Len(evts) \in Nat
      BY <2>2, ConcatProperties, LenProperties
    <2>4. \A i \in 1 .. size :
             (\E n \in DOMAIN inbox : all[i] = inbox[n]) \/ (\E n \in DOMAIN evts : all[i] = evts[n])
      <3> SUFFICES ASSUME NEW i \in 1 .. size
                   PROVE  (\E n \in DOMAIN inbox : all[i] = inbox[n])
                              \/ (\E n \in DOMAIN evts : all[i] = evts[n])
        OBVIOUS
      <3> HIDE DEF all, size
      <3>1. CASE i <= Len(inbox)
        BY SMTT(20), <2>3, <3>1
      <3>2. CASE i > Len(inbox)
        <4>1. i - Len(inbox) \in DOMAIN evts
          BY <2>3, <3>2
        <4> QED
          BY <2>3, <3>2, <4>1
      <3> QED
        BY <2>3, <3>1, <3>2
    <2>5. size = Len(all) /\ size \in Nat
      BY <2>3
    <2> HIDE DEF all, size
    <2>6. excess \in Nat /\ excess <= size
      BY <2>5, ChannelAssumption
    <2> HIDE DEF excess
    <2>7. \A i \in excess + 1 .. size : all[i] \in S
      BY <2>3, <2>5, <2>6, ElementOfSeq
    <2>8. /\ inbox' \in Seq(S) /\ Len(inbox') = size - excess
          /\ \A i \in 1 .. size - excess : inbox'[i] = all[excess + i]
      BY <2>1, <2>5, <2>6, <2>7, SubSeqProperties
    <2>9. DOMAIN inbox' = 1 .. size - excess
      BY <2>8, LenProperties
    <2>10. inbox' \in Seq(Range(inbox'))
      BY <2>8, SeqOfRange
    <2>11. ASSUME NEW j \in DOMAIN inbox'
           PROVE  excess + j \in 1 .. size /\ inbox'[j] = all[excess + j]
      BY <2>5, <2>6, <2>8, <2>9
    <2> QED
      BY <2>4, <2>10, <2>11
  <1> QED
    BY <1>1, <1>2

\* A call of the reassembler returns at most two events.
LEMMA OneEvent ==
    ASSUME NEW evts, NEW e, evts = <<e>>
    PROVE  evts \in Seq(Range(evts)) /\ DOMAIN evts = {1} /\ evts[1] = e
  <1>1. evts \in Seq({e}) /\ DOMAIN evts = {1} /\ evts[1] = e
    OBVIOUS
  <1> QED
    BY <1>1, SeqOfRange

LEMMA TwoEvents ==
    ASSUME NEW e, NEW f, events' = Append(<<e>>, f)
    PROVE  events' \in Seq(Range(events')) /\ DOMAIN events' = {1, 2} /\ events'[1] = e /\ events'[2] = f
  <1>1. <<e>> \in Seq({e, f}) /\ Len(<<e>>) = 1 /\ <<e>>[1] = e
    OBVIOUS
  <1>2. /\ events' \in Seq({e, f}) /\ Len(events') = 2
        /\ events'[1] = e /\ events'[2] = f
    BY <1>1, AppendProperties
  <1>3. DOMAIN events' = {1, 2}
    BY <1>2, LenProperties
  <1> QED
    BY <1>2, <1>3, SeqOfRange

LEMMA NoEvent ==
    ASSUME NEW evts, evts = <<>>
    PROVE  evts \in Seq(Range(evts)) /\ DOMAIN evts = {}
  <1>1. evts \in Seq({}) /\ DOMAIN evts = {}
    OBVIOUS
  <1> QED
    BY <1>1, SeqOfRange

\* What the pump broadcasts of a file frame is never its last words.
LEMMA PumpEvents ==
    ASSUME PumpFile
    PROVE  /\ events' \in Seq(Range(events'))
           /\ \A k \in DOMAIN events' : events'[k].kind # "Disconnected"
  <1> DEFINE f == Head(air)
  <1>1. Files!OnInfo(Size, 1) \/ Files!OnData(f.addr, <<f.photo>>) \/ Files!OnEnd
    BY DEF PumpFile
  <1>2. ASSUME NEW e, events' = Append(Files!Displaced, e), e.kind # "Disconnected"
        PROVE  /\ events' \in Seq(Range(events'))
               /\ \A k \in DOMAIN events' : events'[k].kind # "Disconnected"
    <2>1. Files!Superseded(Files!Covered(received), declared_total).kind # "Disconnected"
      BY DEF Files!Superseded
    <2>2. \/ Files!Displaced = <<>>
          \/ Files!Displaced = <<Files!Superseded(Files!Covered(received), declared_total)>>
      BY DEF Files!Displaced
    <2>3. CASE Files!Displaced = <<>>
      <3>1. events' = <<e>>
        BY <1>2, <2>3
      <3> QED
        BY <1>2, <3>1, OneEvent
    <2>4. ASSUME NEW d, Files!Displaced = <<d>>, d.kind # "Disconnected"
          PROVE  /\ events' \in Seq(Range(events'))
                 /\ \A k \in DOMAIN events' : events'[k].kind # "Disconnected"
      <3>1. events' = Append(<<d>>, e)
        BY <1>2, <2>4
      <3>2. /\ events' \in Seq(Range(events'))
            /\ DOMAIN events' = {1, 2} /\ events'[1] = d /\ events'[2] = e
        BY <3>1, TwoEvents
      <3> QED
        BY <1>2, <2>4, <3>2
    <2> QED
      BY <2>1, <2>2, <2>3, <2>4
  <1>3. ASSUME events' = <<>> \/ \E e : events' = <<e>> /\ e.kind # "Disconnected"
        PROVE  /\ events' \in Seq(Range(events'))
               /\ \A k \in DOMAIN events' : events'[k].kind # "Disconnected"
    <2>1. CASE events' = <<>>
      BY <2>1, NoEvent
    <2>2. CASE \E e : events' = <<e>> /\ e.kind # "Disconnected"
      <3>1. PICK e : events' = <<e>> /\ e.kind # "Disconnected"
        BY <2>2
      <3> QED
        BY <3>1, OneEvent
    <2> QED
      BY <1>3, <2>1, <2>2
  <1>4. CASE Files!OnInfo(Size, 1)
    BY <1>2, <1>4 DEF Files!OnInfo, Files!Started, Files!ImplausibleSize
  <1>5. CASE Files!OnData(f.addr, <<f.photo>>)
    BY <1>3, <1>5 DEF Files!OnData, Files!DataIgnored, Files!DataStored, Files!DataTooFragmented,
                      Files!DataOutOfRange, Files!Incomplete, Files!OutOfRange
  <1>6. CASE Files!OnEnd
    BY <1>3, <1>6 DEF Files!OnEnd, Files!NoFileInfo, Files!Incomplete, Files!Completed
  <1> QED
    BY <1>1, <1>4, <1>5, <1>6

-----------------------------------------------------------------------------
\* What every step keeps: the shape of the history, and that nobody waits again who
\* was told of the end of the link.
LEMMA CallKeeps ==
    ASSUME History, LinkWords, Call
    PROVE  History' /\ LinkWords'
  <1>1. /\ inbox' = <<>> /\ calls' = calls + 1 /\ link' = link
        /\ phase' \in {"waiting", "failed"} /\ (phase' = "waiting" => link)
    BY DEF Call, Subscribe
  <1>2. CASE calls = 0
    <2>1. outcomes' = outcomes
      BY <1>2 DEF Call
    <2> QED
      BY <1>1, <2>1 DEF History, LinkWords, Over
  <1>3. CASE calls # 0
    <2>1. outcomes' = Append(outcomes, phase) /\ phase \in Over
      BY <1>3 DEF Call, History
    <2>2. /\ outcomes' \in Seq(Over) /\ DOMAIN outcomes' = 1 .. Len(outcomes) + 1
          /\ DOMAIN outcomes = 1 .. Len(outcomes)
          /\ \A k \in 1 .. Len(outcomes) : outcomes'[k] = outcomes[k]
          /\ outcomes'[Len(outcomes) + 1] = phase
      BY <2>1, AppendProperties, LenProperties DEF History
    <2>3. History'
      BY <1>1, <2>2 DEF History, Over
    <2>4. (\E k \in DOMAIN outcomes' : outcomes'[k] = "disconnected") => ~ link /\ phase' = "failed"
      <3>1. CASE phase = "disconnected"
        BY <1>1, <3>1 DEF LinkWords
      <3>2. CASE phase # "disconnected"
        BY <1>1, <2>2, <3>2 DEF LinkWords
      <3> QED
        BY <3>1, <3>2
    <2> QED
      BY <1>1, <2>3, <2>4 DEF LinkWords
  <1> QED
    BY <1>2, <1>3

LEMMA PublishKeeps ==
    ASSUME History, LinkWords, NEW evts, evts \in Seq(Range(evts)), Publish(Listening, evts),
           UNCHANGED <<phase, outcomes, calls>>,
           \/ link' = link /\ \A k \in DOMAIN evts : evts[k].kind # "Disconnected"
           \/ ~ link'
    PROVE  History' /\ LinkWords'
  <1>1. History'
    BY PublishMore DEF History
  <1>2. CASE ~ link'
    BY <1>1, <1>2 DEF LinkWords
  <1>3. CASE link' = link /\ \A k \in DOMAIN evts : evts[k].kind # "Disconnected"
    BY <1>1, <1>3, PublishMore DEF LinkWords, History
  <1> QED
    BY <1>2, <1>3

LEMMA ClientKeeps ==
    ASSUME History, LinkWords, ClientStep \/ Tick
    PROVE  History' /\ LinkWords'
  <1>1. UNCHANGED <<outcomes, calls, link>>
    BY DEF ClientStep, Tick, ReceiveLagged, Receive, Expire, history
  <1>2. CASE Receive
    <2>1. /\ inbox \in Seq(Range(inbox)) /\ inbox # <<>> /\ inbox' = Tail(inbox)
          /\ Answer(Head(inbox)) /\ phase = "waiting"
      BY <1>2 DEF Receive, RecvEvent, History
    <2>2. /\ inbox' \in Seq(Range(inbox)) /\ Head(inbox) = inbox[1] /\ 1 \in DOMAIN inbox
          /\ \A j \in DOMAIN inbox' : j + 1 \in DOMAIN inbox /\ inbox'[j] = inbox[j + 1]
      <3> DEFINE n == Len(inbox)
      <3>1. n \in Nat \ {0} /\ DOMAIN inbox = 1 .. n
        BY <2>1, EmptySeq, LenProperties
      <3>2. inbox' \in Seq(Range(inbox)) /\ Len(inbox') = n - 1 /\ DOMAIN inbox' = 1 .. Len(inbox')
            /\ \A j \in 1 .. n - 1 : inbox'[j] = inbox[j + 1]
        BY <2>1, HeadTailProperties, LenProperties
      <3> HIDE DEF n
      <3> QED
        BY <2>1, <3>1, <3>2
    <2>3. inbox' \in Seq(Range(inbox'))
      BY <2>2, SeqOfRange
    <2>4. phase' \in Over \cup {"waiting"} /\ (phase' = "disconnected" => inbox[1].kind = "Disconnected")
      BY <2>1, <2>2 DEF Answer, NextTurn, Over
    <2>5. History'
      BY <1>1, <2>1, <2>3, <2>4 DEF History, Over
    <2>6. LinkWords'
      BY <1>1, <2>1, <2>2, <2>4 DEF LinkWords
    <2> QED
      BY <2>5, <2>6
  <1>3. CASE ReceiveLagged \/ Expire \/ Tick
    <2>1. /\ inbox' = inbox /\ phase = "waiting" /\ phase' \in {"waiting", "timeout"}
      BY <1>3 DEF ReceiveLagged, Expire, Tick, NextTurn, RecvLagged, channel
    <2> QED
      BY <1>1, <2>1 DEF History, LinkWords, Over
  <1> QED
    BY <1>2, <1>3 DEF ClientStep

-----------------------------------------------------------------------------
\* Once a call has given up, no later state is clean again.
LEMMA CleanWas ==
    ASSUME History, [Next]_vars, Clean'
    PROVE  Clean
  <1>1. CASE Call
    <2>1. CASE calls = 0
      BY <1>1, <2>1 DEF Call, Clean, History
    <2>2. CASE calls # 0
      <3>1. outcomes' = Append(outcomes, phase) /\ outcomes \in Seq(Over) /\ phase \in Over
        BY <1>1, <2>2 DEF Call, History
      <3>2. /\ DOMAIN outcomes' = 1 .. Len(outcomes) + 1 /\ DOMAIN outcomes = 1 .. Len(outcomes)
            /\ Len(outcomes) \in Nat
            /\ \A k \in 1 .. Len(outcomes) : outcomes'[k] = outcomes[k]
            /\ outcomes'[Len(outcomes) + 1] = phase
        BY <3>1, AppendProperties, LenProperties
      <3> QED
        BY <3>2 DEF Clean
    <2> QED
      BY <2>1, <2>2
  <1>2. CASE ~ Call
    <2>1. outcomes' = outcomes /\ (phase' = phase \/ phase = "waiting")
      BY <1>2 DEF Next, vars, history, DevicePushes, DeviceFails, PumpFile, LoseFrame,
                  OtherEvent, LinkDrops, ClientStep, ReceiveLagged, Receive, Expire, Tick
    <2> QED
      BY <2>1 DEF Clean
  <1> QED
    BY <1>1, <1>2

\* The frames of a photo, one by one.
LEMMA FramesShape ==
    ASSUME NEW p
    PROVE  /\ FramesOf(p) \in Seq(Frames(p)) /\ Len(FramesOf(p)) = Size + 2
           /\ FramesOf(p)[1] = InfoFrame(p) /\ FramesOf(p)[Size + 2] = EndFrame(p)
           /\ \A i \in 2 .. Size + 1 : FramesOf(p)[i] = DataFrame(p, i - 2)
  <1> DEFINE S == Frames(p)
             first == <<InfoFrame(p)>>
             body == [k \in 1 .. Size |-> DataFrame(p, k - 1)]
             last == <<EndFrame(p)>>
             some == first \o body
  <1>1. Size \in Nat \ {0}
    BY PhotoAssumption
  <1>2. InfoFrame(p) \in S /\ EndFrame(p) \in S /\ \A k \in 1 .. Size : DataFrame(p, k - 1) \in S
    BY <1>1 DEF Frames, Offsets
  <1>3. FramesOf(p) = some \o last
    BY DEF FramesOf, InfoFrame, DataFrame, EndFrame
  <1> HIDE DEF S
  <1>4. /\ first \in Seq(S) /\ Len(first) = 1 /\ first[1] = InfoFrame(p)
        /\ last \in Seq(S) /\ Len(last) = 1 /\ last[1] = EndFrame(p)
    BY <1>2
  <1>5. body \in Seq(S) /\ Len(body) = Size
    BY <1>1, <1>2
  <1>6. \A k \in 1 .. Size : body[k] = DataFrame(p, k - 1)
    OBVIOUS
  <1> HIDE DEF first, body, last
  <1>7. /\ some \in Seq(S) /\ Len(some) = Size + 1
        /\ some[1] = InfoFrame(p)
        /\ \A i \in 2 .. Size + 1 : some[i] = DataFrame(p, i - 2)
    <2>0. /\ some \in Seq(S) /\ Len(some) = Len(first) + Len(body)
          /\ \A i \in 1 .. Len(first) + Len(body) :
                some[i] = IF i <= Len(first) THEN first[i] ELSE body[i - Len(first)]
      BY <1>4, <1>5, ConcatProperties
    <2> HIDE DEF some
    <2>1. /\ some \in Seq(S) /\ Len(some) = Size + 1
          /\ \A i \in 1 .. Size + 1 : some[i] = IF i <= 1 THEN first[i] ELSE body[i - 1]
      BY <1>1, <1>4, <1>5, <2>0
    <2>2. some[1] = InfoFrame(p)
      BY <1>1, <1>4, <2>1
    <2>3. \A i \in 2 .. Size + 1 : some[i] = DataFrame(p, i - 2)
      <3> SUFFICES ASSUME NEW i \in 2 .. Size + 1 PROVE some[i] = DataFrame(p, i - 2)
        OBVIOUS
      <3>1. some[i] = body[i - 1] /\ i - 1 \in 1 .. Size /\ (i - 1) - 1 = i - 2
        BY <1>1, <2>1
      <3> QED
        BY <1>6, <3>1
    <2> QED
      BY <2>1, <2>2, <2>3
  <1> HIDE DEF some
  <1>8. /\ FramesOf(p) \in Seq(S) /\ Len(FramesOf(p)) = Size + 2
        /\ \A i \in 1 .. Size + 2 : FramesOf(p)[i] = IF i <= Size + 1 THEN some[i] ELSE last[i - (Size + 1)]
    <2> DEFINE all == some \o last
    <2>1. /\ all \in Seq(S) /\ Len(all) = Len(some) + Len(last)
          /\ \A i \in 1 .. Len(some) + Len(last) :
                all[i] = IF i <= Len(some) THEN some[i] ELSE last[i - Len(some)]
      BY <1>4, <1>7, ConcatProperties
    <2> HIDE DEF all
    <2>2. /\ all \in Seq(S) /\ Len(all) = Size + 2
          /\ \A i \in 1 .. Size + 2 : all[i] = IF i <= Size + 1 THEN some[i] ELSE last[i - (Size + 1)]
      BY <1>1, <1>4, <1>7, <2>1
    <2> QED
      BY <1>3, <2>2 DEF all
  <1>9. FramesOf(p)[Size + 2] = EndFrame(p)
    BY <1>1, <1>4, <1>8
  <1>10. FramesOf(p)[1] = InfoFrame(p)
    BY <1>1, <1>7, <1>8
  <1>11. \A i \in 2 .. Size + 1 : FramesOf(p)[i] = DataFrame(p, i - 2)
    BY <1>1, <1>7, <1>8
  <1> QED
    BY <1>8, <1>9, <1>10, <1>11 DEF S

\* What is published fits if what it joins does.
LEMMA PublishFits ==
    ASSUME History, NEW evts, evts \in Seq(Range(evts)), Publish(Listening, evts),
           \A event : (\E j \in DOMAIN inbox : event = inbox[j]) => Fits(event)',
           \A event : (\E k \in DOMAIN evts : event = evts[k]) => Fits(event)'
    PROVE  Told'
  BY PublishMore DEF History, Told, Fits, Own

\* With a photo on its way no answer is waiting in the channel.
LEMMA NoAnswerYet ==
    ASSUME Told, ~ AtRest, NEW event, NEW j \in DOMAIN inbox, event = inbox[j]
    PROVE  event.kind \notin Answers /\ Fits(event)'
  BY DEF Told, Fits, Answers

\* The first frame on its way is one of the call's own photo.
LEMMA FirstFrame ==
    ASSUME OnAir, air # <<>>
    PROVE  /\ Head(air) = air[1] /\ 1 \in DOMAIN air /\ DOMAIN air = 1 .. Len(air)
           /\ Len(air) \in Nat \ {0}
           /\ air[1].photo = calls
           /\ \/ air[1] = InfoFrame(calls) /\ air[1].cmd = "Info"
              \/ air[1] = EndFrame(calls) /\ air[1].cmd = "End"
              \/ \E a \in Offsets :
                    air[1] = DataFrame(calls, a) /\ air[1].cmd = "Data" /\ air[1].addr = a
  <1>1. Head(air) = air[1] /\ DOMAIN air = 1 .. Len(air) /\ Len(air) \in Nat \ {0}
    BY EmptySeq, LenProperties DEF OnAir
  <1>2. 1 \in DOMAIN air /\ air[1] \in Frames(calls)
    BY <1>1, ElementOfSeq DEF OnAir
  <1> QED
    BY <1>1, <1>2 DEF Frames, InfoFrame, EndFrame, DataFrame

\* The rest of a photo is in order too, and holds no header.
LEMMA AirMoves ==
    ASSUME OnAir, air # <<>>, air' = Tail(air), calls' = calls
    PROVE  /\ OnAir'
           /\ \A i \in DOMAIN air : i # 1 => i - 1 \in DOMAIN air' /\ air'[i - 1] = air[i]
           /\ \A i \in DOMAIN air' : air'[i].cmd # "Info"
           /\ air[1].cmd = "End" => air' = <<>>
  <1> DEFINE n == Len(air)
  <1>1. n \in Nat \ {0} /\ DOMAIN air = 1 .. n
    BY FirstFrame
  <1>2. /\ air' \in Seq(Frames(calls)) /\ Len(air') = n - 1 /\ DOMAIN air' = 1 .. Len(air')
        /\ \A i \in 1 .. n - 1 : air'[i] = air[i + 1]
    BY HeadTailProperties, LenProperties DEF OnAir
  <1>3. \A i \in DOMAIN air : (air[i].cmd = "End" <=> i = n) /\ (air[i].cmd = "Info" => i = 1)
    BY DEF OnAir
  <1> HIDE DEF n
  <1>4. DOMAIN air' = 1 .. n - 1
    BY <1>1, <1>2
  <1>5. \A i \in DOMAIN air' :
            /\ air'[i].cmd = "End" <=> i = n - 1
            /\ air'[i].cmd # "Info"
    <2> SUFFICES ASSUME NEW i \in DOMAIN air'
                 PROVE  (air'[i].cmd = "End" <=> i = n - 1) /\ air'[i].cmd # "Info"
      OBVIOUS
    <2>1. i \in 1 .. n - 1 /\ i + 1 \in DOMAIN air /\ air'[i] = air[i + 1] /\ i + 1 # 1
      BY <1>1, <1>2, <1>4
    <2>2. (i + 1 = n) <=> (i = n - 1)
      BY <1>1, <2>1
    <2> QED
      BY <1>3, <2>1, <2>2
  <1>6. OnAir'
    BY <1>2, <1>5 DEF OnAir
  <1>7. \A i \in DOMAIN air : i # 1 => i - 1 \in DOMAIN air' /\ air'[i - 1] = air[i]
    <2> SUFFICES ASSUME NEW i \in DOMAIN air, i # 1
                 PROVE  i - 1 \in DOMAIN air' /\ air'[i - 1] = air[i]
      OBVIOUS
    <2>1. i - 1 \in 1 .. n - 1 /\ (i - 1) + 1 = i
      BY <1>1
    <2> QED
      BY <1>2, <1>4, <2>1
  <1>8. air[1].cmd = "End" => air' = <<>>
    <2> SUFFICES ASSUME air[1].cmd = "End" PROVE air' = <<>>
      OBVIOUS
    <2>1. n = 1
      BY <1>1, <1>3
    <2> QED
      BY <1>2, <2>1, EmptySeq
  <1> QED
    BY <1>5, <1>6, <1>7, <1>8

\* What a frame carried is stored, lost or still on its way once it is gone.
LEMMA TracedOn ==
    ASSUME OnAir, Traced, air # <<>>, air' = Tail(air), calls' = calls,
           lost \subseteq lost',
           air[1].cmd = "Info" \/ Files!IsOpen => Files!IsOpen' \/ Lost("Info")',
           \A a \in Offsets : a \in received \/ air[1] = DataFrame(calls, a) =>
               a \in received' \/ Lost("Data")' \/ Lost("Info")'
    PROVE  Traced'
  <1>1. \A a \in Offsets :
            \/ \E i \in DOMAIN air' : air'[i] = DataFrame(calls, a)
            \/ a \in received' \/ Lost("Data")' \/ Lost("Info")'
    <2> SUFFICES ASSUME NEW a \in Offsets
                 PROVE  \/ \E i \in DOMAIN air' : air'[i] = DataFrame(calls, a)
                        \/ a \in received' \/ Lost("Data")' \/ Lost("Info")'
      OBVIOUS
    <2>1. CASE \E i \in DOMAIN air : air[i] = DataFrame(calls, a) /\ i # 1
      BY <2>1, AirMoves
    <2>2. CASE a \in received \/ air[1] = DataFrame(calls, a)
      BY <2>2
    <2>3. CASE Lost("Data") \/ Lost("Info")
      BY <2>3 DEF Lost
    <2> QED
      BY <2>1, <2>2, <2>3 DEF Traced
  <1>2. Files!IsOpen' \/ Lost("Info")'
    BY DEF Traced, Lost
  <1> QED
    BY <1>1, <1>2 DEF Traced, Offsets

-----------------------------------------------------------------------------
\* While a photo is on its way its call waits and asks for nothing more.
LEMMA Busy ==
    ASSUME Requests, air # <<>>
    PROVE  phase = "waiting" /\ pending = <<>> /\ ~ AtRest
  BY DEF Requests, AtRest

\* The reassembler counts as this module does.
LEMMA SameCardinality ==
    ASSUME NEW S
    PROVE  Files!Cardinality(S) = Cardinality(S)
  BY DEF Files!Cardinality, Cardinality

\* What remains to be shown of a step of the pump.
LEMMA PumpRest ==
    ASSUME CleanInv, PumpFile, Transfer', Traced', Told'
    PROVE  CleanInv'
  <1>1. /\ air # <<>> /\ air' = Tail(air)
        /\ UNCHANGED <<pending, lost, link, phase, timer, result, outcomes, calls>>
    BY DEF PumpFile, history
  <1>2. OnAir'
    BY <1>1, AirMoves DEF CleanInv
  <1>3. phase' = "waiting" /\ pending' = <<>>
    BY <1>1, Busy DEF CleanInv
  <1> QED
    BY <1>2, <1>3 DEF CleanInv, Requests, Returned

LEMMA PumpInfo ==
    ASSUME History, CleanInv, PumpFile, Head(air).cmd = "Info"
    PROVE  CleanInv'
  <1>1. /\ air # <<>> /\ air' = Tail(air) /\ UNCHANGED <<lost, calls>>
        /\ Files!OnInfo(Size, 1) /\ Publish(Listening, events')
    BY DEF PumpFile, history
  <1>2. air[1].cmd = "Info" /\ 1 \in DOMAIN air /\ ~ Files!IsOpen
    BY <1>1, FirstFrame DEF CleanInv, OnAir
  <1>3. received = {}
    BY <1>2, PhotoAssumption DEF CleanInv, Transfer, Files!IsOpen
  <1>4. Files!Displaced = <<>>
    BY <1>3, FS_EmptySet, SameCardinality DEF Files!Displaced, Files!Covered
  <1>5. /\ declared_total' = Size /\ received' = {} /\ data' = Files!Empty(Size)
        /\ events' = <<Files!Started(Size, 1)>>
    BY <1>1, <1>4, PhotoAssumption DEF Files!OnInfo, Files!Plausible, Files!Open
  <1>6. Transfer'
    BY <1>5 DEF Transfer, Files!Empty, Files!Offsets
  <1>7. Files!IsOpen'
    BY <1>5, PhotoAssumption DEF Files!IsOpen
  <1>8. Traced'
    <2>1. \A a \in Offsets : air[1] # DataFrame(calls, a)
      BY <1>2 DEF DataFrame
    <2> QED
      BY <1>1, <1>3, <1>7, <2>1, TracedOn DEF CleanInv
  <1>9. Told'
    <2>1. /\ events' \in Seq(Range(events'))
          /\ \A k \in DOMAIN events' : events'[k].kind = "Started"
      BY <1>5, OneEvent DEF Files!Started
    <2>2. \A event : (\E j \in DOMAIN inbox : event = inbox[j]) => Fits(event)'
      BY <1>1, NoAnswerYet, Busy DEF CleanInv
    <2>3. \A event : (\E k \in DOMAIN events' : event = events'[k]) => Fits(event)'
      BY <2>1 DEF Fits, Answers, Files!Aborts
    <2> QED
      BY <1>1, <2>1, <2>2, <2>3, PublishFits
  <1> QED
    BY <1>6, <1>8, <1>9, PumpRest

\* A transfer of Size bytes is never too fragmented, and whole only with every offset.
LEMMA SpansOfPhoto ==
    ASSUME NEW S \in SUBSET Offsets
    PROVE  /\ ~ Files!TooFragmented(S)
           /\ Files!IsWhole(S, Size) <=> S = Offsets
  <1>1. IsFiniteSet(Offsets) /\ Cardinality(Offsets) = Size
    BY FS_Interval, PhotoAssumption DEF Offsets
  <1>2. Files!Starts(S) \in SUBSET Offsets
    BY DEF Files!Starts
  <1>3. /\ IsFiniteSet(Files!Starts(S)) /\ Cardinality(Files!Starts(S)) <= Size
        /\ IsFiniteSet(S) /\ (Cardinality(S) = Size => S = Offsets)
    BY <1>1, <1>2, FS_Subset
  <1>4. Cardinality(Files!Starts(S)) \in Nat
    BY <1>3, FS_CardinalityType
  <1>5. ~ Files!TooFragmented(S)
    BY <1>3, <1>4, SameCardinality, PhotoAssumption DEF Files!TooFragmented
  <1> QED
    BY <1>1, <1>3, <1>5, SameCardinality DEF Files!IsWhole, Files!Covered

LEMMA PumpData ==
    ASSUME History, CleanInv, PumpFile, Head(air).cmd = "Data"
    PROVE  CleanInv'
  <1> DEFINE chunk == <<calls>>
  <1>1. /\ air # <<>> /\ air' = Tail(air) /\ UNCHANGED <<lost, calls>>
        /\ Files!OnData(Head(air).addr, <<Head(air).photo>>) /\ Publish(Listening, events')
    BY DEF PumpFile, history
  <1>2. PICK a \in Offsets : air[1] = DataFrame(calls, a) /\ Head(air).addr = a
    BY <1>1, FirstFrame DEF CleanInv
  <1>3. air[1].cmd = "Data" /\ Files!OnData(a, chunk)
    BY <1>1, <1>2, FirstFrame DEF CleanInv
  <1>4. chunk # <<>> /\ Len(chunk) = 1 /\ chunk[1] = calls
    OBVIOUS
  <1> HIDE DEF chunk
  <1>5. a \in Nat /\ a < Size /\ Size \in Nat /\ Files!Written(a, chunk) = {a}
    BY <1>4, PhotoAssumption DEF Offsets, Files!Written
  <1>6. /\ Transfer' /\ (Files!IsOpen <=> Files!IsOpen') /\ events' = <<>>
        /\ received \subseteq received' /\ (Files!IsOpen => a \in received')
    <2>1. CASE ~ Files!IsOpen
      <3>1. events' = <<>> /\ UNCHANGED Files!transfer
        BY <1>3, <2>1 DEF Files!OnData, Files!DataIgnored, Files!DataStored,
                          Files!DataTooFragmented, Files!DataOutOfRange
      <3> QED
        BY <1>1, <2>1, <3>1 DEF CleanInv, Transfer, Files!transfer, Files!IsOpen
    <2>2. CASE Files!IsOpen
      <3>1. declared_total = Size /\ received \in SUBSET Offsets
        BY <2>2 DEF CleanInv, Transfer, Files!IsOpen, Offsets
      <3>2. Files!InRange(a, chunk) /\ ~ Files!TooFragmented(received)
        BY <1>4, <1>5, <3>1, SpansOfPhoto DEF Files!InRange
      <3>3. Files!DataStored(a, chunk)
        BY <1>3, <1>4, <2>2, <3>2 DEF Files!OnData, Files!DataIgnored, Files!DataTooFragmented,
                                      Files!DataOutOfRange
      <3>4. /\ declared_total' = Size /\ received' = received \cup {a} /\ events' = <<>>
            /\ data' = [i \in DOMAIN data |-> IF i = a THEN chunk[i - a + 1] ELSE data[i]]
        BY <1>5, <3>1, <3>3 DEF Files!DataStored, Files!Write
      <3>5. a - a + 1 = 1
        BY <1>5
      <3>6. \A i \in received' : data'[i] = calls'
        BY <1>1, <1>2, <1>4, <3>1, <3>4, <3>5 DEF CleanInv, Transfer, Offsets
      <3>7. Transfer'
        BY <1>2, <3>1, <3>4, <3>6 DEF CleanInv, Transfer, Offsets
      <3> QED
        BY <2>2, <3>1, <3>4, <3>7 DEF Files!IsOpen
    <2> QED
      BY <2>1, <2>2
  <1>7. Traced'
    <2>1. Files!IsOpen \/ Lost("Info")
      BY <1>1, <1>3 DEF CleanInv, Traced
    <2>2. \A b \in Offsets : air[1] = DataFrame(calls, b) => b = a
      BY <1>2 DEF DataFrame
    <2>3. lost \subseteq lost' /\ (Lost("Info") => Lost("Info")')
      BY <1>1 DEF Lost
    <2>4. air[1].cmd = "Info" \/ Files!IsOpen => Files!IsOpen' \/ Lost("Info")'
      BY <1>3, <1>6
    <2>5. \A b \in Offsets : b \in received \/ air[1] = DataFrame(calls, b) =>
              b \in received' \/ Lost("Data")' \/ Lost("Info")'
      BY <1>6, <2>1, <2>2, <2>3
    <2> QED
      BY <1>1, <2>3, <2>4, <2>5, TracedOn DEF CleanInv
  <1>8. Told'
    <2>1. events' \in Seq(Range(events')) /\ DOMAIN events' = {}
      BY <1>6, NoEvent
    <2>2. \A event : (\E j \in DOMAIN inbox : event = inbox[j]) => Fits(event)'
      BY <1>1, NoAnswerYet, Busy DEF CleanInv
    <2> QED
      BY <1>1, <2>1, <2>2, PublishFits
  <1> QED
    BY <1>6, <1>7, <1>8, PumpRest

LEMMA PumpEnd ==
    ASSUME History, CleanInv, PumpFile, Head(air).cmd = "End"
    PROVE  CleanInv'
  <1>1. /\ air # <<>> /\ air' = Tail(air) /\ UNCHANGED <<lost, calls, pending>>
        /\ Files!OnEnd /\ Publish(Listening, events')
    BY DEF PumpFile, history
  <1>2. air[1].cmd = "End" /\ Len(air) = 1 /\ DOMAIN air = {1} /\ air' = <<>>
    <2>1. air[1].cmd = "End" /\ 1 \in DOMAIN air /\ DOMAIN air = 1 .. Len(air) /\ air' = <<>>
      BY <1>1, FirstFrame, AirMoves DEF CleanInv
    <2> QED
      BY <2>1 DEF CleanInv, OnAir
  <1>3. declared_total' = 0 /\ received' = {} /\ data' = Files!Empty(0) /\ ~ Files!IsOpen'
    BY <1>1 DEF Files!OnEnd, Files!Close, Files!IsOpen
  <1>4. Transfer'
    BY <1>3 DEF Transfer, Files!Empty, Files!Offsets
  <1>5. Traced'
    BY <1>2 DEF Traced
  <1>6. AtRest'
    BY <1>1, <1>2, <1>3, Busy DEF CleanInv, AtRest
  <1>7. Files!IsOpen \/ Lost("Info")
    BY <1>1, <1>2 DEF CleanInv, Traced
  <1>8. \A a \in Offsets : a \in received \/ Lost("Data") \/ Lost("Info")
    BY <1>1, <1>2 DEF CleanInv, Traced, DataFrame
  <1>9. SomethingLost => SomethingLost'
    BY <1>1 DEF SomethingLost, Lost
  <1>10. ASSUME NEW e, events' = <<e>>, e.kind \in Files!Aborts, SomethingLost
         PROVE  Told'
    <2>1. e.kind # "Completed"
      BY <1>10 DEF Files!Aborts
    <2>2. events' \in Seq(Range(events')) /\ DOMAIN events' = {1} /\ events'[1] = e
      BY <1>10, OneEvent
    <2>3. \A event : (\E j \in DOMAIN inbox : event = inbox[j]) => Fits(event)'
      BY <1>1, NoAnswerYet, Busy DEF CleanInv
    <2>4. \A event : (\E k \in DOMAIN events' : event = events'[k]) => Fits(event)'
      BY <1>6, <1>9, <1>10, <2>1, <2>2 DEF Fits
    <2> QED
      BY <1>1, <2>2, <2>3, <2>4, PublishFits
  <1>11. Told'
    <2>1. CASE ~ Files!IsOpen
      <3>1. events' = <<Files!NoFileInfo>>
        BY <1>1, <2>1 DEF Files!OnEnd
      <3>2. Files!NoFileInfo.kind \in Files!Aborts /\ SomethingLost
        BY <1>7, <2>1 DEF Files!NoFileInfo, Files!Aborts, SomethingLost
      <3> QED
        BY <1>10, <3>1, <3>2
    <2>2. CASE Files!IsOpen
      <3>1. declared_total = Size /\ received \in SUBSET Offsets /\ DOMAIN data = Offsets
        BY <2>2 DEF CleanInv, Transfer, Files!IsOpen, Offsets
      <3>2. CASE ~ Files!IsWhole(received, declared_total)
        <4>1. events' = <<Files!Incomplete(Files!Covered(received), declared_total)>>
          BY <1>1, <2>2, <3>2 DEF Files!OnEnd
        <4>2. Files!Incomplete(Files!Covered(received), declared_total).kind \in Files!Aborts
          BY DEF Files!Incomplete, Files!Aborts
        <4>3. SomethingLost
          <5>1. received # Offsets
            BY <3>1, <3>2, SpansOfPhoto
          <5> QED
            BY <1>8, <3>1, <5>1 DEF SomethingLost
        <4> QED
          BY <1>10, <4>1, <4>2, <4>3
      <3>3. CASE Files!IsWhole(received, declared_total)
        <4> DEFINE photo == Files!Completed(file_type, data)
        <4>1. events' = <<photo>>
          BY <1>1, <2>2, <3>3 DEF Files!OnEnd
        <4>2. received = Offsets
          BY <3>1, <3>3, SpansOfPhoto
        <4>3. photo.kind = "Completed" /\ photo.data = data
          BY DEF Files!Completed
        <4> HIDE DEF photo
        <4>4. 0 \in Offsets
          BY PhotoAssumption DEF Offsets
        <4>5. DOMAIN photo.data # {} /\ \A i \in DOMAIN photo.data : photo.data[i] = calls'
          BY <1>1, <3>1, <4>2, <4>3, <4>4 DEF CleanInv, Transfer
        <4>6. events' \in Seq(Range(events')) /\ DOMAIN events' = {1} /\ events'[1] = photo
          BY <4>1, OneEvent
        <4>7. \A event : (\E j \in DOMAIN inbox : event = inbox[j]) => Fits(event)'
          BY <1>1, NoAnswerYet, Busy DEF CleanInv
        <4>8. \A event : (\E k \in DOMAIN events' : event = events'[k]) => Fits(event)'
          BY <1>6, <4>3, <4>5, <4>6 DEF Fits, Own, Files!Aborts
        <4> QED
          BY <1>1, <4>6, <4>7, <4>8, PublishFits
      <3> QED
        BY <3>2, <3>3
    <2> QED
      BY <2>1, <2>2
  <1> QED
    BY <1>4, <1>5, <1>11, PumpRest

\* Whatever the pump takes off the air.
LEMMA PumpClean ==
    ASSUME History, CleanInv, PumpFile
    PROVE  CleanInv'
  <1>1. air # <<>> /\ OnAir
    BY DEF PumpFile, CleanInv
  <1>2. Head(air).cmd \in {"Info", "Data", "End"}
    BY <1>1, FirstFrame
  <1> QED
    BY <1>2, PumpInfo, PumpData, PumpEnd

-----------------------------------------------------------------------------
\* The device begins the photo it was asked for, and no other.
LEMMA PushClean ==
    ASSUME History, CleanInv, DevicePushes
    PROVE  CleanInv'
  <1>1. /\ pending # <<>> /\ air = <<>> /\ air' = FramesOf(Head(pending)) /\ pending' = Tail(pending)
        /\ UNCHANGED <<declared_total, data, received, lost, phase, result, inbox, calls>>
    BY DEF DevicePushes, files, channel, history
  <1>2. phase = "waiting" /\ pending = <<calls>> /\ ~ Files!IsOpen /\ ~ AtRest
    BY <1>1 DEF CleanInv, Requests, AtRest
  <1>3. air' = FramesOf(calls) /\ pending' = <<>>
    BY <1>1, <1>2
  <1>4. Requests' /\ Transfer' /\ Returned'
    BY <1>1, <1>2, <1>3 DEF CleanInv, Requests, Transfer, Returned, Own, SomethingLost, Lost
  <1>5. /\ air' \in Seq(Frames(calls)) /\ Len(air') = Size + 2 /\ DOMAIN air' = 1 .. Size + 2
        /\ air'[1] = InfoFrame(calls) /\ air'[Size + 2] = EndFrame(calls)
        /\ \A i \in 2 .. Size + 1 : air'[i] = DataFrame(calls, i - 2)
    BY <1>3, FramesShape, LenProperties
  <1>6. OnAir'
    <2>1. \A i \in DOMAIN air' :
              /\ air'[i].cmd = "End" <=> i = Len(air')
              /\ air'[i].cmd = "Info" => i = 1
      <3> SUFFICES ASSUME NEW i \in DOMAIN air'
                   PROVE  (air'[i].cmd = "End" <=> i = Len(air')) /\ (air'[i].cmd = "Info" => i = 1)
        OBVIOUS
      <3>1. i = 1 \/ i \in 2 .. Size + 1 \/ i = Size + 2
        BY <1>5, PhotoAssumption
      <3>2. CASE i = 1
        BY <1>5, <3>2, PhotoAssumption DEF InfoFrame
      <3>3. CASE i \in 2 .. Size + 1
        <4>1. air'[i].cmd = "Data"
          <5>1. air'[i] = DataFrame(calls, i - 2)
            BY <1>5, <3>3
          <5> QED
            BY <5>1 DEF DataFrame
        <4>2. i # 1 /\ i # Size + 2
          BY <3>3, PhotoAssumption
        <4> QED
          BY <1>5, <4>1, <4>2
      <3>4. CASE i = Size + 2
        BY <1>5, <3>4, PhotoAssumption DEF EndFrame
      <3> QED
        BY <3>1, <3>2, <3>3, <3>4
    <2>2. ~ Files!IsOpen'
      BY <1>1, <1>2 DEF Files!IsOpen
    <2> QED
      BY <1>1, <1>5, <2>1, <2>2 DEF OnAir
  <1>7. Traced'
    <2>1. air'[1].cmd = "Info"
      BY <1>5 DEF InfoFrame
    <2>2. \A a \in Offsets : \E i \in DOMAIN air' : air'[i] = DataFrame(calls', a)
      <3> SUFFICES ASSUME NEW a \in Offsets PROVE \E i \in DOMAIN air' : air'[i] = DataFrame(calls, a)
        BY <1>1
      <3>1. a + 2 \in 2 .. Size + 1 /\ a + 2 \in DOMAIN air' /\ (a + 2) - 2 = a
        BY <1>5, PhotoAssumption DEF Offsets
      <3> QED
        BY <1>5, <3>1
    <2> QED
      BY <2>1, <2>2 DEF Traced, Offsets
  <1>8. Told'
    <2>1. \A event : (\E j \in DOMAIN inbox : event = inbox[j]) => Fits(event)'
      BY <1>2, NoAnswerYet DEF CleanInv
    <2> QED
      BY <1>1, <2>1 DEF Told
  <1> QED
    BY <1>4, <1>6, <1>7, <1>8 DEF CleanInv

\* A frame the link loses is remembered.
LEMMA LoseClean ==
    ASSUME History, CleanInv, LoseFrame
    PROVE  CleanInv'
  <1>1. /\ air # <<>> /\ air' = Tail(air) /\ lost' = lost \cup {<<Head(air).photo, Head(air).cmd>>}
        /\ UNCHANGED <<declared_total, data, received, pending, phase, result, inbox, calls>>
    BY DEF LoseFrame, files, channel, history
  <1>2. /\ Head(air) = air[1] /\ air[1].photo = calls
        /\ <<calls, air[1].cmd>> \in lost' /\ lost \subseteq lost'
    BY <1>1, FirstFrame DEF CleanInv
  <1>3. SomethingLost => SomethingLost'
    BY <1>1, <1>2 DEF SomethingLost, Lost
  <1>4. OnAir'
    BY <1>1, AirMoves DEF CleanInv
  <1>5. Traced'
    <2>1. Lost("Info") => Lost("Info")'
      BY <1>1, <1>2 DEF Lost
    <2>2. air[1].cmd = "Info" \/ Files!IsOpen => Files!IsOpen' \/ Lost("Info")'
      BY <1>1, <1>2 DEF Lost, Files!IsOpen
    <2>3. \A a \in Offsets : a \in received \/ air[1] = DataFrame(calls, a) =>
              a \in received' \/ Lost("Data")' \/ Lost("Info")'
      BY <1>1, <1>2 DEF Lost, DataFrame
    <2> QED
      BY <1>1, <1>2, <2>2, <2>3, TracedOn DEF CleanInv
  <1>6. Told'
    <2>1. \A event : (\E j \in DOMAIN inbox : event = inbox[j]) => Fits(event)'
      BY <1>1, NoAnswerYet, Busy DEF CleanInv
    <2> QED
      BY <1>1, <2>1 DEF Told
  <1>7. Transfer' /\ Requests' /\ Returned'
    BY <1>1, <1>3, Busy DEF CleanInv, Transfer, Requests, Returned, Own
  <1> QED
    BY <1>4, <1>5, <1>6, <1>7 DEF CleanInv

\* An event that says nothing of a photo.
LEMMA WorldClean ==
    ASSUME History, CleanInv, OtherEvent \/ LinkDrops
    PROVE  CleanInv'
  <1>1. PICK event \in {Other, Disconnected} : Publish(Listening, <<event>>)
    BY DEF OtherEvent, LinkDrops
  <1>2. UNCHANGED <<declared_total, data, received, pending, air, lost, phase, result, calls>>
    BY DEF OtherEvent, LinkDrops, files, device, history
  <1>3. Transfer' /\ Requests' /\ OnAir' /\ Traced' /\ Returned'
    BY <1>2 DEF CleanInv, Transfer, Requests, AtRest, OnAir, Traced, Returned, Own, SomethingLost,
                Lost, Files!IsOpen
  <1>4. Told'
    <2>1. <<event>> \in Seq(Range(<<event>>)) /\ DOMAIN <<event>> = {1} /\ <<event>>[1] = event
      BY OneEvent
    <2>2. \A e : (\E j \in DOMAIN inbox : e = inbox[j]) => Fits(e)'
      BY <1>2 DEF CleanInv, Told, Fits, AtRest, Own, SomethingLost, Lost, Files!IsOpen
    <2>3. \A e : (\E k \in DOMAIN <<event>> : e = <<event>>[k]) => Fits(e)'
      BY <2>1 DEF Fits, Answers, Files!Aborts, Other, Disconnected
    <2> QED
      BY <1>1, <2>1, <2>2, <2>3, PublishFits
  <1> QED
    BY <1>3, <1>4 DEF CleanInv

\* The glasses give up the one photo they were asked for.
LEMMA FailClean ==
    ASSUME History, CleanInv, DeviceFails
    PROVE  CleanInv'
  <1>1. /\ pending # <<>> /\ air = <<>> /\ pending' = Tail(pending)
        /\ Publish(Listening, <<HdImageFailed>>)
        /\ UNCHANGED <<declared_total, data, received, air, lost, phase, result, calls>>
    BY DEF DeviceFails, files, history
  <1>2. phase = "waiting" /\ pending = <<calls>> /\ ~ Files!IsOpen /\ ~ AtRest
    BY <1>1 DEF CleanInv, Requests, AtRest
  <1>3. pending' = <<>> /\ ~ Files!IsOpen'
    BY <1>1, <1>2 DEF Files!IsOpen
  <1>4. Transfer' /\ Requests' /\ OnAir' /\ Traced' /\ Returned'
    BY <1>1, <1>2, <1>3 DEF CleanInv, Transfer, Requests, OnAir, Traced, Returned
  <1>5. Told'
    <2>1. /\ <<HdImageFailed>> \in Seq(Range(<<HdImageFailed>>))
          /\ DOMAIN <<HdImageFailed>> = {1} /\ <<HdImageFailed>>[1] = HdImageFailed
      BY OneEvent
    <2>2. \A e : (\E j \in DOMAIN inbox : e = inbox[j]) => Fits(e)'
      BY <1>2, NoAnswerYet DEF CleanInv
    <2>3. AtRest'
      BY <1>1, <1>3 DEF AtRest
    <2>4. \A e : (\E k \in DOMAIN <<HdImageFailed>> : e = <<HdImageFailed>>[k]) => Fits(e)'
      BY <2>1, <2>3 DEF Fits, Files!Aborts, HdImageFailed
    <2> QED
      BY <1>1, <2>1, <2>2, <2>4, PublishFits
  <1> QED
    BY <1>4, <1>5 DEF CleanInv

-----------------------------------------------------------------------------
\* A new call finds nothing of the last one, on the air, in the pump or in the channel.
LEMMA CallClean ==
    ASSUME History, CleanInv, Clean', Call
    PROVE  CleanInv'
  <1>1. /\ phase # "waiting" /\ phase' = "waiting" /\ calls' = calls + 1
        /\ pending' = Append(pending, calls') /\ inbox' = <<>>
        /\ UNCHANGED <<declared_total, data, received, air, lost>>
    BY DEF Call, Subscribe, Clean, Answered, files
  <1>2. pending = <<>> /\ air = <<>> /\ ~ Files!IsOpen
    BY <1>1 DEF CleanInv, Requests, AtRest
  <1>3. declared_total = 0 /\ received = {}
    BY <1>2, PhotoAssumption DEF CleanInv, Transfer, Files!IsOpen
  <1>4. pending' = <<calls'>> /\ air' = <<>> /\ ~ Files!IsOpen'
    BY <1>1, <1>2 DEF Files!IsOpen
  <1>5. OnAir'
    BY <1>4 DEF OnAir
  <1>6. Transfer'
    <2>1. DOMAIN data' = 0 .. declared_total' - 1
      BY <1>1 DEF CleanInv, Transfer
    <2> QED
      BY <1>1, <1>3, <2>1 DEF Transfer
  <1>7. Requests' /\ Traced' /\ Returned'
    BY <1>1, <1>4 DEF Requests, Traced, Returned
  <1>8. Told'
    BY <1>1 DEF Told
  <1> QED
    BY <1>5, <1>6, <1>7, <1>8 DEF CleanInv

\* The client takes the answer there is, or none.
LEMMA ClientClean ==
    ASSUME History, CleanInv, Clean', ClientStep \/ Tick
    PROVE  CleanInv'
  <1>1. UNCHANGED <<declared_total, data, received, pending, air, lost, calls>> /\ phase = "waiting"
    BY DEF ClientStep, Tick, ReceiveLagged, Receive, Expire, files, device, history
  <1>2. Transfer' /\ OnAir' /\ Traced' /\ (SomethingLost => SomethingLost') /\ (AtRest => AtRest')
    BY <1>1 DEF CleanInv, Transfer, OnAir, Traced, SomethingLost, Lost, AtRest, Files!IsOpen
  <1>3. \A event : Fits(event) => Fits(event)'
    BY <1>1, <1>2 DEF Fits, Own
  <1>4. CASE Receive
    <2>1. /\ inbox \in Seq(Range(inbox)) /\ inbox # <<>> /\ inbox' = Tail(inbox)
          /\ Answer(Head(inbox))
      BY <1>4 DEF Receive, RecvEvent, History
    <2>2. /\ Head(inbox) = inbox[1] /\ 1 \in DOMAIN inbox
          /\ \A j \in DOMAIN inbox' : j + 1 \in DOMAIN inbox /\ inbox'[j] = inbox[j + 1]
      <3> DEFINE n == Len(inbox)
      <3>1. n \in Nat \ {0} /\ DOMAIN inbox = 1 .. n
        BY <2>1, EmptySeq, LenProperties
      <3>2. /\ Len(inbox') = n - 1 /\ DOMAIN inbox' = 1 .. Len(inbox')
            /\ \A j \in 1 .. n - 1 : inbox'[j] = inbox[j + 1]
        BY <2>1, HeadTailProperties, LenProperties
      <3> HIDE DEF n
      <3> QED
        BY <2>1, <3>1, <3>2
    <2>3. Told'
      BY <1>1, <1>2, <2>2 DEF CleanInv, Told, Fits, Own
    <2>4. Fits(inbox[1])
      BY <2>2 DEF CleanInv, Told
    <2>5. Requests' /\ Returned'
      <3> DEFINE e == inbox[1]
      <3>1. Answer(e)
        BY <2>1, <2>2
      <3> HIDE DEF e
      <3>2. CASE e.kind = "Completed" /\ phase' = "photo" /\ result' = e.data
        <4>1. AtRest /\ Own(result')
          BY <2>4, <3>2 DEF Fits, Answers, e
        <4> QED
          BY <1>1, <1>2, <3>2, <4>1 DEF Requests, Returned, Own
      <3>3. CASE e.kind \in Files!Aborts /\ phase' = "aborted"
        <4>1. AtRest /\ SomethingLost
          BY <2>4, <3>3 DEF Fits, Answers, e
        <4> QED
          BY <1>2, <3>3, <4>1 DEF Requests, Returned
      <3>4. CASE e.kind = "HdImageFailed" /\ phase' = "rejected"
        <4>1. AtRest
          BY <2>4, <3>4 DEF Fits, Answers, e
        <4> QED
          BY <1>2, <3>4, <4>1 DEF Requests, Returned
      <3>5. CASE e.kind \in {"Started", "Other"} /\ NextTurn
        <4>1. phase' = "waiting"
          BY <1>1, <3>5 DEF NextTurn, Clean, Answered
        <4> QED
          BY <1>1, <4>1 DEF CleanInv, Requests, Returned, Files!IsOpen
      <3>6. phase' # "disconnected"
        BY DEF Clean, Answered
      <3> QED
        BY <3>1, <3>2, <3>3, <3>4, <3>5, <3>6 DEF Answer
    <2> QED
      BY <1>2, <2>3, <2>5 DEF CleanInv
  <1>5. CASE ReceiveLagged \/ Expire \/ Tick
    <2>1. inbox' = inbox /\ phase' = "waiting"
      BY <1>1, <1>5 DEF ReceiveLagged, Expire, Tick, NextTurn, RecvLagged, channel, Clean, Answered
    <2>2. Told'
      BY <1>1, <1>2, <2>1 DEF CleanInv, Told, Fits, Own
    <2>3. Requests' /\ Returned'
      BY <1>1, <2>1 DEF CleanInv, Requests, Returned, Files!IsOpen
    <2> QED
      BY <1>2, <2>2, <2>3 DEF CleanInv
  <1> QED
    BY <1>4, <1>5 DEF ClientStep

-----------------------------------------------------------------------------
LEMMA InitInv == Init => PhotoInv
  <1> SUFFICES ASSUME Init PROVE PhotoInv
    OBVIOUS
  <1>1. History
    <2>1. inbox \in Seq(Range(inbox)) /\ outcomes \in Seq(Over)
      BY SeqOfRange DEF Init
    <2> QED
      BY <2>1 DEF Init, History
  <1>2. LinkWords
    BY DEF Init, LinkWords
  <1>3. CleanInv
    BY DEF Init, CleanInv, Transfer, Requests, AtRest, OnAir, Traced, Told, Returned, Files!Init,
           Files!Empty, Files!Offsets, Files!IsOpen
  <1> QED
    BY <1>1, <1>2, <1>3 DEF PhotoInv

\* The invariant is inductive.
LEMMA NextInv == PhotoInv /\ [Next]_vars => PhotoInv'
  <1> SUFFICES ASSUME PhotoInv, [Next]_vars PROVE PhotoInv'
    OBVIOUS
  <1>1. History /\ LinkWords /\ (Clean' => Clean /\ CleanInv)
    BY CleanWas DEF PhotoInv
  <1>2. CASE UNCHANGED vars
    <2>1. UNCHANGED <<declared_total, data, received, pending, air, lost, link, phase, result,
                      inbox, outcomes, calls>>
      BY <1>2 DEF vars, files, device, channel, history
    <2>2. History' /\ LinkWords'
      BY <1>1, <2>1 DEF History, LinkWords
    <2>3. CleanInv => CleanInv'
      BY <2>1 DEF CleanInv, Transfer, Requests, AtRest, OnAir, Traced, Told, Returned, Fits, Own,
                  SomethingLost, Lost, Files!IsOpen
    <2> QED
      BY <1>1, <2>2, <2>3 DEF PhotoInv
  <1>3. CASE DevicePushes \/ LoseFrame
    <2>1. UNCHANGED <<link, phase, inbox, outcomes, calls>>
      BY <1>3 DEF DevicePushes, LoseFrame, channel, history
    <2>2. History' /\ LinkWords'
      BY <1>1, <2>1 DEF History, LinkWords
    <2> QED
      BY <1>1, <1>3, <2>2, PushClean, LoseClean DEF PhotoInv
  <1>4. CASE PumpFile
    <2>1. /\ Publish(Listening, events') /\ UNCHANGED <<phase, outcomes, calls>> /\ link' = link
          /\ events' \in Seq(Range(events'))
          /\ \A k \in DOMAIN events' : events'[k].kind # "Disconnected"
      BY <1>4, PumpEvents DEF PumpFile, history
    <2>2. History' /\ LinkWords'
      BY <1>1, <2>1, PublishKeeps
    <2> QED
      BY <1>1, <1>4, <2>2, PumpClean DEF PhotoInv
  <1>5. CASE DeviceFails \/ OtherEvent \/ LinkDrops
    <2>1. PICK event \in {HdImageFailed, Other, Disconnected} :
              /\ Publish(Listening, <<event>>) /\ UNCHANGED <<phase, outcomes, calls>>
              /\ \/ link' = link /\ event.kind # "Disconnected"
                 \/ ~ link'
      BY <1>5 DEF DeviceFails, OtherEvent, LinkDrops, history, HdImageFailed, Other, Disconnected
    <2>2. <<event>> \in Seq(Range(<<event>>)) /\ DOMAIN <<event>> = {1} /\ <<event>>[1] = event
      BY OneEvent
    <2>3. History' /\ LinkWords'
      BY <1>1, <2>1, <2>2, PublishKeeps
    <2> QED
      BY <1>1, <1>5, <2>3, FailClean, WorldClean DEF PhotoInv
  <1>6. CASE Call
    BY <1>1, <1>6, CallKeeps, CallClean DEF PhotoInv
  <1>7. CASE ClientStep \/ Tick
    BY <1>1, <1>7, ClientKeeps, ClientClean DEF PhotoInv
  <1> QED
    BY <1>2, <1>3, <1>4, <1>5, <1>6, <1>7 DEF Next

LEMMA SpecInv == Spec => []PhotoInv
  BY InitInv, NextInv, PTL DEF Spec

\* When every call before it got an answer, a take_photo that returns a photo returns
\* the photo it asked for, whatever frames of this and of earlier photos were lost.
THEOREM PhotoIsOwn == Spec => []OwnPhoto
  <1>1. PhotoInv => OwnPhoto
    <2> SUFFICES ASSUME PhotoInv, phase = "photo",
                        \A k \in DOMAIN outcomes : outcomes[k] \in {"photo", "aborted", "rejected"}
                 PROVE  Origins = {calls}
      BY DEF OwnPhoto
    <2>1. Own(result)
      BY DEF PhotoInv, Clean, Answered, CleanInv, Returned
    <2> QED
      BY <2>1 DEF Own, Origins
  <1> QED
    BY <1>1, SpecInv, PTL

\* An aborted transfer is never made up: a frame of this very photo was lost, or a call
\* before it gave up on a transfer the glasses were still busy with.
THEOREM AbortExplained == Spec => []AbortHasCause
  <1>1. PhotoInv => AbortHasCause
    <2> SUFFICES ASSUME PhotoInv, phase = "aborted",
                        \A k \in DOMAIN outcomes : outcomes[k] \notin {"timeout", "failed"}
                 PROVE  \E cmd \in {"Info", "Data", "End"} : <<calls, cmd>> \in lost
      BY DEF AbortHasCause
    <2>1. \A k \in DOMAIN outcomes : outcomes[k] \in Over /\ outcomes[k] # "disconnected"
      BY ElementOfSeq, LenProperties DEF PhotoInv, History, LinkWords
    <2>2. Clean
      BY <2>1 DEF Clean, Answered, Over
    <2> QED
      BY <2>2 DEF PhotoInv, CleanInv, Returned, SomethingLost, Lost
  <1> QED
    BY <1>1, SpecInv, PTL

-----------------------------------------------------------------------------
(* open_wifi.                                                              *)

WifiEvents == {Other, Disconnected} \cup {Credentials(s) : s \in Services}

IsRequest(i) == i \in DOMAIN asked /\ asked[i] \in Services
IsAnswer(j) == j \in DOMAIN inbox /\ inbox[j].kind = "WifiCredentials"

\* The services no call has given up on.
Kept == Services \ (owed \cup GaveUp)

\* A request for such a service is outstanding only while its own call waits, once,
\* and nothing has answered it.
OneRequest ==
    \A i \in DOMAIN asked : IsRequest(i) /\ asked[i] \in Kept =>
        /\ call = "waiting" /\ asked[i] = service
        /\ \A k \in DOMAIN asked : IsRequest(k) /\ asked[k] = service => k = i
        /\ \A j \in DOMAIN inbox : IsAnswer(j) => inbox[j].service # service

OwnAnswer ==
    /\ call = "waiting" =>
          \A j \in DOMAIN inbox :
              IsAnswer(j) /\ inbox[j].service \in Kept => inbox[j].service = service
    /\ call \in {"settling", "open"} => credentials \in {service} \cup owed

WifiShape ==
    /\ asked \in Seq(Services \cup {"close"})
    /\ inbox \in Seq(WifiEvents) /\ Len(inbox) <= EventBuffer
    /\ service \in Services
    /\ call \in Ended \cup {"idle", "waiting", "settling"}

WifiInv == WifiShape /\ OneRequest /\ OwnAnswer

-----------------------------------------------------------------------------
\* What a full channel loses to the next event.
Gone == IF Len(inbox) = EventBuffer THEN 1 ELSE 0

LEMMA SendOne ==
    ASSUME NEW S, inbox \in Seq(S), Len(inbox) <= EventBuffer,
           NEW event \in S, Publish(TRUE, <<event>>)
    PROVE  /\ inbox' \in Seq(S)
           /\ Len(inbox') = Len(inbox) + 1 - Gone /\ Len(inbox') <= EventBuffer
           /\ inbox' # <<>> /\ inbox'[Len(inbox')] = event
           /\ \A i \in 1 .. Len(inbox) - Gone : inbox'[i] = inbox[i + Gone]
  <1> DEFINE all == inbox \o <<event>>
  <1>1. /\ all \in Seq(S) /\ Len(all) = Len(inbox) + 1 /\ Len(inbox) \in Nat
        /\ \A i \in 1 .. Len(inbox) : all[i] = inbox[i]
        /\ all[Len(inbox) + 1] = event
    <2>1. <<event>> \in Seq(S) /\ Len(<<event>>) = 1 /\ <<event>>[1] = event
      OBVIOUS
    <2>2. Len(inbox) \in Nat
      BY LenProperties
    <2> QED
      BY <2>1, <2>2, ConcatProperties
  <1> HIDE DEF all
  <1>2. inbox' = SubSeq(all, Gone + 1, Len(all))
    <2> DEFINE excess == IF Len(all) > EventBuffer THEN Len(all) - EventBuffer ELSE 0
    <2>1. inbox' = SubSeq(all, excess + 1, Len(all))
      BY DEF Publish, all
    <2>2. excess = Gone
      BY <1>1, ChannelAssumption DEF Gone
    <2> QED
      BY <2>1, <2>2
  <1>9. Gone \in {0, 1}
    BY DEF Gone
  <1>3. \A i \in Gone + 1 .. Len(all) : all[i] \in S
    BY <1>1, <1>9, ElementOfSeq
  <1>4. /\ inbox' \in Seq(S)
        /\ Len(inbox') = Len(all) - Gone
        /\ \A i \in 1 .. Len(all) - Gone : inbox'[i] = all[Gone + i]
    BY <1>9, <1>1, <1>2, <1>3, SubSeqProperties
  <1>5. Len(inbox') >= 1 /\ Len(inbox') <= EventBuffer
    BY <1>9, <1>1, <1>2, <1>4, ChannelAssumption DEF Gone
  <1>6. inbox' # <<>> /\ inbox'[Len(inbox')] = event
    <2>1. Len(inbox') \in 1 .. Len(all) - Gone /\ Gone + Len(inbox') = Len(inbox) + 1
      BY <1>9, <1>1, <1>4, <1>5
    <2>2. inbox'[Len(inbox')] = all[Gone + Len(inbox')]
      BY <2>1, <1>4
    <2>3. inbox' # <<>>
      BY <1>5, <1>4, EmptySeq
    <2> QED
      BY <2>1, <2>2, <2>3, <1>1
  <1>7. \A i \in 1 .. Len(inbox) - Gone : inbox'[i] = inbox[i + Gone]
    BY <1>9, <1>1, <1>2, <1>4
  <1> QED
    BY <1>1, <1>4, <1>5, <1>6, <1>7, <1>9

\* What is published while the call listens is typed, and adds one event at most.
LEMMA PublishTyped ==
    ASSUME WifiShape, NEW event \in WifiEvents, Publish(Waiting, <<event>>)
    PROVE  /\ inbox' \in Seq(WifiEvents) /\ Len(inbox') <= EventBuffer
           /\ \A j \in DOMAIN inbox' : inbox'[j] = event \/ \E i \in DOMAIN inbox : inbox'[j] = inbox[i]
  <1>1. CASE ~ Waiting
    <2>1. inbox' = inbox
      BY <1>1 DEF Publish, channel
    <2> QED
      BY <2>1 DEF WifiShape
  <1>2. CASE Waiting
    <2>1. /\ inbox' \in Seq(WifiEvents)
          /\ Len(inbox') = Len(inbox) + 1 - Gone /\ Len(inbox') <= EventBuffer
          /\ inbox'[Len(inbox')] = event
          /\ \A i \in 1 .. Len(inbox) - Gone : inbox'[i] = inbox[i + Gone]
      BY <1>2, SendOne DEF WifiShape
    <2>2. /\ DOMAIN inbox = 1 .. Len(inbox) /\ DOMAIN inbox' = 1 .. Len(inbox')
          /\ Len(inbox) \in Nat /\ Len(inbox') \in Nat /\ Gone \in {0, 1}
      BY <2>1, LenProperties DEF WifiShape, Gone
    <2>3. ASSUME NEW j \in DOMAIN inbox', j # Len(inbox')
          PROVE  \E i \in DOMAIN inbox : inbox'[j] = inbox[i]
      <3>1. j \in 1 .. Len(inbox) - Gone /\ j + Gone \in DOMAIN inbox
        BY <2>1, <2>2, <2>3
      <3> QED
        BY <2>1, <3>1
    <2> QED
      BY <2>1, <2>3
  <1> QED
    BY <1>1, <1>2

\* An answer is the 0x25 of some service.
LEMMA AnswerHasService ==
    ASSUME NEW event \in WifiEvents, event.kind = "WifiCredentials"
    PROVE  \E s \in Services : event = Credentials(s)
  BY DEF WifiEvents, Other, Disconnected

-----------------------------------------------------------------------------
\* The glasses take the oldest write: what is left was there before.
LEMMA OldestWrite ==
    ASSUME WifiShape, asked # <<>>, asked' = Tail(asked)
    PROVE  /\ asked' \in Seq(Services \cup {"close"})
           /\ Head(asked) = asked[1] /\ 1 \in DOMAIN asked
           /\ \A i \in DOMAIN asked' : i # 0 /\ i + 1 \in DOMAIN asked /\ asked'[i] = asked[i + 1]
  <1>1. /\ asked' \in Seq(Services \cup {"close"}) /\ Len(asked') = Len(asked) - 1
        /\ Head(asked) = asked[1]
        /\ \A i \in 1 .. Len(asked') : asked'[i] = asked[i + 1]
    BY HeadTailProperties DEF WifiShape
  <1>2. /\ DOMAIN asked = 1 .. Len(asked) /\ Len(asked) \in Nat \ {0}
        /\ DOMAIN asked' = 1 .. Len(asked')
    BY <1>1, LenProperties, EmptySeq DEF WifiShape
  <1> QED
    BY <1>1, <1>2

\* While the call stands where it stood, the same services are kept.
LEMMA SameKept ==
    ASSUME UNCHANGED <<call, service, credentials, owed>>
    PROVE  Kept' = Kept
  BY DEF Kept, GaveUp

LEMMA GlassesHandleInv == WifiInv /\ GlassesHandle => WifiInv'
  <1> SUFFICES ASSUME WifiInv, GlassesHandle PROVE WifiInv'
    OBVIOUS
  <1>1. WifiShape /\ OneRequest /\ OwnAnswer /\ asked # <<>> /\ asked' = Tail(asked)
    BY DEF WifiInv, GlassesHandle
  <1>2. UNCHANGED <<call, service, credentials, owed>>
    BY DEF GlassesHandle, opening
  <1>3. /\ asked' \in Seq(Services \cup {"close"})
        /\ Head(asked) = asked[1] /\ 1 \in DOMAIN asked
        /\ \A i \in DOMAIN asked' : i # 0 /\ i + 1 \in DOMAIN asked /\ asked'[i] = asked[i + 1]
    BY <1>1, OldestWrite
  <1>4. Kept' = Kept
    BY <1>2, SameKept
  <1>5. \A i \in DOMAIN asked' : IsRequest(i)' => IsRequest(i + 1)
    BY <1>3 DEF IsRequest
  \* What is left in the queue was one place further back.
  <1>6. ASSUME NEW i \in DOMAIN asked', IsRequest(i)', asked'[i] \in Kept'
        PROVE  /\ call = "waiting" /\ asked'[i] = service
               /\ \A k \in DOMAIN asked' : IsRequest(k)' /\ asked'[k] = service => k = i
               /\ \A j \in DOMAIN inbox : IsAnswer(j) => inbox[j].service # service
               /\ ~ (IsRequest(1) /\ asked[1] = service)
    <2>1. IsRequest(i + 1) /\ i + 1 \in DOMAIN asked /\ asked[i + 1] \in Kept
      BY <1>3, <1>4, <1>5, <1>6
    <2>2. /\ call = "waiting" /\ asked[i + 1] = service
          /\ \A k \in DOMAIN asked : IsRequest(k) /\ asked[k] = service => k = i + 1
          /\ \A j \in DOMAIN inbox : IsAnswer(j) => inbox[j].service # service
      BY <1>1, <2>1 DEF OneRequest
    <2>3. i \in Nat /\ i # 0
      BY <1>3, LenProperties
    <2>4. ASSUME NEW k \in DOMAIN asked', IsRequest(k)', asked'[k] = service PROVE k = i
      <3>1. k + 1 = i + 1
        BY <1>3, <1>5, <2>2, <2>4
      <3>2. k \in Nat
        BY <1>3, LenProperties
      <3> QED
        BY <2>3, <3>1, <3>2
    <2>5. ~ (IsRequest(1) /\ asked[1] = service)
      BY <1>3, <2>2, <2>3
    <2> QED
      BY <1>3, <2>2, <2>4, <2>5
  <1>7. CASE inbox' = inbox
    <2>1. WifiShape'
      BY <1>1, <1>2, <1>3, <1>7 DEF WifiShape
    <2>2. OneRequest'
      BY <1>2, <1>6, <1>7 DEF OneRequest, IsAnswer
    <2>3. OwnAnswer'
      BY <1>1, <1>2, <1>4, <1>7 DEF OwnAnswer, IsAnswer
    <2> QED
      BY <2>1, <2>2, <2>3 DEF WifiInv
  <1>8. CASE Head(asked) \in Services /\ Publish(Waiting, <<Credentials(Head(asked))>>)
    <2> DEFINE event == Credentials(Head(asked))
    <2>1. event \in WifiEvents /\ event.kind = "WifiCredentials" /\ event.service = Head(asked)
      BY <1>8 DEF WifiEvents, Credentials
    <2>2. /\ inbox' \in Seq(WifiEvents) /\ Len(inbox') <= EventBuffer
          /\ \A j \in DOMAIN inbox' :
                inbox'[j] = event \/ \E i \in DOMAIN inbox : inbox'[j] = inbox[i]
      BY <1>1, <1>8, <2>1, PublishTyped
    <2>3. WifiShape'
      BY <1>1, <1>2, <1>3, <2>2 DEF WifiShape
    <2>4. IsRequest(1)
      BY <1>3, <1>8 DEF IsRequest
    <2> HIDE DEF event
    <2>5. \A j \in DOMAIN inbox' : IsAnswer(j)' =>
             inbox'[j] = event \/ \E i \in DOMAIN inbox : IsAnswer(i) /\ inbox'[j] = inbox[i]
      BY <2>2 DEF IsAnswer
    <2>6. OneRequest'
      <3> SUFFICES ASSUME NEW i \in DOMAIN asked', IsRequest(i)', asked'[i] \in Kept'
                   PROVE  /\ call' = "waiting" /\ asked'[i] = service'
                          /\ \A k \in DOMAIN asked' : IsRequest(k)' /\ asked'[k] = service' => k = i
                          /\ \A j \in DOMAIN inbox' : IsAnswer(j)' => inbox'[j].service # service'
        BY DEF OneRequest
      <3>1. /\ call = "waiting" /\ asked'[i] = service
            /\ \A k \in DOMAIN asked' : IsRequest(k)' /\ asked'[k] = service => k = i
            /\ \A j \in DOMAIN inbox : IsAnswer(j) => inbox[j].service # service
            /\ asked[1] # service
        BY <1>6, <2>4
      <3>2. event.service # service
        BY <1>3, <2>1, <3>1
      <3>3. \A j \in DOMAIN inbox' : IsAnswer(j)' => inbox'[j].service # service
        BY <2>5, <3>1, <3>2
      <3> QED
        BY <1>2, <3>1, <3>3
    <2>7. OwnAnswer'
      <3>1. call = "waiting" /\ event.service \in Kept => event.service = service
        BY <1>1, <1>3, <2>1, <2>4 DEF OneRequest
      <3>2. ASSUME call = "waiting", NEW j \in DOMAIN inbox', IsAnswer(j)', inbox'[j].service \in Kept
            PROVE  inbox'[j].service = service
        BY <1>1, <2>5, <3>1, <3>2 DEF OwnAnswer
      <3> QED
        BY <1>1, <1>2, <1>4, <3>2 DEF OwnAnswer
    <2> QED
      BY <2>3, <2>6, <2>7 DEF WifiInv
  <1> QED
    BY <1>7, <1>8 DEF GlassesHandle, channel

\* The glasses' other doings and the link's put no answer into the channel.
LEMMA NoiseInv == WifiInv /\ (ApDrops \/ OtherPush \/ ConnectionDrops) => WifiInv'
  <1> SUFFICES ASSUME WifiInv, ApDrops \/ OtherPush \/ ConnectionDrops PROVE WifiInv'
    OBVIOUS
  <1>1. /\ UNCHANGED <<asked, call, service, credentials, owed>>
        /\ WifiShape /\ OneRequest /\ OwnAnswer
    BY DEF ApDrops, OtherPush, ConnectionDrops, glasses, opening, WifiInv
  <1>2. /\ inbox' \in Seq(WifiEvents) /\ Len(inbox') <= EventBuffer
        /\ \A j \in DOMAIN inbox' : IsAnswer(j)' =>
              \E i \in DOMAIN inbox : IsAnswer(i) /\ inbox'[j] = inbox[i]
    <2>1. CASE ApDrops
      BY <1>1, <2>1 DEF ApDrops, channel, WifiShape, IsAnswer
    <2>2. CASE OtherPush \/ ConnectionDrops
      <3>1. PICK event \in {Other, Disconnected} : Publish(Waiting, <<event>>)
        BY <2>2 DEF OtherPush, ConnectionDrops
      <3>2. event \in WifiEvents /\ event.kind # "WifiCredentials"
        BY DEF WifiEvents, Other, Disconnected
      <3> QED
        BY <1>1, <3>1, <3>2, PublishTyped DEF IsAnswer
    <2> QED
      BY <2>1, <2>2
  <1>3. Kept' = Kept
    BY <1>1, SameKept
  <1>4. WifiShape'
    BY <1>1, <1>2 DEF WifiShape
  <1>5. OneRequest'
    BY <1>1, <1>2, <1>3 DEF OneRequest, IsRequest
  <1>6. OwnAnswer'
    BY <1>1, <1>2, <1>3 DEF OwnAnswer
  <1> QED
    BY <1>4, <1>5, <1>6 DEF WifiInv
-----------------------------------------------------------------------------
\* A write joins the glasses' queue at its end.
LEMMA WriteJoins ==
    ASSUME WifiShape, NEW w \in Services \cup {"close"}, asked' = Append(asked, w)
    PROVE  /\ asked' \in Seq(Services \cup {"close"})
           /\ \A i \in DOMAIN asked' :
                 IF i \in DOMAIN asked THEN asked'[i] = asked[i] ELSE i = Len(asked) + 1 /\ asked'[i] = w
  <1>1. /\ asked' \in Seq(Services \cup {"close"}) /\ Len(asked') = Len(asked) + 1
        /\ \A i \in 1 .. Len(asked) : asked'[i] = asked[i]
        /\ asked'[Len(asked) + 1] = w
    BY AppendProperties DEF WifiShape
  <1>2. /\ DOMAIN asked = 1 .. Len(asked) /\ Len(asked) \in Nat
        /\ DOMAIN asked' = 1 .. Len(asked) + 1
    BY <1>1, LenProperties DEF WifiShape
  <1> QED
    BY <1>1, <1>2

LEMMA OpenWifiInv ==
    ASSUME WifiInv, NEW s \in Services, OpenWifi(s)
    PROVE  WifiInv'
  <1>1. /\ WifiShape /\ OneRequest /\ ~ Waiting /\ call \notin {"waiting", "settling"}
        /\ service' = s /\ inbox' = <<>> /\ owed' = owed \cup GaveUp
    BY DEF WifiInv, OpenWifi, Subscribe, Waiting
  <1>2. asked' = asked \/ asked' = Append(asked, s)
    BY DEF OpenWifi
  <1>3. WifiShape'
    <2>1. asked' \in Seq(Services \cup {"close"})
      BY <1>1, <1>2, WriteJoins DEF WifiShape
    <2>2. <<>> \in Seq(WifiEvents) /\ Len(<<>>) <= EventBuffer
      BY ChannelAssumption
    <2>3. call' \in {"waiting", "failed"}
      BY DEF OpenWifi
    <2> QED
      BY <1>1, <2>1, <2>2, <2>3 DEF WifiShape, Ended
  \* Nothing was outstanding for a service that is still kept: only the write is.
  <1>4. ASSUME NEW i \in DOMAIN asked', IsRequest(i)', asked'[i] \in Kept'
        PROVE  i = Len(asked) + 1 /\ asked'[i] = s /\ asked' = Append(asked, s)
    <2>1. asked'[i] \in Kept
      BY <1>1, <1>4 DEF Kept
    <2>2. ~ (i \in DOMAIN asked /\ asked'[i] = asked[i])
      BY <1>1, <1>4, <2>1 DEF OneRequest, IsRequest
    <2>3. asked' = Append(asked, s)
      BY <1>2, <1>4, <2>2
    <2> QED
      BY <1>1, <1>4, <2>2, <2>3, WriteJoins
  <1>5. CASE call' = "failed"
    <2>1. s \notin Kept'
      BY <1>1, <1>5 DEF Kept, GaveUp
    <2> QED
      BY <1>3, <1>4, <1>5, <2>1 DEF WifiInv, OneRequest, OwnAnswer
  <1>6. CASE asked' = Append(asked, s) /\ call' = "waiting"
    <2>1. ASSUME NEW i \in DOMAIN asked', IsRequest(i)', asked'[i] \in Kept',
                 NEW k \in DOMAIN asked', IsRequest(k)', asked'[k] = s
          PROVE  k = i
      BY <1>4, <2>1
    <2>2. \A j \in DOMAIN inbox' : FALSE
      BY <1>1
    <2>3. OneRequest' /\ OwnAnswer'
      BY <1>1, <1>4, <1>6, <2>1, <2>2 DEF OneRequest, OwnAnswer
    <2> QED
      BY <1>3, <2>3 DEF WifiInv
  <1> QED
    BY <1>5, <1>6 DEF OpenWifi

\* The 0x25 that is taken is the call's own, or one that is owed to another; in the
\* first case the call leaves no request behind, in the other it gives up on its own.
LEMMA ReceiveWifiInv == WifiInv /\ ReceiveWifi => WifiInv'
  <1> SUFFICES ASSUME WifiInv, ReceiveWifi PROVE WifiInv'
    OBVIOUS
  <1>1. /\ WifiShape /\ OneRequest /\ OwnAnswer
        /\ call = "waiting" /\ UNCHANGED <<asked, service, owed>>
    BY DEF WifiInv, ReceiveWifi, glasses
  <1>2. Kept = Services \ owed
    BY <1>1 DEF Kept, GaveUp
  <1>3. CASE call' \in {"timeout", "disconnected"}
    <2>1. inbox' \in Seq(WifiEvents) /\ Len(inbox') <= EventBuffer
      <3>1. CASE inbox' = inbox
        BY <1>1, <3>1 DEF WifiShape
      <3>2. CASE inbox # <<>> /\ inbox' = Tail(inbox)
        <4>1. inbox' \in Seq(WifiEvents) /\ Len(inbox') = Len(inbox) - 1 /\ Len(inbox) \in Nat
          BY <1>1, <3>2, HeadTailProperties, LenProperties DEF WifiShape
        <4> QED
          BY <1>1, <4>1, ChannelAssumption DEF WifiShape
      <3> QED
        BY <3>1, <3>2 DEF ReceiveWifi, RecvLagged, RecvEvent, channel
    <2>2. WifiShape'
      BY <1>1, <1>3, <2>1 DEF WifiShape, Ended
    <2>3. Kept' = Services \ (owed \cup {service})
      BY <1>1, <1>3 DEF Kept, GaveUp
    <2>4. OneRequest'
      BY <1>1, <1>2, <2>3 DEF OneRequest, IsRequest
    <2> QED
      BY <1>3, <2>2, <2>4 DEF WifiInv, OwnAnswer
  <1>4. CASE RecvLagged /\ NextWifiTurn /\ call' = "waiting"
    <2>1. UNCHANGED <<inbox, call, credentials>>
      BY <1>1, <1>4 DEF RecvLagged, NextWifiTurn
    <2>2. Kept' = Kept
      BY <1>1, <2>1, SameKept
    <2> QED
      BY <1>1, <2>1, <2>2 DEF WifiInv, WifiShape, OneRequest, OwnAnswer, IsRequest, IsAnswer
  <1>5. CASE RecvEvent /\ call' \in {"waiting", "settling"}
    <2>1. inbox # <<>> /\ inbox' = Tail(inbox)
      BY <1>5 DEF RecvEvent
    <2>2. /\ Head(inbox) = inbox[1] /\ 1 \in DOMAIN inbox
          /\ inbox' \in Seq(WifiEvents) /\ Len(inbox') = Len(inbox) - 1
          /\ \A j \in DOMAIN inbox' : j + 1 \in DOMAIN inbox /\ inbox'[j] = inbox[j + 1]
      <3>1. /\ Head(inbox) = inbox[1]
            /\ inbox' \in Seq(WifiEvents) /\ Len(inbox') = Len(inbox) - 1
            /\ \A j \in 1 .. Len(inbox') : inbox'[j] = inbox[j + 1]
        BY <1>1, <2>1, HeadTailProperties DEF WifiShape
      <3>2. /\ DOMAIN inbox = 1 .. Len(inbox) /\ DOMAIN inbox' = 1 .. Len(inbox')
            /\ Len(inbox) \in Nat \ {0}
        BY <1>1, <2>1, <3>1, LenProperties, EmptySeq DEF WifiShape
      <3> QED
        BY <3>1, <3>2
    <2>3. WifiShape'
      <3>1. Len(inbox) \in Nat
        BY <1>1, LenProperties DEF WifiShape
      <3> QED
        BY <1>1, <1>5, <2>2, <3>1, ChannelAssumption DEF WifiShape
    <2>4. CASE call' = "settling"
      <3>1. Head(inbox).kind = "WifiCredentials" /\ credentials' = Head(inbox).service
        BY <1>5, <1>1, <2>4, <2>1 DEF ReceiveWifi, RecvLagged, RecvEvent, NextWifiTurn, NothingReady
      <3>2. IsAnswer(1) /\ inbox[1].service = credentials'
        BY <2>2, <3>1 DEF IsAnswer
      <3>3. credentials' \in Services
        <4>1. inbox[1] \in WifiEvents
          BY <1>1, <2>2, ElementOfSeq, LenProperties DEF WifiShape
        <4>2. PICK t \in Services : inbox[1] = Credentials(t)
          BY <2>2, <3>1, <4>1, AnswerHasService
        <4> QED
          BY <3>2, <4>2 DEF Credentials
      <3>4. credentials' \in {service} \cup owed
        BY <1>1, <1>2, <2>2, <3>2, <3>3 DEF OwnAnswer
      <3>5. Kept' = IF credentials' = service THEN Services \ owed ELSE Services \ (owed \cup {service})
        BY <1>1, <2>4 DEF Kept, GaveUp
      <3>6. \A i \in DOMAIN asked : ~ (IsRequest(i) /\ asked[i] \in Kept')
        BY <1>1, <1>2, <2>2, <3>2, <3>5 DEF OneRequest
      <3>7. OneRequest'
        BY <1>1, <3>6 DEF OneRequest, IsRequest
      <3>8. OwnAnswer'
        BY <1>1, <2>4, <3>4 DEF OwnAnswer
      <3> QED
        BY <2>3, <3>7, <3>8 DEF WifiInv
    <2>5. CASE call' = "waiting"
      <3>1. Kept' = Kept
        BY <1>1, <2>5 DEF Kept, GaveUp
      <3>2. OneRequest'
        BY <1>1, <2>2, <2>5, <3>1 DEF OneRequest, IsRequest, IsAnswer
      <3>3. OwnAnswer'
        BY <1>1, <2>2, <2>5, <3>1 DEF OwnAnswer, IsAnswer
      <3> QED
        BY <2>3, <3>2, <3>3 DEF WifiInv
    <2> QED
      BY <1>5, <2>4, <2>5
  <1> QED
    BY <1>1, <1>3, <1>4, <1>5 DEF ReceiveWifi, NextWifiTurn

\* The settling, the clock and the tear-down ask for no service.
LEMMA AfterwardsInv == WifiInv /\ (Settled \/ WifiTick \/ CloseWifi) => WifiInv'
  <1> SUFFICES ASSUME WifiInv, Settled \/ WifiTick \/ CloseWifi PROVE WifiInv'
    OBVIOUS
  <1>1. /\ UNCHANGED <<inbox, service, credentials, owed>>
        /\ WifiShape /\ OneRequest /\ OwnAnswer
    BY DEF Settled, WifiTick, CloseWifi, channel, opening, WifiInv
  <1>2. CASE Settled \/ WifiTick
    <2>1. asked' = asked /\ (call' = call \/ (call = "settling" /\ call' = "open"))
      BY <1>2 DEF Settled, WifiTick, glasses
    <2>2. WifiShape'
      BY <1>1, <2>1 DEF WifiShape, Ended
    <2>3. Kept' = Kept
      BY <1>1, <2>1 DEF Kept, GaveUp
    <2>4. OneRequest'
      BY <1>1, <2>1, <2>3 DEF OneRequest, IsRequest, IsAnswer
    <2>5. OwnAnswer'
      BY <1>1, <2>1, <2>3 DEF OwnAnswer, IsAnswer
    <2> QED
      BY <2>2, <2>4, <2>5 DEF WifiInv
  <1>3. CASE CloseWifi
    <2>1. asked' = Append(asked, "close") /\ call' = call
      BY <1>3 DEF CloseWifi, opening
    <2>2. WifiShape'
      BY <1>1, <2>1, WriteJoins DEF WifiShape
    <2>3. Kept' = Kept
      BY <1>1, <2>1, SameKept
    <2>4. \A i \in DOMAIN asked' : IsRequest(i)' => IsRequest(i) /\ asked'[i] = asked[i]
      BY <1>1, <2>1, WriteJoins DEF IsRequest, Services
    <2>5. OneRequest'
      BY <1>1, <2>1, <2>3, <2>4 DEF OneRequest, IsRequest, IsAnswer
    <2>6. OwnAnswer'
      BY <1>1, <2>1, <2>3 DEF OwnAnswer, IsAnswer
    <2> QED
      BY <2>2, <2>5, <2>6 DEF WifiInv
  <1> QED
    BY <1>2, <1>3

-----------------------------------------------------------------------------
LEMMA WifiInitInv == WifiInit => WifiInv
  BY ChannelAssumption
     DEF WifiInit, WifiInv, WifiShape, OneRequest, OwnAnswer, Services

\* The invariant is inductive.
LEMMA WifiNextInv == WifiInv /\ [WifiNext]_wifi => WifiInv'
  <1> SUFFICES ASSUME WifiInv, [WifiNext]_wifi PROVE WifiInv'
    OBVIOUS
  <1>1. CASE UNCHANGED wifi
    <2>1. UNCHANGED <<asked, inbox, call, service, credentials, owed>>
      BY <1>1 DEF wifi, glasses, opening, channel
    <2>2. Kept' = Kept
      BY <2>1, SameKept
    <2> QED
      BY <2>1, <2>2 DEF WifiInv, WifiShape, OneRequest, OwnAnswer, IsRequest, IsAnswer
  <1>2. ASSUME NEW s \in Services, OpenWifi(s) PROVE WifiInv'
    BY <1>2, OpenWifiInv
  <1> QED
    BY <1>1, <1>2, GlassesHandleInv, NoiseInv, ReceiveWifiInv, AfterwardsInv DEF WifiNext, WifiStep

\* An open_wifi that returns has the SSID of its own service, or one that an open
\* before it asked for and did not return with; over any number of opens, late and
\* lost answers and link failures.
THEOREM ServiceIsOwn == WifiSpec => []OwnService
  <1>1. WifiInv => OwnService
    BY DEF WifiInv, OwnAnswer, OwnService
  <1> QED
    BY <1>1, WifiInitInv, WifiNextInv, PTL DEF WifiSpec
=============================================================================
