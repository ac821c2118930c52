-------------------------- MODULE MuxStreamProofs --------------------------
(***************************************************************************)
(* The theorems of MuxStream: every step keeps the inductive invariant of   *)
(* MuxStreamInv, one lemma per action, and what follows from it; and every  *)
(* step is one of Pipe or a stutter, so that MuxStream implements it.       *)
(***************************************************************************)
EXTENDS MuxStreamInv

-----------------------------------------------------------------------------
(* One lemma per action, with one step per part of the invariant that the    *)
(* action can disturb.                                                       *)

\* A part of the invariant whose variables keep their values is kept.
LEMMA Undisturbed ==
  /\ Places /\ UNCHANGED <<back, queue, rhand, rq, shand, sq, whand, wire>> =>
     Places'
  /\ SenderOK /\ UNCHANGED <<available, debited, ended, received, sClosed,
     sDropped, sHello, sWriter, shand, spc, sq>> => SenderOK'
  /\ ChannelOK /\ UNCHANGED <<back, delegator, holderGone, link, peer, wire>>
     => ChannelOK'
  /\ DriversOK /\ UNCHANGED <<arrived, issued, owed, rDropped, rHello,
     rWriter, rhand, rpc, rq, written>> => DriversOK'
  /\ SinkOK /\ UNCHANGED <<consumed, depthClosed, eof, queue, queued,
     registered, rxOpen, ungranted, wgrant, whand, wpc>> => SinkOK'
  /\ Control /\ UNCHANGED <<depthClosed, link, queue, rDropped, rHello,
     rWriter, rhand, rpc, rxOpen, sWriter, shand, spc, ungranted, wgrant,
     whand, wpc>> => Control'
  /\ Closing /\ UNCHANGED <<arrived, debited, ended, queue, registered,
     rxOpen, shand, spc, sq, wire>> => Closing'
  /\ Forward /\ UNCHANGED <<arrived, debited, link, shand, sq, wire>> =>
     Forward'
  /\ Received /\ UNCHANGED <<arrived, consumed, queue, queued, rhand, rpc,
     rxOpen, whand>> => Received'
  /\ Backward /\ UNCHANGED <<back, issued, link, received, rq, written>> =>
     Backward'
  /\ Granted /\ UNCHANGED <<consumed, owed, rq, rxOpen, ungranted, wgrant,
     written>> => Granted'
  /\ Overshoot /\ UNCHANGED <<available, debited, peer, received, sHello,
     spc>> => Overshoot'
  /\ HelloFirst /\ UNCHANGED <<back, delegator, link, peer, queue, rDropped,
     rHello, rpc, sClosed, sHello, wire, wpc>> => HelloFirst'
  /\ Accounted /\ UNCHANGED <<arrived, link, owed, peer, queued, rDropped,
     rhand, rpc, rq, rxOpen, spc, ungranted, wgrant, wpc, written>> =>
     Accounted'
  BY DEF Places, SenderOK, ChannelOK, DriversOK, SinkOK, Control, Closing,
     Forward, Received, Backward, Granted, Overshoot, HelloFirst, Accounted,
     Up, Empty, Counted, Returned, AtPump, AtReader

\* Waiting for credit moves nothing.
LEMMA SReadyStep ==
  ASSUME Inv, SReady
  PROVE  Inv'
  <1> USE DEF Inv, TypeOK, vars, setup, sPump, sCredit, sEnd, channel,
     rReader, rOut, rOwed, sinkVars, wPump
  <1>others. Places' /\ ChannelOK' /\ DriversOK' /\ SinkOK' /\ Forward' /\
     Received' /\ Backward' /\ Granted' /\ HelloFirst'
    BY Undisturbed DEF SReady
  <1>SenderOK. SenderOK'
    BY DEF SReady, SenderOK
  <1>Control. Control'
    BY DEF SReady, Control, Empty, Up
  <1>Closing. Closing'
    BY DEF SReady, Closing
  <1>Overshoot. Overshoot'
    BY DEF SReady, Overshoot
  <1>Accounted. Accounted'
    BY DEF SReady, Accounted, Up, Returned, AtPump, AtReader
  <1> QED BY <1>others, <1>SenderOK, <1>Control, <1>Closing, <1>Overshoot,
     <1>Accounted

\* A read charges its frame: one frame beyond the window at most.
LEMMA SReadStep ==
  ASSUME Inv, NEW cost \in Costs, SRead(cost)
  PROVE  Inv'
  <1> USE DEF Inv, TypeOK, vars, setup, sPump, sCredit, sEnd, channel,
     rReader, rOut, rOwed, sinkVars, wPump
  <1> DEFINE f == Frame("data", cost, debited + cost)
  <1>nat. debited \in Nat /\ available \in Int /\ received \in Nat
    BY DEF SenderOK
  <1>cost. cost \in Nat /\ cost <= Header + PumpBuf
    BY Sizes DEF Costs
  <1>facts. /\ f \in Data /\ f \in FromSource /\ f \in Frames
            /\ f.kind = "data" /\ f.cost = cost /\ f.upto = debited + cost
            /\ debited + cost \in Nat /\ debited <= debited + cost
    <2>1. debited + cost \in Nat /\ debited <= debited + cost
      BY <1>nat, <1>cost
    <2>2. /\ f \in Frames /\ f.kind = "data" /\ f.cost = cost
          /\ f.upto = debited + cost
      BY <2>1, <1>cost, NewFrame DEF Kinds
    <2> QED BY <2>1, <2>2 DEF Data, FromSource
  <1> HIDE DEF f
  <1>hand. /\ spc = "read" /\ shand = <<>> /\ shand' = <<f>> /\ spc' = "send"
           /\ debited' = debited + cost /\ available' = available - cost
    BY Hands DEF SRead, f
  <1>one. <<f>> \in Seq(FromSource) /\ Len(<<f>>) = 1 /\ Head(<<f>>) = f /\ <<f>>[1] = f
    BY <1>facts
  <1>others. ChannelOK' /\ DriversOK' /\ SinkOK' /\ Received' /\ Backward' /\
     Granted' /\ HelloFirst'
    BY Undisturbed DEF SRead
  <1>Places. Places'
    BY <1>hand, <1>one DEF SRead, Places
  <1>SenderOK. SenderOK'
    BY <1>hand, <1>nat, <1>cost, <1>facts, <1>Places, FrameSeqs DEF SRead,
       SenderOK, Places
  <1>Control. Control'
    BY <1>hand, <1>one DEF SRead, Control, Empty, Up
  <1>Closing. Closing'
    <2>1. /\ ~ended /\ ended' = ended /\ sq' = sq /\ wire' = wire /\ queue' = queue
          /\ arrived' = arrived /\ rxOpen' = rxOpen /\ registered' = registered
      BY <1>hand DEF SRead, Closing
    <2>2. /\ \A i \in 1..Len(sq) : sq[i].upto \in Nat
          /\ \A i \in 1..Len(wire) : wire[i].upto \in Nat
          /\ arrived \in Nat
      <3>1. sq \in Seq(Frames) /\ wire \in Seq(Frames)
        BY Hands
      <3>2. /\ \A i \in 1..Len(sq) : sq[i] \in Frames
            /\ \A i \in 1..Len(wire) : wire[i] \in Frames
        BY <3>1
      <3> QED BY <3>2, FrameFacts DEF DriversOK
    <2>3. \A n \in Nat : n <= debited => n <= debited'
      BY <1>hand, <1>nat, <1>cost
    <2>4. /\ \A i \in 1..Len(sq) : sq[i].upto <= debited' /\ sq[i].kind # "close"
          /\ \A i \in 1..Len(wire) : wire[i].upto <= debited' /\ wire[i].kind # "close"
          /\ \A i \in 1..Len(queue) : queue[i].kind # "close"
          /\ arrived <= debited' /\ ~(rxOpen /\ ~registered)
      BY <1>hand, <2>2, <2>3 DEF Closing
    <2>5. \A i \in 1..Len(shand') :
            /\ shand'[i].upto <= debited' /\ shand'[i].kind # "close"
      BY <1>hand, <1>one, <1>facts
    <2> QED BY <1>hand, <2>1, <2>4, <2>5 DEF Closing
  <1>Forward. Forward'
    <2> DEFINE e == End(sq, End(wire, arrived))
    <2>1. Chain(wire', arrived')
      BY DEF SRead, Forward
    <2>2. ASSUME Up
          PROVE  Chain(sq, End(wire, arrived)) /\ e = debited
      BY <2>2, <1>hand DEF Forward, End, Empty
    <2>3. Chain(<<f>>, debited) /\ End(<<f>>, debited) = debited + cost
      <3>1. <<f>> \in Seq(Frames) /\ debited \in Int
        BY <1>facts, <1>nat
      <3> QED BY <3>1, <1>facts, <1>one, Single
    <2> QED BY <1>hand, <2>1, <2>2, <2>3 DEF SRead, Forward, Up
  <1>Overshoot. Overshoot'
    <2>1. /\ sHello' = sHello /\ received' = received /\ peer' = peer /\ spc' = "send"
      BY DEF SRead
    <2>2. available = (IF sHello THEN Window ELSE 0) - debited + received
      BY <1>hand DEF Overshoot
    <2>3. peer = "windowed" => sHello /\ available > 0
      BY <1>hand DEF Overshoot
    <2> QED BY <1>hand, <1>nat, <1>cost, <2>1, <2>2, <2>3, Sizes DEF Overshoot
  <1>Accounted. Accounted'
    BY DEF SRead, Accounted, Up, Returned, AtPump, AtReader
  <1> QED BY <1>others, <1>Places, <1>SenderOK, <1>Control, <1>Closing,
     <1>Forward, <1>Overshoot, <1>Accounted

\* The close carries the total of everything read before it.
LEMMA SEofStep ==
  ASSUME Inv, SEof
  PROVE  Inv'
  <1> USE DEF Inv, TypeOK, vars, setup, sPump, sCredit, sEnd, channel,
     rReader, rOut, rOwed, sinkVars, wPump
  <1> DEFINE f == Frame("close", 0, debited)
  <1>nat. debited \in Nat
    BY DEF SenderOK
  <1>facts. /\ f \in Closes /\ f \in FromSource /\ f \in Frames
            /\ f.kind = "close" /\ f.cost = 0 /\ f.upto = debited
    <2>1. f \in Frames /\ f.kind = "close" /\ f.cost = 0 /\ f.upto = debited
      BY <1>nat, NewFrame DEF Kinds
    <2> QED BY <2>1 DEF Closes, FromSource
  <1> HIDE DEF f
  <1>hand. /\ spc = "read" /\ shand = <<>> /\ shand' = <<f>> /\ spc' = "send"
           /\ ended' = TRUE
    BY Hands DEF SEof, f
  <1>one. <<f>> \in Seq(FromSource) /\ Len(<<f>>) = 1 /\ Head(<<f>>) = f /\ <<f>>[1] = f
    BY <1>facts
  <1>others. ChannelOK' /\ DriversOK' /\ SinkOK' /\ Received' /\ Backward' /\
     Granted' /\ HelloFirst'
    BY Undisturbed DEF SEof
  <1>Places. Places'
    BY <1>hand, <1>one DEF SEof, Places
  <1>SenderOK. SenderOK'
    BY <1>hand, <1>Places, FrameSeqs DEF SEof, SenderOK, Places
  <1>Control. Control'
    BY <1>hand, <1>one DEF SEof, Control, Empty, Up
  <1>Closing. Closing'
    <2>1. /\ debited' = debited /\ sq' = sq /\ wire' = wire /\ queue' = queue
          /\ arrived' = arrived /\ rxOpen' = rxOpen /\ registered' = registered
      BY DEF SEof
    <2>2. \A i \in 1..Len(shand') :
            shand'[i].upto = debited /\ shand'[i].kind = "close"
      BY <1>hand, <1>one, <1>facts
    <2> QED BY <1>hand, <1>nat, <2>1, <2>2 DEF Closing
  <1>Forward. Forward'
    <2> DEFINE e == End(sq, End(wire, arrived))
    <2>1. Chain(wire', arrived')
      BY DEF SEof, Forward
    <2>2. ASSUME Up
          PROVE  Chain(sq, End(wire, arrived)) /\ e = debited
      BY <2>2, <1>hand DEF Forward, End, Empty
    <2>3. Chain(<<f>>, debited) /\ End(<<f>>, debited) = debited
      <3>1. <<f>> \in Seq(Frames) /\ debited \in Int /\ debited = debited + 0
        BY <1>facts, <1>nat
      <3> QED BY <3>1, <1>facts, <1>one, Single
    <2> QED BY <1>hand, <2>1, <2>2, <2>3 DEF SEof, Forward, Up
  <1>Overshoot. Overshoot'
    BY DEF SEof, Overshoot
  <1>Accounted. Accounted'
    BY DEF SEof, Accounted, Up, Returned, AtPump, AtReader
  <1> QED BY <1>others, <1>Places, <1>SenderOK, <1>Control, <1>Closing,
     <1>Forward, <1>Overshoot, <1>Accounted

\* The frame in hand goes behind the frames queued for the writer task.
LEMMA SSendStep ==
  ASSUME Inv, SSend
  PROVE  Inv'
  <1> USE DEF Inv, TypeOK, vars, setup, sPump, sCredit, sEnd, channel,
     rReader, rOut, rOwed, sinkVars, wPump
  <1> DEFINE f == Head(shand)
  <1>facts. /\ spc = "send" /\ Len(shand) = 1 /\ f = shand[1] /\ f \in FromSource
            /\ f \in Frames /\ shand \in Seq(FromSource) /\ sq \in Seq(FromSource)
            /\ shand \in Seq(Frames) /\ sq \in Seq(Frames)
    <2>1. spc = "send" /\ Len(shand) = 1 /\ f \in FromSource
      BY Hands DEF SSend
    <2>2. /\ shand \in Seq(FromSource) /\ sq \in Seq(FromSource)
          /\ shand \in Seq(Frames) /\ sq \in Seq(Frames)
      BY Hands DEF Places
    <2>3. f = shand[1] /\ f \in Frames
      BY <2>1, <2>2, Single
    <2> QED BY <2>1, <2>2, <2>3
  <1> HIDE DEF f
  <1>hand. shand' = <<>>
    BY DEF SSend
  <1>sq. \/ sWriter /\ sq' = Append(sq, f) /\ spc' = IF ended THEN "done" ELSE "ready"
         \/ ~sWriter /\ sq' = sq /\ spc' = "done"
    BY <1>facts, ConcatSingle DEF SSend, f
  <1>len. Len(shand') = 0 /\ Len(<<>>) = 0
    BY <1>hand
  <1>others. ChannelOK' /\ DriversOK' /\ SinkOK' /\ Received' /\ Backward' /\
     Granted' /\ HelloFirst'
    BY Undisturbed DEF SSend
  <1>Places. Places'
    <2>1. sq' \in Seq(FromSource)
      BY <1>facts, <1>sq, SeqFacts
    <2> QED BY <1>hand, <2>1, FrameSeqs DEF SSend, Places
  <1>SenderOK. SenderOK'
    BY <1>hand, <1>sq, <1>Places, FrameSeqs DEF SSend, SenderOK, Places
  <1>Control. Control'
    BY <1>facts, <1>hand, <1>sq, <1>len DEF SSend, Control, Empty, Up
  <1>Closing. Closing'
    <2>1. /\ debited' = debited /\ ended' = ended /\ wire' = wire /\ queue' = queue
          /\ arrived' = arrived /\ rxOpen' = rxOpen /\ registered' = registered
      BY DEF SSend
    <2>2. /\ f.upto <= debited
          /\ f.kind = "close" => ended /\ f.upto = debited
      BY <1>facts DEF Closing
    <2>3. \A i \in 1..Len(sq) : sq[i].upto <= debited /\ sq[i].kind # "close"
      BY <1>facts DEF Closing
    <2>4. \A i \in 1..Len(sq') : \/ i \in 1..Len(sq) /\ sq'[i] = sq[i]
                                 \/ sq'[i] = f /\ sWriter
      BY <1>facts, <1>sq, SeqFacts
    <2>5. \A i \in 1..Len(sq') :
            /\ sq'[i].upto <= debited
            /\ sq'[i].kind = "close" => ended /\ spc' = "done" /\ sq'[i].upto = debited
      BY <1>sq, <2>2, <2>3, <2>4
    <2>6. /\ \A i \in 1..Len(wire) : wire[i].upto <= debited /\ wire[i].kind # "close"
          /\ \A i \in 1..Len(queue) : queue[i].kind # "close"
          /\ arrived <= debited /\ (rxOpen => registered)
      BY <1>facts DEF Closing
    <2>7. ended' => spc' \in {"send", "done"}
      BY <1>sq, <2>1
    <2> QED BY <1>len, <2>1, <2>5, <2>6, <2>7 DEF Closing
  <1>Forward. Forward'
    <2> DEFINE e == End(wire, arrived)
    <2>1. Chain(wire', arrived') /\ End(wire', arrived') = e /\ e \in Int
      BY RunningTotals DEF SSend, Forward
    <2>2. ASSUME Up
          PROVE  /\ sq' = Append(sq, f) /\ Chain(sq', e) /\ End(sq', e) = debited
                 /\ Chain(shand', debited) /\ End(shand', debited) = debited
      <3>1. sq' = Append(sq, f)
        BY <1>sq, <2>2 DEF Control
      <3>2. /\ Chain(sq, e) /\ Chain(shand, End(sq, e))
            /\ End(shand, End(sq, e)) = debited /\ End(sq, e) \in Int
        BY <2>2, RunningTotals DEF Forward
      <3>3. f.upto = End(sq, e) + f.cost /\ f.upto = debited
        BY <1>facts, <3>2, Single DEF f
      <3> HIDE DEF e
      <3>4. Chain(Append(sq, f), e) /\ End(Append(sq, f), e) = f.upto
        BY <1>facts, <2>1, <3>2, <3>3, ChainAppend
      <3>5. debited \in Int
        BY DEF SenderOK
      <3> QED BY <1>hand, <3>1, <3>3, <3>4, <3>5, ChainEmpty
    <2> QED BY <2>1, <2>2 DEF SSend, Forward, Up
  <1>Overshoot. Overshoot'
    BY <1>facts, <1>sq DEF SSend, Overshoot
  <1>Accounted. Accounted'
    BY <1>facts DEF SSend, Accounted, Up, Returned, AtPump, AtReader
  <1> QED BY <1>others, <1>Places, <1>SenderOK, <1>Control, <1>Closing,
     <1>Forward, <1>Overshoot, <1>Accounted

\* A cancelled pump has nothing in hand.
LEMMA SCancelledStep ==
  ASSUME Inv, SCancelled
  PROVE  Inv'
  <1> USE DEF Inv, TypeOK, vars, setup, sPump, sCredit, sEnd, channel,
     rReader, rOut, rOwed, sinkVars, wPump
  <1>others. Places' /\ ChannelOK' /\ DriversOK' /\ SinkOK' /\ Forward' /\
     Received' /\ Backward' /\ Granted' /\ HelloFirst'
    BY Undisturbed DEF SCancelled
  <1>SenderOK. SenderOK'
    BY DEF SCancelled, SenderOK
  <1>Control. Control'
    BY DEF SCancelled, Control, Empty, Up
  <1>Closing. Closing'
    BY DEF SCancelled, Closing
  <1>Overshoot. Overshoot'
    BY DEF SCancelled, Overshoot
  <1>Accounted. Accounted'
    BY DEF SCancelled, Accounted, Up, Returned, AtPump, AtReader
  <1> QED BY <1>others, <1>SenderOK, <1>Control, <1>Closing, <1>Overshoot,
     <1>Accounted

\* Neither has one whose read failed.
LEMMA SReadFailsStep ==
  ASSUME Inv, SReadFails
  PROVE  Inv'
  <1> USE DEF Inv, TypeOK, vars, setup, sPump, sCredit, sEnd, channel,
     rReader, rOut, rOwed, sinkVars, wPump
  <1>others. Places' /\ ChannelOK' /\ DriversOK' /\ SinkOK' /\ Forward' /\
     Received' /\ Backward' /\ Granted' /\ HelloFirst'
    BY Undisturbed DEF SReadFails
  <1>SenderOK. SenderOK'
    BY DEF SReadFails, SenderOK
  <1>Control. Control'
    BY DEF SReadFails, Control, Empty, Up
  <1>Closing. Closing'
    BY DEF SReadFails, Closing
  <1>Overshoot. Overshoot'
    BY DEF SReadFails, Overshoot
  <1>Accounted. Accounted'
    BY DEF SReadFails, Accounted, Up, Returned, AtPump, AtReader
  <1> QED BY <1>others, <1>SenderOK, <1>Control, <1>Closing, <1>Overshoot,
     <1>Accounted

\* The first queued frame becomes the last one on the channel.
LEMMA SWriterStep ==
  ASSUME Inv, SWriter
  PROVE  Inv'
  <1> USE DEF Inv, TypeOK, vars, setup, sPump, sCredit, sEnd, channel,
     rReader, rOut, rOwed, sinkVars, wPump
  <1> DEFINE f == Head(sq)
  <1>facts. /\ sq \in Seq(FromSource) /\ wire \in Seq(ToReader) /\ sq # <<>>
            /\ f \in FromSource /\ f \in ToReader /\ f = sq[1] /\ f \in Frames
            /\ sq \in Seq(Frames) /\ wire \in Seq(Frames)
    <2>1. sq \in Seq(FromSource) /\ wire \in Seq(ToReader) /\ sq # <<>>
      BY DEF SWriter, Empty, Places
    <2>2. f \in FromSource /\ f = sq[1]
      BY <2>1
    <2> QED BY <2>1, <2>2, Hands DEF ToReader
  <1>steps. \/ /\ Up /\ wire' = Append(wire, f) /\ sq' = Tail(sq) /\ sWriter' = sWriter
            \/ /\ ~Up /\ wire' = wire /\ sq' = <<>> /\ sWriter' = FALSE
    BY DEF SWriter
  <1> HIDE DEF f
  <1>app. /\ Append(wire, f) \in Seq(ToReader)
          /\ Len(Append(wire, f)) = Len(wire) + 1 /\ Len(wire) \in Nat
          /\ \A i \in 1..Len(wire) : Append(wire, f)[i] = wire[i]
          /\ Append(wire, f)[Len(wire) + 1] = f
    BY <1>facts
  <1>tail. /\ Tail(sq) \in Seq(FromSource) /\ 1 \in 1..Len(sq)
           /\ \A i \in 1..Len(Tail(sq)) :
                i + 1 \in 1..Len(sq) /\ Tail(sq)[i] = sq[i + 1]
    BY <1>facts
  <1>others. DriversOK' /\ SinkOK' /\ Received' /\ Backward' /\ Granted' /\
     Overshoot' /\ Accounted'
    BY Undisturbed DEF SWriter
  <1>Places. Places'
    <2>1. wire' \in Seq(ToReader) /\ sq' \in Seq(FromSource)
      BY <1>facts, <1>steps, <1>app, <1>tail, FrameSeqs
    <2> QED BY <2>1 DEF SWriter, Places
  <1>SenderOK. SenderOK'
    BY <1>steps, <1>Places, FrameSeqs DEF SWriter, SenderOK, Places
  <1>ChannelOK. ChannelOK'
    BY <1>Places, FrameSeqs DEF SWriter, ChannelOK, Places
  <1>Control. Control'
    BY <1>steps DEF SWriter, Control, Empty, Up
  <1>Closing. Closing'
    <2>1. /\ debited' = debited /\ ended' = ended /\ queue' = queue /\ spc' = spc
          /\ arrived' = arrived /\ rxOpen' = rxOpen /\ registered' = registered
          /\ shand' = shand
      BY DEF SWriter
    <2>2. \A i \in 1..Len(sq') : \E j \in 1..Len(sq) : sq'[i] = sq[j]
      <3>1. CASE sq' = <<>> BY <3>1
      <3>2. CASE sq' = Tail(sq) BY <3>2, <1>tail
      <3> QED BY <1>steps, <3>1, <3>2
    <2>3. \A i \in 1..Len(wire') : \/ i \in 1..Len(wire) /\ wire'[i] = wire[i]
                                   \/ 1 \in 1..Len(sq) /\ wire'[i] = sq[1]
      <3>1. CASE wire' = wire BY <3>1
      <3>2. CASE wire' = Append(wire, f) BY <3>2, <1>facts, <1>app, <1>tail
      <3> QED BY <1>steps, <3>1, <3>2
    <2>4. \A i \in 1..Len(sq') :
            /\ sq'[i].upto <= debited
            /\ sq'[i].kind = "close" => ended /\ spc = "done" /\ sq'[i].upto = debited
      BY <2>2 DEF Closing
    <2>5. \A i \in 1..Len(wire') :
            /\ wire'[i].upto <= debited
            /\ wire'[i].kind = "close" =>
                 ended /\ spc = "done" /\ wire'[i].upto = debited
      BY <2>3 DEF Closing
    <2> QED BY <2>1, <2>4, <2>5 DEF Closing
  <1>Forward. Forward'
    <2> DEFINE e == End(wire, arrived)
    <2>1. CASE ~Up
      BY <1>steps, <2>1 DEF SWriter, Forward, Up
    <2>2. CASE Up
      <3>1. wire' = Append(wire, f) /\ sq' = Tail(sq)
        BY <1>steps, <2>2
      <3>2. /\ Chain(wire, arrived) /\ Chain(sq, e) /\ e \in Int /\ arrived \in Int
            /\ Chain(shand, End(sq, e)) /\ End(shand, End(sq, e)) = debited
        BY <2>2, RunningTotals DEF Forward, DriversOK
      <3> HIDE DEF e
      <3>3. /\ f.upto = e + f.cost /\ Chain(Tail(sq), f.upto)
            /\ End(Tail(sq), f.upto) = End(sq, e)
        BY <1>facts, <3>2, ChainTail DEF f
      <3>4. /\ Chain(Append(wire, f), arrived)
            /\ End(Append(wire, f), arrived) = f.upto
        BY <1>facts, <3>2, <3>3, ChainAppend DEF e
      <3> QED BY <3>1, <3>2, <3>3, <3>4 DEF SWriter, Forward
    <2> QED BY <2>1, <2>2
  <1>HelloFirst. HelloFirst'
    <2>1. ~Empty(wire) => ~Empty(wire') /\ wire'[1] = wire[1]
      BY <1>facts, <1>steps, SeqFacts DEF Empty
    <2> QED BY <2>1 DEF SWriter, HelloFirst, Up, Empty
  <1> QED BY <1>others, <1>Places, <1>SenderOK, <1>ChannelOK, <1>Control,
     <1>Closing, <1>Forward, <1>HelloFirst

\* The peer's Hello opens the window once.
LEMMA STakesHelloStep ==
  ASSUME Inv, STakesHello
  PROVE  Inv'
  <1> USE DEF Inv, TypeOK, vars, setup, sPump, sCredit, sEnd, channel,
     rReader, rOut, rOwed, sinkVars, wPump
  <1> DEFINE f == Head(back)
  <1>facts. /\ back \in Seq(ToSender) /\ back \in Seq(Frames) /\ back # <<>>
            /\ f \in ToSender /\ f \in Frames /\ f = back[1]
            /\ f.cost \in Nat /\ f.upto \in Nat /\ f.cost = 0
    <2>1. back \in Seq(ToSender) /\ back # <<>>
      BY DEF STakesHello, STakes, Empty, Places
    <2>2. f \in ToSender /\ f = back[1]
      BY <2>1
    <2>3. f \in Frames /\ f.cost \in Nat /\ f.upto \in Nat
      BY <2>1, <2>2, Hands, FrameFacts, ChainTail DEF ToSender
    <2>4. f.cost = 0
      BY <2>2, FrameFacts DEF STakesHello, ToSender
    <2> QED BY <2>1, <2>2, <2>3, <2>4, Hands
  <1>nat. received \in Nat /\ available \in Int /\ debited \in Nat
    BY DEF SenderOK
  <1>back. /\ back' = Tail(back) /\ received' = f.upto
           /\ Tail(back) \in Seq(ToSender)
    BY <1>facts DEF STakesHello, STakes
  <1>chain. /\ f.upto = received + f.cost /\ Chain(Tail(back), f.upto)
            /\ End(Tail(back), f.upto) = End(back, received)
    BY <1>facts, <1>nat, ChainTail DEF Backward
  <1> HIDE DEF f
  <1>others. DriversOK' /\ SinkOK' /\ Control' /\ Closing' /\ Forward' /\
     Received' /\ Granted' /\ Accounted'
    BY Undisturbed DEF STakesHello, STakes
  <1>Places. Places'
    BY <1>back DEF STakesHello, STakes, Places
  <1>SenderOK. SenderOK'
    BY <1>facts, <1>back, <1>nat, Sizes DEF STakesHello, STakes, SenderOK
  <1>ChannelOK. ChannelOK'
    BY <1>back, <1>Places, FrameSeqs DEF STakesHello, STakes, ChannelOK,
       Places
  <1>Backward. Backward'
    BY <1>back, <1>chain DEF STakesHello, STakes, Backward, Up
  <1>Overshoot. Overshoot'
    <2>1. /\ spc' = spc /\ debited' = debited /\ peer' = peer /\ sHello' = TRUE
          /\ available' = IF sHello \/ spc = "done" THEN available ELSE available + Window
      BY DEF STakesHello
    <2>2. received' = received
      BY <1>facts, <1>nat, <1>back, <1>chain
    <2>3. spc # "done" => available' = Window - debited + received
      <3> SUFFICES ASSUME spc # "done" PROVE available' = Window - debited + received
        OBVIOUS
      <3>1. available = (IF sHello THEN Window ELSE 0) - debited + received
        BY DEF Overshoot
      <3>2. (0 - debited + received) + Window = Window - debited + received
        BY <1>nat, Sizes
      <3> QED BY <2>1, <3>1, <3>2
    <2>4. peer = "windowed" => available' = available
      BY <2>1 DEF Overshoot
    <2> QED BY <2>1, <2>2, <2>3, <2>4 DEF Overshoot
  <1>HelloFirst. HelloFirst'
    BY DEF STakesHello, STakes, HelloFirst, Empty, Up
  <1> QED BY <1>others, <1>Places, <1>SenderOK, <1>ChannelOK, <1>Backward,
     <1>Overshoot, <1>HelloFirst

\* A grant moves from the channel to what the sender may send.
LEMMA STakesWindowStep ==
  ASSUME Inv, STakesWindow
  PROVE  Inv'
  <1> USE DEF Inv, TypeOK, vars, setup, sPump, sCredit, sEnd, channel,
     rReader, rOut, rOwed, sinkVars, wPump
  <1> DEFINE f == Head(back)
  <1>facts. /\ back \in Seq(ToSender) /\ back \in Seq(Frames) /\ back # <<>>
            /\ f \in ToSender /\ f \in Frames /\ f = back[1]
            /\ f.cost \in Nat /\ f.upto \in Nat 
    <2>1. back \in Seq(ToSender) /\ back # <<>>
      BY DEF STakesWindow, STakes, Empty, Places
    <2>2. f \in ToSender /\ f = back[1]
      BY <2>1
    <2>3. f \in Frames /\ f.cost \in Nat /\ f.upto \in Nat
      BY <2>1, <2>2, Hands, FrameFacts, ChainTail DEF ToSender
    <2> QED BY <2>1, <2>2, <2>3, Hands
  <1>nat. received \in Nat /\ available \in Int /\ debited \in Nat
    BY DEF SenderOK
  <1>back. /\ back' = Tail(back) /\ received' = f.upto
           /\ Tail(back) \in Seq(ToSender)
    BY <1>facts DEF STakesWindow, STakes
  <1>chain. /\ f.upto = received + f.cost /\ Chain(Tail(back), f.upto)
            /\ End(Tail(back), f.upto) = End(back, received)
    BY <1>facts, <1>nat, ChainTail DEF Backward
  <1> HIDE DEF f
  <1>others. DriversOK' /\ SinkOK' /\ Control' /\ Closing' /\ Forward' /\
     Received' /\ Granted' /\ Accounted'
    BY Undisturbed DEF STakesWindow, STakes
  <1>Places. Places'
    BY <1>back DEF STakesWindow, STakes, Places
  <1>SenderOK. SenderOK'
    BY <1>facts, <1>back, <1>nat DEF STakesWindow, STakes, SenderOK
  <1>ChannelOK. ChannelOK'
    BY <1>back, <1>Places, FrameSeqs DEF STakesWindow, STakes, ChannelOK,
       Places
  <1>Backward. Backward'
    BY <1>back, <1>chain DEF STakesWindow, STakes, Backward, Up
  <1>Overshoot. Overshoot'
    <2>1. /\ sHello' = sHello /\ peer' = peer /\ spc' = spc /\ debited' = debited
          /\ available' = IF spc = "done" THEN available ELSE available + f.cost
      BY DEF STakesWindow, f
    <2>2. received' = received + f.cost /\ received' \in Nat
      BY <1>facts, <1>back, <1>chain, <1>nat
    <2>3. spc' # "done" =>
            available' = (IF sHello' THEN Window ELSE 0) - debited' + received'
      BY <1>facts, <1>nat, <2>1, <2>2, Sizes DEF Overshoot
    <2>4. peer' = "windowed" =>
            /\ sHello' /\ debited' - received' < Window + Header + PumpBuf
            /\ spc' = "read" => available' > 0
      <3> SUFFICES ASSUME peer = "windowed"
                   PROVE  /\ sHello
                          /\ debited - received' < Window + Header + PumpBuf
                          /\ spc = "read" => available' > 0
        BY <2>1
      <3>1. /\ sHello /\ debited - received < Window + Header + PumpBuf
            /\ spc = "read" => available > 0
        BY DEF Overshoot
      <3> QED BY <1>facts, <1>nat, <2>1, <2>2, <3>1, Sizes
    <2> QED BY <2>3, <2>4 DEF Overshoot
  <1>HelloFirst. HelloFirst'
    BY DEF STakesWindow, STakes, HelloFirst, Empty, Up
  <1> QED BY <1>others, <1>Places, <1>SenderOK, <1>ChannelOK, <1>Backward,
     <1>Overshoot, <1>HelloFirst

\* The end of the channel only closes the flow.
LEMMA SReaderEndsStep ==
  ASSUME Inv, SReaderEnds
  PROVE  Inv'
  <1> USE DEF Inv, TypeOK, vars, setup, sPump, sCredit, sEnd, channel,
     rReader, rOut, rOwed, sinkVars, wPump
  <1>others. Places' /\ ChannelOK' /\ DriversOK' /\ SinkOK' /\ Control' /\
     Closing' /\ Forward' /\ Received' /\ Backward' /\ Granted' /\ Overshoot'
     /\ Accounted'
    BY Undisturbed DEF SReaderEnds
  <1>SenderOK. SenderOK'
    BY DEF SReaderEnds, SenderOK
  <1>HelloFirst. HelloFirst'
    BY DEF SReaderEnds, HelloFirst, Empty, Up
  <1> QED BY <1>others, <1>SenderOK, <1>HelloFirst

\* So does the drop of the transport.
LEMMA SDropStep ==
  ASSUME Inv, SDrop
  PROVE  Inv'
  <1> USE DEF Inv, TypeOK, vars, setup, sPump, sCredit, sEnd, channel,
     rReader, rOut, rOwed, sinkVars, wPump
  <1>others. Places' /\ ChannelOK' /\ DriversOK' /\ SinkOK' /\ Control' /\
     Closing' /\ Forward' /\ Received' /\ Backward' /\ Granted' /\ Overshoot'
     /\ Accounted'
    BY Undisturbed DEF SDrop
  <1>SenderOK. SenderOK'
    BY DEF SDrop, SenderOK
  <1>HelloFirst. HelloFirst'
    BY DEF SDrop, HelloFirst, Empty, Up
  <1> QED BY <1>others, <1>SenderOK, <1>HelloFirst

\* A writer task that shuts the channel down has put everything on it.
LEMMA SShutdownStep ==
  ASSUME Inv, SShutdown
  PROVE  Inv'
  <1> USE DEF Inv, TypeOK, vars, setup, sPump, sCredit, sEnd, channel,
     rReader, rOut, rOwed, sinkVars, wPump
  <1>others. Places' /\ DriversOK' /\ SinkOK' /\ Closing' /\ Received' /\
     Granted' /\ Overshoot'
    BY Undisturbed DEF SShutdown
  <1>SenderOK. SenderOK'
    BY DEF SShutdown, SenderOK
  <1>ChannelOK. ChannelOK'
    BY DEF SShutdown, ChannelOK
  <1>Control. Control'
    BY DEF SShutdown, Control, Empty, Up
  <1>Forward. Forward'
    BY DEF SShutdown, Forward, Up
  <1>Backward. Backward'
    BY DEF SShutdown, Backward, Up
  <1>HelloFirst. HelloFirst'
    BY DEF SShutdown, HelloFirst, Empty, Up
  <1>Accounted. Accounted'
    BY DEF SShutdown, Accounted, Up, Returned, AtPump, AtReader
  <1> QED BY <1>others, <1>SenderOK, <1>ChannelOK, <1>Control, <1>Forward,
     <1>Backward, <1>HelloFirst, <1>Accounted

\* The Hello carries no credit.
LEMMA RHelloStep ==
  ASSUME Inv, RHello
  PROVE  Inv'
  <1> USE DEF Inv, TypeOK, vars, setup, sPump, sCredit, sEnd, channel,
     rReader, rOut, rOwed, sinkVars, wPump
  <1> DEFINE f == Head(wire)
  <1>facts. /\ wire \in Seq(ToReader) /\ wire \in Seq(Frames) /\ wire # <<>>
            /\ f = wire[1] /\ f \in Hellos /\ f \in Frames /\ rpc = "frame"
            /\ f.kind = "hello" /\ f.cost \in Nat /\ f.upto \in Nat
    <2>1. wire \in Seq(ToReader) /\ wire # <<>> /\ rpc = "frame" /\ f.kind = "hello"
      BY DEF RHello, RTakes, Empty, Places
    <2>2. f \in ToReader /\ f = wire[1]
      BY <2>1
    <2>3. f \in Hellos
      BY <2>1, <2>2, FrameFacts DEF ToReader, FromSource
    <2> QED BY <2>1, <2>2, <2>3, Hands, FrameFacts
  <1>nat. arrived \in Nat /\ debited \in Nat
    BY DEF DriversOK, SenderOK
  <1>wire. wire' = Tail(wire) /\ arrived' = f.upto
    BY DEF RHello, RTakes
  <1>chain. /\ f.upto = arrived + f.cost /\ Chain(Tail(wire), f.upto)
            /\ End(Tail(wire), f.upto) = End(wire, arrived)
    BY <1>facts, <1>nat, ChainTail DEF Forward
  <1>tail. /\ Tail(wire) \in Seq(ToReader) /\ 1 \in 1..Len(wire)
           /\ \A i \in 1..Len(Tail(wire)) :
                i + 1 \in 1..Len(wire) /\ Tail(wire)[i] = wire[i + 1]
    BY <1>facts
  <1> HIDE DEF f
  <1>sent. /\ f.upto <= debited
           /\ f.kind = "close" => ended /\ spc = "done" /\ f.upto = debited
           /\ \A i \in 1..Len(wire') :
                /\ wire'[i].upto <= debited
                /\ wire'[i].kind = "close" =>
                     ended /\ spc = "done" /\ wire'[i].upto = debited
    <2>1. \A i \in 1..Len(wire) :
            /\ wire[i].upto <= debited
            /\ wire[i].kind = "close" => ended /\ spc = "done" /\ wire[i].upto = debited
      BY DEF Closing
    <2> QED BY <1>facts, <1>wire, <1>tail, <2>1
  <1>kept. arrived' = arrived
    BY <1>facts, <1>nat, <1>wire, <1>chain, FrameFacts
  <1>others. SenderOK' /\ SinkOK' /\ Backward' /\ Granted' /\ Overshoot'
    BY Undisturbed DEF RHello, RTakes
  <1>Places. Places'
    BY <1>wire, <1>tail DEF RHello, RTakes, Places
  <1>ChannelOK. ChannelOK'
    BY <1>Places, FrameSeqs DEF RHello, RTakes, ChannelOK, Places
  <1>DriversOK. DriversOK'
    BY <1>facts, <1>wire DEF RHello, RTakes, DriversOK
  <1>Control. Control'
    BY DEF RHello, RTakes, Control, Empty, Up
  <1>Closing. Closing'
    BY <1>kept, <1>sent DEF RHello, RTakes, Closing
  <1>Forward. Forward'
    <2>1. /\ link' = link /\ sq' = sq /\ shand' = shand /\ debited' = debited
      BY DEF RHello
    <2> QED BY <1>wire, <1>chain, <2>1 DEF Forward, Up
  <1>Received. Received'
    BY <1>kept DEF RHello, RTakes, Received, Counted
  <1>HelloFirst. HelloFirst'
    BY DEF RHello, RTakes, HelloFirst, Empty, Up
  <1>Accounted. Accounted'
    BY <1>kept DEF RHello, RTakes, Accounted, Up, Returned, AtPump, AtReader
  <1> QED BY <1>others, <1>Places, <1>ChannelOK, <1>DriversOK, <1>Control,
     <1>Closing, <1>Forward, <1>Received, <1>HelloFirst, <1>Accounted

\* A data frame passes from the channel to the reader, or its cost is owed.
LEMMA RDataStep ==
  ASSUME Inv, RData
  PROVE  Inv'
  <1> USE DEF Inv, TypeOK, vars, setup, sPump, sCredit, sEnd, channel,
     rReader, rOut, rOwed, sinkVars, wPump
  <1> DEFINE f == Head(wire)
  <1>facts. /\ wire \in Seq(ToReader) /\ wire \in Seq(Frames) /\ wire # <<>>
            /\ f = wire[1] /\ f \in Data /\ f \in Frames /\ rpc = "frame"
            /\ f.kind = "data" /\ f.cost \in Nat /\ f.upto \in Nat
    <2>1. wire \in Seq(ToReader) /\ wire # <<>> /\ rpc = "frame" /\ f.kind = "data"
      BY DEF RData, RTakes, Empty, Places
    <2>2. f \in ToReader /\ f = wire[1]
      BY <2>1
    <2>3. f \in Data
      BY <2>1, <2>2, FrameFacts DEF ToReader, FromSource
    <2> QED BY <2>1, <2>2, <2>3, Hands, FrameFacts
  <1>nat. arrived \in Nat /\ debited \in Nat
    BY DEF DriversOK, SenderOK
  <1>wire. wire' = Tail(wire) /\ arrived' = f.upto
    BY DEF RData, RTakes
  <1>chain. /\ f.upto = arrived + f.cost /\ Chain(Tail(wire), f.upto)
            /\ End(Tail(wire), f.upto) = End(wire, arrived)
    BY <1>facts, <1>nat, ChainTail DEF Forward
  <1>tail. /\ Tail(wire) \in Seq(ToReader) /\ 1 \in 1..Len(wire)
           /\ \A i \in 1..Len(Tail(wire)) :
                i + 1 \in 1..Len(wire) /\ Tail(wire)[i] = wire[i + 1]
    BY <1>facts
  <1> HIDE DEF f
  <1>sent. /\ f.upto <= debited
           /\ f.kind = "close" => ended /\ spc = "done" /\ f.upto = debited
           /\ \A i \in 1..Len(wire') :
                /\ wire'[i].upto <= debited
                /\ wire'[i].kind = "close" =>
                     ended /\ spc = "done" /\ wire'[i].upto = debited
    <2>1. \A i \in 1..Len(wire) :
            /\ wire[i].upto <= debited
            /\ wire[i].kind = "close" => ended /\ spc = "done" /\ wire[i].upto = debited
      BY DEF Closing
    <2> QED BY <1>facts, <1>wire, <1>tail, <2>1
  <1>empty. rhand = <<>> /\ Sum(rhand) = 0
    BY <1>facts, Hands
  <1>cost. 0 < f.cost
    BY <1>facts, FrameFacts
  <1>closed. rxOpen => registered
    BY <1>facts, <1>nat, <1>chain, <1>sent, <1>cost DEF Closing
  <1>steps. \/ registered /\ rpc' = "room" /\ rhand' = <<f>> /\ owed' = owed
            \/ /\ ~registered /\ rpc' = rpc /\ rhand' = rhand
               /\ owed' = IF rHello THEN owed + f.cost ELSE owed
    BY DEF RData, Owe, f
  <1>one. /\ <<f>> \in Seq(Data) /\ <<f>> \in Seq(Frames) /\ Len(<<f>>) = 1
          /\ Head(<<f>>) = f
    BY <1>facts
  <1>single. /\ Sum(<<f>>) = f.cost
             /\ \A lo \in Int : /\ Chain(<<f>>, lo) <=> f.upto = lo + f.cost
                                /\ End(<<f>>, lo) = f.upto
    BY <1>one, Single
  <1>others. SenderOK' /\ SinkOK' /\ Backward' /\ Overshoot'
    BY Undisturbed DEF RData, RTakes, Owe
  <1>Places. Places'
    BY <1>wire, <1>tail, <1>steps, <1>one DEF RData, RTakes, Owe, Places
  <1>ChannelOK. ChannelOK'
    BY <1>Places, FrameSeqs DEF RData, RTakes, Owe, ChannelOK, Places
  <1>DriversOK. DriversOK'
    <2>1. /\ rHello' = rHello /\ rDropped' = rDropped /\ rq' = rq /\ rWriter' = rWriter
          /\ issued' = issued /\ written' = written
      BY DEF RData
    <2>2. rpc' \in {"frame", "room", "send", "ended"}
      BY <1>steps DEF DriversOK
    <2>3. rhand' \in Seq(Frames)
      BY <1>steps, <1>one DEF DriversOK
    <2>4. arrived' \in Nat
      BY <1>facts, <1>wire
    <2>5. owed' \in Nat
      <3>1. owed \in Nat /\ owed + f.cost \in Nat
        BY <1>facts DEF DriversOK
      <3> QED BY <1>steps, <3>1
    <2> QED BY <2>1, <2>2, <2>3, <2>4, <2>5 DEF DriversOK
  <1>Control. Control'
    BY <1>facts, <1>steps, <1>one DEF RData, RTakes, Owe, Control, Empty, Up
  <1>Closing. Closing'
    <2>1. /\ debited' = debited /\ ended' = ended /\ queue' = queue /\ spc' = spc
          /\ sq' = sq /\ rxOpen' = rxOpen /\ registered' = registered
          /\ shand' = shand
      BY DEF RData
    <2> QED BY <1>nat, <1>wire, <1>sent, <1>closed, <2>1 DEF Closing
  <1>Forward. Forward'
    <2>1. /\ link' = link /\ sq' = sq /\ shand' = shand /\ debited' = debited
      BY DEF RData
    <2> QED BY <1>wire, <1>chain, <2>1 DEF Forward, Up
  <1>Received. Received'
    <2> DEFINE e == End(whand, consumed)
    <2> SUFFICES ASSUME rxOpen'
                 PROVE  Received'
      BY DEF Received
    <2>1. /\ rxOpen /\ whand' = whand /\ queue' = queue /\ consumed' = consumed
          /\ queued' = queued
      BY DEF RData
    <2>2. /\ Chain(whand, consumed) /\ Chain(queue, e)
          /\ Chain(rhand, End(queue, e)) /\ End(rhand, End(queue, e)) = arrived
          /\ queued = End(queue, e) - consumed + Counted /\ queued <= QueueLimit
          /\ e \in Int /\ End(queue, e) \in Int
      BY <1>facts, <2>1, RunningTotals DEF Received
    <2>3. End(queue, e) = arrived
      BY <1>empty, <2>2, ChainEmpty
    <2>4. rpc' = "room" /\ rhand' = <<f>>
      BY <1>closed, <1>steps, <2>1
    <2>5. Chain(rhand', End(queue, e)) /\ End(rhand', End(queue, e)) = arrived'
      BY <1>wire, <1>chain, <1>single, <2>2, <2>3, <2>4
    <2>6. Counted = 0 /\ Counted' = 0
      BY <1>facts, <2>4 DEF Counted
    <2> HIDE DEF e
    <2> QED BY <2>1, <2>2, <2>5, <2>6 DEF Received, e
  <1>Granted. Granted'
    <2>1. rxOpen => owed' = owed
      BY <1>closed, <1>steps
    <2> QED BY <2>1 DEF RData, Granted
  <1>HelloFirst. HelloFirst'
    BY DEF RData, RTakes, Owe, HelloFirst, Empty, Up
  <1>Accounted. Accounted'
    <2>1. SUFFICES ASSUME (peer # "unwindowed" /\ Up /\ ~rDropped /\ spc # "done")'
                   PROVE  (IF rxOpen THEN Returned = arrived ELSE Returned >= arrived)'
      BY DEF Accounted
    <2>2. /\ peer' = peer /\ Up' = Up /\ rDropped' = rDropped /\ spc' = spc
          /\ rxOpen' = rxOpen /\ written' = written /\ rq' = rq /\ rHello' = rHello
          /\ AtPump' = AtPump
      BY DEF RData, Up, AtPump
    <2>3. rHello
      BY <1>facts, <2>1, <2>2, FrameFacts DEF HelloFirst
    <2>4. AtReader = 0
      BY <1>facts, <1>empty DEF AtReader
    <2>5. AtReader' = IF registered THEN f.cost ELSE 0
      BY <1>facts, <1>empty, <1>steps, <1>closed, <1>single, <2>2 DEF AtReader
    <2>6. owed' = IF registered THEN owed ELSE owed + f.cost
      BY <1>steps, <2>3
    <2>7. /\ written \in Int /\ Sum(rq) \in Int /\ owed \in Int /\ AtPump \in Int
          /\ f.cost \in Int
      BY <1>facts, RunningTotals DEF DriversOK, SinkOK, AtPump
    <2>8. Returned' = Returned + f.cost
      BY <2>2, <2>4, <2>5, <2>6, <2>7 DEF Returned
    <2>9. Returned \in Int
      BY <2>4, <2>7 DEF Returned
    <2> QED BY <1>nat, <1>wire, <1>chain, <2>1, <2>2, <2>7, <2>8, <2>9 DEF Accounted
  <1> QED BY <1>others, <1>Places, <1>ChannelOK, <1>DriversOK, <1>Control,
     <1>Closing, <1>Forward, <1>Received, <1>Granted, <1>HelloFirst,
     <1>Accounted

\* The frame is counted when there is room for it.
LEMMA RRoomStep ==
  ASSUME Inv, RRoom
  PROVE  Inv'
  <1> USE DEF Inv, TypeOK, vars, setup, sPump, sCredit, sEnd, channel,
     rReader, rOut, rOwed, sinkVars, wPump
  <1> DEFINE f == Head(rhand)
  <1>facts. /\ rpc = "room" /\ Len(rhand) = 1 /\ f \in Data /\ rhand \in Seq(Frames)
            /\ Sum(rhand) = f.cost /\ f.cost \in Nat /\ f.cost <= Header + PumpBuf
            /\ f \in Frames /\ f.kind = "data"
    BY Hands, FrameFacts DEF RRoom
  <1>nat. queued \in Nat /\ ungranted \in Nat /\ wgrant \in Nat /\ owed \in Nat
    BY DEF SinkOK, DriversOK
  <1> HIDE DEF f

  <1>room. HasRoom(f.cost) /\ queued' = queued + f.cost /\ rpc' = "send"
    BY DEF RRoom, f
  <1>others. Places' /\ SenderOK' /\ ChannelOK' /\ Closing' /\ Forward' /\
     Backward' /\ Granted' /\ Overshoot'
    BY Undisturbed DEF RRoom
  <1>DriversOK. DriversOK'
    BY DEF RRoom, DriversOK
  <1>SinkOK. SinkOK'
    BY <1>facts, <1>room, <1>nat DEF RRoom, SinkOK
  <1>Control. Control'
    BY DEF RRoom, Control, Empty, Up
  <1>Received. Received'
    <2> SUFFICES ASSUME rxOpen'
                 PROVE  Received'
      BY DEF Received
    <2>1. /\ rxOpen /\ whand' = whand /\ queue' = queue /\ consumed' = consumed
          /\ rhand' = rhand /\ arrived' = arrived
      BY DEF RRoom
    <2>2. Counted = 0 /\ Counted' = f.cost
      BY <1>facts, <1>room, <2>1 DEF Counted
    <2>3. queued' <= QueueLimit
      BY <1>facts, <1>room, <1>nat, <2>1, Sizes DEF HasRoom, Control, QueueLimit
    <2>4. queued = End(queue, End(whand, consumed)) - consumed + 0
      BY <2>1, <2>2 DEF Received
    <2>5. /\ End(queue, End(whand, consumed)) \in Int /\ consumed \in Int
      BY <2>1, RunningTotals DEF SinkOK
    <2>6. queued' = End(queue, End(whand, consumed)) - consumed + Counted'
      BY <1>facts, <1>room, <1>nat, <2>2, <2>4, <2>5
    <2> QED BY <1>facts, <1>room, <2>1, <2>3, <2>6 DEF Received
  <1>HelloFirst. HelloFirst'
    BY DEF RRoom, HelloFirst, Empty, Up
  <1>Accounted. Accounted'
    <2>1. SUFFICES ASSUME (peer # "unwindowed" /\ Up /\ ~rDropped /\ spc # "done")'
                   PROVE  (IF rxOpen THEN Returned = arrived ELSE Returned >= arrived)'
      BY DEF Accounted
    <2>2. /\ peer' = peer /\ Up' = Up /\ rDropped' = rDropped /\ spc' = spc
          /\ rxOpen' = rxOpen /\ written' = written /\ rq' = rq /\ owed' = owed
          /\ wpc' = wpc /\ ungranted' = ungranted /\ wgrant' = wgrant
          /\ rhand' = rhand /\ arrived' = arrived
      BY DEF RRoom, Up
    <2>3. /\ written \in Int /\ Sum(rq) \in Int /\ arrived \in Int
      BY RunningTotals DEF DriversOK
    <2>4. CASE rxOpen
      <3>1. wpc \in {"recv", "write", "grant"}
        BY <2>4 DEF Control
      <3>2. AtPump' = AtPump + f.cost /\ AtPump \in Int
        BY <1>facts, <1>room, <1>nat, <2>2, <3>1 DEF AtPump
      <3>3. AtReader = f.cost /\ AtReader' = 0
        BY <1>facts, <1>room, <2>2, <2>4 DEF AtReader
      <3>4. Returned' = Returned
        BY <1>facts, <1>nat, <2>2, <2>3, <3>2, <3>3 DEF Returned
      <3> QED BY <2>1, <2>2, <2>4, <3>4 DEF Accounted
    <2>5. CASE ~rxOpen
      <3>1. AtPump' >= AtPump /\ AtPump \in Int /\ AtPump' \in Int
        BY <1>facts, <1>room, <1>nat, <2>2 DEF AtPump
      <3>2. AtReader = f.cost /\ AtReader' = f.cost
        BY <1>facts, <1>room, <2>2, <2>5 DEF AtReader
      <3>3. Returned' >= Returned /\ Returned \in Int /\ Returned' \in Int
        BY <1>facts, <1>nat, <2>2, <2>3, <3>1, <3>2 DEF Returned
      <3> QED BY <2>1, <2>2, <2>3, <2>5, <3>3 DEF Accounted
    <2> QED BY <2>4, <2>5
  <1> QED BY <1>others, <1>DriversOK, <1>SinkOK, <1>Control, <1>Received,
     <1>HelloFirst, <1>Accounted

\* A counted frame is queued, or owed when its pump has gone.
LEMMA RSendStep ==
  ASSUME Inv, RSend
  PROVE  Inv'
  <1> USE DEF Inv, TypeOK, vars, setup, sPump, sCredit, sEnd, channel,
     rReader, rOut, rOwed, sinkVars, wPump
  <1> DEFINE f == Head(rhand)
  <1>facts. /\ rpc = "send" /\ Len(rhand) = 1 /\ f \in Data /\ rhand \in Seq(Frames)
            /\ Sum(rhand) = f.cost /\ f.cost \in Nat /\ f.cost <= Header + PumpBuf
            /\ f \in Frames /\ f.kind = "data"
    BY Hands, FrameFacts DEF RSend
  <1>nat. queued \in Nat /\ ungranted \in Nat /\ wgrant \in Nat /\ owed \in Nat
    BY DEF SinkOK, DriversOK
  <1> HIDE DEF f

  <1>steps. /\ rhand' = <<>> /\ rpc' = "frame"
            /\ queue' = IF rxOpen THEN Append(queue, f) ELSE queue
            /\ owed' = IF ~rxOpen /\ rHello THEN owed + f.cost ELSE owed
    <2>1. queue \o rhand = Append(queue, f)
      BY <1>facts, Hands, ConcatSingle DEF f
    <2> QED BY <2>1 DEF RSend, Owe, f
  <1>app. /\ queue \in Seq(FromSource) /\ Append(queue, f) \in Seq(FromSource)
          /\ Append(queue, f) # <<>>
          /\ \A i \in 1..Len(Append(queue, f)) :
               \/ i \in 1..Len(queue) /\ Append(queue, f)[i] = queue[i]
               \/ Append(queue, f)[i] = f
    <2>1. queue \in Seq(FromSource) /\ f \in FromSource
      BY <1>facts DEF Places, FromSource
    <2> QED BY <2>1
  <1>none. <<>> \in Seq(Data) /\ Len(<<>>) = 0 /\ Sum(<<>>) = 0
    BY FrameSeqs, ChainEmpty
  <1>others. SenderOK' /\ ChannelOK' /\ Forward' /\ Backward' /\ Overshoot'
    BY Undisturbed DEF RSend, Owe
  <1>Places. Places'
    BY <1>steps, <1>app, <1>none DEF RSend, Owe, Places
  <1>DriversOK. DriversOK'
    BY <1>facts, <1>nat, <1>steps, FrameSeqs DEF RSend, Owe, DriversOK
  <1>SinkOK. SinkOK'
    BY <1>steps, <1>Places, FrameSeqs DEF RSend, Owe, SinkOK, Places
  <1>Control. Control'
    BY <1>facts, <1>steps, <1>app, <1>none DEF RSend, Owe, Control, Empty, Up
  <1>Closing. Closing'
    <2>1. /\ debited' = debited /\ ended' = ended /\ spc' = spc /\ arrived' = arrived
          /\ sq' = sq /\ rxOpen' = rxOpen /\ registered' = registered
          /\ shand' = shand /\ wire' = wire
      BY DEF RSend
    <2>2. \A i \in 1..Len(queue) : queue[i].kind = "close" => ended /\ spc = "done"
      BY DEF Closing
    <2>3. \A i \in 1..Len(queue') : queue'[i].kind = "close" => ended /\ spc = "done"
      <3>1. CASE queue' = queue BY <3>1, <2>2
      <3>2. CASE queue' = Append(queue, f) BY <3>2, <1>app, <1>facts, <2>2
      <3> QED BY <1>steps, <3>1, <3>2
    <2> QED BY <2>1, <2>3 DEF Closing
  <1>Received. Received'
    <2> DEFINE e == End(whand, consumed)
    <2> SUFFICES ASSUME rxOpen'
                 PROVE  Received'
      BY DEF Received
    <2>1. /\ rxOpen /\ whand' = whand /\ queued' = queued /\ consumed' = consumed
          /\ arrived' = arrived /\ queue' = Append(queue, f)
      BY <1>steps DEF RSend
    <2>2. /\ Chain(whand, consumed) /\ Chain(queue, e)
          /\ Chain(rhand, End(queue, e)) /\ End(rhand, End(queue, e)) = arrived
          /\ queued = End(queue, e) - consumed + Counted /\ queued <= QueueLimit
          /\ e \in Int /\ End(queue, e) \in Int /\ consumed \in Int
      BY <1>facts, <2>1, RunningTotals DEF Received, SinkOK
    <2> HIDE DEF e
    <2>3. f.upto = End(queue, e) + f.cost /\ f.upto = arrived
      BY <1>facts, <2>2, Single DEF f
    <2>4. /\ Chain(queue', e) /\ End(queue', e) = f.upto
      BY <1>facts, <2>1, <2>2, <2>3, Hands, ChainAppend
    <2>5. Counted = f.cost /\ Counted' = 0
      BY <1>facts, <1>steps DEF Counted
    <2>6. queued' = End(queue', e) - consumed + Counted'
      BY <1>facts, <2>1, <2>2, <2>3, <2>4, <2>5
    <2>7. arrived \in Int
      BY DEF DriversOK
    <2>8. Chain(rhand', End(queue', e)) /\ End(rhand', End(queue', e)) = arrived
      BY <1>steps, <2>3, <2>4, <2>7, ChainEmpty
    <2> QED BY <2>1, <2>2, <2>4, <2>6, <2>8 DEF Received, e
  <1>Granted. Granted'
    <2>1. rxOpen => owed' = owed
      BY <1>steps
    <2> QED BY <2>1 DEF RSend, Granted
  <1>HelloFirst. HelloFirst'
    BY DEF RSend, Owe, HelloFirst, Empty, Up
  <1>Accounted. Accounted'
    <2>1. SUFFICES ASSUME (peer # "unwindowed" /\ Up /\ ~rDropped /\ spc # "done")'
                   PROVE  (IF rxOpen THEN Returned = arrived ELSE Returned >= arrived)'
      BY DEF Accounted
    <2>2. /\ peer' = peer /\ Up' = Up /\ rDropped' = rDropped /\ spc' = spc
          /\ rxOpen' = rxOpen /\ written' = written /\ rq' = rq
          /\ AtPump' = AtPump /\ arrived' = arrived
      BY DEF RSend, Up, AtPump
    <2>3. rHello
      BY <1>facts, <2>1, <2>2 DEF HelloFirst
    <2>4. /\ written \in Int /\ Sum(rq) \in Int /\ AtPump \in Int
      BY RunningTotals DEF DriversOK, SinkOK, AtPump
    <2>5. /\ AtReader = IF rxOpen THEN 0 ELSE f.cost
          /\ AtReader' = 0
      BY <1>facts, <1>steps, <1>none, <2>2 DEF AtReader
    <2>6. Returned' = Returned
      <3> DEFINE out == written + Sum(rq)
      <3>1. /\ owed' = owed + AtReader /\ owed \in Nat /\ AtReader \in Nat
        BY <1>facts, <1>nat, <1>steps, <2>3, <2>5
      <3>2. Returned = out + owed + AtPump + AtReader /\ out \in Int
        BY <2>4 DEF Returned
      <3>3. Returned' = out + owed' + AtPump + AtReader'
        BY <2>2 DEF Returned
      <3> HIDE DEF out
      <3>4. out + owed + AtPump + AtReader = out + (owed + AtReader) + AtPump + 0
        BY <2>4, <3>1, <3>2
      <3> QED BY <2>5, <3>1, <3>2, <3>3, <3>4
    <2> QED BY <2>1, <2>2, <2>6 DEF Accounted
  <1> QED BY <1>others, <1>Places, <1>DriversOK, <1>SinkOK, <1>Control,
     <1>Closing, <1>Received, <1>Granted, <1>HelloFirst, <1>Accounted

\* A close goes behind the data, and is the last frame to arrive.
LEMMA RCloseStep ==
  ASSUME Inv, RClose
  PROVE  Inv'
  <1> USE DEF Inv, TypeOK, vars, setup, sPump, sCredit, sEnd, channel,
     rReader, rOut, rOwed, sinkVars, wPump
  <1> DEFINE f == Head(wire)
  <1>facts. /\ wire \in Seq(ToReader) /\ wire \in Seq(Frames) /\ wire # <<>>
            /\ f = wire[1] /\ f \in Closes /\ f \in Frames /\ rpc = "frame"
            /\ f.kind = "close" /\ f.cost \in Nat /\ f.upto \in Nat
    <2>1. wire \in Seq(ToReader) /\ wire # <<>> /\ rpc = "frame" /\ f.kind = "close"
      BY DEF RClose, RTakes, Empty, Places
    <2>2. f \in ToReader /\ f = wire[1]
      BY <2>1
    <2>3. f \in Closes
      BY <2>1, <2>2, FrameFacts DEF ToReader, FromSource
    <2> QED BY <2>1, <2>2, <2>3, Hands, FrameFacts
  <1>nat. arrived \in Nat /\ debited \in Nat
    BY DEF DriversOK, SenderOK
  <1>wire. wire' = Tail(wire) /\ arrived' = f.upto
    BY DEF RClose, RTakes
  <1>chain. /\ f.upto = arrived + f.cost /\ Chain(Tail(wire), f.upto)
            /\ End(Tail(wire), f.upto) = End(wire, arrived)
    BY <1>facts, <1>nat, ChainTail DEF Forward
  <1>tail. /\ Tail(wire) \in Seq(ToReader) /\ 1 \in 1..Len(wire)
           /\ \A i \in 1..Len(Tail(wire)) :
                i + 1 \in 1..Len(wire) /\ Tail(wire)[i] = wire[i + 1]
    BY <1>facts
  <1> HIDE DEF f
  <1>sent. /\ f.upto <= debited
           /\ f.kind = "close" => ended /\ spc = "done" /\ f.upto = debited
           /\ \A i \in 1..Len(wire') :
                /\ wire'[i].upto <= debited
                /\ wire'[i].kind = "close" =>
                     ended /\ spc = "done" /\ wire'[i].upto = debited
    <2>1. \A i \in 1..Len(wire) :
            /\ wire[i].upto <= debited
            /\ wire[i].kind = "close" => ended /\ spc = "done" /\ wire[i].upto = debited
      BY DEF Closing
    <2> QED BY <1>facts, <1>wire, <1>tail, <2>1
  <1>close. f.cost = 0 /\ arrived' = arrived /\ f.upto = arrived
    BY <1>facts, <1>nat, <1>wire, <1>chain, FrameFacts
  <1>queue. \/ queue' = queue
            \/ rxOpen /\ queue' = Append(queue, f)
    BY DEF RClose, f
  <1>app. /\ queue \in Seq(FromSource) /\ Append(queue, f) \in Seq(FromSource)
          /\ Append(queue, f) # <<>>
          /\ \A i \in 1..Len(Append(queue, f)) :
               \/ i \in 1..Len(queue) /\ Append(queue, f)[i] = queue[i]
               \/ Append(queue, f)[i] = f
    <2>1. queue \in Seq(FromSource) /\ f \in FromSource
      BY <1>facts DEF Places, FromSource
    <2> QED BY <2>1
  <1>others. SenderOK' /\ Backward' /\ Granted' /\ Overshoot'
    BY Undisturbed DEF RClose, RTakes
  <1>Places. Places'
    BY <1>wire, <1>tail, <1>queue, <1>app DEF RClose, RTakes, Places
  <1>ChannelOK. ChannelOK'
    BY <1>Places, FrameSeqs DEF RClose, RTakes, ChannelOK, Places
  <1>DriversOK. DriversOK'
    BY <1>facts, <1>wire DEF RClose, RTakes, DriversOK
  <1>SinkOK. SinkOK'
    BY <1>Places, FrameSeqs DEF RClose, RTakes, SinkOK, Places
  <1>Control. Control'
    BY <1>queue, <1>app DEF RClose, RTakes, Control, Empty, Up
  <1>Closing. Closing'
    <2>1. /\ debited' = debited /\ ended' = ended /\ spc' = spc /\ shand' = shand
          /\ sq' = sq /\ rxOpen' = rxOpen
      BY DEF RClose
    <2>2. \A i \in 1..Len(queue) : queue[i].kind = "close" => ended /\ spc = "done"
      BY DEF Closing
    <2>3. \A i \in 1..Len(queue') : queue'[i].kind = "close" => ended /\ spc = "done"
      <3>1. CASE queue' = queue BY <3>1, <2>2
      <3>2. CASE queue' = Append(queue, f) BY <3>2, <1>app, <1>facts, <1>sent, <2>2
      <3> QED BY <1>queue, <3>1, <3>2
    <2>4. ended /\ spc = "done" /\ arrived' = debited
      BY <1>facts, <1>wire, <1>sent
    <2> QED BY <1>nat, <1>sent, <2>1, <2>3, <2>4 DEF Closing
  <1>Forward. Forward'
    <2>1. /\ link' = link /\ sq' = sq /\ shand' = shand /\ debited' = debited
      BY DEF RClose
    <2> QED BY <1>wire, <1>chain, <2>1 DEF Forward, Up
  <1>Received. Received'
    <2> DEFINE e == End(whand, consumed)
    <2> SUFFICES ASSUME rxOpen'
                 PROVE  Received'
      BY DEF Received
    <2>1. /\ rxOpen /\ whand' = whand /\ queued' = queued /\ consumed' = consumed
          /\ rhand' = rhand /\ rpc' = rpc
      BY DEF RClose
    <2>2. /\ Chain(whand, consumed) /\ Chain(queue, e)
          /\ Chain(rhand, End(queue, e)) /\ End(rhand, End(queue, e)) = arrived
          /\ queued = End(queue, e) - consumed + Counted /\ queued <= QueueLimit
          /\ e \in Int /\ End(queue, e) \in Int /\ consumed \in Int
      BY <1>facts, <2>1, RunningTotals DEF Received, SinkOK
    <2>3. rhand = <<>>
      BY <1>facts, Hands
    <2>4. End(queue, e) = arrived
      BY <2>2, <2>3, ChainEmpty
    <2> HIDE DEF e
    <2>5. Chain(queue', e) /\ End(queue', e) = arrived
      <3>1. CASE queue' = queue BY <3>1, <2>2, <2>4
      <3>2. CASE queue' = Append(queue, f)
        <4>1. f.upto = End(queue, e) + f.cost
          BY <1>close, <1>nat, <2>4
        <4> QED BY <3>2, <4>1, <1>facts, <1>close, <2>2, Hands, ChainAppend
      <3> QED BY <1>queue, <3>1, <3>2
    <2>6. Counted' = Counted
      BY <2>1 DEF Counted
    <2> QED BY <1>close, <2>1, <2>2, <2>4, <2>5, <2>6 DEF Received, e
  <1>HelloFirst. HelloFirst'
    BY DEF RClose, RTakes, HelloFirst, Empty, Up
  <1>Accounted. Accounted'
    BY <1>close DEF RClose, RTakes, Accounted, Up, Returned, AtPump, AtReader
  <1> QED BY <1>others, <1>Places, <1>ChannelOK, <1>DriversOK, <1>SinkOK,
     <1>Control, <1>Closing, <1>Forward, <1>Received, <1>HelloFirst,
     <1>Accounted

\* The reader stops with empty hands.
LEMMA REndsStep ==
  ASSUME Inv, REnds
  PROVE  Inv'
  <1> USE DEF Inv, TypeOK, vars, setup, sPump, sCredit, sEnd, channel,
     rReader, rOut, rOwed, sinkVars, wPump
  <1>others. Places' /\ SenderOK' /\ ChannelOK' /\ SinkOK' /\ Closing' /\
     Forward' /\ Backward' /\ Granted' /\ Overshoot'
    BY Undisturbed DEF REnds
  <1>DriversOK. DriversOK'
    BY DEF REnds, DriversOK
  <1>Control. Control'
    BY DEF REnds, Control, Empty, Up
  <1>Received. Received'
    BY DEF REnds, Received, Counted
  <1>HelloFirst. HelloFirst'
    BY DEF REnds, HelloFirst, Empty, Up
  <1>Accounted. Accounted'
    BY DEF REnds, Accounted, Up, Returned, AtPump, AtReader
  <1> QED BY <1>others, <1>DriversOK, <1>Control, <1>Received, <1>HelloFirst,
     <1>Accounted

\* Dropping the transport moves nothing.
LEMMA RDropStep ==
  ASSUME Inv, RDrop
  PROVE  Inv'
  <1> USE DEF Inv, TypeOK, vars, setup, sPump, sCredit, sEnd, channel,
     rReader, rOut, rOwed, sinkVars, wPump
  <1>others. Places' /\ SenderOK' /\ ChannelOK' /\ SinkOK' /\ Closing' /\
     Forward' /\ Received' /\ Backward' /\ Granted' /\ Overshoot'
    BY Undisturbed DEF RDrop
  <1>DriversOK. DriversOK'
    BY DEF RDrop, DriversOK
  <1>Control. Control'
    BY DEF RDrop, Control, Empty, Up
  <1>HelloFirst. HelloFirst'
    BY DEF RDrop, HelloFirst, Empty, Up
  <1>Accounted. Accounted'
    BY DEF RDrop, Accounted, Up, Returned, AtPump, AtReader
  <1> QED BY <1>others, <1>DriversOK, <1>Control, <1>HelloFirst, <1>Accounted

\* A reader that is aborted has not counted its frame.
LEMMA RAbortedStep ==
  ASSUME Inv, RAborted
  PROVE  Inv'
  <1> USE DEF Inv, TypeOK, vars, setup, sPump, sCredit, sEnd, channel,
     rReader, rOut, rOwed, sinkVars, wPump
  <1>others. SenderOK' /\ ChannelOK' /\ SinkOK' /\ Closing' /\ Forward' /\
     Backward' /\ Granted' /\ Overshoot'
    BY Undisturbed DEF RAborted
  <1>Places. Places'
    BY DEF RAborted, Places
  <1>DriversOK. DriversOK'
    BY DEF RAborted, DriversOK
  <1>Control. Control'
    BY DEF RAborted, Control, Empty, Up
  <1>Received. Received'
    BY DEF RAborted, Received, Counted
  <1>HelloFirst. HelloFirst'
    BY DEF RAborted, HelloFirst, Empty, Up
  <1>Accounted. Accounted'
    BY DEF RAborted, Accounted, Up, Returned, AtPump, AtReader
  <1> QED BY <1>others, <1>Places, <1>DriversOK, <1>Control, <1>Received,
     <1>HelloFirst, <1>Accounted

\* The first frame of the queue passes to the pump, and stays counted.
LEMMA WRecvStep ==
  ASSUME Inv, WRecv
  PROVE  Inv'
  <1> USE DEF Inv, TypeOK, vars, setup, sPump, sCredit, sEnd, channel,
     rReader, rOut, rOwed, sinkVars, wPump
  <1> DEFINE f == Head(queue)
  <1>facts. /\ wpc = "recv" /\ queue \in Seq(FromSource) /\ queue # <<>>
            /\ queue \in Seq(Frames) /\ whand = <<>> /\ f \in Data
            /\ Tail(queue) \in Seq(FromSource)
    <2>1. wpc = "recv" /\ queue \in Seq(FromSource) /\ queue # <<>> /\ f.kind = "data"
      BY DEF WRecv, Empty, Places
    <2>2. f \in FromSource /\ Tail(queue) \in Seq(FromSource)
      BY <2>1
    <2> QED BY <2>1, <2>2, Hands, FrameFacts DEF FromSource
  <1>steps. whand' = <<f>> /\ queue' = Tail(queue) /\ wpc' = "write"
    BY DEF WRecv
  <1> HIDE DEF f
  <1>one. /\ <<f>> \in Seq(Data) /\ <<f>> \in Seq(Frames) /\ Len(<<f>>) = 1
          /\ Head(<<f>>) = f
    BY <1>facts, FrameFacts
  <1>others. SenderOK' /\ ChannelOK' /\ DriversOK' /\ Forward' /\ Backward' /\
     Granted' /\ Overshoot'
    BY Undisturbed DEF WRecv
  <1>Places. Places'
    BY <1>facts, <1>steps, <1>one DEF WRecv, Places
  <1>SinkOK. SinkOK'
    BY <1>facts, <1>steps, <1>Places, FrameSeqs DEF WRecv, SinkOK, Places
  <1>Control. Control'
    BY <1>facts, <1>steps, <1>one DEF WRecv, Control, Empty, Up
  <1>Closing. Closing'
    BY DEF WRecv, Closing
  <1>Received. Received'
    <2> SUFFICES ASSUME rxOpen'
                 PROVE  Received'
      BY DEF Received
    <2>1. /\ rxOpen /\ queued' = queued /\ consumed' = consumed /\ arrived' = arrived
          /\ rhand' = rhand /\ rpc' = rpc /\ Counted' = Counted
      BY DEF WRecv, Counted
    <2>2. consumed \in Int
      BY DEF SinkOK
    <2>3. End(whand, consumed) = consumed
      BY <1>facts, <2>2, ChainEmpty
    <2>4. Chain(queue, consumed)
      BY <2>1, <2>3 DEF Received
    <2>5. /\ f.upto = consumed + f.cost /\ Chain(Tail(queue), f.upto)
          /\ End(Tail(queue), f.upto) = End(queue, consumed)
      BY <1>facts, <2>2, <2>4, ChainTail DEF f
    <2>6. Chain(whand', consumed) /\ End(whand', consumed) = f.upto
      BY <1>steps, <1>one, <2>2, <2>5, Single
    <2> QED BY <1>steps, <2>1, <2>3, <2>5, <2>6 DEF Received
  <1>HelloFirst. HelloFirst'
    BY DEF WRecv, HelloFirst, Empty, Up
  <1>Accounted. Accounted'
    BY DEF WRecv, Accounted, Up, Returned, AtPump, AtReader
  <1> QED BY <1>others, <1>Places, <1>SinkOK, <1>Control, <1>Closing,
     <1>Received, <1>HelloFirst, <1>Accounted

\* Behind a close there is nothing to account for.
LEMMA WCloseStep ==
  ASSUME Inv, WClose
  PROVE  Inv'
  <1> USE DEF Inv, TypeOK, vars, setup, sPump, sCredit, sEnd, channel,
     rReader, rOut, rOwed, sinkVars, wPump
  <1>facts. /\ queue \in Seq(FromSource) /\ queue # <<>> /\ Head(queue) = queue[1]
            /\ 1 \in 1..Len(queue) /\ queue[1].kind = "close" /\ wpc = "recv"
    <2>1. queue \in Seq(FromSource) /\ queue # <<>> /\ wpc = "recv"
      BY DEF WClose, Empty, Places
    <2> QED BY <2>1 DEF WClose
  <1>steps. /\ queue' = <<>> /\ rxOpen' = FALSE /\ wpc' = "done" /\ wgrant' = wgrant
            /\ wgrant = 0
    BY <1>facts DEF WClose, WReturns, Control
  <1>others. SenderOK' /\ ChannelOK' /\ DriversOK' /\ Forward' /\ Backward' /\
     Overshoot'
    BY Undisturbed DEF WClose, WReturns
  <1>Places. Places'
    BY <1>steps, FrameSeqs DEF WClose, WReturns, Places
  <1>SinkOK. SinkOK'
    BY FrameSeqs DEF WClose, WReturns, SinkOK
  <1>Control. Control'
    BY <1>facts, <1>steps DEF WClose, WReturns, Control, Empty, Up
  <1>Closing. Closing'
    BY DEF WClose, WReturns, Closing
  <1>Received. Received'
    BY DEF WClose, WReturns, Received, Counted
  <1>Granted. Granted'
    BY DEF WClose, WReturns, Granted
  <1>HelloFirst. HelloFirst'
    BY DEF WClose, WReturns, HelloFirst, Empty, Up
  <1>Accounted. Accounted'
    <2>1. spc = "done"
      BY <1>facts DEF Closing
    <2> QED BY <2>1 DEF WClose, Accounted
  <1> QED BY <1>others, <1>Places, <1>SinkOK, <1>Control, <1>Closing,
     <1>Received, <1>Granted, <1>HelloFirst, <1>Accounted

\* A queue closes under its pump only when the transport is gone.
LEMMA WQueueClosedStep ==
  ASSUME Inv, WQueueClosed
  PROVE  Inv'
  <1> USE DEF Inv, TypeOK, vars, setup, sPump, sCredit, sEnd, channel,
     rReader, rOut, rOwed, sinkVars, wPump
  <1>steps. /\ queue' = <<>> /\ rxOpen' = FALSE /\ wpc' = "done" /\ wgrant' = wgrant
            /\ wgrant = 0 /\ wpc = "recv"
    BY DEF WQueueClosed, WReturns, Control
  <1>others. SenderOK' /\ ChannelOK' /\ DriversOK' /\ Forward' /\ Backward' /\
     Overshoot'
    BY Undisturbed DEF WQueueClosed, WReturns, MapGone
  <1>Places. Places'
    BY <1>steps, FrameSeqs DEF WQueueClosed, WReturns, MapGone, Places
  <1>SinkOK. SinkOK'
    BY FrameSeqs DEF WQueueClosed, WReturns, MapGone, SinkOK
  <1>Control. Control'
    BY <1>steps DEF WQueueClosed, WReturns, MapGone, Control, Empty, Up
  <1>Closing. Closing'
    BY DEF WQueueClosed, WReturns, MapGone, Closing
  <1>Received. Received'
    BY DEF WQueueClosed, WReturns, MapGone, Received, Counted
  <1>Granted. Granted'
    BY DEF WQueueClosed, WReturns, MapGone, Granted
  <1>HelloFirst. HelloFirst'
    BY DEF WQueueClosed, WReturns, MapGone, HelloFirst, Empty, Up
  <1>Accounted. Accounted'
    BY DEF WQueueClosed, WReturns, MapGone, Accounted, Up, Returned, AtPump,
       AtReader
  <1> QED BY <1>others, <1>Places, <1>SinkOK, <1>Control, <1>Closing,
     <1>Received, <1>Granted, <1>HelloFirst, <1>Accounted

\* What is written out leaves the count and becomes credit to grant.
LEMMA WWriteStep ==
  ASSUME Inv, WWrite
  PROVE  Inv'
  <1> USE DEF Inv, TypeOK, vars, setup, sPump, sCredit, sEnd, channel,
     rReader, rOut, rOwed, sinkVars, wPump
  <1> DEFINE f == Head(whand)
  <1>facts. /\ wpc = "write" /\ Len(whand) = 1 /\ f \in Data /\ whand \in Seq(Frames)
            /\ f.cost \in Nat /\ f.upto \in Nat /\ rxOpen
    BY Hands, FrameFacts DEF WWrite, Control
  <1>nat. /\ queued \in Nat /\ ungranted \in Nat /\ wgrant = 0 /\ consumed \in Nat
    BY <1>facts DEF SinkOK, Control
  <1>steps. /\ whand' = <<>> /\ consumed' = f.upto /\ queued' = queued - f.cost
            /\ \/ /\ rHello /\ wgrant' = ungranted + f.cost /\ ungranted' = 0
                  /\ wpc' = "grant"
               \/ /\ rHello /\ ungranted' = ungranted + f.cost /\ wgrant' = wgrant
                  /\ wpc' = "recv" /\ ~Empty(queue)
               \/ /\ ~rHello /\ wpc' = "recv" /\ wgrant' = wgrant
                  /\ ungranted' = ungranted
    BY DEF WWrite, GrantDue
  <1>kept. /\ rxOpen' = rxOpen /\ queue' = queue /\ arrived' = arrived /\ owed' = owed
            /\ rhand' = rhand /\ rpc' = rpc /\ rHello' = rHello /\ rq' = rq
            /\ written' = written
    BY DEF WWrite
  <1>none. <<>> \in Seq(Data) /\ Len(<<>>) = 0
    BY FrameSeqs
  <1>taken. /\ f.upto = consumed + f.cost /\ End(whand, consumed) = f.upto
    <2>1. Chain(whand, consumed)
      BY <1>facts DEF Received
    <2> QED BY <1>facts, <1>nat, <2>1, Single DEF f
  <1> HIDE DEF f
  <1>left. /\ queued = End(queue, f.upto) - consumed + Counted
           /\ End(queue, f.upto) \in Int /\ f.upto <= End(queue, f.upto)
           /\ Counted \in Nat
    <2>1. Counted \in Nat
      BY Hands DEF Counted
    <2> QED BY <1>facts, <1>taken, <2>1, RunningTotals DEF Received
  <1>less. /\ queued' = End(queue, f.upto) - consumed' + Counted
           /\ queued' \in Nat /\ queued' <= queued
    <2> DEFINE e == End(queue, f.upto)
               c == f.cost
               u == f.upto
    <2>1. /\ queued' = queued - c /\ consumed' = u /\ u = consumed + c
          /\ queued = e - consumed + Counted /\ u <= e
          /\ e \in Int /\ c \in Nat /\ u \in Nat /\ consumed \in Nat /\ Counted \in Nat
      BY <1>facts, <1>nat, <1>steps, <1>taken, <1>left
    <2> HIDE DEF e, c, u
    <2>2. (e - consumed + Counted) - c = e - (consumed + c) + Counted
      BY <2>1
    <2>3. e - u + Counted \in Nat /\ queued - c <= queued
      BY <1>nat, <2>1
    <2> QED BY <2>1, <2>2, <2>3 DEF e
  <1>others. SenderOK' /\ ChannelOK' /\ DriversOK' /\ Closing' /\ Forward' /\
     Backward' /\ Overshoot'
    BY Undisturbed DEF WWrite
  <1>Places. Places'
    BY <1>steps, <1>none DEF WWrite, Places
  <1>SinkOK. SinkOK'
    <2>1. queued' \in Nat
      BY <1>less
    <2>2. ungranted' \in Nat /\ wgrant' \in Nat /\ consumed' \in Nat
      BY <1>facts, <1>nat, <1>steps
    <2> QED BY <1>steps, <2>1, <2>2, FrameSeqs DEF WWrite, SinkOK
  <1>Control. Control'
    BY <1>facts, <1>steps, <1>none DEF WWrite, Control, Empty, Up
  <1>Received. Received'
    <2>1. Chain(whand', consumed') /\ End(whand', consumed') = f.upto
      BY <1>facts, <1>steps, ChainEmpty
    <2>2. /\ Chain(queue, f.upto)
          /\ rpc # "ended" => /\ Chain(rhand, End(queue, f.upto))
                              /\ End(rhand, End(queue, f.upto)) = arrived
          /\ queued <= QueueLimit
      BY <1>facts, <1>taken DEF Received
    <2>3. Counted' = Counted
      BY <1>kept DEF Counted
    <2>4. queued' = End(queue, f.upto) - consumed' + Counted /\ queued' <= QueueLimit
      BY <1>nat, <1>less, <2>2, Sizes
    <2> QED BY <1>kept, <2>1, <2>2, <2>3, <2>4 DEF Received
  <1>Granted. Granted'
    <2>1. /\ owed = 0 /\ written + Sum(rq) + wgrant + ungranted <= consumed
          /\ written \in Int /\ Sum(rq) \in Int
      BY <1>facts, RunningTotals DEF Granted, DriversOK
    <2> DEFINE out == written + Sum(rq)
               c == f.cost
    <2>2. /\ out \in Int /\ c \in Nat /\ out + wgrant + ungranted <= consumed
          /\ consumed' = consumed + c
      <3>1. out \in Int /\ out + wgrant + ungranted <= consumed
        BY <2>1
      <3> QED BY <1>facts, <1>steps, <1>taken, <3>1
    <2>3. \/ wgrant' = ungranted + c /\ ungranted' = 0
          \/ wgrant' = wgrant /\ ungranted' = ungranted + c
          \/ wgrant' = wgrant /\ ungranted' = ungranted
      BY <1>steps
    <2> HIDE DEF out, c
    <2>4. out + wgrant' + ungranted' <= consumed'
      BY <1>nat, <2>2, <2>3
    <2> QED BY <1>kept, <2>1, <2>4 DEF Granted, out
  <1>HelloFirst. HelloFirst'
    BY DEF WWrite, HelloFirst, Empty, Up
  <1>Accounted. Accounted'
    <2>1. SUFFICES ASSUME (peer # "unwindowed" /\ Up /\ ~rDropped /\ spc # "done")'
                   PROVE  (IF rxOpen THEN Returned = arrived ELSE Returned >= arrived)'
      BY DEF Accounted
    <2>2. /\ peer' = peer /\ Up' = Up /\ rDropped' = rDropped /\ spc' = spc
          /\ AtReader' = AtReader
      BY DEF WWrite, Up, AtReader
    <2>3. rHello
      BY <1>facts, <2>1, <2>2 DEF HelloFirst
    <2>4. AtPump' = AtPump
      BY <1>facts, <1>nat, <1>steps, <2>3 DEF AtPump
    <2> QED BY <1>facts, <1>kept, <2>1, <2>2, <2>4 DEF Accounted, Returned
  <1> QED BY <1>others, <1>Places, <1>SinkOK, <1>Control, <1>Received,
     <1>Granted, <1>HelloFirst, <1>Accounted

\* A grant passes from the pump to the frames queued for the writer task.
LEMMA WGrantStep ==
  ASSUME Inv, WGrant
  PROVE  Inv'
  <1> USE DEF Inv, TypeOK, vars, setup, sPump, sCredit, sEnd, channel,
     rReader, rOut, rOwed, sinkVars, wPump
  <1> DEFINE f == Frame("window", wgrant, issued + wgrant)
  <1>nat. wgrant \in Nat /\ issued \in Nat
    BY DEF SinkOK, DriversOK
  <1>facts. /\ f \in Windows /\ f \in Frames /\ f.cost = wgrant
            /\ f.upto = issued + wgrant
    <2>1. issued + wgrant \in Nat
      BY <1>nat
    <2>2. /\ f \in Frames /\ f.kind = "window" /\ f.cost = wgrant
          /\ f.upto = issued + wgrant
      BY <1>nat, <2>1, NewFrame DEF Kinds
    <2> QED BY <2>2 DEF Windows
  <1> HIDE DEF f
  <1>rq. /\ rq \in Seq(Windows) /\ rq \in Seq(Frames) /\ Sum(rq) \in Nat
         /\ issued - Sum(rq) \in Int
    BY Hands, RunningTotals DEF Places
  <1>app. /\ Append(rq, f) \in Seq(Windows)
          /\ Sum(Append(rq, f)) = Sum(rq) + wgrant
          /\ Chain(Append(rq, f), issued - Sum(rq))
          /\ End(Append(rq, f), issued - Sum(rq)) = issued + wgrant
    <2>1. Chain(rq, issued - Sum(rq)) /\ End(rq, issued - Sum(rq)) = issued
      BY DEF Backward
    <2>2. Append(rq, f) \in Seq(Windows)
      BY <1>facts, <1>rq
    <2> QED BY <1>facts, <1>rq, <2>1, <2>2, ChainAppend
  <1>steps. /\ \/ rWriter /\ rq' = Append(rq, f) /\ issued' = issued + wgrant
               \/ ~rWriter /\ rq' = rq /\ issued' = issued
            /\ wpc \in {"grant", "last"} /\ wgrant' = 0
            /\ wpc' = IF wpc = "grant" THEN "recv" ELSE "done"
            /\ ungranted' = ungranted
    BY DEF WGrant, f
  <1>others. SenderOK' /\ ChannelOK' /\ Closing' /\ Forward' /\ Received' /\
     Overshoot'
    BY Undisturbed DEF WGrant
  <1>Places. Places'
    BY <1>rq, <1>app, <1>steps DEF WGrant, Places
  <1>DriversOK. DriversOK'
    BY <1>nat, <1>steps, <1>Places, FrameSeqs DEF WGrant, DriversOK, Places
  <1>SinkOK. SinkOK'
    BY <1>steps DEF WGrant, SinkOK
  <1>Control. Control'
    <2>1. ungranted = 0 \/ ~Empty(queue) \/ wpc = "last"
      BY <1>steps DEF Control
    <2> QED BY <1>steps, <2>1 DEF WGrant, Control, Empty, Up
  <1>Backward. Backward'
    <2>1. issued' - Sum(rq') = issued - Sum(rq)
      <3>1. CASE rWriter
        <4>1. Sum(rq') = Sum(rq) + wgrant /\ issued' = issued + wgrant
          BY <1>app, <1>steps, <3>1
        <4> QED BY <1>nat, <1>rq, <4>1
      <3>2. CASE ~rWriter
        BY <1>steps, <3>2
      <3> QED BY <3>1, <3>2
    <2>2. Chain(rq', issued - Sum(rq)) /\ End(rq', issued - Sum(rq)) = issued'
      BY <1>app, <1>steps DEF Backward
    <2> QED BY <2>1, <2>2 DEF WGrant, Backward, Up
  <1>Granted. Granted'
    <2>1. /\ rxOpen' = rxOpen /\ owed' = owed /\ written' = written
          /\ consumed' = consumed
      BY DEF WGrant
    <2>2. /\ written \in Nat /\ ungranted \in Nat /\ consumed \in Nat
      BY DEF DriversOK, SinkOK
    <2>3. Sum(rq') \in Nat /\ Sum(rq') <= Sum(rq) + wgrant
      <3>1. CASE rWriter
        <4>1. Sum(rq') = Sum(rq) + wgrant
          BY <1>app, <1>steps, <3>1
        <4> QED BY <1>nat, <1>rq, <4>1
      <3>2. CASE ~rWriter
        <4>1. Sum(rq') = Sum(rq)
          BY <1>steps, <3>2
        <4> QED BY <1>nat, <1>rq, <4>1
      <3> QED BY <3>1, <3>2
    <2> QED BY <1>nat, <1>rq, <1>steps, <2>1, <2>2, <2>3 DEF Granted
  <1>HelloFirst. HelloFirst'
    BY DEF WGrant, HelloFirst, Empty, Up
  <1>Accounted. Accounted'
    <2>1. SUFFICES ASSUME (peer # "unwindowed" /\ Up /\ ~rDropped /\ spc # "done")'
                   PROVE  (IF rxOpen THEN Returned = arrived ELSE Returned >= arrived)'
      BY DEF Accounted
    <2>2. /\ peer' = peer /\ Up' = Up /\ rDropped' = rDropped /\ spc' = spc
          /\ AtReader' = AtReader /\ owed' = owed /\ written' = written
          /\ queued' = queued /\ arrived' = arrived /\ rxOpen' = rxOpen
      BY DEF WGrant, Up, AtReader
    <2>3. Sum(rq') = Sum(rq) + wgrant
      BY <1>app, <1>steps, <2>1, <2>2 DEF Control
    <2>4. AtPump' = AtPump - wgrant
      BY <1>nat, <1>steps, <2>2 DEF AtPump, SinkOK
    <2>5. /\ written \in Int /\ owed \in Int /\ AtPump \in Int /\ AtReader \in Int
      BY Hands DEF DriversOK, SinkOK, AtPump, AtReader
    <2>6. Returned' = Returned
      BY <1>nat, <1>rq, <2>2, <2>3, <2>4, <2>5 DEF Returned
    <2> QED BY <2>1, <2>2, <2>6 DEF Accounted
  <1> QED BY <1>others, <1>Places, <1>DriversOK, <1>SinkOK, <1>Control,
     <1>Backward, <1>Granted, <1>HelloFirst, <1>Accounted

\* What the dropped queue held stays counted.
LEMMA WAbandonsStep ==
  ASSUME Inv, WAbandons
  PROVE  Inv'
  <1> USE DEF Inv, TypeOK, vars, setup, sPump, sCredit, sEnd, channel,
     rReader, rOut, rOwed, sinkVars, wPump
  <1>steps. /\ rxOpen /\ rxOpen' = FALSE /\ queue' = <<>> /\ whand' = <<>>
            /\ wpc' = "load" /\ wgrant = 0 /\ wgrant' = wgrant
            /\ wpc \in {"write", "recv"}
    BY DEF WAbandons, Control
  <1>none. /\ <<>> \in Seq(Data) /\ <<>> \in Seq(FromSource) /\ <<>> \in Seq(Frames)
           /\ Len(<<>>) = 0
    BY FrameSeqs
  <1>others. SenderOK' /\ ChannelOK' /\ DriversOK' /\ Forward' /\ Backward' /\
     Overshoot'
    BY Undisturbed DEF WAbandons
  <1>Places. Places'
    BY <1>steps, <1>none DEF WAbandons, Places
  <1>SinkOK. SinkOK'
    BY <1>steps, <1>none DEF WAbandons, SinkOK
  <1>Control. Control'
    BY <1>steps, <1>none DEF WAbandons, Control, Empty, Up
  <1>Closing. Closing'
    BY DEF WAbandons, Closing
  <1>Received. Received'
    BY DEF WAbandons, Received, Counted
  <1>Granted. Granted'
    BY DEF WAbandons, Granted
  <1>HelloFirst. HelloFirst'
    BY DEF WAbandons, HelloFirst, Empty, Up
  <1>Accounted. Accounted'
    <2>1. SUFFICES ASSUME (peer # "unwindowed" /\ Up /\ ~rDropped /\ spc # "done")'
                   PROVE  (Returned >= arrived)'
      BY <1>steps DEF Accounted
    <2>2. /\ peer' = peer /\ Up' = Up /\ rDropped' = rDropped /\ spc' = spc
          /\ written' = written /\ rq' = rq /\ owed' = owed /\ arrived' = arrived
          /\ rhand' = rhand /\ rpc' = rpc
      BY DEF WAbandons, Up
    <2>3. AtPump' = AtPump /\ AtPump \in Int
      BY <1>steps DEF WAbandons, AtPump, SinkOK
    <2>4. AtReader \in {0, Sum(rhand)} /\ AtReader' = Sum(rhand) /\ Sum(rhand) \in Nat
      BY <1>steps, <2>2, Hands DEF AtReader
    <2>5. Returned = arrived
      BY <1>steps, <2>1, <2>2 DEF Accounted
    <2>6. written \in Int /\ Sum(rq) \in Int /\ owed \in Int
      BY RunningTotals DEF DriversOK
    <2> QED BY <2>2, <2>3, <2>4, <2>5, <2>6 DEF Returned
  <1> QED BY <1>others, <1>Places, <1>SinkOK, <1>Control, <1>Closing,
     <1>Received, <1>Granted, <1>HelloFirst, <1>Accounted

\* All the credit the stream holds becomes the last grant.
LEMMA WLoadsStep ==
  ASSUME Inv, WLoads
  PROVE  Inv'
  <1> USE DEF Inv, TypeOK, vars, setup, sPump, sCredit, sEnd, channel,
     rReader, rOut, rOwed, sinkVars, wPump
  <1>steps. /\ wpc = "load" /\ wpc' = "drop" /\ wgrant = 0 /\ ungranted' = 0
            /\ wgrant' = ungranted + queued /\ ~rxOpen /\ rxOpen' = rxOpen
            /\ queued' = queued
    BY DEF WLoads, Control
  <1>others. Places' /\ SenderOK' /\ ChannelOK' /\ DriversOK' /\ Closing' /\
     Forward' /\ Received' /\ Backward' /\ Overshoot'
    BY Undisturbed DEF WLoads
  <1>SinkOK. SinkOK'
    BY DEF WLoads, SinkOK
  <1>Control. Control'
    BY DEF WLoads, Control, Empty, Up
  <1>Granted. Granted'
    BY <1>steps DEF WLoads, Granted
  <1>HelloFirst. HelloFirst'
    BY DEF WLoads, HelloFirst, Empty, Up
  <1>Accounted. Accounted'
    <2>1. AtPump' = AtPump
      BY <1>steps DEF AtPump, SinkOK
    <2> QED BY <1>steps, <2>1 DEF WLoads, Accounted, Returned, Up, AtReader
  <1> QED BY <1>others, <1>SinkOK, <1>Control, <1>Granted, <1>HelloFirst,
     <1>Accounted

\* Dropping the sink moves no credit.
LEMMA WDropsStep ==
  ASSUME Inv, WDrops
  PROVE  Inv'
  <1> USE DEF Inv, TypeOK, vars, setup, sPump, sCredit, sEnd, channel,
     rReader, rOut, rOwed, sinkVars, wPump
  <1>steps. /\ wpc = "drop" /\ ~rxOpen /\ rxOpen' = rxOpen /\ registered' = FALSE
            /\ depthClosed' = TRUE
            /\ \/ rHello /\ wpc' = "last" /\ wgrant' = wgrant
               \/ ~rHello /\ wpc' = "done" /\ wgrant' = 0
    BY DEF WDrops, Control
  <1>others. Places' /\ SenderOK' /\ ChannelOK' /\ DriversOK' /\ Forward' /\
     Received' /\ Backward' /\ Overshoot'
    BY Undisturbed DEF WDrops
  <1>SinkOK. SinkOK'
    <2>1. wgrant' \in Nat
      BY <1>steps DEF SinkOK
    <2>2. wpc' \in {"last", "done"}
      BY <1>steps
    <2>3. registered' \in BOOLEAN /\ depthClosed' \in BOOLEAN
      BY <1>steps
    <2> QED BY <2>1, <2>2, <2>3 DEF WDrops, SinkOK
  <1>Control. Control'
    BY <1>steps DEF WDrops, Control, Empty, Up
  <1>Closing. Closing'
    BY <1>steps DEF WDrops, Closing
  <1>Granted. Granted'
    BY <1>steps DEF WDrops, Granted
  <1>HelloFirst. HelloFirst'
    BY DEF WDrops, HelloFirst, Empty, Up
  <1>Accounted. Accounted'
    <2>1. SUFFICES ASSUME (peer # "unwindowed" /\ Up /\ ~rDropped /\ spc # "done")'
                   PROVE  (Returned >= arrived)'
      BY <1>steps DEF Accounted
    <2>2. /\ peer' = peer /\ Up' = Up /\ rDropped' = rDropped /\ spc' = spc
          /\ written' = written /\ rq' = rq /\ owed' = owed /\ arrived' = arrived
          /\ AtReader' = AtReader
      BY DEF WDrops, Up, AtReader
    <2>3. rHello
      BY <1>steps, <2>1, <2>2 DEF HelloFirst
    <2>4. AtPump' = AtPump
      BY <1>steps, <2>3 DEF AtPump
    <2> QED BY <1>steps, <2>1, <2>2, <2>4 DEF Accounted, Returned
  <1> QED BY <1>others, <1>SinkOK, <1>Control, <1>Closing, <1>Granted,
     <1>HelloFirst, <1>Accounted

\* What is owed goes on the channel.
LEMMA RFlushOwedStep ==
  ASSUME Inv, RFlushOwed
  PROVE  Inv'
  <1> USE DEF Inv, TypeOK, vars, setup, sPump, sCredit, sEnd, channel,
     rReader, rOut, rOwed, sinkVars, wPump
  <1> DEFINE f == Frame("window", owed, written + owed)
  <1>nat. owed \in Nat /\ written \in Nat
    BY DEF DriversOK
  <1>facts. /\ f \in Windows /\ f \in Frames /\ f.cost = owed
            /\ f.upto = written + owed
    <2>1. written + owed \in Nat
      BY <1>nat
    <2>2. /\ f \in Frames /\ f.kind = "window" /\ f.cost = owed
          /\ f.upto = written + owed
      BY <1>nat, <2>1, NewFrame DEF Kinds
    <2> QED BY <2>2 DEF Windows
  <1> HIDE DEF f
  <1>back. /\ back \in Seq(ToSender) /\ back \in Seq(Frames) /\ received \in Int
           /\ Chain(back, received) /\ End(back, received) = written /\ Up
    BY Hands DEF RFlushOwed, Places, Backward, SenderOK
  <1>app. /\ Append(back, f) \in Seq(ToSender)
          /\ (back # <<>> => Append(back, f)[1] = back[1])
          /\ Append(back, f) # <<>>
          /\ Chain(Append(back, f), received)
          /\ End(Append(back, f), received) = written + owed
    <2>1. f \in ToSender
      BY <1>facts DEF ToSender
    <2>2. /\ Append(back, f) \in Seq(ToSender)
          /\ (back # <<>> => Append(back, f)[1] = back[1])
          /\ Append(back, f) # <<>>
      BY <1>back, <2>1, AppendFirst
    <2>3. f.upto = End(back, received) + f.cost
      BY <1>facts, <1>back
    <2> QED BY <1>facts, <1>back, <2>2, <2>3, ChainAppend
  <1>steps. /\ back' = Append(back, f) /\ written' = written + owed /\ owed' = 0
    BY DEF RFlushOwed, f
  <1>others. SenderOK' /\ SinkOK' /\ Control' /\ Closing' /\ Forward' /\
     Received' /\ Overshoot'
    BY Undisturbed DEF RFlushOwed
  <1>Places. Places'
    BY <1>app, <1>steps DEF RFlushOwed, Places
  <1>ChannelOK. ChannelOK'
    BY <1>steps, <1>Places, FrameSeqs DEF RFlushOwed, ChannelOK, Places
  <1>DriversOK. DriversOK'
    BY <1>nat, <1>steps DEF RFlushOwed, DriversOK
  <1>Backward. Backward'
    BY <1>app, <1>steps DEF RFlushOwed, Backward, Up
  <1>Granted. Granted'
    BY DEF RFlushOwed, Granted
  <1>HelloFirst. HelloFirst'
    BY <1>app, <1>steps DEF RFlushOwed, HelloFirst, Empty, Up
  <1>Accounted. Accounted'
    <2>1. written' + Sum(rq) + owed' + AtPump + AtReader = Returned
      <3> DEFINE r == Sum(rq)
      <3>1. r \in Nat
        BY RunningTotals
      <3>2. AtPump \in Int /\ AtReader \in Int
        BY Hands DEF AtPump, AtReader, SinkOK
      <3>3. written \in Int /\ owed \in Int
        BY <1>nat DEF DriversOK
      <3> HIDE DEF r
      <3>4. (written + owed) + r + 0 + AtPump + AtReader = written + r + owed + AtPump + AtReader
        BY <3>1, <3>2, <3>3
      <3> QED BY <1>steps, <3>4 DEF Returned, r
    <2>2. Returned' = Returned
      BY <2>1 DEF RFlushOwed, Returned, AtPump, AtReader
    <2> QED BY <2>2 DEF RFlushOwed, Accounted, Up
  <1> QED BY <1>others, <1>Places, <1>ChannelOK, <1>DriversOK, <1>Backward,
     <1>Granted, <1>HelloFirst, <1>Accounted

\* A queued grant goes on the channel.
LEMMA RWriterStep ==
  ASSUME Inv, RWriter
  PROVE  Inv'
  <1> USE DEF Inv, TypeOK, vars, setup, sPump, sCredit, sEnd, channel,
     rReader, rOut, rOwed, sinkVars, wPump
  <1> DEFINE g == Head(rq)
             f == Frame("window", g.cost, written + g.cost)
  <1>rq. /\ rq \in Seq(Windows) /\ rq \in Seq(Frames) /\ rq # <<>> /\ Sum(rq) \in Nat
         /\ issued - Sum(rq) \in Int /\ issued \in Nat
         /\ Chain(rq, issued - Sum(rq)) /\ End(rq, issued - Sum(rq)) = issued
    BY Hands, RunningTotals DEF RWriter, Empty, Places, Backward, DriversOK
  <1>g. g \in Windows /\ g.cost \in Nat /\ written \in Nat /\ written + g.cost \in Nat
    <2>1. g \in Windows /\ written \in Nat
      BY <1>rq DEF DriversOK
    <2>2. g.cost \in Nat
      BY <2>1, FrameFacts
    <2> QED BY <2>1, <2>2
  <1>tail. /\ Tail(rq) \in Seq(Windows) /\ Sum(Tail(rq)) = Sum(rq) - g.cost
           /\ Chain(Tail(rq), issued - Sum(Tail(rq)))
           /\ End(Tail(rq), issued - Sum(Tail(rq))) = issued
    <2>1. /\ Sum(Tail(rq)) = Sum(rq) - g.cost /\ Chain(Tail(rq), g.upto)
          /\ End(Tail(rq), g.upto) = issued /\ g.upto = (issued - Sum(rq)) + g.cost
      BY <1>rq, ChainTail
    <2>2. Tail(rq) \in Seq(Windows)
      BY <1>rq
    <2>3. g.upto = issued - Sum(Tail(rq))
      BY <1>rq, <1>g, <2>1
    <2> QED BY <2>1, <2>2, <2>3
  <1>facts. /\ f \in Windows /\ f \in Frames /\ f.cost = g.cost
            /\ f.upto = written + g.cost
    <2>1. /\ f \in Frames /\ f.kind = "window" /\ f.cost = g.cost
          /\ f.upto = written + g.cost
      BY <1>g, NewFrame DEF Kinds
    <2> QED BY <2>1 DEF Windows
  <1>steps. back' = Append(back, f) /\ written' = written + g.cost /\ rq' = Tail(rq)
    BY DEF RWriter
  <1> HIDE DEF f, g
  <1>back. /\ back \in Seq(ToSender) /\ back \in Seq(Frames) /\ received \in Int
           /\ Chain(back, received) /\ End(back, received) = written /\ Up
    BY Hands DEF RWriter, Places, Backward, SenderOK
  <1>app. /\ Append(back, f) \in Seq(ToSender)
          /\ (back # <<>> => Append(back, f)[1] = back[1])
          /\ Append(back, f) # <<>>
          /\ Chain(Append(back, f), received)
          /\ End(Append(back, f), received) = written + g.cost
    <2>1. f \in ToSender
      BY <1>facts DEF ToSender
    <2>2. /\ Append(back, f) \in Seq(ToSender)
          /\ (back # <<>> => Append(back, f)[1] = back[1])
          /\ Append(back, f) # <<>>
      BY <1>back, <2>1, AppendFirst
    <2>3. f.upto = End(back, received) + f.cost
      BY <1>facts, <1>back
    <2> QED BY <1>facts, <1>back, <2>2, <2>3, ChainAppend
  <1>others. SenderOK' /\ SinkOK' /\ Control' /\ Closing' /\ Forward' /\
     Received' /\ Overshoot'
    BY Undisturbed DEF RWriter
  <1>Places. Places'
    BY <1>tail, <1>app, <1>steps DEF RWriter, Places
  <1>ChannelOK. ChannelOK'
    BY <1>steps, <1>Places, FrameSeqs DEF RWriter, ChannelOK, Places
  <1>DriversOK. DriversOK'
    BY <1>g, <1>steps, <1>Places, FrameSeqs DEF RWriter, DriversOK, Places
  <1>Backward. Backward'
    <2>1. issued' = issued /\ received' = received /\ link' = link
      BY DEF RWriter
    <2> QED BY <1>tail, <1>app, <1>g, <1>back, <1>steps, <2>1 DEF Backward, Up
  <1>Granted. Granted'
    <2>1. written' + Sum(rq') = written + Sum(rq)
      BY <1>rq, <1>g, <1>tail, <1>steps
    <2>2. /\ rxOpen' = rxOpen /\ owed' = owed /\ wgrant' = wgrant
          /\ ungranted' = ungranted /\ consumed' = consumed
      BY DEF RWriter
    <2> QED BY <2>1, <2>2 DEF Granted
  <1>HelloFirst. HelloFirst'
    BY <1>app, <1>steps DEF RWriter, HelloFirst, Empty, Up
  <1>Accounted. Accounted'
    <2>1. written' + Sum(rq') = written + Sum(rq)
      BY <1>rq, <1>g, <1>tail, <1>steps
    <2>2. /\ owed' = owed /\ AtPump' = AtPump /\ AtReader' = AtReader
      BY DEF RWriter, AtPump, AtReader
    <2>3. Returned' = Returned
      BY <2>1, <2>2 DEF Returned
    <2> QED BY <2>3 DEF RWriter, Accounted, Up
  <1> QED BY <1>others, <1>Places, <1>ChannelOK, <1>DriversOK, <1>Backward,
     <1>Granted, <1>HelloFirst, <1>Accounted

\* Grants are lost only with the channel.
LEMMA RWriterFailsStep ==
  ASSUME Inv, RWriterFails
  PROVE  Inv'
  <1> USE DEF Inv, TypeOK, vars, setup, sPump, sCredit, sEnd, channel,
     rReader, rOut, rOwed, sinkVars, wPump
  <1>steps. rq' = <<>> /\ owed' = 0 /\ rWriter' = FALSE /\ ~Up /\ link' = link
    BY DEF RWriterFails
  <1>sum. Sum(rq') = 0 /\ Sum(rq) \in Nat
    BY <1>steps, ChainEmpty, RunningTotals
  <1>others. SenderOK' /\ ChannelOK' /\ SinkOK' /\ Closing' /\ Forward' /\
     Received' /\ Overshoot' /\ HelloFirst'
    BY Undisturbed DEF RWriterFails
  <1>Places. Places'
    BY <1>steps, FrameSeqs DEF RWriterFails, Places
  <1>DriversOK. DriversOK'
    <2>1. rq' \in Seq(Frames)
      BY <1>steps, FrameSeqs
    <2>2. owed' \in Nat
      BY <1>steps
    <2>3. rWriter' \in BOOLEAN
      BY <1>steps
    <2> QED BY <2>1, <2>2, <2>3 DEF RWriterFails, DriversOK
  <1>Control. Control'
    BY DEF RWriterFails, Control, Empty, Up
  <1>Backward. Backward'
    <2>1. issued' = issued /\ issued \in Int /\ issued - 0 = issued
      BY DEF RWriterFails, DriversOK
    <2>2. Chain(rq', issued' - Sum(rq')) /\ End(rq', issued' - Sum(rq')) = issued'
      BY <1>steps, <1>sum, <2>1, ChainEmpty
    <2> QED BY <1>steps, <2>2 DEF RWriterFails, Backward, Up
  <1>Granted. Granted'
    BY <1>steps, <1>sum DEF RWriterFails, Granted, DriversOK, SinkOK
  <1>Accounted. Accounted'
    BY DEF RWriterFails, Accounted, Up, Returned, AtPump, AtReader
  <1> QED BY <1>others, <1>Places, <1>DriversOK, <1>Control, <1>Backward,
     <1>Granted, <1>Accounted

\* A writer task that shuts the channel down has nothing left to send.
LEMMA RShutdownStep ==
  ASSUME Inv, RShutdown
  PROVE  Inv'
  <1> USE DEF Inv, TypeOK, vars, setup, sPump, sCredit, sEnd, channel,
     rReader, rOut, rOwed, sinkVars, wPump
  <1>others. Places' /\ SenderOK' /\ SinkOK' /\ Closing' /\ Received' /\
     Granted' /\ Overshoot'
    BY Undisturbed DEF RShutdown
  <1>ChannelOK. ChannelOK'
    BY DEF RShutdown, ChannelOK
  <1>DriversOK. DriversOK'
    BY DEF RShutdown, DriversOK
  <1>Control. Control'
    BY DEF RShutdown, Control, Empty, Up
  <1>Forward. Forward'
    BY DEF RShutdown, Forward, Up
  <1>Backward. Backward'
    BY DEF RShutdown, Backward, Up
  <1>HelloFirst. HelloFirst'
    BY DEF RShutdown, HelloFirst, Empty, Up
  <1>Accounted. Accounted'
    BY DEF RShutdown, Accounted, Up, Returned, AtPump, AtReader
  <1> QED BY <1>others, <1>ChannelOK, <1>DriversOK, <1>Control, <1>Forward,
     <1>Backward, <1>HelloFirst, <1>Accounted

\* The holder's close is seen by the pump later.
LEMMA HolderClosesStep ==
  ASSUME Inv, HolderCloses
  PROVE  Inv'
  <1> USE DEF Inv, TypeOK, vars, setup, sPump, sCredit, sEnd, channel,
     rReader, rOut, rOwed, sinkVars, wPump
  <1>others. Places' /\ SenderOK' /\ DriversOK' /\ SinkOK' /\ Control' /\
     Closing' /\ Forward' /\ Received' /\ Backward' /\ Granted' /\ Overshoot'
     /\ HelloFirst' /\ Accounted'
    BY Undisturbed DEF HolderCloses
  <1>ChannelOK. ChannelOK'
    BY DEF HolderCloses, ChannelOK
  <1> QED BY <1>others, <1>ChannelOK

\* A channel that fails keeps a prefix of what was in flight.
LEMMA ChannelEndsStep ==
  ASSUME Inv, ChannelEnds
  PROVE  Inv'
  <1> USE DEF Inv, TypeOK, vars, setup, sPump, sCredit, sEnd, channel,
     rReader, rOut, rOwed, sinkVars, wPump
  <1>cut. PICK n \in 0..Len(wire), m \in 0..Len(back) :
            wire' = SubSeq(wire, 1, n) /\ back' = SubSeq(back, 1, m)
    BY DEF ChannelEnds
  <1>down. link' = "lost"
    BY DEF ChannelEnds
  <1>nat. arrived \in Int /\ received \in Int
    BY DEF DriversOK, SenderOK
  <1>wire. Chain(wire', arrived)
    BY <1>cut, <1>nat, Hands, ChainPrefix DEF Forward
  <1>back. Chain(back', received) /\ End(back', received) <= End(back, received)
    BY <1>cut, <1>nat, Hands, ChainPrefix DEF Backward
  <1>ends. End(back', received) \in Int
    <2>1. back' \in Seq(Frames)
      BY <1>cut, Hands, SeqFacts
    <2> QED BY <1>nat, <1>back, <2>1, ChainSum
  <1>others. SenderOK' /\ DriversOK' /\ SinkOK' /\ Received' /\ Granted' /\
     Overshoot'
    BY Undisturbed DEF ChannelEnds
  <1>Places. Places'
    BY DEF ChannelEnds, Places
  <1>ChannelOK. ChannelOK'
    BY DEF ChannelEnds, ChannelOK
  <1>Control. Control'
    BY DEF ChannelEnds, Control, Empty, Up
  <1>Closing. Closing'
    BY DEF ChannelEnds, Closing
  <1>Forward. Forward'
    BY <1>wire, <1>down DEF ChannelEnds, Forward, Up
  <1>Backward. Backward'
    BY <1>back, <1>ends, <1>down, RunningTotals DEF ChannelEnds, Backward, Up,
       DriversOK
  <1>HelloFirst. HelloFirst'
    BY DEF ChannelEnds, HelloFirst, Empty, Up
  <1>Accounted. Accounted'
    BY DEF ChannelEnds, Accounted, Up, Returned, AtPump, AtReader
  <1> QED BY <1>others, <1>Places, <1>ChannelOK, <1>Control, <1>Closing,
     <1>Forward, <1>Backward, <1>HelloFirst, <1>Accounted

-----------------------------------------------------------------------------
(* The invariant holds in every state.                                       *)

\* The stream as it stands once its Fds frame is behind it.
LEMMA InitInv ==
  ASSUME Init
  PROVE  Inv
  <1> DEFINE f == Frame("hello", 0, 0)
  <1>facts. f \in Hellos /\ f \in Frames /\ f.kind = "hello" /\ f.cost = 0 /\ f.upto = 0
    <2>1. f \in Frames /\ f.kind = "hello" /\ f.cost = 0 /\ f.upto = 0
      BY NewFrame DEF Kinds
    <2> QED BY <2>1 DEF Hellos
  <1>places. /\ wire \in {<<>>, <<f>>} /\ back \in {<<>>, <<f>>}
             /\ wire = IF peer # "unwindowed" /\ ~rHello THEN <<f>> ELSE <<>>
             /\ back = IF peer = "early" THEN <<f>> ELSE <<>>
             /\ shand = <<>> /\ sq = <<>> /\ queue = <<>> /\ rhand = <<>>
             /\ whand = <<>> /\ rq = <<>>
    BY DEF Init
  <1> HIDE DEF f
  <1>one. /\ <<f>> \in Seq(ToReader) /\ <<f>> \in Seq(ToSender) /\ <<f>> \in Seq(Frames)
          /\ Len(<<f>>) = 1 /\ <<f>>[1] = f /\ Head(<<f>>) = f /\ <<f>> # <<>>
    BY <1>facts DEF ToReader, ToSender
  <1>none. /\ Len(<<>>) = 0 /\ Sum(<<>>) = 0 /\ Chain(<<>>, 0) /\ End(<<>>, 0) = 0
           /\ <<>> \in Seq(ToReader) /\ <<>> \in Seq(ToSender)
    BY ChainEmpty
  <1>chain. Chain(<<f>>, 0) /\ End(<<f>>, 0) = 0
    <2>1. f.upto = 0 + f.cost /\ f.upto = 0 /\ 0 \in Int
      BY <1>facts
    <2>2. /\ Chain(<<f>>, 0) <=> Head(<<f>>).upto = 0 + Head(<<f>>).cost
          /\ End(<<f>>, 0) = Head(<<f>>).upto
      BY <1>one, <2>1, Single
    <2> QED BY <1>one, <2>1, <2>2
  <1>Places. Places
    BY <1>places, <1>one, <1>none, FrameSeqs DEF Places
  <1>hello. /\ sHello \in BOOLEAN /\ (sHello <=> peer = "windowed")
            /\ available = IF sHello THEN Window ELSE 0
            /\ available \in Int
    <2>1. sHello = (peer = "windowed") /\ available = IF sHello THEN Window ELSE 0
      BY DEF Init
    <2>2. sHello \in BOOLEAN /\ (sHello <=> peer = "windowed")
      BY <2>1, Zenon
    <2> QED BY <2>1, <2>2, Sizes
  <1>SenderOK. SenderOK
    BY <1>places, <1>hello, FrameSeqs DEF Init, SenderOK
  <1>ChannelOK. ChannelOK
    BY <1>places, <1>one, FrameSeqs DEF Init, ChannelOK
  <1>DriversOK. DriversOK
    BY <1>places, FrameSeqs DEF Init, DriversOK
  <1>SinkOK. SinkOK
    BY <1>places, FrameSeqs DEF Init, SinkOK
  <1>Control. Control
    BY <1>places, <1>none DEF Init, Control, Empty, Up
  <1>Closing. Closing
    <2>1. \A i \in 1..Len(wire) : wire[i].upto = 0 /\ wire[i].kind # "close"
      BY <1>places, <1>one, <1>none, <1>facts
    <2> QED BY <1>places, <1>none, <2>1 DEF Init, Closing
  <1>Forward. Forward
    <2>1. Chain(wire, 0) /\ End(wire, 0) = 0
      BY <1>places, <1>none, <1>chain
    <2> QED BY <1>places, <1>none, <2>1 DEF Init, Forward
  <1>Received. Received
    BY <1>places, <1>none, Sizes DEF Init, Received, Counted
  <1>Backward. Backward
    <2>1. Chain(back, 0) /\ End(back, 0) = 0
      BY <1>places, <1>none, <1>chain
    <2>2. received = 0 /\ written = 0 /\ issued = 0 /\ issued - Sum(rq) = 0
      BY <1>places, <1>none DEF Init
    <2> QED BY <1>places, <1>none, <2>1, <2>2 DEF Backward
  <1>Granted. Granted
    BY <1>places, <1>none DEF Init, Granted
  <1>Overshoot. Overshoot
    <2>1. debited = 0 /\ received = 0 /\ spc = "ready"
      BY DEF Init
    <2> QED BY <1>hello, <2>1, Sizes DEF Overshoot
  <1>HelloFirst. HelloFirst
    <2>1. /\ wire # <<>> => wire[1].kind = "hello"
          /\ back # <<>> => back[1].kind = "hello"
      BY <1>places, <1>one, <1>facts
    <2>2. peer # "unwindowed" /\ ~rHello => wire # <<>> /\ delegator = "receiver"
      BY <1>places, <1>one DEF Init
    <2>3. peer # "unwindowed" /\ ~sHello => back # <<>>
      BY <1>places, <1>one DEF Init
    <2> QED BY <1>places, <2>1, <2>2, <2>3 DEF Init, HelloFirst, Empty
  <1>Accounted. Accounted
    BY <1>places, <1>none DEF Init, Accounted, Returned, AtPump, AtReader
  <1> QED BY <1>Places, <1>SenderOK, <1>ChannelOK, <1>DriversOK, <1>SinkOK, <1>Control,
             <1>Closing, <1>Forward, <1>Received, <1>Backward, <1>Granted,
             <1>Overshoot, <1>HelloFirst, <1>Accounted
          DEF Inv, TypeOK

\* Every step keeps the invariant.
LEMMA StepInv ==
  ASSUME Inv, [Next]_vars
  PROVE  Inv'
  <1>1. CASE SenderEnd
    BY <1>1, SReadyStep, SReadStep, SEofStep, SSendStep, SCancelledStep, SReadFailsStep,
       SWriterStep, STakesHelloStep, STakesWindowStep, SReaderEndsStep, SDropStep,
       SShutdownStep
       DEF SenderEnd
  <1>2. CASE ReaderTask
    BY <1>2, RHelloStep, RDataStep, RRoomStep, RSendStep, RCloseStep, REndsStep,
       RDropStep, RAbortedStep
       DEF ReaderTask
  <1>3. CASE WritePump
    BY <1>3, WRecvStep, WCloseStep, WQueueClosedStep, WWriteStep, WGrantStep,
       WAbandonsStep, WLoadsStep, WDropsStep
       DEF WritePump
  <1>4. CASE WriterTask
    BY <1>4, RFlushOwedStep, RWriterStep, RWriterFailsStep, RShutdownStep
       DEF WriterTask
  <1>5. CASE HolderCloses \/ ChannelEnds
    BY <1>5, HolderClosesStep, ChannelEndsStep
  <1>6. CASE Terminated \/ UNCHANGED vars
    <2>1. UNCHANGED vars
      BY <1>6 DEF Terminated
    <2> QED BY <2>1, Undisturbed
            DEF Inv, TypeOK, vars, setup, sPump, sCredit, sEnd, channel, rReader,
                rOut, rOwed, sinkVars, wPump
  <1> QED BY <1>1, <1>2, <1>3, <1>4, <1>5, <1>6 DEF Next

\* The inductive invariant holds in every reachable state.
THEOREM Invariance == Spec => []Inv
  BY InitInv, StepInv, PTL DEF Spec

-----------------------------------------------------------------------------
(* What it says of the stream.                                               *)

\* The state keeps its shape: above all, the counter of queued bytes that the
\* pump takes its frames off (QueueDepth.queued, an unsigned number) never
\* wraps, whatever the two tasks that share it do.
THEOREM TypeCorrect == Spec => []TypeOK
  <1>1. Inv => TypeOK
    BY DEF Inv
  <1> QED BY <1>1, Invariance, PTL

\* What waits for the pump never exceeds one window and one frame, whatever the
\* sender knows of the window (Flow::queue_limit, wait_for_room).
THEOREM Backlog == Spec => []BacklogBounded
  <1>1. ASSUME Inv PROVE BacklogBounded
    <2> USE <1>1
    <2>1. CASE rxOpen
      <3> DEFINE e == End(whand, consumed)
      <3>1. /\ Sum(whand) = e - consumed /\ Sum(queue) = End(queue, e) - e
            /\ e \in Int /\ End(queue, e) \in Int /\ consumed \in Int
        BY <2>1, RunningTotals DEF Inv, TypeOK, SinkOK
      <3>2. queued = End(queue, e) - consumed + Counted /\ queued <= QueueLimit
        BY <2>1 DEF Inv, Received
      <3>3. Counted \in Nat
        BY Hands DEF Counted
      <3> HIDE DEF e
      <3> QED BY <3>1, <3>2, <3>3, Sizes DEF BacklogBounded
    <2>2. CASE ~rxOpen
      <3>1. wpc # "write" /\ queue = <<>>
        BY <2>2 DEF Inv, Control, Empty
      <3>2. Sum(whand) = 0 /\ Sum(queue) = 0
        BY <3>1, Hands, ChainEmpty
      <3> QED BY <3>2, Sizes DEF BacklogBounded
    <2> QED BY <2>1, <2>2
  <1> QED BY <1>1, Invariance, PTL

\* A sender that was told of the window never fills the queue, so the reader
\* that serves every stream of the transport never waits for this one's pump
\* (the comment on Flow::queue_limit).
THEOREM NeverWaits == Spec => []ReaderNeverWaits
  <1>1. ASSUME Inv PROVE ReaderNeverWaits
    <2> USE <1>1
    <2> SUFFICES ASSUME peer = "windowed", rxOpen, rpc = "room"
                 PROVE  HasRoom(Head(rhand).cost)
      BY DEF ReaderNeverWaits
    <2> DEFINE e == End(whand, consumed)
    <2>1. /\ queued = End(queue, e) - consumed + Counted /\ Counted = 0
          /\ End(queue, e) \in Int
      BY RunningTotals DEF Inv, Received, Counted
    <2>2. Sum(rhand) = arrived - End(queue, e) /\ Sum(rhand) = Head(rhand).cost
      BY RunningTotals, Hands
    <2>3. queued + Head(rhand).cost = arrived - consumed
      <3>1. /\ arrived \in Int /\ consumed \in Int /\ queued \in Int
        BY DEF Inv, TypeOK, DriversOK, SinkOK
      <3> HIDE DEF e
      <3> QED BY <2>1, <2>2, <3>1
    <2>4. arrived <= debited
      BY DEF Inv, Closing
    <2>5. debited - received < Window + Header + PumpBuf
      BY DEF Inv, Overshoot
    <2>6. received <= written
      BY RunningTotals DEF Inv, Backward, TypeOK, DriversOK, SenderOK
    <2>7. written <= consumed
      <3>1. /\ written \in Nat /\ Sum(rq) \in Nat /\ wgrant \in Nat
            /\ ungranted \in Nat /\ consumed \in Nat
        BY RunningTotals DEF Inv, TypeOK, DriversOK, SinkOK
      <3>2. written + Sum(rq) + wgrant + ungranted <= consumed
        BY DEF Inv, Granted
      <3> QED BY <3>1, <3>2
    <2>8. /\ arrived \in Int /\ debited \in Int /\ received \in Int
          /\ written \in Int /\ consumed \in Int
      BY DEF Inv, TypeOK, SenderOK, DriversOK, SinkOK
    <2> QED BY <2>3, <2>4, <2>5, <2>6, <2>7, <2>8, Sizes DEF HasRoom, QueueLimit
  <1> QED BY <1>1, Invariance, PTL

\* Whatever the tasks of the two ends do between a debit and its grant, what the
\* sender may still send, what is on its way, what the pump holds and what is
\* coming back make up the window, while the pump has the stream; and at least
\* the window once it abandoned it.
LEMMA Conservation ==
  ASSUME Inv
  PROVE  CreditConserved
  <1> SUFFICES ASSUME peer # "unwindowed", Linked, spc # "done"
               PROVE  IF rxOpen THEN Credit = Window ELSE Credit >= Window
    BY DEF CreditConserved
  <1> DEFINE e == End(wire, arrived)
  <1>1. Up /\ ~rDropped
    BY DEF Linked
  <1>2. /\ Sum(wire) = e - arrived /\ e \in Int
        /\ Sum(sq) = End(sq, e) - e /\ End(sq, e) \in Int
        /\ Sum(shand) = debited - End(sq, e)
    BY <1>1, RunningTotals
  <1>3. /\ Sum(back) = written - received /\ Sum(rq) \in Int
    BY <1>1, RunningTotals DEF Inv, Backward
  <1>4. /\ arrived \in Int /\ debited \in Int /\ received \in Int /\ written \in Int
        /\ owed \in Int /\ available \in Int /\ AtPump \in Int /\ AtReader \in Int
    BY Hands DEF Inv, TypeOK, SenderOK, DriversOK, SinkOK, AtPump, AtReader
  <1>5. available = (IF sHello THEN Window ELSE 0) - debited + received
    BY DEF Inv, Overshoot
  <1>6. IF rxOpen THEN Returned = arrived ELSE Returned >= arrived
    BY <1>1 DEF Inv, Accounted
  <1> HIDE DEF e
  <1>7. InFlight = debited - arrived + AtReader
    BY <1>2, <1>4 DEF InFlight
  <1>8. Returning = Sum(rq) + (written - received) + owed
    BY <1>3, <1>4 DEF Returning
  <1>9. (IF sHello THEN 0 ELSE Window) + available = Window - debited + received
    BY <1>4, <1>5, Sizes
  <1>10. Credit = Window - arrived + Returned
    BY <1>3, <1>4, <1>7, <1>8, <1>9, Sizes DEF Credit, Returned
  <1>11. Returned \in Int
    BY <1>3, <1>4 DEF Returned
  <1> QED BY <1>4, <1>6, <1>10, <1>11, Sizes

\* No credit is made or lost between a debit at the sending end and its grant,
\* for as long as the receiving pump has the stream, and none is lost after
\* (StreamSink::consumed and abandon, Flow::owe and grant).
THEOREM CreditKept == Spec => []CreditConserved
  BY Invariance, Conservation, PTL

\* A stream with nothing on its way has its whole window: no remainder of a
\* window is ever stranded at the receiving pump (StreamSink::consumed, idle).
THEOREM WindowBack == Spec => []WholeWindowReturns
  <1>1. ASSUME Inv PROVE WholeWindowReturns
    <2> USE <1>1
    <2> SUFFICES ASSUME peer # "unwindowed", Linked, spc # "done", Quiet
                 PROVE  available >= Window
      BY DEF WholeWindowReturns
    <2>1. Credit >= Window
      <3>1. Credit = Window \/ Credit >= Window
        BY Conservation DEF CreditConserved
      <3> QED BY <3>1, Sizes
    <2>2. sHello
      BY DEF Quiet, Linked, Inv, HelloFirst
    <2>3. /\ shand = <<>> /\ sq = <<>> /\ wire = <<>> /\ rhand = <<>> /\ rq = <<>>
          /\ back = <<>> /\ queue = <<>> /\ whand = <<>> /\ owed = 0
          /\ wpc \in {"recv", "done"}
      BY DEF Quiet, Empty
    <2>4. InFlight = 0 /\ Returning = 0
      BY <2>3, ChainEmpty DEF InFlight, Returning, AtReader
    <2>5. AtPump = 0
      <3>1. wgrant = 0
        BY <2>3 DEF Inv, Control
      <3>2. CASE wpc = "recv"
        <4>1. ungranted = 0 /\ rxOpen
          BY <2>3, <3>2 DEF Inv, Control, Empty
        <4>2. rpc # "send"
          <5>1. Len(rhand) # 1
            BY <2>3
          <5> QED BY <5>1, Hands
        <4>3. queued = End(queue, End(whand, consumed)) - consumed + 0
          BY <4>1, <4>2 DEF Inv, Received, Counted
        <4>4. consumed \in Int
          BY DEF Inv, TypeOK, SinkOK
        <4>5. End(queue, End(whand, consumed)) = consumed
          BY <2>3, <4>4, ChainEmpty
        <4>6. queued = 0
          BY <4>3, <4>4, <4>5
        <4> QED BY <3>1, <3>2, <4>1, <4>6 DEF AtPump
      <3>3. CASE wpc = "done"
        BY <3>1, <3>3 DEF AtPump
      <3> QED BY <2>3, <3>2, <3>3
    <2>6. available \in Int
      BY DEF Inv, TypeOK, SenderOK
    <2> QED BY <2>1, <2>2, <2>4, <2>5, <2>6, Sizes DEF Credit
  <1> QED BY <1>1, Invariance, PTL

-----------------------------------------------------------------------------
(* The stream is a pipe: first what its end leaves behind.                   *)

\* A step that leaves the two ends' progress alone.
LEMMA EndingStays ==
  Ending /\ UNCHANGED <<eof, wpc, queue, debited, registered, rxOpen, holderGone,
                        spc, arrived, rpc>> => Ending'
  BY DEF Ending

LEMMA EndingSender ==
  ASSUME Inv, Ending, SenderEnd
  PROVE  Ending'
  <1> USE DEF vars, setup, sPump, sCredit, sEnd, channel, rReader, rOut, rOwed,
              sinkVars, wPump
  <1>1. CASE SWriter \/ STakesHello \/ STakesWindow \/ SReaderEnds \/ SDrop \/ SShutdown
    BY <1>1, EndingStays
       DEF SWriter, STakesHello, STakesWindow, STakes, SReaderEnds, SDrop, SShutdown
  <1>2. CASE SReady \/ SEof \/ SSend \/ SCancelled \/ SReadFails
    <2>1. spc # "done" /\ UNCHANGED <<eof, wpc, queue, debited, registered, rxOpen,
                                      holderGone, arrived, rpc>>
      BY <1>2 DEF SReady, SEof, SSend, SCancelled, SReadFails
    <2> QED BY <2>1 DEF Ending
  <1>3. ASSUME NEW cost \in Costs, SRead(cost) PROVE Ending'
    <2>1. /\ spc = "read" /\ debited' = debited + cost
          /\ UNCHANGED <<eof, wpc, queue, registered, rxOpen, holderGone, arrived, rpc>>
      BY <1>3 DEF SRead
    <2>2. cost \in Nat /\ debited \in Nat
      BY Sizes DEF Costs, Inv, TypeOK, SenderOK
    <2>3. ASSUME NEW i \in 1..Len(queue)
          PROVE  queue[i].upto <= debited + cost /\ queue[i].kind # "close"
      <3>1. queue[i].kind # "close"
        BY <2>1 DEF Inv, Closing
      <3>2. queue[i].upto \in Nat
        BY Hands, FrameFacts
      <3>3. queue[i].upto <= debited
        BY DEF Ending
      <3> QED BY <2>2, <3>1, <3>2, <3>3
    <2> QED BY <2>1, <2>3 DEF Ending
  <1> QED BY <1>1, <1>2, <1>3 DEF SenderEnd

\* What the frame at the head of the wire says once everything has arrived.
LEMMA NextArrives ==
  ASSUME Inv, wire # <<>>
  PROVE  /\ Head(wire) \in ToReader /\ Head(wire) \in Frames /\ Head(wire) = wire[1]
         /\ 1 \in 1..Len(wire) /\ Head(wire).upto <= debited
         /\ arrived <= Head(wire).upto
         /\ arrived = debited => Head(wire).upto = debited /\ Head(wire).kind # "data"
         /\ Head(wire).kind = "close" => Head(wire).upto = debited
  <1>1. /\ Head(wire) \in ToReader /\ Head(wire) \in Frames /\ Head(wire) = wire[1]
        /\ 1 \in 1..Len(wire)
    BY Hands DEF Inv, Places
  <1>2. /\ Head(wire).upto <= debited
        /\ Head(wire).kind = "close" => Head(wire).upto = debited
    BY <1>1 DEF Inv, Closing
  <1>3. arrived + Head(wire).cost <= Head(wire).upto
    BY <1>1 DEF Inv, Forward, Chain
  <1>4. /\ Head(wire).cost \in Nat /\ Head(wire).upto \in Nat
        /\ arrived \in Nat /\ debited \in Nat
    BY <1>1, FrameFacts DEF Inv, TypeOK, DriversOK, SenderOK
  <1>5. arrived = debited => Head(wire).kind # "data"
    BY <1>1, NothingComes
  <1> QED BY <1>1, <1>2, <1>3, <1>4, <1>5

LEMMA EndingReader ==
  ASSUME Inv, Ending, ReaderTask
  PROVE  Ending'
  <1> USE DEF vars, setup, sPump, sCredit, sEnd, channel, rReader, rOut, rOwed,
              sinkVars, wPump
  <1>1. CASE RDrop
    BY <1>1, EndingStays DEF RDrop
  <1>2. CASE RRoom \/ REnds \/ RAborted
    <2>1. /\ rpc' = "ended" \/ rpc = "room"
          /\ UNCHANGED <<eof, wpc, queue, debited, registered, rxOpen, holderGone,
                         spc, arrived>>
      BY <1>2 DEF RRoom, REnds, RAborted
    <2> QED BY <2>1 DEF Ending
  <1>3. CASE RHello \/ RData
    <2>1. /\ wire # <<>> /\ rpc = "frame" /\ arrived' = Head(wire).upto
          /\ rpc' # rpc => Head(wire).kind = "data"
          /\ UNCHANGED <<eof, wpc, queue, debited, registered, rxOpen, holderGone, spc>>
      BY <1>3 DEF RHello, RData, RTakes, Empty
    <2>2. arrived = debited => arrived' = debited /\ rpc' = "frame"
      BY <2>1, NextArrives
    <2> QED BY <2>1, <2>2 DEF Ending
  <1>4. CASE RSend
    <2>1. /\ rpc = "send" /\ queue' = IF rxOpen THEN queue \o rhand ELSE queue
          /\ UNCHANGED <<eof, wpc, debited, registered, rxOpen, holderGone, spc, arrived>>
      BY <1>4 DEF RSend
    <2>2. CASE ~rxOpen
      BY <2>1, <2>2 DEF Ending
    <2>3. CASE rxOpen
      <3>1. /\ Len(rhand) = 1 /\ Head(rhand) \in Data /\ rhand \in Seq(Frames)
            /\ queue \in Seq(Frames) /\ Head(rhand) \in Frames
        BY <2>1, Hands, FrameFacts
      <3>2. queue' = Append(queue, Head(rhand))
        BY <2>1, <2>3, <3>1, ConcatSingle
      <3>3. Head(rhand).upto <= debited
        <4> DEFINE e == End(queue, End(whand, consumed))
        <4>1. e \in Int /\ End(rhand, e) = arrived
          BY <2>1, <2>3, RunningTotals DEF Inv, Received
        <4>2. End(rhand, e) = Head(rhand).upto
          <5> HIDE DEF e
          <5> QED BY <3>1, <4>1, Single
        <4> QED BY <4>1, <4>2 DEF Inv, Closing
      <3>4. Head(rhand).kind # "close"
        BY <3>1, FrameFacts
      <3>5. \A i \in 1..Len(queue') :
              /\ queue'[i].upto <= debited
              /\ queue'[i].kind = "close" => ~registered /\ queue'[i].upto = debited
        <4> SUFFICES ASSUME NEW i \in 1..Len(queue')
                     PROVE  /\ queue'[i].upto <= debited
                            /\ queue'[i].kind = "close" =>
                                 ~registered /\ queue'[i].upto = debited
          OBVIOUS
        <4>1. /\ Len(queue') = Len(queue) + 1 /\ queue'[Len(queue) + 1] = Head(rhand)
              /\ \A k \in 1..Len(queue) : queue'[k] = queue[k]
              /\ Len(queue) \in Nat
          BY <3>1, <3>2, SeqFacts
        <4>2. CASE i = Len(queue) + 1
          BY <3>3, <3>4, <4>1, <4>2
        <4>3. CASE i \in 1..Len(queue)
          BY <4>1, <4>3 DEF Ending
        <4> QED BY <4>1, <4>2, <4>3
      <3> QED BY <2>1, <2>3, <3>5 DEF Ending
    <2> QED BY <2>2, <2>3
  <1>5. CASE RClose
    <2>1. /\ wire # <<>> /\ rpc = "frame" /\ arrived' = Head(wire).upto /\ ~registered'
          /\ Head(wire).kind = "close"
          /\ queue' = IF registered /\ rxOpen THEN Append(queue, Head(wire)) ELSE queue
          /\ UNCHANGED <<eof, wpc, debited, rxOpen, holderGone, spc, rpc>>
      BY <1>5 DEF RClose, RTakes, Empty
    <2>2. Head(wire).upto = debited /\ arrived' = debited /\ Head(wire) \in Frames
          /\ debited \in Nat
      BY <2>1, NextArrives DEF Inv, TypeOK, SenderOK
    <2>3. \A i \in 1..Len(queue') :
            /\ queue'[i].upto <= debited
            /\ queue'[i].kind = "close" => queue'[i].upto = debited
      <3>1. CASE queue' = queue
        BY <3>1 DEF Ending
      <3>2. CASE queue' = Append(queue, Head(wire))
        <4> SUFFICES ASSUME NEW i \in 1..Len(queue')
                     PROVE  /\ queue'[i].upto <= debited
                            /\ queue'[i].kind = "close" => queue'[i].upto = debited
          OBVIOUS
        <4>1. /\ Len(queue') = Len(queue) + 1 /\ queue'[Len(queue) + 1] = Head(wire)
              /\ \A k \in 1..Len(queue) : queue'[k] = queue[k]
              /\ Len(queue) \in Nat
          BY <2>2, <3>2, Hands, SeqFacts
        <4>2. CASE i = Len(queue) + 1
          BY <2>2, <4>1, <4>2
        <4>3. CASE i \in 1..Len(queue)
          BY <4>1, <4>3 DEF Ending
        <4> QED BY <4>1, <4>2, <4>3
      <3> QED BY <2>1, <3>1, <3>2
    <2> QED BY <2>1, <2>2, <2>3 DEF Ending
  <1> QED BY <1>1, <1>2, <1>3, <1>4, <1>5 DEF ReaderTask

LEMMA EndingPump ==
  ASSUME Inv, Ending, WritePump
  PROVE  Ending'
  <1> USE DEF vars, setup, sPump, sCredit, sEnd, channel, rReader, rOut, rOwed,
              sinkVars, wPump
  <1>1. CASE WRecv
    <2>1. /\ wpc = "recv" /\ wpc' # "done" /\ queue # <<>> /\ queue' = Tail(queue)
          /\ UNCHANGED <<eof, debited, registered, rxOpen, holderGone, spc, arrived, rpc>>
      BY <1>1 DEF WRecv, Empty
    <2>2. \A i \in 1..Len(queue') : i + 1 \in 1..Len(queue) /\ queue'[i] = queue[i + 1]
      BY <2>1, Hands, SeqFacts
    <2> QED BY <2>1, <2>2 DEF Ending
  <1>2. CASE WClose
    <2>1. /\ wpc = "recv" /\ queue # <<>> /\ Head(queue).kind = "close"
          /\ wpc' = "done" /\ queue' = <<>> /\ ~rxOpen'
          /\ UNCHANGED <<debited, spc, arrived, rpc>>
      BY <1>2 DEF WClose, WReturns, Empty
    <2>2. spc = "done" /\ arrived = debited /\ rpc \notin {"room", "send"}
      <3>1. rxOpen
        BY <2>1 DEF Inv, Control
      <3> QED BY <2>1, <3>1, NothingFollows
    <2> QED BY <2>1, <2>2 DEF Ending
  <1>3. CASE WQueueClosed
    BY <1>3 DEF WQueueClosed, WReturns, MapGone, Ending
  <1>4. CASE WAbandons
    <2>1. /\ holderGone' /\ queue' = <<>> /\ wpc # "done" /\ eof' = eof
      BY <1>4 DEF WAbandons
    <2> QED BY <2>1 DEF Ending
  <1>5. CASE WWrite \/ WGrant \/ WLoads
    <2>1. /\ wpc # "done"
          /\ UNCHANGED <<eof, queue, debited, registered, rxOpen, holderGone, spc,
                         arrived, rpc>>
      BY <1>5 DEF WWrite, WGrant, WLoads
    <2> QED BY <2>1 DEF Ending
  <1>6. CASE WDrops
    <2>1. /\ wpc # "done" /\ ~registered'
          /\ UNCHANGED <<eof, queue, debited, rxOpen, holderGone, spc, arrived, rpc>>
      BY <1>6 DEF WDrops
    <2> QED BY <2>1 DEF Ending
  <1> QED BY <1>1, <1>2, <1>3, <1>4, <1>5, <1>6 DEF WritePump

\* Every step keeps what the end leaves behind.
LEMMA EndingStep ==
  ASSUME Inv, Ending, [Next]_vars
  PROVE  Ending'
  <1>1. CASE WriterTask \/ ChannelEnds \/ Terminated \/ UNCHANGED vars
    BY <1>1, EndingStays
       DEF WriterTask, RFlushOwed, RWriter, RWriterFails, RShutdown, ChannelEnds,
           Terminated, vars, setup, sPump, sCredit, sEnd, channel, rReader, rOut, rOwed,
           sinkVars, wPump
  <1>2. CASE HolderCloses
    BY <1>2 DEF HolderCloses, Ending, vars, setup, sPump, sCredit, sEnd, channel, rReader,
           rOut, rOwed, sinkVars, wPump
  <1> QED BY <1>1, <1>2, EndingSender, EndingReader, EndingPump DEF Next

LEMMA Endings == Spec => [](Inv /\ Ending)
  <1>1. Init => Ending
    BY DEF Init, Ending
  <1> QED BY <1>1, InitInv, StepInv, EndingStep, PTL DEF Spec

-----------------------------------------------------------------------------
(* What is in the pipe, and how the steps move it.                           *)

\* What every place puts in.
LEMMA Pieces ==
  Inv => /\ Tags(whand) \in Seq(Nat) /\ Tags(queue) \in Seq(Nat)
         /\ Tags(rhand) \in Seq(Nat) /\ Tags(wire) \in Seq(Nat)
         /\ Tags(sq) \in Seq(Nat) /\ Tags(shand) \in Seq(Nat)
         /\ AtHolder \in Seq(Nat) /\ AtReaderTask \in Seq(Nat) /\ AtSource \in Seq(Nat)
         /\ InPipe \in Seq(Nat)
  <1> SUFFICES ASSUME Inv
               PROVE  /\ Tags(whand) \in Seq(Nat) /\ Tags(queue) \in Seq(Nat)
                      /\ Tags(rhand) \in Seq(Nat) /\ Tags(wire) \in Seq(Nat)
                      /\ Tags(sq) \in Seq(Nat) /\ Tags(shand) \in Seq(Nat)
                      /\ AtHolder \in Seq(Nat) /\ AtReaderTask \in Seq(Nat)
                      /\ AtSource \in Seq(Nat) /\ InPipe \in Seq(Nat)
    OBVIOUS
  <1>1. /\ Tags(whand) \in Seq(Nat) /\ Tags(queue) \in Seq(Nat)
        /\ Tags(rhand) \in Seq(Nat) /\ Tags(wire) \in Seq(Nat)
        /\ Tags(sq) \in Seq(Nat) /\ Tags(shand) \in Seq(Nat)
    BY Hands, TagsSeq
  <1>2. \A a, b \in Seq(Nat) : a \o b \in Seq(Nat)
    BY InARow
  <1>3. AtHolder \in Seq(Nat) /\ AtReaderTask \in Seq(Nat) /\ AtSource \in Seq(Nat)
    BY <1>1, <1>2 DEF AtHolder, AtReaderTask, AtSource
  <1>4. <<>> \in Seq(Nat)
    OBVIOUS
  <1>5. (IF Up THEN AtSource ELSE <<>>) \in Seq(Nat)
    BY <1>3, <1>4
  <1>6. (IF rpc = "ended" THEN <<>>
         ELSE AtReaderTask \o (IF Up THEN AtSource ELSE <<>>)) \in Seq(Nat)
    BY <1>2, <1>3, <1>4, <1>5
  <1>7. InPipe \in Seq(Nat)
    BY <1>2, <1>3, <1>4, <1>6 DEF InPipe
  <1> QED BY <1>1, <1>3, <1>7

\* The last item of one place becomes the first one of the next.
LEMMA Moves ==
  \A a, b, i, c, d \in Seq(Nat) :
    Then(Then(a, Then(b, i)), Then(c, d)) = Then(Then(a, b), Then(Then(i, c), d))
  <1> SUFFICES ASSUME NEW a \in Seq(Nat), NEW b \in Seq(Nat), NEW i \in Seq(Nat),
                      NEW c \in Seq(Nat), NEW d \in Seq(Nat)
               PROVE  Then(Then(a, Then(b, i)), Then(c, d))
                        = Then(Then(a, b), Then(Then(i, c), d))
    OBVIOUS
  <1>1. Then(a, b) \in Seq(Nat) /\ Then(c, d) \in Seq(Nat)
    BY ThenFacts
  <1>2. Then(a, Then(b, i)) = Then(Then(a, b), i)
    BY ThenFacts
  <1>3. Then(Then(Then(a, b), i), Then(c, d)) = Then(Then(a, b), Then(i, Then(c, d)))
    BY <1>1, ThenFacts
  <1>4. Then(i, Then(c, d)) = Then(Then(i, c), d)
    BY ThenFacts
  <1> QED BY <1>2, <1>3, <1>4

\* The places, one behind another.
LEMMA InRows ==
  /\ AtHolder = Then(Tags(whand), Tags(queue))
  /\ AtHolder' = Then(Tags(whand'), Tags(queue'))
  /\ AtReaderTask = Then(Tags(rhand), Tags(wire))
  /\ AtReaderTask' = Then(Tags(rhand'), Tags(wire'))
  /\ AtSource = Then(Tags(sq), Tags(shand))
  /\ AtSource' = Then(Tags(sq'), Tags(shand'))
  /\ InPipe = IF holderGone THEN <<>>
              ELSE Then(AtHolder, IF rpc = "ended" THEN <<>>
                                  ELSE Then(AtReaderTask, IF Up THEN AtSource ELSE <<>>))
  /\ InPipe' = IF holderGone' THEN <<>>
               ELSE Then(AtHolder', IF rpc' = "ended" THEN <<>>
                                    ELSE Then(AtReaderTask',
                                              IF Up' THEN AtSource' ELSE <<>>))
  BY DEF Then, AtHolder, AtReaderTask, AtSource, InPipe

\* The first item leaves.
LEMMA FirstLeaves ==
  ASSUME NEW u \in Nat, NEW q \in Seq(Nat), NEW x \in Seq(Nat)
  PROVE  /\ (<<u>> \o q) \o x # <<>> /\ Head((<<u>> \o q) \o x) = u
         /\ Tail((<<u>> \o q) \o x) = (<<>> \o q) \o x
  <1>1. <<u>> \in Seq(Nat)
    OBVIOUS
  <1>2. PICK y \in Seq(Nat) : y = q \o x
    BY InARow
  <1>3. (<<u>> \o q) \o x = <<u>> \o y
    <2>1. \A a \in Seq(Nat) : (a \o q) \o x = a \o (q \o x)
      BY Regroups, Zenon
    <2> QED BY <1>1, <1>2, <2>1, Zenon
  <1>4. (<<>> \o q) \o x = y
    BY <1>2, InARow
  <1> DEFINE h == <<u>> \o y
  <1>5. /\ h \in Seq(Nat) /\ Len(h) = Len(y) + 1 /\ h[1] = u /\ Len(y) \in Nat
        /\ \A k \in 1..Len(y) : h[k + 1] = y[k]
    BY <1>1
  <1> HIDE DEF h
  <1>6. h # <<>> /\ Head(h) = u
    BY <1>5
  <1>7. Tail(h) = y
    <2>1. /\ Tail(h) \in Seq(Nat) /\ Len(Tail(h)) = Len(y)
          /\ \A k \in 1..Len(y) : Tail(h)[k] = y[k]
      BY <1>5, <1>6
    <2> DEFINE t == Tail(h)
    <2> HIDE DEF t
    <2>2. t \in Seq(Nat) /\ Len(t) = Len(y) /\ \A k \in 1..Len(t) : t[k] = y[k]
      BY <2>1 DEF t
    <2>3. t = y
      BY <2>2, SeqEqual
    <2> QED BY <2>3 DEF t
  <1> QED BY <1>3, <1>4, <1>6, <1>7 DEF h

\* Places that keep their frames keep what they put in.
LEMMA Standing ==
  /\ UNCHANGED <<whand, queue>> => AtHolder' = AtHolder
  /\ UNCHANGED <<rhand, wire>> => AtReaderTask' = AtReaderTask
  /\ UNCHANGED <<sq, shand>> => AtSource' = AtSource
  BY DEF AtHolder, AtReaderTask, AtSource

\* What the pipe sees of the rest of the state.
Ends == <<consumed, ended, eof, holderGone, rDropped, link = "lost">>

\* A step that moves nothing in or out of the pipe, nor ends it.
LEMMA Stutters ==
  ASSUME InPipe' = InPipe, UNCHANGED Ends
  PROVE  UNCHANGED P!vars
  BY DEF P!vars, Ends

\* One that loses the end of what is in it.
LEMMA Loses ==
  ASSUME InPipe \in Seq(Nat), InPipe' \in Seq(Nat), Begins(InPipe', InPipe),
         UNCHANGED <<consumed, ended, eof>>,
         holderGone' \/ rDropped' \/ link' = "lost"
  PROVE  P!Next
  <1>1. \E n \in 0..Len(InPipe) : InPipe' = SubSeq(InPipe, 1, n)
    BY BeginsCut
  <1>2. P!Lose
    BY <1>1 DEF P!Lose
  <1> QED BY <1>2 DEF P!Next

\* Nothing that the pipe is made of changes.
LEMMA PipeStays ==
  UNCHANGED <<whand, queue, rhand, wire, sq, shand, rpc, link, holderGone>> =>
    InPipe' = InPipe
  BY DEF InPipe, AtHolder, AtReaderTask, AtSource, Up

\* The sending end: a read puts an item in, the source's end of file closes it.
LEMMA ReadPuts ==
  ASSUME Inv, NEW cost \in Costs, SRead(cost)
  PROVE  P!Next \/ UNCHANGED P!vars
  <1> DEFINE u == debited + cost
             f == Frame("data", cost, u)
  <1>1. /\ spc = "read" /\ shand' = <<f>> /\ u \in 1..Total
        /\ UNCHANGED <<whand, queue, rhand, wire, sq, rpc, link>> /\ UNCHANGED Ends
    <2>1. cost \in Nat /\ 0 < cost /\ debited \in Nat /\ Total \in Nat
      BY Sizes, SizesAssumption DEF Costs, Inv, TypeOK, SenderOK, SizesAssumption
    <2>2. debited + cost <= Total
      BY DEF SRead
    <2>3. debited + cost \in 1..Total
      BY <2>1, <2>2
    <2> QED BY <2>3 DEF SRead, Ends, sEnd, channel, rReader, sinkVars, wPump
  <1>2. f \in Frames /\ Item(f) = <<u>> /\ u \in Nat
    <2>1. cost \in Nat /\ u \in Nat
      BY <1>1, Sizes DEF Costs
    <2> QED BY <2>1, NewFrame DEF Item, Kinds
  <1> HIDE DEF f, u
  <1>3. shand = <<>> /\ Tags(shand) = <<>> /\ Tags(shand') = <<u>> /\ ~ended
    BY <1>1, <1>2, Hands, TagsEmpty, TagsSingle DEF Inv, Closing
  <1>4. PICK s \in Seq(Nat) : s = Tags(sq)
    BY Pieces
  <1>5. AtSource = s /\ AtSource' = Then(s, <<u>>) /\ <<u>> \in Seq(Nat)
    <2>1. <<u>> \in Seq(Nat)
      BY <1>2
    <2> QED BY <1>1, <1>3, <1>4, <2>1, ThenFacts, InRows
  <1>6. AtHolder' = AtHolder /\ AtReaderTask' = AtReaderTask /\ Up' = Up
    BY <1>1, Standing DEF Up
  <1>7. holderGone' = holderGone /\ rpc' = rpc
    BY <1>1 DEF Ends
  <1>8. CASE holderGone \/ rpc = "ended" \/ ~Up
    <2>1. InPipe' = InPipe
      BY <1>6, <1>7, <1>8, InRows
    <2> QED BY <1>1, <2>1, Stutters
  <1>9. CASE ~holderGone /\ rpc # "ended" /\ Up
    <2>1. PICK a \in Seq(Nat), b \in Seq(Nat) : a = AtHolder /\ b = AtReaderTask
      BY Pieces
    <2>2. InPipe = Then(a, Then(b, s)) /\ InPipe' = Then(a, Then(b, Then(s, <<u>>)))
      BY <1>5, <1>6, <1>7, <1>9, <2>1, InRows
    <2>3. InPipe' = Then(InPipe, <<u>>)
      <3>1. Then(b, s) \in Seq(Nat)
        BY ThenFacts
      <3>2. PICK one \in Seq(Nat) : one = <<u>>
        BY <1>5
      <3>3. Then(Then(b, s), one) = Then(b, Then(s, one))
        BY ThenFacts
      <3>4. Then(Then(a, Then(b, s)), one) = Then(a, Then(Then(b, s), one))
        BY <3>1, ThenFacts
      <3> QED BY <2>2, <3>2, <3>3, <3>4, Zenon
    <2>4. PICK p \in Seq(Nat) : p = InPipe
      BY Pieces
    <2>5. InPipe' = Append(InPipe, u)
      <3>1. Then(p, <<u>>) = Append(p, u)
        BY <1>2, AppendIsConcat DEF Then
      <3> QED BY <2>3, <2>4, <3>1
    <2>6. P!Put
      BY <1>1, <1>3, <2>5 DEF P!Put, Ends
    <2> QED BY <2>6 DEF P!Next
  <1> QED BY <1>8, <1>9

LEMMA PipeSender ==
  ASSUME Inv, SenderEnd
  PROVE  P!Next \/ UNCHANGED P!vars
  <1> USE DEF setup, sPump, sCredit, sEnd, channel, rReader, rOut, rOwed, sinkVars, wPump
  <1>1. CASE \/ SReady \/ SCancelled \/ SReadFails \/ STakesHello
             \/ STakesWindow \/ SReaderEnds \/ SDrop
    <2>1. /\ UNCHANGED <<whand, queue, rhand, wire, sq, shand, rpc, link, holderGone>>
          /\ UNCHANGED Ends
      BY <1>1 DEF SReady, SCancelled, SReadFails, STakesHello, STakesWindow, STakes,
                  SReaderEnds, SDrop, Ends
    <2> QED BY <2>1, PipeStays, Stutters
  <1>2. ASSUME NEW cost \in Costs, SRead(cost) PROVE P!Next \/ UNCHANGED P!vars
    BY <1>2, ReadPuts
  <1>3. CASE SEof
    <2> DEFINE f == Frame("close", 0, debited)
    <2>1. /\ spc = "read" /\ shand' = <<f>> /\ ended'
          /\ UNCHANGED <<whand, queue, rhand, wire, sq, rpc, link, holderGone>>
          /\ UNCHANGED <<consumed, eof, holderGone, rDropped, link>>
      BY <1>3 DEF SEof
    <2>2. f \in Frames /\ Item(f) = <<>>
      <3>1. debited \in Nat
        BY DEF Inv, TypeOK, SenderOK
      <3> QED BY <3>1, NewFrame DEF Item, Kinds
    <2> HIDE DEF f
    <2>3. Tags(shand) = <<>> /\ Tags(shand') = <<>>
      BY <2>1, <2>2, Hands, TagsEmpty, TagsSingle
    <2>4. InPipe' = InPipe
      BY <2>1, <2>3, InRows DEF Up
    <2>5. P!Close
      BY <1>3, <2>1, <2>4 DEF P!Close, SEof
    <2> QED BY <2>5 DEF P!Next
  <1>4. CASE SSend
    <2>1. /\ spc = "send" /\ shand' = <<>>
          /\ \/ sq' = sq \o shand
             \/ ~sWriter /\ sq' = sq
          /\ UNCHANGED <<whand, queue, rhand, wire, rpc, link, holderGone>> /\ UNCHANGED Ends
      BY <1>4 DEF SSend, Ends
    <2>2. AtHolder' = AtHolder /\ AtReaderTask' = AtReaderTask /\ Up' = Up
      BY <2>1, Standing DEF Up
    <2>3. Up => AtSource' = AtSource
      <3> SUFFICES ASSUME Up PROVE AtSource' = AtSource
        OBVIOUS
      <3>1. sq' = sq \o shand
        BY <2>1 DEF Inv, Control
      <3>2. Len(shand) = 1 /\ shand \in Seq(Frames) /\ sq \in Seq(Frames)
            /\ shand = <<Head(shand)>> /\ Head(shand) \in Frames
        BY <2>1, Hands, Single
      <3>3. sq' = Append(sq, Head(shand))
        BY <3>1, <3>2, ConcatSingle
      <3>4. PICK s \in Seq(Nat), i \in Seq(Nat) : s = Tags(sq) /\ i = Item(Head(shand))
        BY <3>2, Pieces, ItemSeq
      <3>5. Tags(sq') = Then(s, i) /\ Tags(shand) = i /\ Tags(shand') = <<>>
        BY <2>1, <3>2, <3>3, <3>4, TagsMoves, TagsSingle, TagsEmpty
      <3>6. Then(Then(s, i), <<>>) = Then(s, i)
        BY ThenFacts
      <3> QED BY <3>4, <3>5, <3>6, InRows
    <2>4. InPipe' = InPipe
      BY <2>1, <2>2, <2>3, InRows
    <2> QED BY <2>1, <2>4, Stutters
  <1>5. CASE SWriter
    <2>1. /\ sq # <<>>
          /\ \/ wire' = Append(wire, Head(sq)) /\ sq' = Tail(sq)
             \/ ~Up /\ wire' = wire
          /\ UNCHANGED <<whand, queue, rhand, shand, rpc, link, holderGone>>
          /\ UNCHANGED Ends
      BY <1>5 DEF SWriter, Ends, Empty
    <2>2. AtHolder' = AtHolder /\ Up' = Up
      BY <2>1, Standing DEF Up
    <2>3. CASE ~Up
      <3>1. AtReaderTask' = AtReaderTask
        BY <2>1, <2>3, Standing, <1>5 DEF SWriter
      <3>2. InPipe' = InPipe
        BY <2>1, <2>2, <2>3, <3>1, InRows
      <3> QED BY <2>1, <3>2, Stutters
    <2>4. CASE Up
      <3>1. /\ wire' = Append(wire, Head(sq)) /\ sq' = Tail(sq)
            /\ Head(sq) \in Frames /\ Tail(sq) \in Seq(Frames)
            /\ sq \in Seq(Frames) /\ wire \in Seq(Frames)
        BY <2>1, <2>4, Hands, SeqFacts
      <3>2. PICK a \in Seq(Nat), b \in Seq(Nat), i \in Seq(Nat), c \in Seq(Nat),
                 d \in Seq(Nat) :
              /\ a = Tags(rhand) /\ b = Tags(wire) /\ i = Item(Head(sq))
              /\ c = Tags(Tail(sq)) /\ d = Tags(shand)
        BY <3>1, Pieces, ItemSeq, TagsSeq
      <3>3. Tags(wire') = Then(b, i) /\ Tags(sq) = Then(i, c) /\ Tags(sq') = c
            /\ Tags(rhand') = a /\ Tags(shand') = d
        BY <2>1, <3>1, <3>2, TagsMoves
      <3>4. Then(AtReaderTask', AtSource') = Then(AtReaderTask, AtSource)
        <4>1. Then(Then(a, Then(b, i)), Then(c, d)) = Then(Then(a, b), Then(Then(i, c), d))
          BY Moves
        <4> QED BY <3>2, <3>3, <4>1, InRows
      <3>5. InPipe' = InPipe
        BY <2>1, <2>2, <2>4, <3>4, InRows
      <3> QED BY <2>1, <3>5, Stutters
    <2> QED BY <2>3, <2>4
  <1>6. CASE SShutdown
    <2>1. /\ sq = <<>> /\ shand = <<>> /\ (link' = "lost") = (link = "lost")
          /\ UNCHANGED <<whand, queue, rhand, wire, sq, shand, rpc, holderGone>>
          /\ UNCHANGED <<consumed, ended, eof, holderGone, rDropped>>
      BY <1>6, Hands DEF SShutdown, Empty, Up
    <2>2. AtHolder' = AtHolder /\ AtReaderTask' = AtReaderTask /\ AtSource' = AtSource
      BY <2>1, Standing
    <2>3. AtSource = <<>>
      <3>1. <<>> \in Seq(Nat)
        OBVIOUS
      <3> QED BY <2>1, <3>1, TagsEmpty, ThenFacts, InRows
    <2>4. InPipe' = InPipe
      BY <2>1, <2>2, <2>3, InRows
    <2>5. UNCHANGED Ends
      BY <2>1 DEF Ends
    <2> QED BY <2>4, <2>5, Stutters
  <1> QED BY <1>1, <1>2, <1>3, <1>4, <1>5, <1>6 DEF SenderEnd

\* The receiving end's reader passes items on; aborted, it loses the last ones.
LEMMA PipeReader ==
  ASSUME Inv, Inv', Ending, ReaderTask
  PROVE  P!Next \/ UNCHANGED P!vars
  <1> USE DEF setup, sPump, sCredit, sEnd, channel, rReader, rOut, rOwed, sinkVars, wPump
  <1>typed. /\ InPipe \in Seq(Nat) /\ InPipe' \in Seq(Nat) /\ <<>> \in Seq(Nat)
            /\ AtHolder \in Seq(Nat) /\ AtReaderTask \in Seq(Nat) /\ AtSource \in Seq(Nat)
    <2>1. (Inv => InPipe \in Seq(Nat))'
      BY Pieces, PTL
    <2> QED BY <2>1, Pieces
  <1>1. CASE RRoom
    <2>1. /\ UNCHANGED <<whand, queue, rhand, wire, sq, shand, link, holderGone>>
          /\ rpc # "ended" /\ rpc' # "ended" /\ UNCHANGED Ends
      BY <1>1 DEF RRoom, Ends
    <2>2. /\ AtHolder' = AtHolder /\ AtReaderTask' = AtReaderTask /\ AtSource' = AtSource
          /\ Up' = Up
      BY <2>1, Standing DEF Up
    <2>3. InPipe' = InPipe
      BY <2>1, <2>2, InRows
    <2> QED BY <2>1, <2>3, Stutters
  <1>2. CASE REnds
    <2>1. /\ UNCHANGED <<whand, queue, rhand, wire, sq, shand, link, holderGone>>
          /\ rpc = "frame" /\ rpc' = "ended" /\ ~Up /\ wire = <<>> /\ UNCHANGED Ends
      BY <1>2 DEF REnds, Ends, Empty
    <2>2. AtHolder' = AtHolder
      BY <2>1, Standing
    <2>3. Then(AtReaderTask, <<>>) = <<>>
      <3>1. rhand = <<>> /\ Then(<<>>, <<>>) = <<>>
        BY <2>1, <1>typed, Hands, ThenFacts
      <3> QED BY <2>1, <3>1, TagsEmpty, InRows
    <2>4. InPipe' = InPipe
      BY <2>1, <2>2, <2>3, InRows
    <2> QED BY <2>1, <2>4, Stutters
  <1>3. CASE RDrop
    <2>1. /\ UNCHANGED <<whand, queue, rhand, wire, sq, shand, rpc, link, holderGone>>
          /\ UNCHANGED <<consumed, ended, eof>> /\ rDropped'
      BY <1>3 DEF RDrop
    <2>2. InPipe' = InPipe
      BY <2>1, PipeStays
    <2>3. Begins(InPipe', InPipe)
      BY <2>2, <1>typed, BeginsFacts
    <2> QED BY <2>1, <2>3, <1>typed, Loses
  <1>4. CASE RAborted
    <2>1. /\ UNCHANGED <<whand, queue, holderGone, consumed, ended, eof>> /\ rDropped'
          /\ rpc # "ended" /\ rpc' = "ended"
      BY <1>4 DEF RAborted
    <2>2. AtHolder' = AtHolder
      BY <2>1, Standing
    <2>3. CASE holderGone
      <3>1. InPipe' = InPipe
        BY <2>1, <2>3, InRows
      <3>2. Begins(InPipe', InPipe)
        BY <3>1, <1>typed, BeginsFacts
      <3> QED BY <2>1, <3>2, <1>typed, Loses
    <2>4. CASE ~holderGone
      <3>1. PICK a \in Seq(Nat), b \in Seq(Nat) :
              a = AtHolder /\ b = Then(AtReaderTask, IF Up THEN AtSource ELSE <<>>)
        BY <1>typed, ThenFacts
      <3>2. InPipe = Then(a, b) /\ InPipe' = Then(a, <<>>)
        BY <2>1, <2>2, <2>4, <3>1, InRows
      <3>3. Begins(InPipe', InPipe)
        <4>1. InPipe' = a
          BY <3>2, ThenFacts
        <4>2. InPipe = a \o b
          BY <3>2 DEF Then
        <4> QED BY <4>1, <4>2 DEF Begins
      <3> QED BY <2>1, <3>3, <1>typed, Loses
    <2> QED BY <2>3, <2>4
  <1>5. CASE RHello \/ RData \/ RClose
    <2>1. /\ wire # <<>> /\ wire' = Tail(wire) /\ rpc = "frame" /\ rpc' # "ended"
          /\ rhand = <<>>
          /\ UNCHANGED <<whand, sq, shand, link, holderGone>> /\ UNCHANGED Ends
      BY <1>5, Hands DEF RHello, RData, RClose, RTakes, Empty, Ends
    <2>2. Head(wire) \in Frames /\ Tail(wire) \in Seq(Frames) /\ wire \in Seq(Frames)
      BY <2>1, Hands, SeqFacts
    <2>3. PICK i \in Seq(Nat), c \in Seq(Nat) : i = Item(Head(wire)) /\ c = Tags(wire')
      BY <2>1, <2>2, ItemSeq, TagsSeq
    <2>4. AtReaderTask = Then(i, c)
      <3>1. Tags(wire) = Then(i, c)
        BY <2>1, <2>2, <2>3, TagsMoves
      <3>2. Then(i, c) \in Seq(Nat)
        BY ThenFacts
      <3> QED BY <2>1, <3>1, <3>2, TagsEmpty, ThenFacts, InRows
    <2>5. AtSource' = AtSource /\ Up' = Up
      BY <2>1, Standing DEF Up
    <2>6. CASE holderGone
      <3>1. InPipe' = InPipe
        BY <2>1, <2>6, InRows
      <3> QED BY <2>1, <3>1, Stutters
    <2>7. ASSUME ~holderGone, AtHolder' = AtHolder, AtReaderTask' = AtReaderTask
          PROVE  UNCHANGED P!vars
      <3>1. InPipe' = InPipe
        BY <2>1, <2>5, <2>7, InRows
      <3> QED BY <2>1, <3>1, Stutters
    <2>8. ASSUME rhand' = rhand, Head(wire).kind # "data"
          PROVE  AtReaderTask' = AtReaderTask
      <3>1. i = <<>> /\ Tags(rhand') = <<>>
        BY <2>1, <2>3, <2>8, TagsEmpty DEF Item
      <3> QED BY <2>3, <2>4, <3>1, InRows
    <2>9. CASE RHello
      <3>1. queue' = queue /\ rhand' = rhand /\ Head(wire).kind # "data"
        BY <2>9 DEF RHello
      <3>2. AtHolder' = AtHolder
        BY <2>1, <3>1, Standing
      <3> QED BY <2>6, <2>7, <2>8, <3>1, <3>2
    <2>10. CASE RData /\ ~holderGone
      <3>1. registered
        <4> SUFFICES ASSUME ~registered PROVE FALSE
          OBVIOUS
        <4>1. arrived = debited
          BY <2>1, <2>10 DEF Inv, Closing, Ending
        <4> QED BY <2>1, <2>10, <4>1, NextArrives DEF RData
      <3>2. queue' = queue /\ rhand' = <<Head(wire)>>
        BY <2>10, <3>1 DEF RData
      <3>3. AtHolder' = AtHolder
        BY <2>1, <3>2, Standing
      <3>4. AtReaderTask' = AtReaderTask
        BY <2>2, <2>3, <2>4, <3>2, TagsSingle, InRows
      <3> QED BY <2>7, <2>10, <3>3, <3>4
    <2>11. CASE RClose
      <3>1. /\ rhand' = rhand /\ Head(wire).kind # "data"
            /\ queue' \in {queue, Append(queue, Head(wire))}
        BY <2>11 DEF RClose
      <3>2. Tags(queue') = Tags(queue)
        <4>1. Item(Head(wire)) = <<>>
          BY <3>1 DEF Item
        <4>2. Tags(Append(queue, Head(wire))) = Then(Tags(queue), <<>>)
          BY <2>2, <4>1, Hands, TagsMoves
        <4> QED BY <3>1, <4>2, Pieces, ThenFacts
      <3>3. AtHolder' = AtHolder
        BY <2>1, <3>2, InRows
      <3> QED BY <2>6, <2>7, <2>8, <3>1, <3>3
    <2> QED BY <1>5, <2>6, <2>9, <2>10, <2>11
  <1>6. CASE RSend
    <2>1. /\ rpc = "send" /\ rpc' = "frame" /\ rhand' = <<>>
          /\ queue' = IF rxOpen THEN queue \o rhand ELSE queue
          /\ UNCHANGED <<whand, wire, sq, shand, link, holderGone>> /\ UNCHANGED Ends
      BY <1>6 DEF RSend, Ends
    <2>2. CASE holderGone
      <3>1. InPipe' = InPipe
        BY <2>1, <2>2, InRows
      <3> QED BY <2>1, <3>1, Stutters
    <2>3. CASE ~holderGone
      <3>1. rxOpen
        BY <2>1, <2>3 DEF Ending
      <3>2. /\ Len(rhand) = 1 /\ rhand = <<Head(rhand)>> /\ Head(rhand) \in Frames
            /\ queue \in Seq(Frames) /\ rhand \in Seq(Frames)
        BY <2>1, Hands, Single
      <3>3. queue' = Append(queue, Head(rhand))
        BY <2>1, <3>1, <3>2, ConcatSingle
      <3>4. PICK a \in Seq(Nat), b \in Seq(Nat), i \in Seq(Nat), c \in Seq(Nat),
                 d \in Seq(Nat) :
              /\ a = Tags(whand) /\ b = Tags(queue) /\ i = Item(Head(rhand))
              /\ c = Tags(wire) /\ d = IF Up THEN AtSource ELSE <<>>
        BY <1>typed, <3>2, Pieces, ItemSeq
      <3>5. /\ Tags(whand') = a /\ Tags(queue') = Then(b, i) /\ Tags(wire') = c
            /\ Tags(rhand) = i /\ Tags(rhand') = <<>>
        BY <2>1, <3>2, <3>3, <3>4, TagsMoves, TagsSingle, TagsEmpty
      <3>6. AtSource' = AtSource /\ Up' = Up
        BY <2>1, Standing DEF Up
      <3>7. InPipe = Then(Then(a, b), Then(Then(i, c), d))
        BY <2>1, <2>3, <3>4, <3>5, InRows
      <3>8. InPipe' = Then(Then(a, Then(b, i)), Then(c, d))
        <4>1. AtReaderTask' = c
          BY <3>4, <3>5, ThenFacts, InRows
        <4>2. AtHolder' = Then(a, Then(b, i))
          BY <3>5, InRows
        <4> QED BY <2>1, <2>3, <3>4, <3>6, <4>1, <4>2, InRows
      <3>9. InPipe' = InPipe
        BY <3>7, <3>8, Moves
      <3> QED BY <2>1, <3>9, Stutters
    <2> QED BY <2>2, <2>3
  <1> QED BY <1>1, <1>2, <1>3, <1>4, <1>5, <1>6 DEF ReaderTask

\* The pump hands items out and shows the end of file behind the last of them.
LEMMA PipePump ==
  ASSUME Inv, Inv', Ending, WritePump
  PROVE  P!Next \/ UNCHANGED P!vars
  <1> USE DEF setup, sPump, sCredit, sEnd, channel, rReader, rOut, rOwed, sinkVars, wPump
  <1>typed. /\ InPipe \in Seq(Nat) /\ InPipe' \in Seq(Nat) /\ <<>> \in Seq(Nat)
            /\ AtHolder \in Seq(Nat) /\ AtReaderTask \in Seq(Nat) /\ AtSource \in Seq(Nat)
    <2>1. (Inv => InPipe \in Seq(Nat))'
      BY Pieces, PTL
    <2> QED BY <2>1, Pieces
  <1>1. CASE WGrant \/ WLoads \/ WDrops
    <2>1. /\ UNCHANGED <<whand, queue, rhand, wire, sq, shand, rpc, link, holderGone>>
          /\ UNCHANGED Ends
      BY <1>1 DEF WGrant, WLoads, WDrops, Ends
    <2> QED BY <2>1, PipeStays, Stutters
  <1>2. CASE WAbandons
    <2>1. holderGone /\ holderGone' /\ UNCHANGED Ends
      BY <1>2 DEF WAbandons, Ends
    <2>2. InPipe' = InPipe
      BY <2>1, InRows
    <2> QED BY <2>1, <2>2, Stutters
  <1>rest. /\ UNCHANGED <<rhand, wire, sq, shand, rpc, link, holderGone>> =>
                AtReaderTask' = AtReaderTask /\ AtSource' = AtSource /\ Up' = Up
    BY Standing DEF Up
  <1>3. CASE WRecv
    <2>1. /\ wpc = "recv" /\ queue # <<>> /\ queue' = Tail(queue) /\ whand' = <<Head(queue)>>
          /\ UNCHANGED <<rhand, wire, sq, shand, rpc, link, holderGone>> /\ UNCHANGED Ends
      BY <1>3 DEF WRecv, Ends, Empty
    <2>2. whand = <<>> /\ queue \in Seq(Frames) /\ Head(queue) \in Frames
          /\ Tail(queue) \in Seq(Frames)
      BY <2>1, Hands, SeqFacts
    <2>3. PICK i \in Seq(Nat), c \in Seq(Nat) :
            i = Item(Head(queue)) /\ c = Tags(Tail(queue))
      BY <2>2, ItemSeq, TagsSeq
    <2>4. AtHolder' = Then(i, c)
      BY <2>1, <2>2, <2>3, TagsSingle, InRows
    <2>5. AtHolder = Then(i, c)
      <3>1. Tags(queue) = Then(i, c)
        BY <2>1, <2>2, <2>3, TagsMoves
      <3>2. Then(i, c) \in Seq(Nat)
        BY ThenFacts
      <3> QED BY <2>2, <3>1, <3>2, TagsEmpty, ThenFacts, InRows
    <2>6. InPipe' = InPipe
      BY <2>1, <2>4, <2>5, <1>rest, InRows
    <2> QED BY <2>1, <2>6, Stutters
  <1>4. CASE WWrite
    <2>1. /\ wpc = "write" /\ ~holderGone /\ consumed' = Head(whand).upto /\ whand' = <<>>
          /\ UNCHANGED <<rhand, wire, sq, shand, rpc, link, holderGone, queue>>
          /\ UNCHANGED <<ended, eof, holderGone, rDropped, link>>
      BY <1>4 DEF WWrite
    <2> DEFINE u == Head(whand).upto
    <2>2. whand = <<Head(whand)>> /\ Head(whand) \in Frames /\ Item(Head(whand)) = <<u>>
          /\ u \in Nat
      <3>1. Len(whand) = 1 /\ Head(whand) \in Data /\ whand \in Seq(Frames)
        BY <2>1, Hands
      <3> QED BY <3>1, Single, FrameFacts DEF Item
    <2> HIDE DEF u
    <2>3. PICK q \in Seq(Nat), x \in Seq(Nat) :
            /\ q = Tags(queue)
            /\ x = IF rpc = "ended" THEN <<>>
                   ELSE Then(AtReaderTask, IF Up THEN AtSource ELSE <<>>)
      BY <1>typed, Pieces, ThenFacts
    <2>4. InPipe = Then(Then(<<u>>, q), x)
      BY <2>1, <2>2, <2>3, TagsSingle, InRows
    <2>5. InPipe' = Then(Then(<<>>, q), x)
      BY <2>1, <2>3, <1>rest, TagsEmpty, InRows
    <2>6. InPipe # <<>> /\ Head(InPipe) = u /\ Tail(InPipe) = InPipe'
      BY <2>2, <2>4, <2>5, FirstLeaves DEF Then
    <2>7. ~eof
      BY <2>1 DEF Ending
    <2>8. P!Get
      BY <2>1, <2>6, <2>7 DEF P!Get, u
    <2> QED BY <2>8 DEF P!Next
  <1>5. CASE WClose \/ WQueueClosed
    <2>1. /\ wpc = "recv" /\ eof' /\ queue' = <<>> /\ whand' = whand
          /\ UNCHANGED <<rhand, wire, sq, shand, rpc, link, holderGone>>
          /\ UNCHANGED <<consumed, ended, holderGone, rDropped, link>>
      BY <1>5 DEF WClose, WQueueClosed, WReturns
    <2>2. whand = <<>> /\ Tags(whand) = <<>> /\ Then(<<>>, <<>>) = <<>>
      BY <2>1, <1>typed, Hands, TagsEmpty, ThenFacts
    <2>3. /\ ended \/ rDropped
          /\ Tags(queue) = <<>>
          /\ rpc # "ended" => Then(AtReaderTask, IF Up THEN AtSource ELSE <<>>) = <<>>
      <3>1. CASE WQueueClosed
        BY <3>1, TagsEmpty DEF WQueueClosed, MapGone, Empty
      <3>2. CASE WClose
        <4>1. queue # <<>> /\ Head(queue).kind = "close" /\ rxOpen
          BY <2>1, <3>2 DEF WClose, Empty, Inv, Control
        <4>2. /\ ended /\ spc = "done" /\ arrived = debited /\ rpc \notin {"room", "send"}
              /\ \A i \in 1..Len(queue) : queue[i].kind # "data"
          BY <2>1, <4>1, NothingFollows
        <4>3. Tags(queue) = <<>>
          BY <4>2, Hands, TagsNone
        <4>4. Tags(rhand) = <<>> /\ Tags(shand) = <<>>
          BY <4>2, Hands, TagsEmpty
        <4>5. Tags(wire) = <<>> /\ (Up => Tags(sq) = <<>>)
          BY <4>2, NothingComes, Hands, TagsNone
        <4>6. AtReaderTask = <<>> /\ (Up => AtSource = <<>>)
          BY <2>2, <4>4, <4>5, InRows
        <4> QED BY <2>2, <4>2, <4>3, <4>6
      <3> QED BY <1>5, <3>1, <3>2
    <2>4. AtHolder = <<>> /\ AtHolder' = <<>>
      BY <2>1, <2>2, <2>3, TagsEmpty, InRows
    <2>5. InPipe = <<>>
      BY <2>2, <2>3, <2>4, InRows
    <2>6. InPipe' = <<>>
      BY <2>1, <2>2, <2>3, <2>4, <1>rest, InRows
    <2>7. P!Eof
      BY <2>1, <2>3, <2>5, <2>6 DEF P!Eof
    <2> QED BY <2>7 DEF P!Next
  <1> QED BY <1>1, <1>2, <1>3, <1>4, <1>5 DEF WritePump

\* The holder breaks the pipe, and so does the channel: the last items are lost.
LEMMA PipeBreaks ==
  ASSUME Inv, Inv', HolderCloses \/ ChannelEnds
  PROVE  P!Next \/ UNCHANGED P!vars
  <1> USE DEF setup, sPump, sCredit, sEnd, channel, rReader, rOut, rOwed, sinkVars, wPump
  <1>typed. /\ InPipe \in Seq(Nat) /\ InPipe' \in Seq(Nat) /\ <<>> \in Seq(Nat)
            /\ AtHolder \in Seq(Nat) /\ AtReaderTask \in Seq(Nat) /\ AtSource \in Seq(Nat)
    <2>1. (Inv => InPipe \in Seq(Nat))'
      BY Pieces, PTL
    <2> QED BY <2>1, Pieces
  <1>1. CASE HolderCloses
    <2>1. holderGone' /\ UNCHANGED <<consumed, ended, eof>>
      BY <1>1 DEF HolderCloses
    <2>2. InPipe' = <<>>
      BY <2>1, InRows
    <2>3. PICK p \in Seq(Nat) : p = InPipe
      BY <1>typed
    <2>4. Begins(<<>>, p)
      <3>1. p = <<>> \o p
        BY InARow
      <3> QED BY <3>1 DEF Begins
    <2>5. Begins(InPipe', InPipe)
      BY <2>2, <2>3, <2>4
    <2> QED BY <2>1, <2>5, <1>typed, Loses
  <1>2. CASE ChannelEnds
    <2>1. /\ link' = "lost" /\ UNCHANGED <<consumed, ended, eof>>
          /\ UNCHANGED <<whand, queue, rhand, sq, shand, rpc, holderGone>>
      BY <1>2 DEF ChannelEnds
    <2>2. PICK n \in 0..Len(wire) : wire' = SubSeq(wire, 1, n)
      BY <1>2 DEF ChannelEnds
    <2>3. wire \in Seq(Frames) /\ wire' \in Seq(Frames)
      BY <2>2, Hands, SeqFacts
    <2>4. PICK h \in Seq(Nat), r \in Seq(Nat), w \in Seq(Nat), v \in Seq(Nat) :
            h = AtHolder /\ r = Tags(rhand) /\ w = Tags(wire) /\ v = Tags(wire')
      BY <1>typed, <2>3, Pieces, TagsSeq
    <2>5. Begins(v, w)
      BY <2>2, <2>3, <2>4, TagsPrefix
    <2>6. PICK y \in Seq(Nat) : y = IF Up THEN AtSource ELSE <<>>
      BY <1>typed
    <2>7. Begins(Then(r, v), Then(Then(r, w), y))
      <3>1. Then(r, v) \in Seq(Nat) /\ Then(r, w) \in Seq(Nat) /\ Then(Then(r, w), y) \in Seq(Nat)
        BY ThenFacts
      <3>2. Begins(Then(r, v), Then(r, w))
        BY <2>5, BeginsFacts DEF Then
      <3>3. Begins(Then(r, w), Then(Then(r, w), y))
        BY <3>1, BeginsThen
      <3> QED BY <3>1, <3>2, <3>3, BeginsFacts
    <2>8. CASE holderGone \/ rpc = "ended"
      <3>1. InPipe' = InPipe
        <4>1. AtHolder' = AtHolder
          BY <2>1, Standing
        <4> QED BY <2>1, <2>8, <4>1, InRows
      <3>2. Begins(InPipe', InPipe)
        BY <3>1, <1>typed, BeginsFacts
      <3> QED BY <2>1, <3>2, <1>typed, Loses
    <2>9. CASE ~holderGone /\ rpc # "ended"
      <3>1. PICK b \in Seq(Nat), c \in Seq(Nat) : b = Then(r, v) /\ c = Then(Then(r, w), y)
        BY ThenFacts
      <3>2. InPipe = Then(h, c)
        BY <2>4, <2>6, <2>9, <3>1, InRows
      <3>3. InPipe' = Then(h, b)
        <4>1. AtHolder' = h
          BY <2>1, <2>4, Standing
        <4>2. ~Up' /\ AtReaderTask' = b
          BY <2>1, <2>4, <3>1, InRows DEF Up
        <4>3. Then(b, <<>>) = b
          BY ThenFacts
        <4> QED BY <2>1, <2>9, <4>1, <4>2, <4>3, InRows
      <3>4. Begins(InPipe', InPipe)
        <4>1. Begins(b, c)
          BY <2>7, <3>1
        <4> QED BY <3>2, <3>3, <4>1, BeginsThen
      <3> QED BY <2>1, <3>4, <1>typed, Loses
    <2> QED BY <2>8, <2>9
  <1> QED BY <1>1, <1>2

LEMMA PipeStep ==
  ASSUME Inv, Inv', Ending, [Next]_vars
  PROVE  [P!Next]_(P!vars)
  <1> USE DEF setup, sPump, sCredit, sEnd, channel, rReader, rOut, rOwed, sinkVars, wPump
  <1>1. CASE RFlushOwed \/ RWriter \/ RWriterFails \/ Terminated \/ UNCHANGED vars
    <2>1. /\ UNCHANGED <<whand, queue, rhand, wire, sq, shand, rpc, link, holderGone>>
          /\ UNCHANGED Ends
      BY <1>1 DEF RFlushOwed, RWriter, RWriterFails, Terminated, vars, Ends
    <2> QED BY <2>1, PipeStays, Stutters
  <1>2. CASE RShutdown
    <2>1. /\ rpc = "ended" /\ (link' = "lost") = (link = "lost")
          /\ UNCHANGED <<whand, queue, rpc, holderGone>>
          /\ UNCHANGED <<consumed, ended, eof, holderGone, rDropped>>
      BY <1>2 DEF RShutdown, Up
    <2>2. AtHolder' = AtHolder
      BY <2>1, Standing
    <2>3. InPipe' = InPipe
      BY <2>1, <2>2, InRows
    <2>4. UNCHANGED Ends
      BY <2>1 DEF Ends
    <2> QED BY <2>3, <2>4, Stutters
  <1> QED BY <1>1, <1>2, PipeSender, PipeReader, PipePump, PipeBreaks DEF Next, WriterTask

\* A delegated stream is the pipe its descriptor stands for: whatever the tasks
\* of the two ends, the channel and the two holders do, and in whatever order,
\* the holder is given the source's items in order, none twice and none ahead of
\* one that is lost, and end of file behind the last (mux.rs, the whole way from
\* spawn_blocking_reader or async_reader to the pump that writes).
THEOREM StreamIsPipe == Spec => IsPipe
  <1>1. Init => P!Init
    <2> SUFFICES ASSUME Init PROVE P!Init
      OBVIOUS
    <2>1. /\ consumed = 0 /\ ended = FALSE /\ eof = FALSE /\ holderGone = FALSE
          /\ rDropped = FALSE /\ link = "up" /\ rpc = "frame"
          /\ whand = <<>> /\ queue = <<>> /\ rhand = <<>> /\ sq = <<>> /\ shand = <<>>
      BY DEF Init
    <2>2. Tags(wire) = <<>>
      <3>1. wire \in Seq(Frames) /\ \A i \in 1..Len(wire) : wire[i].kind # "data"
        <4>1. Inv /\ arrived = debited
          BY InitInv DEF Init
        <4> QED BY <4>1, Hands, NothingComes
      <3> QED BY <3>1, TagsNone
    <2>3. Then(<<>>, <<>>) = <<>>
      <3>1. <<>> \in Seq(Nat)
        OBVIOUS
      <3> QED BY <3>1, ThenFacts
    <2>4. AtHolder = <<>> /\ AtReaderTask = <<>> /\ AtSource = <<>>
      BY <2>1, <2>2, <2>3, TagsEmpty, InRows
    <2>5. InPipe = <<>>
      BY <2>1, <2>3, <2>4, InRows
    <2> QED BY <2>1, <2>5 DEF P!Init
  <1>2. Inv /\ Inv' /\ Ending /\ [Next]_vars => [P!Next]_(P!vars)
    BY PipeStep
  <1> QED BY <1>1, <1>2, Endings, PTL DEF Spec, IsPipe, P!Spec
=============================================================================
