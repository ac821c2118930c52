---------------------------- MODULE MuxStreamInv ----------------------------
(***************************************************************************)
(* The inductive invariant of MuxStream, for every window, frame size,      *)
(* queue depth and amount of data, and what its parts rest on: sequences    *)
(* of frames whose running totals are right. And what sequences of frames   *)
(* put in the pipe that the stream stands for, for the refinement of Pipe.  *)
(***************************************************************************)
EXTENDS MuxStream, SequenceTheorems, TLAPS

Numbers == INSTANCE Totals

-----------------------------------------------------------------------------
(* Sequences of frames whose running totals are right.                       *)

\* The frames of seq carry what comes right after a total of lo.
Chain(seq, lo) ==
  /\ ~Empty(seq) => seq[1].upto = lo + seq[1].cost
  /\ \A i \in 1..Len(seq) : lo + seq[i].cost <= seq[i].upto
  /\ \A i \in 1..Len(seq) : i > 1 => seq[i].upto = seq[i-1].upto + seq[i].cost
  /\ \A i, j \in 1..Len(seq) : i < j => seq[i].upto + seq[j].cost <= seq[j].upto

\* The total behind seq.
End(seq, lo) == IF Empty(seq) THEN lo ELSE seq[Len(seq)].upto

\* The empty sequence is a chain that ends where it starts.
LEMMA ChainEmpty ==
  ASSUME NEW lo \in Int
  PROVE  Chain(<<>>, lo) /\ End(<<>>, lo) = lo /\ Sum(<<>>) = 0
  BY DEF Chain, End, Sum, Empty

\* A chain of frames sums to the difference of its two totals.
LEMMA ChainSum ==
  ASSUME NEW seq \in Seq(Frames), NEW lo \in Int, Chain(seq, lo)
  PROVE  /\ Sum(seq) = End(seq, lo) - lo /\ Sum(seq) \in Nat
         /\ End(seq, lo) \in Int /\ lo <= End(seq, lo)
  <1>1. CASE seq = <<>>
    BY <1>1 DEF Sum, End, Empty
  <1>2. CASE seq # <<>>
    <2>1. Len(seq) \in 1..Len(seq) /\ 1 \in 1..Len(seq)
      BY <1>2
    <2>2. seq[1] \in Frames /\ seq[Len(seq)] \in Frames
      BY <2>1
    <2>3. seq[1].upto = lo + seq[1].cost
      BY <1>2 DEF Chain, Empty
    <2>4. lo + seq[Len(seq)].cost <= seq[Len(seq)].upto
      BY <2>1 DEF Chain
    <2>5. /\ seq[1].upto \in Int /\ seq[1].cost \in Int
          /\ seq[Len(seq)].upto \in Int /\ seq[Len(seq)].cost \in Nat
      BY <2>2 DEF Frames
    <2>6. End(seq, lo) = seq[Len(seq)].upto
      BY <1>2 DEF End, Empty
    <2>7. Sum(seq) = seq[Len(seq)].upto - seq[1].upto + seq[1].cost
      BY <1>2 DEF Sum, Empty
    <2> DEFINE first == seq[1].upto
               cost  == seq[1].cost
               last  == seq[Len(seq)].upto
               size  == seq[Len(seq)].cost
    <2>8. /\ first \in Int /\ cost \in Int /\ last \in Int /\ size \in Nat
          /\ first = lo + cost /\ lo + size <= last
          /\ End(seq, lo) = last /\ Sum(seq) = last - first + cost
      BY <2>3, <2>4, <2>5, <2>6, <2>7
    <2> HIDE DEF first, cost, last, size
    <2>9. last - first + cost = last - lo /\ lo <= last /\ last - lo \in Nat
      BY <2>8
    <2> QED BY <2>8, <2>9
  <1> QED BY <1>1, <1>2

\* Queueing a frame at the end of a chain.
LEMMA ChainAppend ==
  ASSUME NEW seq \in Seq(Frames), NEW lo \in Int, Chain(seq, lo),
         NEW f \in Frames, f.upto = End(seq, lo) + f.cost
  PROVE  /\ Append(seq, f) \in Seq(Frames)
         /\ Chain(Append(seq, f), lo)
         /\ End(Append(seq, f), lo) = f.upto
         /\ Sum(Append(seq, f)) = Sum(seq) + f.cost
  <1> DEFINE s == Append(seq, f)
  <1>1. /\ s \in Seq(Frames) /\ Len(s) = Len(seq) + 1
        /\ s[Len(s)] = f /\ \A i \in 1..Len(seq) : s[i] = seq[i]
        /\ s # <<>>
    OBVIOUS
  <1>2. /\ End(seq, lo) \in Int /\ lo <= End(seq, lo)
    BY ChainSum
  <1>3. \A i \in 1..Len(seq) : seq[i] \in Frames /\ seq[i].upto <= End(seq, lo)
    <2> SUFFICES ASSUME NEW i \in 1..Len(seq)
                 PROVE  seq[i] \in Frames /\ seq[i].upto <= End(seq, lo)
      OBVIOUS
    <2>1. seq[i] \in Frames /\ seq[Len(seq)] \in Frames /\ seq # <<>>
      OBVIOUS
    <2>2. CASE i = Len(seq)
      BY <2>1, <2>2 DEF End, Empty, Frames
    <2>3. CASE i < Len(seq)
      <3>1. seq[i].upto + seq[Len(seq)].cost <= seq[Len(seq)].upto
        BY <2>1, <2>3 DEF Chain
      <3> QED BY <2>1, <3>1 DEF End, Empty, Frames
    <2> QED BY <2>2, <2>3
  <1>4. Chain(s, lo)
    <2>1. ~Empty(s) => s[1].upto = lo + s[1].cost
      <3>1. CASE seq = <<>>
        BY <1>1, <3>1 DEF End, Empty
      <3>2. CASE seq # <<>>
        <4>1. s[1] = seq[1] BY <1>1, <3>2
        <4> QED BY <4>1, <3>2 DEF Chain, Empty
      <3> QED BY <3>1, <3>2
    <2>2. \A i \in 1..Len(s) : lo + s[i].cost <= s[i].upto
      <3> SUFFICES ASSUME NEW i \in 1..Len(s)
                   PROVE  lo + s[i].cost <= s[i].upto
        OBVIOUS
      <3>1. CASE i = Len(s) BY <1>1, <1>2, <3>1 DEF Frames
      <3>2. CASE i \in 1..Len(seq) BY <1>1, <3>2 DEF Chain
      <3> QED BY <1>1, <3>1, <3>2
    <2>3. \A i \in 1..Len(s) : i > 1 => s[i].upto = s[i-1].upto + s[i].cost
      <3> SUFFICES ASSUME NEW i \in 1..Len(s), i > 1
                   PROVE  s[i].upto = s[i-1].upto + s[i].cost
        OBVIOUS
      <3>1. CASE i = Len(s)
        <4>1. i - 1 = Len(seq) /\ seq # <<>> /\ s[i-1] = seq[Len(seq)]
          BY <1>1, <3>1
        <4> QED BY <1>1, <3>1, <4>1 DEF End, Empty
      <3>2. CASE i \in 1..Len(seq)
        <4>1. s[i] = seq[i] /\ s[i-1] = seq[i-1] BY <1>1, <3>2
        <4> QED BY <3>2, <4>1 DEF Chain
      <3> QED BY <1>1, <3>1, <3>2
    <2>4. \A i, j \in 1..Len(s) : i < j => s[i].upto + s[j].cost <= s[j].upto
      <3> SUFFICES ASSUME NEW i \in 1..Len(s), NEW j \in 1..Len(s), i < j
                   PROVE  s[i].upto + s[j].cost <= s[j].upto
        OBVIOUS
      <3>0. i \in 1..Len(seq) /\ s[i] = seq[i] BY <1>1
      <3>1. CASE j = Len(s)
        BY <1>1, <1>2, <1>3, <3>0, <3>1 DEF Frames
      <3>2. CASE j \in 1..Len(seq)
        <4>1. s[j] = seq[j]
          BY <1>1, <3>2
        <4> HIDE DEF s
        <4>2. seq[i].upto + seq[j].cost <= seq[j].upto
          BY <3>0, <3>2 DEF Chain
        <4> QED BY <3>0, <4>1, <4>2
      <3> QED BY <1>1, <3>1, <3>2
    <2> QED BY <2>1, <2>2, <2>3, <2>4 DEF Chain
  <1>5. End(s, lo) = f.upto
    BY <1>1 DEF End, Empty
  <1>6. Sum(s) = Sum(seq) + f.cost
    <2>1. Sum(s) = End(s, lo) - lo BY <1>1, <1>4, ChainSum
    <2>2. Sum(seq) = End(seq, lo) - lo BY ChainSum
    <2> QED BY <1>2, <1>5, <2>1, <2>2 DEF Frames
  <1> QED BY <1>1, <1>4, <1>5, <1>6

\* Taking the first frame of a chain.
LEMMA ChainTail ==
  ASSUME NEW seq \in Seq(Frames), seq # <<>>, NEW lo \in Int, Chain(seq, lo)
  PROVE  /\ Head(seq) \in Frames /\ Tail(seq) \in Seq(Frames)
         /\ Head(seq) = seq[1]
         /\ Head(seq).upto = lo + Head(seq).cost
         /\ Chain(Tail(seq), Head(seq).upto)
         /\ End(Tail(seq), Head(seq).upto) = End(seq, lo)
         /\ Sum(Tail(seq)) = Sum(seq) - Head(seq).cost
  <1> DEFINE t == Tail(seq)
  <1>1. /\ t \in Seq(Frames) /\ Len(t) = Len(seq) - 1
        /\ \A i \in 1..Len(t) : i + 1 \in 1..Len(seq) /\ t[i] = seq[i+1]
        /\ Head(seq) = seq[1] /\ seq[1] \in Frames
        /\ Len(seq) >= 1
    OBVIOUS
  <1>2. seq[1].upto = lo + seq[1].cost
    BY DEF Chain, Empty
  <1>3. \A i \in 1..Len(t) : t[i] \in Frames
    BY <1>1
  <1>4. Chain(t, seq[1].upto)
    <2>1. ~Empty(t) => t[1].upto = seq[1].upto + t[1].cost
      <3> SUFFICES ASSUME t # <<>> PROVE t[1].upto = seq[1].upto + t[1].cost
        BY DEF Empty
      <3>1. 2 \in 1..Len(seq) /\ t[1] = seq[2] BY <1>1
      <3>2. \A i \in 1..Len(seq) : i = 2 => seq[i].upto = seq[i-1].upto + seq[i].cost
        BY DEF Chain
      <3>3. seq[2].upto = seq[2-1].upto + seq[2].cost BY <3>1, <3>2
      <3>4. 2 - 1 = 1 OBVIOUS
      <3> QED BY <3>1, <3>3, <3>4
    <2>2. \A i \in 1..Len(t) : seq[1].upto + t[i].cost <= t[i].upto
      <3> SUFFICES ASSUME NEW i \in 1..Len(t)
                   PROVE  seq[1].upto + t[i].cost <= t[i].upto
        OBVIOUS
      <3>1. i + 1 \in 1..Len(seq) /\ 1 \in 1..Len(seq) /\ 1 < i + 1 /\ t[i] = seq[i+1]
        BY <1>1
      <3>2. seq[1].upto + seq[i+1].cost <= seq[i+1].upto BY <3>1 DEF Chain
      <3> QED BY <3>1, <3>2
    <2>3. \A i \in 1..Len(t) : i > 1 => t[i].upto = t[i-1].upto + t[i].cost
      <3> SUFFICES ASSUME NEW i \in 1..Len(t), i > 1
                   PROVE  t[i].upto = t[i-1].upto + t[i].cost
        OBVIOUS
      <3>1. i + 1 \in 1..Len(seq) /\ t[i] = seq[i+1] /\ t[i-1] = seq[i]
        BY <1>1
      <3>2. seq[i+1].upto = seq[(i+1)-1].upto + seq[i+1].cost BY <3>1 DEF Chain
      <3> QED BY <3>1, <3>2
    <2>4. \A i, j \in 1..Len(t) : i < j => t[i].upto + t[j].cost <= t[j].upto
      <3> SUFFICES ASSUME NEW i \in 1..Len(t), NEW j \in 1..Len(t), i < j
                   PROVE  t[i].upto + t[j].cost <= t[j].upto
        OBVIOUS
      <3>1. /\ i + 1 \in 1..Len(seq) /\ j + 1 \in 1..Len(seq) /\ i + 1 < j + 1
            /\ t[i] = seq[i+1] /\ t[j] = seq[j+1]
        BY <1>1
      <3>2. seq[i+1].upto + seq[j+1].cost <= seq[j+1].upto BY <3>1 DEF Chain
      <3> QED BY <3>1, <3>2
    <2> QED BY <2>1, <2>2, <2>3, <2>4 DEF Chain
  <1>5. End(t, seq[1].upto) = End(seq, lo)
    <2>1. CASE t = <<>>
      <3>0. Len(t) = 0
        <4> HIDE DEF t
        <4> QED BY <2>1
      <3>1. Len(seq) = 1
        <4>1. Len(seq) \in Nat OBVIOUS
        <4>2. Len(t) = Len(seq) - 1 BY <1>1
        <4> HIDE DEF t
        <4> QED BY <3>0, <4>1, <4>2
      <3>2. End(t, seq[1].upto) = seq[1].upto
        <4> HIDE DEF t
        <4> QED BY <2>1 DEF End, Empty
      <3>3. End(seq, lo) = seq[1].upto
        BY <3>1 DEF End, Empty
      <3> QED BY <3>2, <3>3
    <2>2. CASE t # <<>>
      <3>1. Len(t) \in 1..Len(t) /\ t[Len(t)] = seq[Len(seq)] BY <1>1, <2>2
      <3> QED BY <2>2, <3>1 DEF End, Empty
    <2> QED BY <2>1, <2>2
  <1>6. Sum(t) = Sum(seq) - seq[1].cost
    <2>1. seq[1].upto \in Int BY <1>1 DEF Frames
    <2>2. Sum(t) = End(t, seq[1].upto) - seq[1].upto BY <1>1, <1>4, <2>1, ChainSum
    <2>3. Sum(seq) = End(seq, lo) - lo /\ End(seq, lo) \in Int BY ChainSum
    <2> QED BY <1>1, <1>2, <1>5, <2>1, <2>2, <2>3 DEF Frames
  <1> QED BY <1>1, <1>2, <1>4, <1>5, <1>6

\* Losing the end of a chain.
LEMMA ChainPrefix ==
  ASSUME NEW seq \in Seq(Frames), NEW lo \in Int, Chain(seq, lo), NEW n \in 0..Len(seq)
  PROVE  /\ SubSeq(seq, 1, n) \in Seq(Frames)
         /\ Chain(SubSeq(seq, 1, n), lo)
         /\ End(SubSeq(seq, 1, n), lo) <= End(seq, lo)
         /\ \A i \in 1..Len(SubSeq(seq, 1, n)) :
              i \in 1..Len(seq) /\ SubSeq(seq, 1, n)[i] = seq[i]
  <1> DEFINE p == SubSeq(seq, 1, n)
  <1>1. /\ p \in Seq(Frames) /\ Len(p) = n
        /\ \A i \in 1..n : i \in 1..Len(seq) /\ p[i] = seq[i] /\ p[i] \in Frames
    OBVIOUS
  <1>2. Chain(p, lo)
    <2>1. ~Empty(p) => p[1].upto = lo + p[1].cost
      <3> SUFFICES ASSUME p # <<>> PROVE p[1].upto = lo + p[1].cost
        BY DEF Empty
      <3>1. 1 \in 1..n /\ seq # <<>> BY <1>1
      <3> QED BY <1>1, <3>1 DEF Chain, Empty
    <2>2. \A i \in 1..Len(p) : lo + p[i].cost <= p[i].upto
      BY <1>1 DEF Chain
    <2>3. \A i \in 1..Len(p) : i > 1 => p[i].upto = p[i-1].upto + p[i].cost
      <3> SUFFICES ASSUME NEW i \in 1..Len(p), i > 1
                   PROVE  p[i].upto = p[i-1].upto + p[i].cost
        OBVIOUS
      <3>1. i \in 1..Len(seq) /\ p[i] = seq[i] /\ p[i-1] = seq[i-1] BY <1>1
      <3> QED BY <3>1 DEF Chain
    <2>4. \A i, j \in 1..Len(p) : i < j => p[i].upto + p[j].cost <= p[j].upto
      BY <1>1 DEF Chain
    <2> QED BY <2>1, <2>2, <2>3, <2>4 DEF Chain
  <1>3. End(p, lo) <= End(seq, lo)
    <2>1. CASE p = <<>>
      BY <2>1, ChainSum DEF End, Empty
    <2>2. CASE p # <<>>
      <3>1. n \in 1..n /\ p[n] = seq[n] /\ n \in 1..Len(seq) /\ seq # <<>> BY <1>1, <2>2
      <3>2. seq[n] \in Frames /\ seq[Len(seq)] \in Frames BY <3>1
      <3>3. CASE n = Len(seq)
        BY <1>1, <2>2, <3>1, <3>2, <3>3 DEF End, Empty, Frames
      <3>4. CASE n < Len(seq)
        <4>1. seq[n].upto + seq[Len(seq)].cost <= seq[Len(seq)].upto
          BY <3>1, <3>4 DEF Chain
        <4> QED BY <1>1, <2>2, <3>1, <3>2, <4>1 DEF End, Empty, Frames
      <3> QED BY <3>3, <3>4
    <2> QED BY <2>1, <2>2
  <1> QED BY <1>1, <1>2, <1>3

-----------------------------------------------------------------------------
(* The inductive invariant, in parts.                                        *)

\* Which frames each place holds, and what every frame costs.
Data    == {f \in Frames : f.kind = "data" /\ f.cost \in Costs}
Closes  == {f \in Frames : f.kind = "close" /\ f.cost = 0}
Hellos  == {f \in Frames : f.kind = "hello" /\ f.cost = 0}
Windows == {f \in Frames : f.kind = "window"}

FromSource == Data \cup Closes
ToReader   == FromSource \cup Hellos
ToSender   == Hellos \cup Windows

Places ==
  /\ shand \in Seq(FromSource) /\ sq \in Seq(FromSource)
  /\ wire \in Seq(ToReader) /\ queue \in Seq(FromSource)
  /\ rhand \in Seq(Data) /\ whand \in Seq(Data)
  /\ back \in Seq(ToSender) /\ rq \in Seq(Windows)

\* What the program counters say of the rest of the state.
Control ==
  /\ Len(shand) = IF spc = "send" THEN 1 ELSE 0
  /\ Len(rhand) = IF rpc \in {"room", "send"} THEN 1 ELSE 0
  /\ Len(whand) = IF wpc = "write" THEN 1 ELSE 0
  /\ rxOpen <=> wpc \in {"recv", "write", "grant"}
  /\ ~rxOpen => Empty(queue)
  /\ depthClosed => ~rxOpen
  /\ wpc \notin {"grant", "drop", "last"} => wgrant = 0
  /\ (wpc = "recv" /\ Empty(queue)) \/ wpc = "grant" \/ ~rHello => ungranted = 0
  /\ Up => sWriter /\ rWriter
  /\ rpc = "ended" => ~Up \/ rDropped

\* A close is the last thing its stream sends.
Closing ==
  /\ ended => spc \in {"send", "done"}
  /\ \A i \in 1..Len(shand) :
       /\ shand[i].upto <= debited
       /\ shand[i].kind = "close" <=> ended
       /\ shand[i].kind = "close" => shand[i].upto = debited
  /\ \A i \in 1..Len(sq) :
       /\ sq[i].upto <= debited
       /\ sq[i].kind = "close" => ended /\ spc = "done" /\ sq[i].upto = debited
  /\ \A i \in 1..Len(wire) :
       /\ wire[i].upto <= debited
       /\ wire[i].kind = "close" => ended /\ spc = "done" /\ wire[i].upto = debited
  /\ \A i \in 1..Len(queue) : queue[i].kind = "close" => ended /\ spc = "done"
  /\ arrived <= debited
  /\ rxOpen /\ ~registered => ended /\ spc = "done" /\ arrived = debited

\* Nothing is lost or reordered on the way to the reader while the link is up.
Forward ==
  /\ Chain(wire, arrived)
  /\ Up => /\ Chain(sq, End(wire, arrived))
           /\ Chain(shand, End(sq, End(wire, arrived)))
           /\ End(shand, End(sq, End(wire, arrived))) = debited

\* The queue's counter is what is in the queue and on its way into it, as long
\* as the pump holds the queue.
Counted == IF rpc = "send" THEN Sum(rhand) ELSE 0
Received ==
  rxOpen =>
    /\ Chain(whand, consumed)
    /\ Chain(queue, End(whand, consumed))
    /\ rpc # "ended" => /\ Chain(rhand, End(queue, End(whand, consumed)))
                        /\ End(rhand, End(queue, End(whand, consumed))) = arrived
    /\ queued = End(queue, End(whand, consumed)) - consumed + Counted
    /\ queued <= QueueLimit

\* The grants on their way back.
Backward ==
  /\ Chain(back, received) /\ End(back, received) <= written
  /\ Up => End(back, received) = written
  /\ Chain(rq, issued - Sum(rq)) /\ End(rq, issued - Sum(rq)) = issued

\* Nothing is granted before it is consumed, while the pump has the stream.
Granted ==
  rxOpen => owed = 0 /\ written + Sum(rq) + wgrant + ungranted <= consumed

\* A windowed sender overshoots its window by at most one frame.
Overshoot ==
  /\ spc # "done" =>
       available = (IF sHello THEN Window ELSE 0) - debited + received
  /\ peer = "windowed" =>
       /\ sHello
       /\ debited - received < Window + Header + PumpBuf
       /\ spc = "read" => available > 0

\* Hello comes before anything that depends on it.
HelloFirst ==
  /\ peer # "unwindowed" /\ Up /\ ~rDropped /\ ~rHello =>
       /\ ~Empty(wire) /\ wire[1].kind = "hello"
       /\ delegator = "receiver" /\ wpc = "recv" /\ rpc = "frame"
       /\ Empty(queue)
  /\ peer # "unwindowed" /\ Up /\ ~sClosed /\ ~sHello =>
       ~Empty(back) /\ back[1].kind = "hello"

\* What arrived is granted, held by the pump, or on its way back.
Returned == written + Sum(rq) + owed + AtPump + AtReader
Accounted ==
  peer # "unwindowed" /\ Up /\ ~rDropped /\ spc # "done" =>
    IF rxOpen THEN Returned = arrived ELSE Returned >= arrived

\* The inductive invariant. Its parts hold together or not at all: the counter
\* of queued bytes is the cost of what lies between the reader's count and the
\* pump's (QueueDepth), a frame is charged, counted and granted for the same
\* cost (Outbound::debit, Flow::owe, StreamSink::consumed), and every queue on
\* the way carries on where the one behind it stopped.
Inv ==
  /\ TypeOK /\ Places /\ Control /\ Closing /\ Forward /\ Received
  /\ Backward /\ Granted /\ Overshoot /\ HelloFirst /\ Accounted
-----------------------------------------------------------------------------
(* What the parts of the invariant say of single frames and short sequences. *)

\* The frames of every place are frames, with the costs of their kind.
LEMMA FrameFacts ==
  /\ Data \subseteq Frames /\ Closes \subseteq Frames
  /\ Hellos \subseteq Frames /\ Windows \subseteq Frames
  /\ \A f \in Frames : f.cost \in Nat /\ f.upto \in Nat /\ f.kind \in Kinds
  /\ \A f \in Data :
       /\ f.kind = "data" /\ f.cost \in Nat /\ f.upto \in Nat
       /\ 0 < f.cost /\ f.cost <= Header + PumpBuf
  /\ \A f \in Closes : f.kind = "close" /\ f.cost = 0 /\ f.upto \in Nat
  /\ \A f \in Hellos : f.kind = "hello" /\ f.cost = 0 /\ f.upto \in Nat
  /\ \A f \in Windows : f.kind = "window" /\ f.cost \in Nat /\ f.upto \in Nat
  <1>1. Header \in Nat /\ PumpBuf \in Nat
    BY SizesAssumption DEF SizesAssumption
  <1>2. \A f \in Frames : f.cost \in Nat /\ f.upto \in Nat /\ f.kind \in Kinds
    BY DEF Frames
  <1>3. \A cost \in Costs : cost \in Nat /\ 0 < cost /\ cost <= Header + PumpBuf
    BY <1>1 DEF Costs
  <1> QED BY <1>2, <1>3 DEF Data, Closes, Hellos, Windows

\* A frame put together from a kind and two numbers.
LEMMA NewFrame ==
  ASSUME NEW kind \in Kinds, NEW cost \in Nat, NEW upto \in Nat
  PROVE  /\ Frame(kind, cost, upto) \in Frames
         /\ Frame(kind, cost, upto).kind = kind
         /\ Frame(kind, cost, upto).cost = cost
         /\ Frame(kind, cost, upto).upto = upto
  BY DEF Frame, Frames

\* Operations that keep a sequence within a set of frames.
LEMMA SeqFacts ==
  ASSUME NEW S, NEW seq \in Seq(S)
  PROVE  /\ seq # <<>> => /\ Head(seq) \in S /\ Head(seq) = seq[1]
                          /\ Tail(seq) \in Seq(S) /\ Len(Tail(seq)) = Len(seq) - 1
                          /\ \A i \in 1..Len(Tail(seq)) :
                               i + 1 \in 1..Len(seq) /\ Tail(seq)[i] = seq[i + 1]
         /\ \A x \in S : /\ Append(seq, x) \in Seq(S) /\ <<x>> \in Seq(S)
                         /\ Len(Append(seq, x)) = Len(seq) + 1
                         /\ Append(seq, x)[Len(seq) + 1] = x
                         /\ \A i \in 1..Len(seq) : Append(seq, x)[i] = seq[i]
         /\ \A n \in 0..Len(seq) : SubSeq(seq, 1, n) \in Seq(S)
         /\ Len(seq) \in Nat /\ (Len(seq) = 0 <=> seq = <<>>)
  OBVIOUS

\* Queueing a frame behind others leaves the first one first.
LEMMA AppendFirst ==
  ASSUME NEW S, NEW seq \in Seq(S), NEW x \in S
  PROVE  /\ Append(seq, x) \in Seq(S) /\ Append(seq, x) # <<>>
         /\ seq # <<>> => Append(seq, x)[1] = seq[1]
  <1>1. seq # <<>> => 1 \in 1..Len(seq)
    OBVIOUS
  <1> QED BY <1>1, AppendProperties

\* A sequence over a smaller set.
LEMMA SeqWiden ==
  ASSUME NEW S, NEW T, S \subseteq T, NEW seq \in Seq(S)
  PROVE  seq \in Seq(T)
  OBVIOUS

\* A sequence of one frame.
LEMMA Single ==
  ASSUME NEW seq \in Seq(Frames), Len(seq) = 1
  PROVE  /\ seq = <<Head(seq)>> /\ Head(seq) = seq[1] /\ Head(seq) \in Frames
         /\ seq # <<>> /\ Sum(seq) = Head(seq).cost
         /\ \A lo \in Int : /\ Chain(seq, lo) <=> Head(seq).upto = lo + Head(seq).cost
                            /\ End(seq, lo) = Head(seq).upto
  <1>1. /\ seq = <<seq[1]>> /\ Head(seq) = seq[1] /\ seq[1] \in Frames /\ seq # <<>>
        /\ seq[1].cost \in Nat /\ seq[1].upto \in Nat
    BY FrameFacts
  <1>2. Sum(seq) = seq[1].cost
    BY <1>1 DEF Sum, Empty
  <1>3. \A lo \in Int : Chain(seq, lo) <=> seq[1].upto = lo + seq[1].cost
    BY <1>1 DEF Chain, Empty
  <1>4. \A lo \in Int : End(seq, lo) = seq[1].upto
    BY <1>1 DEF End, Empty
  <1> QED BY <1>1, <1>2, <1>3, <1>4

\* Appending the one frame of a second sequence.
LEMMA ConcatSingle ==
  ASSUME NEW S, NEW seq \in Seq(S), NEW one \in Seq(S), Len(one) = 1
  PROVE  seq \o one = Append(seq, Head(one)) /\ Head(one) \in S
  <1> DEFINE c == seq \o one
             a == Append(seq, Head(one))
  <1>1. Head(one) \in S /\ Head(one) = one[1] /\ Len(one) = 1
    OBVIOUS
  <1>2. /\ c \in Seq(S) /\ Len(c) = Len(seq) + 1
        /\ \A i \in 1..Len(c) : c[i] = IF i <= Len(seq) THEN seq[i] ELSE one[i - Len(seq)]
    <2>1. /\ c \in Seq(S) /\ Len(c) = Len(seq) + Len(one)
          /\ \A i \in 1..Len(seq) + Len(one) :
               c[i] = IF i <= Len(seq) THEN seq[i] ELSE one[i - Len(seq)]
      BY ConcatProperties, Zenon
    <2> QED
      <3> HIDE DEF c
      <3> QED BY <1>1, <2>1
  <1>3. /\ a \in Seq(S) /\ Len(a) = Len(seq) + 1
        /\ \A i \in 1..Len(a) : a[i] = IF i <= Len(seq) THEN seq[i] ELSE Head(one)
    BY <1>1
  <1>4. ASSUME NEW i \in 1..Len(c) PROVE c[i] = a[i]
    <2> HIDE DEF c, a
    <2>1. Len(c) = Len(a) /\ Len(seq) \in Nat
      BY <1>2, <1>3
    <2>2. CASE i <= Len(seq)
      BY <1>2, <1>3, <2>1, <2>2
    <2>3. CASE ~(i <= Len(seq))
      <3>1. i - Len(seq) = 1
        BY <1>2, <2>1, <2>3
      <3> QED BY <1>1, <1>2, <1>3, <2>1, <2>3, <3>1
    <2> QED BY <2>2, <2>3
  <1>5. c = a
    <2> HIDE DEF c, a
    <2> QED BY <1>2, <1>3, <1>4
  <1> QED BY <1>1, <1>5

\* A place that holds frames of some kinds holds frames.
LEMMA FrameSeqs ==
  /\ Seq(FromSource) \subseteq Seq(Frames) /\ Seq(ToReader) \subseteq Seq(Frames)
  /\ Seq(ToSender) \subseteq Seq(Frames) /\ Seq(Data) \subseteq Seq(Frames)
  /\ Seq(Windows) \subseteq Seq(Frames)
  /\ <<>> \in Seq(FromSource) /\ <<>> \in Seq(Data) /\ <<>> \in Seq(Windows)
  /\ <<>> \in Seq(Frames)
  <1>1. /\ FromSource \subseteq Frames /\ ToReader \subseteq Frames
        /\ ToSender \subseteq Frames /\ Data \subseteq Frames
        /\ Windows \subseteq Frames
    BY FrameFacts DEF FromSource, ToReader, ToSender
  <1>2. \A S, T : S \subseteq T => Seq(S) \subseteq Seq(T)
    BY SeqWiden
  <1>3. \A S : <<>> \in Seq(S)
    OBVIOUS
  <1> QED BY <1>1, <1>2, <1>3

\* The sum over any frames is a number.
LEMMA SumInt ==
  ASSUME NEW seq \in Seq(Frames)
  PROVE  Sum(seq) \in Int
  <1>1. CASE seq = <<>>
    BY <1>1 DEF Sum, Empty
  <1>2. CASE seq # <<>>
    <2>1. seq[1] \in Frames /\ seq[Len(seq)] \in Frames
      BY <1>2
    <2> QED BY <1>2, <2>1, FrameFacts DEF Sum, Empty
  <1> QED BY <1>1, <1>2

-----------------------------------------------------------------------------
(* What follows from the invariant in one state.                             *)

\* The constants are numbers.
LEMMA Sizes ==
  /\ Window \in Nat /\ Header \in Nat /\ PumpBuf \in Nat /\ QueueLimit \in Nat
  /\ 0 < Window /\ Header + PumpBuf < QueueLimit
  BY SizesAssumption DEF SizesAssumption, QueueLimit

\* What a task has in hand: one frame at some points, none at the others.
LEMMA Hands ==
  ASSUME Inv
  PROVE  /\ shand \in Seq(Frames) /\ sq \in Seq(Frames) /\ wire \in Seq(Frames)
         /\ queue \in Seq(Frames) /\ rhand \in Seq(Frames)
         /\ whand \in Seq(Frames) /\ back \in Seq(Frames) /\ rq \in Seq(Frames)
         /\ spc = "send" => Len(shand) = 1 /\ Head(shand) \in FromSource
         /\ spc # "send" => shand = <<>>
         /\ rpc \in {"room", "send"} =>
              Len(rhand) = 1 /\ Head(rhand) \in Data /\ Sum(rhand) = Head(rhand).cost
         /\ rpc \notin {"room", "send"} => rhand = <<>> /\ Sum(rhand) = 0
         /\ wpc = "write" =>
              Len(whand) = 1 /\ Head(whand) \in Data /\ Sum(whand) = Head(whand).cost
         /\ wpc # "write" => whand = <<>> /\ Sum(whand) = 0
         /\ Sum(rhand) \in Nat
  <1> USE DEF Inv, TypeOK
  <1>1. /\ shand \in Seq(Frames) /\ sq \in Seq(Frames) /\ wire \in Seq(Frames)
        /\ queue \in Seq(Frames) /\ rhand \in Seq(Frames)
        /\ whand \in Seq(Frames) /\ back \in Seq(Frames) /\ rq \in Seq(Frames)
    BY DEF SenderOK, ChannelOK, DriversOK, SinkOK
  <1>2. /\ Len(shand) = IF spc = "send" THEN 1 ELSE 0
        /\ Len(rhand) = IF rpc \in {"room", "send"} THEN 1 ELSE 0
        /\ Len(whand) = IF wpc = "write" THEN 1 ELSE 0
    BY DEF Control
  <1>3. /\ shand \in Seq(FromSource) /\ rhand \in Seq(Data) /\ whand \in Seq(Data)
    BY DEF Places
  <1>4. spc = "send" => Head(shand) \in FromSource
    BY <1>2, <1>3
  <1>5. /\ rpc \in {"room", "send"} => Head(rhand) \in Data
        /\ wpc = "write" => Head(whand) \in Data
    BY <1>2, <1>3
  <1>6. /\ Len(shand) = 0 => shand = <<>>
        /\ Len(rhand) = 0 => rhand = <<>>
        /\ Len(whand) = 0 => whand = <<>>
    BY <1>1
  <1>7. Sum(<<>>) = 0
    BY ChainEmpty
  <1>8. /\ rpc \in {"room", "send"} => Sum(rhand) = Head(rhand).cost
        /\ wpc = "write" => Sum(whand) = Head(whand).cost
    BY <1>1, <1>2, Single
  <1>9. Sum(rhand) \in Nat
    BY <1>2, <1>5, <1>6, <1>7, <1>8, FrameFacts
  <1> QED BY <1>1, <1>2, <1>4, <1>5, <1>6, <1>7, <1>8, <1>9

\* The totals between the places, and the sums of the places.
LEMMA RunningTotals ==
  ASSUME Inv
  PROVE  /\ End(wire, arrived) \in Int /\ arrived <= End(wire, arrived)
         /\ Sum(wire) = End(wire, arrived) - arrived
         /\ Sum(rq) \in Nat /\ issued - Sum(rq) \in Int
         /\ Sum(back) = End(back, received) - received
         /\ End(back, received) \in Int /\ received <= End(back, received)
         /\ Up => LET e == End(wire, arrived) IN
              /\ End(sq, e) \in Int /\ Sum(sq) = End(sq, e) - e /\ Sum(sq) \in Nat
              /\ Sum(shand) = debited - End(sq, e) /\ Sum(shand) \in Nat
         /\ rxOpen => LET e == End(whand, consumed) IN
              /\ e \in Int /\ consumed <= e /\ Sum(whand) = e - consumed
              /\ End(queue, e) \in Int /\ e <= End(queue, e)
              /\ Sum(queue) = End(queue, e) - e
              /\ rpc # "ended" => Sum(rhand) = arrived - End(queue, e)
  <1> USE DEF Inv, TypeOK
  <1>1. /\ arrived \in Int /\ received \in Int /\ consumed \in Int /\ issued \in Int
        /\ debited \in Int
    BY DEF SenderOK, DriversOK, SinkOK
  <1>2. /\ End(wire, arrived) \in Int /\ arrived <= End(wire, arrived)
        /\ Sum(wire) = End(wire, arrived) - arrived
    BY <1>1, Hands, ChainSum DEF Forward
  <1>3. Sum(rq) \in Nat /\ issued - Sum(rq) \in Int
    <2>1. rq \in Seq(Frames)
      BY Hands
    <2>2. Sum(rq) \in Int
      BY <2>1, SumInt
    <2>3. issued - Sum(rq) \in Int
      BY <1>1, <2>2
    <2>4. Chain(rq, issued - Sum(rq))
      BY DEF Backward
    <2>5. Sum(rq) \in Nat
      BY <2>1, <2>3, <2>4, ChainSum
    <2> QED BY <2>3, <2>5
  <1>4. /\ Sum(back) = End(back, received) - received
        /\ End(back, received) \in Int /\ received <= End(back, received)
    BY <1>1, Hands, ChainSum DEF Backward
  <1>5. ASSUME Up
        PROVE  LET e == End(wire, arrived) IN
               /\ End(sq, e) \in Int /\ Sum(sq) = End(sq, e) - e /\ Sum(sq) \in Nat
               /\ Sum(shand) = debited - End(sq, e) /\ Sum(shand) \in Nat
    <2> DEFINE e == End(wire, arrived)
    <2>1. Chain(sq, e) /\ Chain(shand, End(sq, e)) /\ End(shand, End(sq, e)) = debited
      BY <1>5 DEF Forward
    <2>2. e \in Int
      BY <1>2
    <2> HIDE DEF e
    <2>3. End(sq, e) \in Int /\ Sum(sq) = End(sq, e) - e /\ Sum(sq) \in Nat
      BY <2>1, <2>2, Hands, ChainSum
    <2>4. Sum(shand) = debited - End(sq, e) /\ Sum(shand) \in Nat
      BY <2>1, <2>3, Hands, ChainSum
    <2> QED BY <2>3, <2>4 DEF e
  <1>6. ASSUME rxOpen
        PROVE  LET e == End(whand, consumed) IN
               /\ e \in Int /\ consumed <= e /\ Sum(whand) = e - consumed
               /\ End(queue, e) \in Int /\ e <= End(queue, e)
               /\ Sum(queue) = End(queue, e) - e
               /\ rpc # "ended" => Sum(rhand) = arrived - End(queue, e)
    <2> DEFINE e == End(whand, consumed)
    <2>1. /\ Chain(whand, consumed) /\ Chain(queue, e)
          /\ rpc # "ended" =>
               Chain(rhand, End(queue, e)) /\ End(rhand, End(queue, e)) = arrived
      BY <1>6 DEF Received
    <2>2. e \in Int /\ consumed <= e /\ Sum(whand) = e - consumed
      BY <1>1, <2>1, Hands, ChainSum
    <2> HIDE DEF e
    <2>3. End(queue, e) \in Int /\ e <= End(queue, e) /\ Sum(queue) = End(queue, e) - e
      BY <2>1, <2>2, Hands, ChainSum
    <2>4. rpc # "ended" => Sum(rhand) = arrived - End(queue, e)
      BY <2>1, <2>3, Hands, ChainSum
    <2> QED BY <2>2, <2>3, <2>4 DEF e
  <1> QED BY <1>2, <1>3, <1>4, <1>5, <1>6

-----------------------------------------------------------------------------
(* What a sequence of frames puts in the pipe.                               *)

\* One frame puts in one item at most.
LEMMA ItemSeq ==
  ASSUME NEW f \in Frames
  PROVE  Item(f) \in Seq(Nat)
  BY FrameFacts DEF Item

\* Sequences one behind another may be grouped either way.
LEMMA Regroups == \A a, b, c \in Seq(Nat) : (a \o b) \o c = a \o (b \o c)
  <1> DEFINE Associative(S) == \A a, b, c \in Seq(S) : (a \o b) \o c = a \o (b \o c)
  <1>1. \A S : Associative(S)
    BY ConcatAssociative
  <1> HIDE DEF Associative
  <1>2. Associative(Nat)
    BY <1>1, Zenon
  <1> QED BY <1>2 DEF Associative

\* Sequences of items, one behind another.
LEMMA InARow ==
  ASSUME NEW a \in Seq(Nat), NEW b \in Seq(Nat), NEW c \in Seq(Nat)
  PROVE  /\ a \o b \in Seq(Nat)
         /\ (a \o b) \o c = a \o (b \o c)
         /\ a \o <<>> = a /\ <<>> \o a = a
         /\ <<>> \in Seq(Nat)
  <1>1. a \o b \in Seq(Nat)
    BY ConcatProperties, Zenon
  <1>2. (a \o b) \o c = a \o (b \o c)
    BY Regroups
  <1>3. a \o <<>> = a /\ <<>> \o a = a
    BY ConcatEmptySeq, Zenon
  <1> QED BY <1>1, <1>2, <1>3

\* The same behind a name, which the provers do not take apart.
Then(a, b) == a \o b

LEMMA ThenFacts ==
  /\ \A a, b \in Seq(Nat) : Then(a, b) \in Seq(Nat)
  /\ \A a, b, c \in Seq(Nat) : Then(Then(a, b), c) = Then(a, Then(b, c))
  /\ \A a \in Seq(Nat) : Then(a, <<>>) = a /\ Then(<<>>, a) = a
  BY InARow, Regroups DEF Then

\* f spells what the frames of seq put in, one frame after another.
Spells(f, seq) ==
  /\ f \in [0..Len(seq) -> Seq(Nat)]
  /\ f[0] = <<>>
  /\ \A i \in 1..Len(seq) : f[i] = f[i - 1] \o Item(seq[i])

\* Every sequence is spelled by something,
LEMMA SpellingExists ==
  ASSUME NEW seq \in Seq(Frames)
  PROVE  \E f : Spells(f, seq)
  <1> DEFINE Part(f, n) == /\ f \in [0..n -> Seq(Nat)] /\ f[0] = <<>>
                           /\ \A i \in 1..n : f[i] = f[i - 1] \o Item(seq[i])
             Has(n) == n <= Len(seq) => \E f : Part(f, n)
             S == {n \in Nat : Has(n)}
  <1>1. Has(0)
    <2>1. Part([i \in 0..0 |-> <<>>], 0)
      OBVIOUS
    <2> HIDE DEF Part
    <2> QED BY <2>1
  <1>2. ASSUME NEW n \in Nat, Has(n) PROVE Has(n + 1)
    <2> SUFFICES ASSUME n + 1 <= Len(seq) PROVE \E f : Part(f, n + 1)
      OBVIOUS
    <2>1. PICK f : Part(f, n)
      <3> HIDE DEF Part
      <3> QED BY <1>2
    <2>2. PICK last \in Seq(Nat) : last = f[n] \o Item(seq[n + 1])
      <3>1. seq[n + 1] \in Frames /\ f[n] \in Seq(Nat)
        BY <2>1
      <3>2. Item(seq[n + 1]) \in Seq(Nat)
        BY <3>1, ItemSeq
      <3> QED BY <3>1, <3>2, ConcatProperties
    <2> DEFINE g == [i \in 0..n + 1 |-> IF i = n + 1 THEN last ELSE f[i]]
    <2>3. g \in [0..n + 1 -> Seq(Nat)] /\ g[0] = <<>>
      BY <2>1
    <2>4. ASSUME NEW i \in 1..n + 1 PROVE g[i] = g[i - 1] \o Item(seq[i])
      <3>1. CASE i = n + 1
        <4>1. g[i] = last /\ g[i - 1] = f[n]
          BY <3>1
        <4> HIDE DEF g
        <4> QED BY <2>2, <3>1, <4>1
      <3>2. CASE i \in 1..n
        <4>1. g[i] = f[i] /\ g[i - 1] = f[i - 1]
          BY <3>2
        <4>2. f[i] = f[i - 1] \o Item(seq[i])
          BY <2>1, <3>2
        <4> HIDE DEF g
        <4> QED BY <4>1, <4>2
      <3>3. i = n + 1 \/ i \in 1..n
        OBVIOUS
      <3> HIDE DEF g
      <3> QED BY <3>1, <3>2, <3>3, Zenon
    <2> HIDE DEF g
    <2>5. Part(g, n + 1)
      BY <2>3, <2>4
    <2> HIDE DEF Part
    <2> QED BY <2>5
  <1> HIDE DEF Part
  <1>3. Has(Len(seq))
    <2> HIDE DEF Has
    <2>1. 0 \in S /\ \A n \in Nat : n \in S => n + 1 \in S
      BY <1>1, <1>2
    <2>2. Nat \subseteq S
      <3> HIDE DEF S
      <3> QED BY <2>1, Numbers!Induction
    <2> QED BY <2>2
  <1>4. PICK f : Part(f, Len(seq))
    BY <1>3
  <1>5. Spells(f, seq)
    BY <1>4 DEF Part, Spells
  <1> QED BY <1>5

\* and its tags are where the spelling ends.
LEMMA TagsSpelled ==
  ASSUME NEW seq \in Seq(Frames), NEW f, Spells(f, seq)
  PROVE  Tags(seq) = f[Len(seq)] /\ Tags(seq) \in Seq(Nat)
  <1> DEFINE Step(g) == [i \in 0..Len(seq) |->
                           IF i = 0 THEN <<>> ELSE g[i - 1] \o Item(seq[i])]
             upto == CHOOSE g : g = Step(g)
  <1>1. f = Step(f)
    <2>1. f = [i \in 0..Len(seq) |-> f[i]]
      BY DEF Spells
    <2>2. ASSUME NEW i \in 0..Len(seq)
          PROVE  f[i] = IF i = 0 THEN <<>> ELSE f[i - 1] \o Item(seq[i])
      <3>1. i # 0 => f[i] = f[i - 1] \o Item(seq[i])
        <4>1. i # 0 => i \in 1..Len(seq)
          OBVIOUS
        <4> QED BY <4>1, Zenon DEF Spells
      <3>2. i = 0 => f[i] = <<>>
        BY DEF Spells
      <3> QED BY <3>1, <3>2, Zenon
    <2> QED BY <2>1, <2>2, Zenon
  <1>2. upto = Step(upto)
    <2> HIDE DEF Step
    <2> QED BY <1>1, Zenon
  <1>3. ASSUME NEW i \in 0..Len(seq)
        PROVE  upto[i] = IF i = 0 THEN <<>> ELSE upto[i - 1] \o Item(seq[i])
    <2> HIDE DEF upto
    <2> QED BY <1>2
  <1>4. Tags(seq) = upto[Len(seq)]
    BY DEF Tags
  <1> HIDE DEF upto, Step
  <1> DEFINE S == {n \in Nat : n <= Len(seq) => upto[n] = f[n]}
  <1>5. 0 \in S
    BY <1>3 DEF Spells
  <1>6. ASSUME NEW n \in Nat, n \in S PROVE n + 1 \in S
    <2> SUFFICES ASSUME n + 1 <= Len(seq) PROVE upto[n + 1] = f[n + 1]
      OBVIOUS
    <2>1. n + 1 \in 1..Len(seq) /\ n + 1 \in 0..Len(seq) /\ n + 1 # 0 /\ (n + 1) - 1 = n
          /\ upto[n] = f[n]
      BY <1>6
    <2>2. upto[n + 1] = upto[(n + 1) - 1] \o Item(seq[n + 1])
      BY <1>3, <2>1
    <2>3. f[n + 1] = f[(n + 1) - 1] \o Item(seq[n + 1])
      BY <2>1 DEF Spells
    <2> QED BY <2>1, <2>2, <2>3
  <1>7. Nat \subseteq S
    <2> HIDE DEF S
    <2> QED BY <1>5, <1>6, Numbers!Induction
  <1>8. upto[Len(seq)] = f[Len(seq)]
    BY <1>7
  <1>9. f[Len(seq)] \in Seq(Nat)
    BY DEF Spells
  <1> QED BY <1>4, <1>8, <1>9

\* Nothing, and one frame.
LEMMA TagsEmpty == Tags(<<>>) = <<>>
  <1>1. Spells([i \in 0..0 |-> <<>>], <<>>)
    BY DEF Spells
  <1>2. <<>> \in Seq(Frames)
    OBVIOUS
  <1> QED BY <1>1, <1>2, TagsSpelled

LEMMA TagsSeq ==
  ASSUME NEW seq \in Seq(Frames)
  PROVE  Tags(seq) \in Seq(Nat)
  BY SpellingExists, TagsSpelled

\* A frame queued behind others.
LEMMA TagsAppend ==
  ASSUME NEW seq \in Seq(Frames), NEW x \in Frames
  PROVE  Tags(Append(seq, x)) = Tags(seq) \o Item(x)
  <1> DEFINE s == Append(seq, x)
  <1>1. PICK f : Spells(f, seq)
    BY SpellingExists
  <1>2. PICK last \in Seq(Nat) : last = f[Len(seq)] \o Item(x)
    <2>1. f[Len(seq)] \in Seq(Nat)
      BY <1>1 DEF Spells
    <2> QED BY <2>1, ItemSeq, ConcatProperties
  <1> DEFINE g == [i \in 0..Len(s) |-> IF i = Len(s) THEN last ELSE f[i]]
  <1>3. /\ s \in Seq(Frames) /\ Len(s) = Len(seq) + 1 /\ Len(seq) \in Nat
        /\ s[Len(s)] = x /\ \A i \in 1..Len(seq) : s[i] = seq[i]
    OBVIOUS
  <1> HIDE DEF s
  <1>4. g \in [0..Len(s) -> Seq(Nat)] /\ g[0] = <<>> /\ g[Len(s)] = last
    BY <1>1, <1>3 DEF Spells
  <1>5. ASSUME NEW i \in 1..Len(s) PROVE g[i] = g[i - 1] \o Item(s[i])
    <2>1. CASE i = Len(s)
      <3>1. g[i] = last /\ g[i - 1] = f[Len(seq)] /\ s[i] = x
        BY <1>3, <2>1
      <3> HIDE DEF g
      <3> QED BY <1>2, <3>1
    <2>2. CASE i \in 1..Len(seq)
      <3>1. i \in 0..Len(s) /\ i - 1 \in 0..Len(s) /\ i # Len(s) /\ i - 1 # Len(s)
        BY <1>3, <2>2
      <3>2. f[i] = f[i - 1] \o Item(seq[i])
        BY <1>1, <2>2 DEF Spells
      <3>3. g[i] = f[i] /\ g[i - 1] = f[i - 1] /\ s[i] = seq[i]
        BY <1>3, <2>2, <3>1
      <3> HIDE DEF g
      <3> QED BY <3>2, <3>3
    <2> HIDE DEF g
    <2> QED BY <1>3, <2>1, <2>2
  <1> HIDE DEF g
  <1>6. Spells(g, s)
    BY <1>4, <1>5 DEF Spells
  <1>7. Tags(s) = g[Len(s)] /\ Tags(seq) = f[Len(seq)]
    BY <1>1, <1>3, <1>6, TagsSpelled
  <1> QED BY <1>2, <1>4, <1>7 DEF s

\* The first frame and the rest.
LEMMA TagsTail ==
  ASSUME NEW seq \in Seq(Frames), seq # <<>>
  PROVE  Tags(seq) = Item(Head(seq)) \o Tags(Tail(seq))
  <1> DEFINE t == Tail(seq)
  <1>1. /\ t \in Seq(Frames) /\ Len(seq) = Len(t) + 1 /\ Len(t) \in Nat
        /\ \A i \in 1..Len(t) : t[i] = seq[i + 1]
        /\ Head(seq) = seq[1] /\ seq[1] \in Frames
    OBVIOUS
  <1> HIDE DEF t
  <1>2. PICK g : Spells(g, t)
    BY <1>1, SpellingExists
  <1>3. PICK first \in Seq(Nat) : first = Item(seq[1])
    BY <1>1, ItemSeq
  <1>4. \A i \in 0..Len(t) : g[i] \in Seq(Nat)
    BY <1>2 DEF Spells
  <1> DEFINE f == [i \in 0..Len(seq) |-> IF i = 0 THEN <<>> ELSE first \o g[i - 1]]
  <1>5. f \in [0..Len(seq) -> Seq(Nat)] /\ f[0] = <<>>
    <2>1. ASSUME NEW i \in 0..Len(seq), i # 0 PROVE first \o g[i - 1] \in Seq(Nat)
      <3>1. i - 1 \in 0..Len(t)
        BY <1>1, <2>1
      <3>2. g[i - 1] \in Seq(Nat)
        BY <1>4, <3>1
      <3> HIDE DEF f
      <3> QED BY <3>2, ConcatProperties
    <2> QED BY <2>1
  <1>6. ASSUME NEW i \in 1..Len(seq) PROVE f[i] = f[i - 1] \o Item(seq[i])
    <2>1. CASE i = 1
      <3>1. g[0] = <<>>
        BY <1>2 DEF Spells
      <3>2. f[1] = first \o g[0] /\ f[0] = <<>>
        BY <2>1
      <3>3. first \o <<>> = first /\ <<>> \o first = first
        BY InARow
      <3> HIDE DEF f
      <3>4. f[1] = f[0] \o first
        BY <3>1, <3>2, <3>3
      <3> QED BY <1>3, <2>1, <3>4
    <2>2. CASE i # 1
      <3> DEFINE j == i - 1
      <3>1. j \in 1..Len(t) /\ j + 1 = i /\ j - 1 \in 0..Len(t)
        BY <1>1, <2>2
      <3>2. f[i] = first \o g[j] /\ f[i - 1] = first \o g[j - 1]
        <4>1. i \in 0..Len(seq) /\ i # 0 /\ i - 1 \in 0..Len(seq) /\ i - 1 # 0
          BY <2>2
        <4> QED BY <4>1, Zenon
      <3>3. seq[i] = t[j] /\ t[j] \in Frames
        BY <1>1, <3>1
      <3> HIDE DEF j, f
      <3>4. g[j] = g[j - 1] \o Item(t[j])
        BY <1>2, <3>1 DEF Spells
      <3>5. g[j - 1] \in Seq(Nat) /\ Item(t[j]) \in Seq(Nat)
        BY <1>4, <3>1, <3>3, ItemSeq
      <3>6. (first \o g[j - 1]) \o Item(t[j]) = first \o (g[j - 1] \o Item(t[j]))
        <4>1. \A b, c \in Seq(Nat) : (first \o b) \o c = first \o (b \o c)
          BY Regroups, Zenon
        <4> QED BY <3>5, <4>1, Zenon
      <3> QED BY <3>2, <3>3, <3>4, <3>6
    <2> QED BY <2>1, <2>2
  <1>7. f[Len(seq)] = first \o g[Len(t)]
    BY <1>1
  <1> HIDE DEF f
  <1>8. Spells(f, seq)
    BY <1>5, <1>6 DEF Spells
  <1>9. Tags(t) = g[Len(t)] /\ Tags(seq) = f[Len(seq)]
    BY <1>1, <1>2, <1>8, TagsSpelled
  <1> QED BY <1>1, <1>3, <1>7, <1>9 DEF t

\* A sequence of one frame.
LEMMA TagsSingle ==
  ASSUME NEW x \in Frames
  PROVE  Tags(<<x>>) = Item(x)
  <1>1. <<x>> \in Seq(Frames) /\ <<x>> # <<>> /\ Head(<<x>>) = x /\ Tail(<<x>>) = <<>>
    OBVIOUS
  <1>2. Tags(<<x>>) = Item(x) \o Tags(<<>>)
    BY <1>1, TagsTail
  <1> QED BY <1>2, TagsEmpty, ItemSeq, ConcatEmptySeq

\* What a frame that moves takes from one place to the next.
LEMMA TagsMoves ==
  /\ \A seq \in Seq(Frames), x \in Frames :
       Tags(Append(seq, x)) = Then(Tags(seq), Item(x))
  /\ \A seq \in Seq(Frames) :
       seq # <<>> => Tags(seq) = Then(Item(Head(seq)), Tags(Tail(seq)))
  BY TagsAppend, TagsTail DEF Then

-----------------------------------------------------------------------------
(* A sequence that begins with another.                                      *)

Begins(p, s) == \E rest \in Seq(Nat) : s = p \o rest

\* Two sequences in a row begin with the first, and with the first and what
\* the second begins with.
LEMMA BeginsFacts ==
  ASSUME NEW a \in Seq(Nat), NEW b \in Seq(Nat), NEW c \in Seq(Nat)
  PROVE  /\ Begins(a, a) /\ Begins(a, a \o b)
         /\ Begins(b, c) => Begins(a \o b, a \o c)
         /\ Begins(a, b) /\ Begins(b, c) => Begins(a, c)
  <1>1. a = a \o <<>> /\ <<>> \in Seq(Nat)
    BY ConcatEmptySeq
  <1>2. Begins(a, a) /\ Begins(a, a \o b)
    BY <1>1 DEF Begins
  <1>3. ASSUME Begins(b, c) PROVE Begins(a \o b, a \o c)
    <2>1. PICK rest \in Seq(Nat) : c = b \o rest
      BY <1>3 DEF Begins
    <2>2. Then(Then(a, b), rest) = Then(a, Then(b, rest))
      BY ThenFacts
    <2>3. a \o c = (a \o b) \o rest
      BY <2>1, <2>2 DEF Then
    <2> QED BY <2>3 DEF Begins
  <1>4. ASSUME Begins(a, b), Begins(b, c) PROVE Begins(a, c)
    <2>1. PICK r1 \in Seq(Nat) : b = a \o r1
      BY <1>4 DEF Begins
    <2>2. PICK r2 \in Seq(Nat) : c = b \o r2
      BY <1>4 DEF Begins
    <2>3. b = Then(a, r1) /\ c = Then(b, r2)
      BY <2>1, <2>2 DEF Then
    <2>4. Then(r1, r2) \in Seq(Nat)
      BY ThenFacts
    <2>5. Then(Then(a, r1), r2) = Then(a, Then(r1, r2))
      BY ThenFacts
    <2>6. c = a \o Then(r1, r2)
      BY <2>3, <2>5 DEF Then
    <2> QED BY <2>4, <2>6 DEF Begins
  <1> QED BY <1>2, <1>3, <1>4

LEMMA BeginsThen ==
  /\ \A a, b \in Seq(Nat) : Begins(a, Then(a, b))
  /\ \A a, b, c \in Seq(Nat) : Begins(b, c) => Begins(Then(a, b), Then(a, c))
  BY BeginsFacts DEF Then

\* What is left of a sequence that loses its end.
LEMMA BeginsCut ==
  ASSUME NEW a \in Seq(Nat), NEW b \in Seq(Nat), Begins(a, b)
  PROVE  \E n \in 0..Len(b) : a = SubSeq(b, 1, n)
  <1>1. PICK rest \in Seq(Nat) : b = a \o rest
    BY DEF Begins
  <1>2. /\ Len(b) = Len(a) + Len(rest) /\ Len(a) \in Nat /\ Len(rest) \in Nat
        /\ \A i \in 1..Len(a) : b[i] = a[i]
    BY <1>1, ConcatProperties
  <1> DEFINE p == SubSeq(b, 1, Len(a))
  <1>3. p \in Seq(Nat) /\ Len(p) = Len(a) /\ \A i \in 1..Len(a) : p[i] = b[i]
    BY <1>2
  <1>4. a = p
    <2> HIDE DEF p
    <2> QED BY <1>2, <1>3, SeqEqual
  <1>5. Len(a) \in 0..Len(b)
    BY <1>2
  <1> QED BY <1>4, <1>5

\* Losing the end of a sequence of frames loses the end of what they put in.
LEMMA TagsPrefix ==
  ASSUME NEW seq \in Seq(Frames), NEW n \in 0..Len(seq)
  PROVE  Begins(Tags(SubSeq(seq, 1, n)), Tags(seq))
  <1> DEFINE p == SubSeq(seq, 1, n)
  <1>1. PICK f : Spells(f, seq)
    BY SpellingExists
  <1> DEFINE g == [i \in 0..n |-> f[i]]
             S == {i \in Nat : n + i <= Len(seq) => Begins(f[n], f[n + i])}
  <1>2. p \in Seq(Frames) /\ Len(p) = n /\ \A i \in 1..n : p[i] = seq[i]
    OBVIOUS
  <1>3. /\ \A i \in 0..Len(seq) : f[i] \in Seq(Nat)
        /\ f[0] = <<>>
        /\ \A i \in 1..Len(seq) : f[i] = f[i - 1] \o Item(seq[i])
    BY <1>1 DEF Spells
  <1> HIDE DEF p
  <1>4. Spells(g, p)
    <2>1. g \in [0..n -> Seq(Nat)] /\ g[0] = <<>>
      BY <1>3
    <2>2. ASSUME NEW i \in 1..n PROVE g[i] = g[i - 1] \o Item(p[i])
      <3>1. g[i] = f[i] /\ g[i - 1] = f[i - 1] /\ i \in 1..Len(seq)
        OBVIOUS
      <3> HIDE DEF g
      <3> QED BY <1>2, <1>3, <3>1
    <2> HIDE DEF g
    <2> QED BY <1>2, <2>1, <2>2 DEF Spells
  <1>5. Begins(f[n], f[Len(seq)])
    <2>1. 0 \in S
      <3>1. f[n] \in Seq(Nat)
        BY <1>3
      <3>2. Begins(f[n], f[n])
        BY <3>1, BeginsFacts
      <3> QED BY <3>2
    <2>2. ASSUME NEW i \in Nat, i \in S PROVE i + 1 \in S
      <3> SUFFICES ASSUME n + (i + 1) <= Len(seq) PROVE Begins(f[n], f[n + (i + 1)])
        OBVIOUS
      <3> DEFINE j == n + (i + 1)
      <3>1. j \in 1..Len(seq) /\ j - 1 = n + i /\ n \in 0..Len(seq) /\ j - 1 \in 0..Len(seq)
        OBVIOUS
      <3>2. Begins(f[n], f[n + i])
        BY <2>2
      <3> HIDE DEF j
      <3>3. seq[j] \in Frames /\ f[j] = f[j - 1] \o Item(seq[j])
        <4>1. seq[j] \in Frames
          BY <3>1
        <4>2. f[j] = f[j - 1] \o Item(seq[j])
          BY <1>3, <3>1, Zenon
        <4> QED BY <4>1, <4>2
      <3>4. f[n] \in Seq(Nat) /\ f[j - 1] \in Seq(Nat) /\ f[j] \in Seq(Nat)
        BY <1>3, <3>1
      <3>5. Begins(f[j - 1], f[j])
        BY <3>3, <3>4, ItemSeq DEF Begins
      <3>6. Begins(f[n], f[j])
        BY <3>1, <3>2, <3>4, <3>5, BeginsFacts
      <3> QED BY <3>6 DEF j
    <2>3. Nat \subseteq S
      <3> HIDE DEF S
      <3> QED BY <2>1, <2>2, Numbers!Induction
    <2>4. Len(seq) - n \in Nat
      OBVIOUS
    <2>5. Len(seq) - n \in S
      <3> HIDE DEF S
      <3> QED BY <2>3, <2>4
    <2>6. n + (Len(seq) - n) = Len(seq)
      OBVIOUS
    <2>7. n + (Len(seq) - n) <= Len(seq)
      BY <2>6
    <2> QED BY <2>5, <2>6, <2>7, Zenon
  <1>6. Tags(p) = f[n] /\ Tags(seq) = f[Len(seq)]
    <2>1. g[n] = f[n]
      OBVIOUS
    <2> HIDE DEF g
    <2> QED BY <1>1, <1>2, <1>4, <2>1, TagsSpelled
  <1> QED BY <1>5, <1>6 DEF p

\* A sequence without data puts nothing in.
LEMMA TagsNone ==
  ASSUME NEW seq \in Seq(Frames), \A i \in 1..Len(seq) : seq[i].kind # "data"
  PROVE  Tags(seq) = <<>>
  <1> DEFINE f == [i \in 0..Len(seq) |-> <<>>]
  <1>1. f \in [0..Len(seq) -> Seq(Nat)] /\ f[0] = <<>>
    OBVIOUS
  <1>2. ASSUME NEW i \in 1..Len(seq) PROVE f[i] = f[i - 1] \o Item(seq[i])
    <2>1. Item(seq[i]) = <<>> /\ f[i] = <<>> /\ f[i - 1] = <<>>
      BY DEF Item
    <2>2. <<>> \o <<>> = <<>>
      OBVIOUS
    <2> HIDE DEF f
    <2> QED BY <2>1, <2>2
  <1>3. f[Len(seq)] = <<>>
    OBVIOUS
  <1> HIDE DEF f
  <1>4. Spells(f, seq)
    BY <1>1, <1>2 DEF Spells
  <1> QED BY <1>3, <1>4, TagsSpelled

-----------------------------------------------------------------------------
(* What the end of a stream leaves behind, on top of the invariant.          *)

\* The queue holds nothing behind a close; and a pump that returned with its
\* holder still there leaves no data anywhere, unless its reader has ended.
Ending ==
  /\ eof => wpc = "done"
  /\ \A i \in 1..Len(queue) :
       /\ queue[i].upto <= debited
       /\ queue[i].kind = "close" => ~registered /\ queue[i].upto = debited
  /\ ~rxOpen /\ ~holderGone =>
       \/ spc = "done" /\ arrived = debited /\ rpc \notin {"room", "send"}
       \/ rpc = "ended"

\* Once all that was debited has arrived, no data is on its way to the reader.
LEMMA NothingComes ==
  ASSUME Inv, arrived = debited
  PROVE  /\ \A i \in 1..Len(wire) : wire[i].kind # "data"
         /\ Up => \A i \in 1..Len(sq) : sq[i].kind # "data"
  <1>0. /\ arrived \in Int /\ debited \in Int
        /\ End(wire, arrived) \in Int /\ arrived <= End(wire, arrived)
    BY RunningTotals DEF Inv, TypeOK, SenderOK, DriversOK
  <1>1. ASSUME NEW i \in 1..Len(wire) PROVE wire[i].kind # "data"
    <2>1. wire[i] \in ToReader /\ wire[i] \in Frames
      BY Hands DEF Inv, Places
    <2>2. wire[i].upto <= debited /\ arrived + wire[i].cost <= wire[i].upto
      BY DEF Inv, Closing, Forward, Chain
    <2>3. wire[i] \notin Data
      BY <1>0, <2>1, <2>2, FrameFacts
    <2> QED BY <2>1, <2>3, FrameFacts DEF ToReader, FromSource
  <1>2. ASSUME Up, NEW i \in 1..Len(sq) PROVE sq[i].kind # "data"
    <2>1. sq[i] \in FromSource /\ sq[i] \in Frames
      BY Hands DEF Inv, Places
    <2>2. sq[i].upto <= debited
      BY DEF Inv, Closing
    <2>3. End(wire, arrived) + sq[i].cost <= sq[i].upto
      BY <1>2 DEF Inv, Forward, Chain
    <2>4. sq[i] \notin Data
      BY <1>0, <2>1, <2>2, <2>3, FrameFacts
    <2> QED BY <2>1, <2>4, FrameFacts DEF FromSource
  <1> QED BY <1>1, <1>2

\* A close at the head of the queue is the last that comes of its stream.
LEMMA NothingFollows ==
  ASSUME Inv, Ending, rxOpen, wpc = "recv", queue # <<>>, Head(queue).kind = "close"
  PROVE  /\ ended /\ spc = "done" /\ arrived = debited /\ rpc \notin {"room", "send"}
         /\ \A i \in 1..Len(queue) : queue[i].kind # "data"
  <1>1. /\ 1 \in 1..Len(queue) /\ Head(queue) = queue[1]
        /\ \A i \in 1..Len(queue) : queue[i] \in FromSource /\ queue[i] \in Frames
    BY Hands DEF Inv, Places
  <1>2. ~registered /\ queue[1].upto = debited
    BY <1>1 DEF Ending
  <1>3. ended /\ spc = "done" /\ arrived = debited
    BY <1>2 DEF Inv, Closing
  <1>4. debited \in Int /\ consumed \in Int /\ arrived \in Int
    BY DEF Inv, TypeOK, SenderOK, SinkOK, DriversOK
  <1>5. whand = <<>> /\ End(whand, consumed) = consumed
    BY <1>4, Hands, ChainEmpty
  <1>6. Chain(queue, consumed)
    BY <1>5 DEF Inv, Received
  <1>7. ASSUME NEW i \in 1..Len(queue) PROVE queue[i].kind # "data"
    <2>1. CASE i = 1
      BY <1>1, <2>1
    <2>2. CASE i # 1
      <3>1. queue[1].upto + queue[i].cost <= queue[i].upto
        BY <1>1, <1>6, <2>2 DEF Chain
      <3>2. queue[i].upto <= debited
        BY DEF Ending
      <3>3. queue[i] \notin Data
        BY <1>1, <1>2, <1>4, <3>1, <3>2, FrameFacts
      <3> QED BY <1>1, <3>3, FrameFacts DEF FromSource
    <2> QED BY <2>1, <2>2
  <1>8. ASSUME rpc \in {"room", "send"} PROVE FALSE
    <2>1. Sum(rhand) = arrived - End(queue, consumed)
      BY <1>5, <1>8, RunningTotals
    <2>2. Sum(rhand) = Head(rhand).cost /\ Head(rhand) \in Data
      BY <1>8, Hands
    <2>3. Head(rhand).cost \in Nat /\ 0 < Head(rhand).cost
      BY <2>2, FrameFacts
    <2>4. End(queue, consumed) = queue[Len(queue)].upto /\ Len(queue) \in 1..Len(queue)
      BY <1>1 DEF End, Empty
    <2>5. queue[1].upto <= queue[Len(queue)].upto /\ queue[Len(queue)].upto \in Int
      <3>1. CASE Len(queue) = 1
        BY <1>1, <3>1, FrameFacts
      <3>2. CASE Len(queue) # 1
        <4>1. queue[1].upto + queue[Len(queue)].cost <= queue[Len(queue)].upto
          <5>1. 1 < Len(queue)
            BY <1>1, <3>2
          <5> QED BY <1>1, <1>6, <2>4, <5>1 DEF Chain
        <4>2. /\ queue[Len(queue)].cost \in Nat /\ queue[Len(queue)].upto \in Nat
              /\ queue[1].upto \in Nat
          BY <1>1, <2>4, FrameFacts
        <4> QED BY <4>1, <4>2
      <3> QED BY <3>1, <3>2
    <2> QED BY <1>2, <1>3, <1>4, <2>1, <2>2, <2>3, <2>4, <2>5
  <1> QED BY <1>3, <1>7, <1>8
=============================================================================
