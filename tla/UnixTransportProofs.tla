------------------------ MODULE UnixTransportProofs ------------------------
(***************************************************************************)
(* UnixTransport implements MessageQueue, whatever is sent, however small   *)
(* the socket is and however it cuts what is written. The argument: what is *)
(* in the socket is contiguous, from where the receiver is in what was sent *)
(* to where the sender is; the descriptors of a message are with its first  *)
(* byte; so a message that is complete is the next one, with its own.       *)
(***************************************************************************)
EXTENDS UnixTransport, Totals, SequenceTheorems

Place(m, at) == [msg |-> m, at |-> at]

\* How many messages were begun.
Begun == IF offset > 0 THEN sMsg ELSE sMsg - 1

\* Where the sender is, and the receiver in what it received.
There == Place(sMsg, offset)
Here == IF rpc = "payload" THEN Place(Len(got) + 1, Encoded(Len(got) + 1) - need)
                           ELSE Place(Len(got) + 1, filled)

\* Where piece i begins, or the next one would.
Edge(i) == IF i <= Len(pieces) THEN Place(pieces[i].msg, pieces[i].at) ELSE There

\* The place n bytes behind (m, at).
Behind(m, at, n) == IF at + n = Encoded(m) THEN Place(m + 1, 0) ELSE Place(m, at + n)

\* A piece is a part of one message, with its descriptors if it is the first.
Fits(p) ==
  /\ p \in [msg: Nat, at: Nat, size: Nat, fds: Nat]
  /\ p.msg \in 1..Len(Messages) /\ p.size > 0
  /\ p.at + p.size <= Encoded(p.msg)
  /\ p.fds = IF p.at = 0 THEN Messages[p.msg].fds ELSE 0

SenderInv ==
  /\ sMsg \in 1..(Len(Messages) + 1) /\ offset \in Nat
  /\ offset > 0 => sMsg <= Config /\ offset < Encoded(sMsg)

Contiguous ==
  /\ pieces \in Seq([msg: Nat, at: Nat, size: Nat, fds: Nat])
  /\ \A i \in 1..Len(pieces) :
       /\ Fits(pieces[i]) /\ pieces[i].msg <= Begun
       /\ Behind(pieces[i].msg, pieces[i].at, pieces[i].size) = Edge(i + 1)

\* The messages received are those sent, and what is known of the next is right.
InOrder ==
  /\ got \in Seq([size: Nat, fds: 0..MaxScmFds]) /\ Len(got) <= Begun
  /\ rpc \in {"header", "payload", "clean", "error", "gone"}
  /\ rpc \in {"header", "payload"} => Edge(1) = Here
  /\ rpc = "header" => filled \in 0..Header - 1 /\ (filled = 0 => owned = 0)
  /\ rpc = "payload" => filled = Header /\ need \in 1..Messages[Len(got) + 1].size
  /\ rpc = "payload" \/ (rpc = "header" /\ filled > 0) =>
       /\ Len(got) < Begun
       /\ first = Place(Len(got) + 1, 0)
       /\ owned = Messages[Len(got) + 1].fds

QueueInv == SenderInv /\ Contiguous /\ InOrder

-----------------------------------------------------------------------------
LEMMA MessageFacts ==
  ASSUME NEW m \in 1..Len(Messages)
  PROVE  /\ Messages[m].size \in Nat /\ Messages[m].fds \in 0..MaxScmFds
         /\ Messages[m] = [size |-> Messages[m].size, fds |-> Messages[m].fds]
         /\ Encoded(m) \in Nat /\ Encoded(m) = Header + Messages[m].size
<1>1. Messages[m] \in [size: Nat, fds: 0..MaxScmFds]
  <2>1. Messages \in Seq([size: Nat, fds: 0..MaxScmFds])
    BY TransportAssumption DEF TransportAssumption
  <2> QED
    BY <2>1, ElementOfSeq
<1>2. Messages[m].size \in Nat /\ Messages[m].fds \in 0..MaxScmFds
  BY <1>1
<1>3. Messages[m] = [size |-> Messages[m].size, fds |-> Messages[m].fds]
  BY <1>1
<1>4. Header \in Nat
  BY TransportAssumption DEF TransportAssumption
<1> QED
  BY <1>2, <1>3, <1>4 DEF Encoded

LEMMA Constants ==
  /\ Header \in Nat /\ Header > 0 /\ MaxScmFds \in Nat
  /\ Config \in Nat /\ Config <= Len(Messages) /\ Len(Messages) \in Nat
  BY TransportAssumption DEF TransportAssumption

LEMMA QueueInitial == SockInit => QueueInv
<1> SUFFICES ASSUME SockInit PROVE QueueInv
  OBVIOUS
<1>1. SenderInv
  BY Constants DEF SockInit, SenderInv
<1>2. Contiguous
  BY DEF SockInit, Contiguous
<1>3. InOrder
  BY Constants DEF SockInit, InOrder, Begun, Edge, Here, There, Place
<1> QED
  BY <1>1, <1>2, <1>3 DEF QueueInv

\* A write puts its piece where the sender was, and the sender behind it.
LEMMA WriteKeeps ==
  ASSUME QueueInv, NEW n \in Nat, n > 0, NEW fds, Writes(n, fds),
         sMsg <= Len(Messages), offset + n <= Encoded(sMsg),
         sMsg <= Config \/ offset + n = Encoded(sMsg),
         fds = IF offset = 0 THEN Messages[sMsg].fds ELSE 0
  PROVE  QueueInv' /\ Begun' = sMsg
<1> DEFINE piece == Piece(sMsg, offset, n, fds)
<1>0. /\ sMsg \in 1..Len(Messages) /\ offset \in Nat
      /\ pieces \in Seq([msg: Nat, at: Nat, size: Nat, fds: Nat])
      /\ Len(pieces) \in Nat
  BY Constants DEF QueueInv, SenderInv, Contiguous
<1>1. /\ Encoded(sMsg) \in Nat /\ Messages[sMsg].fds \in Nat
  <2>1. Encoded(sMsg) \in Nat /\ Messages[sMsg].fds \in 0..MaxScmFds
    BY <1>0, MessageFacts
  <2> QED
    BY <2>1, Constants
<1>2. SenderInv' /\ Begun' = sMsg /\ Begun <= sMsg /\ There' = Behind(sMsg, offset, n)
  <2>1. Begun <= sMsg
    BY <1>0 DEF Begun
  <2>2. CASE offset + n = Encoded(sMsg)
    <3>1. sMsg' = sMsg + 1 /\ offset' = 0
      BY <2>2 DEF Writes
    <3>2. sMsg + 1 \in 1..(Len(Messages) + 1) /\ (sMsg + 1) - 1 = sMsg
      BY <1>0, Constants
    <3>3. SenderInv' /\ Begun' = sMsg
      BY <3>1, <3>2 DEF SenderInv, Begun
    <3>4. There' = Behind(sMsg, offset, n)
      BY <2>2, <3>1 DEF There, Behind
    <3> QED
      BY <2>1, <3>3, <3>4
  <2>3. CASE offset + n # Encoded(sMsg)
    <3>1. sMsg' = sMsg /\ offset' = offset + n
      BY <2>3 DEF Writes
    <3>2. offset + n \in Nat /\ offset + n > 0
      BY <1>0
    <3>3. offset + n < Encoded(sMsg)
      BY <1>1, <2>3, <3>2
    <3>4. Encoded(sMsg)' = Encoded(sMsg)
      BY <3>1 DEF Encoded
    <3>5. SenderInv' /\ Begun' = sMsg
      BY <1>0, <2>3, <3>1, <3>2, <3>3, <3>4, Constants DEF SenderInv, Begun
    <3>6. There' = Behind(sMsg, offset, n)
      BY <2>3, <3>1 DEF There, Behind
    <3> QED
      BY <2>1, <3>5, <3>6
  <2> QED
    BY <2>2, <2>3
<1>3. /\ piece \in [msg: Nat, at: Nat, size: Nat, fds: Nat]
      /\ Fits(piece)
  BY <1>0, <1>1 DEF Piece, Fits
<1>4. /\ pieces' \in Seq([msg: Nat, at: Nat, size: Nat, fds: Nat])
      /\ Len(pieces') = Len(pieces) + 1 /\ pieces'[Len(pieces) + 1] = piece
      /\ \A i \in 1..Len(pieces) : pieces'[i] = pieces[i]
  BY <1>0, <1>3 DEF Writes
<1>5. \A i \in 1..Len(pieces) + 1 : Edge(i)' = Edge(i)
  <2> SUFFICES ASSUME NEW i \in 1..Len(pieces) + 1
               PROVE  Edge(i)' = Edge(i)
    OBVIOUS
  <2>1. CASE i = Len(pieces) + 1
    <3>1. Edge(i) = Place(sMsg, offset)
      BY <2>1, <1>0 DEF Edge, There
    <3>2. Edge(i)' = Place(piece.msg, piece.at)
      BY <2>1, <1>0, <1>4 DEF Edge, Place
    <3> QED
      BY <3>1, <3>2 DEF Piece
  <2>2. CASE i \in 1..Len(pieces)
    <3>1. Edge(i) = Place(pieces[i].msg, pieces[i].at)
      BY <2>2, <1>0 DEF Edge
    <3>2. Edge(i)' = Place(pieces'[i].msg, pieces'[i].at)
      BY <2>2, <1>0, <1>4 DEF Edge, Place
    <3>3. pieces'[i] = pieces[i]
      BY <2>2, <1>4
    <3> QED
      BY <3>1, <3>2, <3>3
  <2> QED
    BY <2>1, <2>2, <1>0
<1>6. \A i : i = Len(pieces) + 2 => Edge(i)' = There'
  BY <1>0, <1>4 DEF Edge
<1>7. Contiguous'
  <2> SUFFICES ASSUME NEW i \in 1..Len(pieces')
               PROVE  /\ Fits(pieces'[i]) /\ pieces'[i].msg <= Begun'
                      /\ Behind(pieces'[i].msg, pieces'[i].at, pieces'[i].size) = Edge(i + 1)'
    BY <1>4 DEF Contiguous, Fits, Behind, Encoded, Place
  <2>1. CASE i = Len(pieces) + 1
    <3>1. pieces'[i] = piece
      BY <2>1, <1>4
    <3>2. piece.msg = sMsg /\ piece.at = offset /\ piece.size = n
      BY DEF Piece
    <3>3. Edge(i + 1)' = Behind(sMsg, offset, n)
      <4>1. i + 1 = Len(pieces) + 2
        BY <2>1, <1>0
      <4> QED
        BY <4>1, <1>2, <1>6
    <3> HIDE DEF piece
    <3> QED
      BY <3>1, <3>2, <3>3, <1>0, <1>2, <1>3
  <2>2. CASE i \in 1..Len(pieces)
    <3>1. /\ Fits(pieces[i]) /\ pieces[i].msg <= Begun
          /\ Behind(pieces[i].msg, pieces[i].at, pieces[i].size) = Edge(i + 1)
      BY <2>2 DEF QueueInv, Contiguous
    <3>2. pieces'[i] = pieces[i] /\ Edge(i + 1)' = Edge(i + 1)
      <4>1. i + 1 \in 1..Len(pieces) + 1
        BY <2>2, <1>0
      <4> QED
        BY <4>1, <2>2, <1>4, <1>5
    <3>3. pieces[i].msg \in Nat /\ Begun \in Int
      <4>1. Fits(pieces[i])
        BY <3>1
      <4>2. pieces[i].msg \in Nat
        BY <4>1 DEF Fits
      <4>3. Begun \in Int
        BY <1>0 DEF Begun
      <4> QED
        BY <4>2, <4>3
    <3>4. pieces[i].msg <= Begun'
      <4>1. Begun <= sMsg /\ Begun' = sMsg /\ sMsg \in Int
        BY <1>0, <1>2
      <4>2. pieces[i].msg <= Begun
        BY <3>1
      <4> QED
        BY <4>1, <4>2, <3>3
    <3>5. Behind(pieces[i].msg, pieces[i].at, pieces[i].size) = Edge(i + 1)'
      BY <3>1, <3>2
    <3> QED
      BY <3>1, <3>2, <3>4, <3>5
  <2> QED
    BY <2>1, <2>2, <1>0, <1>4
<1>8. InOrder'
  <2>1. Edge(1)' = Edge(1)
    BY <1>0, <1>5
  <2>2. UNCHANGED <<filled, first, owned, need, rpc, got>> /\ Here' = Here
    BY DEF Writes, receiver, Here, Place, Encoded
  <2>3. Begun \in Int /\ Begun' \in Int /\ Begun <= Begun' /\ Len(got) \in Nat
    BY <1>0, <1>2 DEF Begun, QueueInv, InOrder
  <2> QED
    BY <2>1, <2>2, <2>3 DEF QueueInv, InOrder, Place
<1> QED
  BY <1>2, <1>7, <1>8 DEF QueueInv

-----------------------------------------------------------------------------
\* What a read of n bytes from the first piece leaves is contiguous with the
\* place behind what it took.
LEMMA TakeKeeps ==
  ASSUME SenderInv, Contiguous, pieces # <<>>, NEW n \in 1..Head(pieces).size, Take(n),
         UNCHANGED sender
  PROVE  /\ SenderInv' /\ Contiguous' /\ Begun' = Begun
         /\ Edge(1)' = Behind(Head(pieces).msg, Head(pieces).at, n)
<1> DEFINE piece == pieces[1]
           S == [msg: Nat, at: Nat, size: Nat, fds: Nat]
<1>0. /\ pieces \in Seq(S) /\ Len(pieces) \in Nat /\ Len(pieces) > 0
      /\ Head(pieces) = piece
  BY DEF Contiguous
<1>1. /\ UNCHANGED <<sMsg, offset>> /\ SenderInv' /\ Begun' = Begun /\ There' = There
  BY DEF sender, SenderInv, Begun, There, Encoded, Place
<1>2. /\ Fits(piece) /\ piece.msg <= Begun
      /\ Behind(piece.msg, piece.at, piece.size) = Edge(2)
  <2>1. 1 \in 1..Len(pieces) /\ 1 + 1 = 2
    BY <1>0
  <2> QED
    BY <2>1 DEF Contiguous
<1>3. piece \in S /\ n \in Nat /\ n > 0 /\ n <= piece.size
  BY <1>0, <1>2 DEF Fits
<1>4. CASE n = piece.size
  <2>1. pieces' = Tail(pieces)
    BY <1>0, <1>4 DEF Take
  <2>2. /\ pieces' \in Seq(S) /\ Len(pieces') = Len(pieces) - 1
        /\ \A i \in 1..Len(pieces) - 1 : pieces'[i] = pieces[i + 1]
    BY <2>1, <1>0
  <2>3. \A i \in 1..Len(pieces) : Edge(i)' = Edge(i + 1)
    <3> SUFFICES ASSUME NEW i \in 1..Len(pieces)
                 PROVE  Edge(i)' = Edge(i + 1)
      OBVIOUS
    <3>1. CASE i = Len(pieces)
      <4>1. Edge(i)' = There'
        BY <3>1, <2>2, <1>0 DEF Edge
      <4>2. Edge(i + 1) = There
        BY <3>1, <1>0 DEF Edge
      <4> QED
        BY <4>1, <4>2, <1>1
    <3>2. CASE i \in 1..Len(pieces) - 1
      <4>1. Edge(i)' = Place(pieces'[i].msg, pieces'[i].at)
        BY <3>2, <2>2, <1>0 DEF Edge, Place
      <4>2. Edge(i + 1) = Place(pieces[i + 1].msg, pieces[i + 1].at)
        BY <3>2, <1>0 DEF Edge
      <4>3. pieces'[i] = pieces[i + 1]
        BY <3>2, <2>2
      <4> QED
        BY <4>1, <4>2, <4>3
    <3> QED
      BY <3>1, <3>2, <1>0
  <2>4. Contiguous'
    <3> SUFFICES ASSUME NEW i \in 1..Len(pieces')
                 PROVE  /\ Fits(pieces'[i]) /\ pieces'[i].msg <= Begun'
                        /\ Behind(pieces'[i].msg, pieces'[i].at, pieces'[i].size) = Edge(i + 1)'
      BY <2>2 DEF Contiguous, Fits, Behind, Encoded, Place
    <3>1. i + 1 \in 1..Len(pieces) /\ i \in 1..Len(pieces) - 1 /\ i + 1 \in Nat
      BY <2>2, <1>0
    <3>2. /\ Fits(pieces[i + 1]) /\ pieces[i + 1].msg <= Begun
          /\ Behind(pieces[i + 1].msg, pieces[i + 1].at, pieces[i + 1].size) = Edge(i + 1 + 1)
      BY <3>1 DEF Contiguous
    <3>3. pieces'[i] = pieces[i + 1] /\ Edge(i + 1)' = Edge(i + 1 + 1)
      BY <3>1, <2>2, <2>3
    <3>4. Behind(pieces[i + 1].msg, pieces[i + 1].at, pieces[i + 1].size) = Edge(i + 1)'
      BY <3>2, <3>3
    <3> QED
      BY <3>2, <3>3, <3>4, <1>1
  <2>5. Edge(1)' = Edge(2)
    <3>1. 1 \in 1..Len(pieces) /\ 1 + 1 = 2
      BY <1>0
    <3> QED
      BY <3>1, <2>3
  <2> QED
    BY <2>4, <2>5, <1>0, <1>1, <1>2, <1>4
<1>5. CASE n # piece.size
  <2> DEFINE rest == Piece(piece.msg, piece.at + n, piece.size - n, 0)
  <2>1. pieces' = [pieces EXCEPT ![1] = rest]
    BY <1>0, <1>5 DEF Take
  <2>2. piece.msg \in Nat /\ piece.at \in Nat /\ piece.size \in Nat
    BY <1>3
  <2>3. /\ rest \in S /\ rest.msg = piece.msg /\ rest.at = piece.at + n
        /\ rest.size = piece.size - n /\ rest.fds = 0
    BY <2>2, <1>3 DEF Piece
  <2> HIDE DEF rest
  <2>4. Fits(rest) /\ Behind(rest.msg, rest.at, rest.size) = Edge(2)
    <3>1. rest.at + rest.size = piece.at + piece.size /\ rest.size > 0 /\ rest.at > 0
      BY <2>2, <2>3, <1>3, <1>5
    <3> HIDE DEF piece
    <3>2. Fits(rest)
      <4>1. piece.msg \in 1..Len(Messages) /\ piece.at + piece.size <= Encoded(piece.msg)
        BY <1>2 DEF Fits
      <4> QED
        BY <3>1, <4>1, <2>3 DEF Fits
    <3>3. Behind(rest.msg, rest.at, rest.size) = Behind(piece.msg, piece.at, piece.size)
      BY <3>1, <2>3 DEF Behind
    <3> QED
      BY <3>2, <3>3, <1>2
  <2>5. /\ pieces' \in Seq(S) /\ Len(pieces') = Len(pieces) /\ pieces'[1] = rest
        /\ \A i \in 2..Len(pieces) : pieces'[i] = pieces[i]
    <3> HIDE DEF S
    <3>1. pieces' \in Seq(S) /\ Len(pieces') = Len(pieces)
      BY <2>1, <2>3, <1>0
    <3>2. pieces'[1] = rest /\ \A i \in 2..Len(pieces) : pieces'[i] = pieces[i]
      BY <2>1, <2>3, <1>0
    <3> QED
      BY <3>1, <3>2
  <2>6. \A i \in 2..Len(pieces) + 1 : Edge(i)' = Edge(i)
    <3> SUFFICES ASSUME NEW i \in 2..Len(pieces) + 1
                 PROVE  Edge(i)' = Edge(i)
      OBVIOUS
    <3>1. CASE i = Len(pieces) + 1
      BY <3>1, <2>5, <1>0, <1>1 DEF Edge
    <3>2. CASE i \in 2..Len(pieces)
      <4>1. Edge(i) = Place(pieces[i].msg, pieces[i].at)
        BY <3>2, <1>0 DEF Edge
      <4>2. Edge(i)' = Place(pieces'[i].msg, pieces'[i].at)
        BY <3>2, <2>5, <1>0 DEF Edge, Place
      <4> QED
        BY <4>1, <4>2, <3>2, <2>5
    <3> QED
      BY <3>1, <3>2, <1>0
  <2>7. Contiguous'
    <3> SUFFICES ASSUME NEW i \in 1..Len(pieces')
                 PROVE  /\ Fits(pieces'[i]) /\ pieces'[i].msg <= Begun'
                        /\ Behind(pieces'[i].msg, pieces'[i].at, pieces'[i].size) = Edge(i + 1)'
      BY <2>5 DEF Contiguous, Fits, Behind, Encoded, Place
    <3>1. i \in 1..Len(pieces) /\ i + 1 \in 2..Len(pieces) + 1
      BY <2>5, <1>0
    <3>2. Edge(i + 1)' = Edge(i + 1)
      BY <3>1, <2>6
    <3>3. CASE i = 1
      <4>1. pieces'[i] = rest /\ i + 1 = 2
        BY <3>3, <2>5
      <4> QED
        BY <4>1, <3>2, <2>3, <2>4, <1>1, <1>2
    <3>4. CASE i \in 2..Len(pieces)
      <4>1. /\ Fits(pieces[i]) /\ pieces[i].msg <= Begun
            /\ Behind(pieces[i].msg, pieces[i].at, pieces[i].size) = Edge(i + 1)
        BY <3>1 DEF Contiguous
      <4>2. pieces'[i] = pieces[i]
        BY <3>4, <2>5
      <4>3. Behind(pieces[i].msg, pieces[i].at, pieces[i].size) = Edge(i + 1)'
        BY <4>1, <3>2
      <4> QED
        BY <4>1, <4>2, <4>3, <1>1
    <3> QED
      BY <3>1, <3>3, <3>4, <1>0
  <2>8. Edge(1)' = Place(piece.msg, piece.at + n)
    <3>1. Edge(1)' = Place(pieces'[1].msg, pieces'[1].at)
      BY <2>5, <1>0 DEF Edge, Place
    <3> QED
      BY <3>1, <2>3, <2>5
  <2>9. piece.at + n # Encoded(piece.msg)
    <3>1. piece.at + piece.size <= Encoded(piece.msg) /\ Encoded(piece.msg) \in Nat
      BY <1>2, MessageFacts DEF Fits
    <3> QED
      BY <3>1, <2>2, <1>3, <1>5
  <2> QED
    BY <2>7, <2>8, <2>9, <1>0, <1>1 DEF Behind
<1> QED
  BY <1>4, <1>5

-----------------------------------------------------------------------------
\* What is first in the socket belongs to the message the receiver is in.
LEMMA NextPiece ==
  ASSUME QueueInv, rpc \in {"header", "payload"}, pieces # <<>>
  PROVE  /\ Fits(Head(pieces)) /\ Len(got) \in Nat
         /\ Head(pieces).msg = Len(got) + 1 /\ Len(got) < Begun
         /\ Head(pieces).at = Here.at
<1>1. /\ Len(pieces) \in Nat /\ Len(pieces) > 0 /\ Head(pieces) = pieces[1]
      /\ got \in Seq([size: Nat, fds: 0..MaxScmFds])
  BY DEF QueueInv, Contiguous, InOrder
<1>2. Fits(pieces[1]) /\ pieces[1].msg <= Begun
  <2>1. 1 \in 1..Len(pieces)
    BY <1>1
  <2> QED
    BY <2>1 DEF QueueInv, Contiguous
<1>3. Place(pieces[1].msg, pieces[1].at) = Here
  BY <1>1 DEF QueueInv, InOrder, Edge
<1>4. Len(got) \in Nat /\ Here.msg = Len(got) + 1
  BY <1>1 DEF Here, Place
<1>5. pieces[1].msg = Len(got) + 1 /\ pieces[1].at = Here.at
  BY <1>3, <1>4 DEF Place
<1>6. Begun \in Int
  BY DEF QueueInv, SenderInv, Begun
<1> QED
  BY <1>1, <1>2, <1>4, <1>5, <1>6

\* The next message with its own descriptors, or none.
NextGot == got' = got \/ (Len(got) < Begun /\ got' = Append(got, Messages[Len(got) + 1]))

\* A message that is handed out is the next one.
LEMMA DeliversNext ==
  ASSUME QueueInv, NEW fds, NEW at, Len(got) < Begun,
         at = Place(Len(got) + 1, 0), fds = Messages[Len(got) + 1].fds,
         Delivers(fds, at), Begun' = Begun,
         Edge(1)' = Place(Len(got) + 2, 0)
  PROVE  InOrder' /\ NextGot
<1>1. /\ got \in Seq([size: Nat, fds: 0..MaxScmFds]) /\ Len(got) \in Nat
      /\ sMsg \in 1..(Len(Messages) + 1) /\ offset \in Nat /\ Begun \in Int
      /\ offset > 0 => sMsg <= Len(Messages)
  BY Constants DEF QueueInv, SenderInv, InOrder, Begun
<1>2. Len(got) + 1 \in 1..Len(Messages)
  BY <1>1, Constants DEF Begun
<1>3. /\ Messages[Len(got) + 1] = [size |-> Messages[Len(got) + 1].size, fds |-> fds]
      /\ Messages[Len(got) + 1] \in [size: Nat, fds: 0..MaxScmFds]
  BY <1>2, MessageFacts
<1>4. got' = Append(got, Messages[Len(got) + 1])
  BY <1>3 DEF Delivers, Place
<1>5. got' \in Seq([size: Nat, fds: 0..MaxScmFds]) /\ Len(got') = Len(got) + 1
  BY <1>1, <1>3, <1>4
<1>6. rpc' = "header" /\ filled' = 0 /\ owned' = 0
  BY DEF Delivers
<1>7. Edge(1)' = Here'
  BY <1>1, <1>5, <1>6 DEF Here, Place
<1>8. Len(got') <= Begun'
  BY <1>1, <1>5
<1>9. InOrder'
  BY <1>5, <1>6, <1>7, <1>8, Constants DEF InOrder
<1> QED
  BY <1>4, <1>9 DEF NextGot

LEMMA HeaderKeeps ==
  ASSUME QueueInv, RecvsHeader
  PROVE  QueueInv' /\ NextGot /\ Begun' = Begun
<1> DEFINE piece == Head(pieces)
           n == Lesser(Header - filled, piece.size)
           at == IF filled = 0 THEN [msg |-> piece.msg, at |-> piece.at] ELSE first
           fds == owned + piece.fds
           m == Len(got) + 1
<1>1. /\ Fits(piece) /\ Len(got) \in Nat /\ piece.msg = m /\ Len(got) < Begun
      /\ piece.at = filled /\ filled \in 0..Header - 1
  <2>1. rpc = "header" /\ pieces # <<>>
    BY DEF RecvsHeader
  <2>2. Here.at = filled
    BY <2>1 DEF Here, Place
  <2> QED
    BY <2>1, <2>2, NextPiece DEF QueueInv, InOrder
<1>2. /\ m \in 1..Len(Messages) /\ piece.size \in Nat /\ piece.size > 0
      /\ piece.at + piece.size <= Encoded(m) /\ Encoded(m) = Header + Messages[m].size
      /\ Messages[m].size \in Nat /\ Messages[m].fds \in 0..MaxScmFds
      /\ Header \in Nat
  BY <1>1, MessageFacts, Constants DEF Fits
<1>3. n \in 1..piece.size /\ n \in Nat /\ n <= Header - filled
  BY <1>1, <1>2 DEF Lesser
<1>4. at = Place(m, 0) /\ fds = Messages[m].fds
  <2>1. CASE filled = 0
    <3>1. owned = 0 /\ piece.fds = Messages[m].fds
      BY <2>1, <1>1 DEF QueueInv, InOrder, RecvsHeader, Fits
    <3> QED
      BY <3>1, <2>1, <1>1, <1>2 DEF Place
  <2>2. CASE filled > 0
    <3>1. first = Place(m, 0) /\ owned = Messages[m].fds
      BY <2>2 DEF QueueInv, InOrder, RecvsHeader
    <3>2. piece.fds = 0
      BY <2>2, <1>1 DEF Fits
    <3> QED
      BY <3>1, <3>2, <2>2, <1>1, <1>2
  <2> QED
    BY <2>1, <2>2, <1>1
<1>5. Lengths(at) = {Messages[m].size}
  BY <1>4 DEF Lengths, Place
<1>6. /\ Take(n) /\ UNCHANGED sender /\ first' = at /\ pieces # <<>>
      /\ \/ filled + n < Header /\ filled' = filled + n /\ owned' = fds
            /\ UNCHANGED <<need, rpc, got>>
         \/ filled + n >= Header /\ Messages[m].size = 0 /\ Delivers(fds, at)
         \/ /\ filled + n >= Header /\ Messages[m].size # 0
            /\ filled' = Header /\ owned' = fds /\ need' = Messages[m].size
            /\ rpc' = "payload" /\ UNCHANGED got
  <2>1. /\ Take(n) /\ UNCHANGED sender /\ first' = at /\ pieces # <<>>
        /\ IF filled + n < Header
           THEN filled' = filled + n /\ owned' = fds /\ UNCHANGED <<need, rpc, got>>
           ELSE \E len \in Lengths(at) :
                  IF len = 0 THEN Delivers(fds, at)
                  ELSE /\ filled' = Header /\ owned' = fds /\ need' = len
                       /\ rpc' = "payload" /\ UNCHANGED got
    BY Zenon DEF RecvsHeader
  <2> HIDE DEF piece, n, at, fds, m
  <2>2. CASE filled + n < Header
    BY <2>1, <2>2
  <2>3. CASE ~(filled + n < Header)
    <3>1. filled + n >= Header
      BY <2>3, <1>1, <1>2, <1>3
    <3>2. CASE Messages[m].size = 0
      BY <2>1, <2>3, <3>1, <3>2, <1>5
    <3>3. CASE Messages[m].size # 0
      BY <2>1, <2>3, <3>1, <3>3, <1>5
    <3> QED
      BY <3>2, <3>3
  <2> QED
    BY <2>2, <2>3
<1>7. /\ SenderInv' /\ Contiguous' /\ Begun' = Begun
      /\ Edge(1)' = Behind(m, filled, n)
  BY <1>1, <1>3, <1>6, TakeKeeps DEF QueueInv
<1> HIDE DEF piece, n, at, fds
<1>8. got \in Seq([size: Nat, fds: 0..MaxScmFds]) /\ Begun \in Int /\ rpc = "header"
  BY DEF QueueInv, InOrder, SenderInv, Begun, RecvsHeader
<1>9. CASE /\ filled + n < Header /\ filled' = filled + n /\ owned' = fds
           /\ UNCHANGED <<need, rpc, got>>
  <2>1. Edge(1)' = Place(m, filled + n)
    BY <1>1, <1>2, <1>3, <1>7, <1>9 DEF Behind
  <2>2. Here' = Place(m, filled + n)
    BY <1>8, <1>9 DEF Here, Place
  <2>3. filled' \in 1..Header - 1
    BY <1>1, <1>2, <1>3, <1>9
  <2>4. got' = got /\ rpc' = "header" /\ Len(got) <= Begun'
    BY <1>1, <1>7, <1>8, <1>9
  <2>5. Len(got') < Begun' /\ first' = Place(Len(got') + 1, 0)
        /\ owned' = Messages[Len(got') + 1].fds
    BY <2>4, <1>1, <1>4, <1>6, <1>7, <1>9
  <2>6. InOrder'
    BY <2>1, <2>2, <2>3, <2>4, <2>5, <1>2, <1>8 DEF InOrder
  <2> QED
    BY <2>4, <2>6, <1>7 DEF QueueInv, NextGot
<1>10. CASE filled + n >= Header /\ Messages[m].size = 0 /\ Delivers(fds, at)
  <2>1. Edge(1)' = Place(Len(got) + 2, 0)
    <3>1. filled + n = Encoded(m) /\ m + 1 = Len(got) + 2
      BY <1>1, <1>2, <1>3, <1>10
    <3> QED
      BY <1>7, <3>1 DEF Behind
  <2>2. InOrder' /\ NextGot
    BY <2>1, <1>1, <1>4, <1>7, <1>10, DeliversNext
  <2> QED
    BY <2>2, <1>7 DEF QueueInv
<1>11. CASE /\ filled + n >= Header /\ Messages[m].size # 0
            /\ filled' = Header /\ owned' = fds /\ need' = Messages[m].size
            /\ rpc' = "payload" /\ UNCHANGED got
  <2>1. Edge(1)' = Place(m, Header)
    BY <1>1, <1>2, <1>3, <1>7, <1>11 DEF Behind
  <2>2. got' = got /\ rpc' = "payload" /\ Len(got) <= Begun'
    BY <1>1, <1>7, <1>8, <1>11
  <2>3. Here' = Place(m, Encoded(m) - Messages[m].size)
    BY <2>2, <1>11 DEF Here, Place, Encoded
  <2>4. Edge(1)' = Here'
    BY <2>1, <2>3, <1>2
  <2>5. Len(got') < Begun' /\ first' = Place(Len(got') + 1, 0)
        /\ owned' = Messages[Len(got') + 1].fds
    BY <2>2, <1>1, <1>4, <1>6, <1>7, <1>11
  <2>6. need' \in 1..Messages[Len(got') + 1].size
    BY <2>2, <1>2, <1>11
  <2>7. InOrder'
    BY <2>2, <2>4, <2>5, <2>6, <1>8, <1>11 DEF InOrder
  <2> QED
    BY <2>2, <2>7, <1>7 DEF QueueInv, NextGot
<1> QED
  BY <1>6, <1>9, <1>10, <1>11

LEMMA PayloadKeeps ==
  ASSUME QueueInv, RecvsPayload
  PROVE  QueueInv' /\ NextGot /\ Begun' = Begun
<1> DEFINE piece == Head(pieces)
           n == Lesser(need, piece.size)
           m == Len(got) + 1
<1>1. /\ rpc = "payload" /\ pieces # <<>> /\ filled = Header
      /\ need \in 1..Messages[m].size
      /\ first = Place(m, 0) /\ owned = Messages[m].fds
  BY DEF RecvsPayload, QueueInv, InOrder
<1>2. /\ Fits(piece) /\ Len(got) \in Nat /\ piece.msg = m /\ Len(got) < Begun
      /\ piece.at = Encoded(m) - need
  BY <1>1, NextPiece DEF Here, Place
<1>3. /\ m \in 1..Len(Messages) /\ piece.size \in Nat /\ piece.size > 0
      /\ piece.at + piece.size <= Encoded(m) /\ Encoded(m) \in Nat
      /\ Messages[m].size \in Nat /\ Messages[m].fds \in 0..MaxScmFds
      /\ need \in Nat /\ need > 0
  <2>1. /\ m \in 1..Len(Messages) /\ piece.size \in Nat /\ piece.size > 0
        /\ piece.at + piece.size <= Encoded(m)
    BY <1>2 DEF Fits
  <2>2. /\ Encoded(m) \in Nat /\ Messages[m].size \in Nat
        /\ Messages[m].fds \in 0..MaxScmFds
    BY <2>1, MessageFacts
  <2>3. need \in Nat /\ need > 0
    BY <2>2, <1>1
  <2> QED
    BY <2>1, <2>2, <2>3
<1>4. n \in 1..piece.size /\ n \in Nat /\ n <= need
  BY <1>3 DEF Lesser
<1>5. /\ Take(n) /\ UNCHANGED <<sender, first>>
      /\ IF n < need THEN need' = need - n /\ UNCHANGED <<filled, owned, rpc, got>>
                      ELSE Delivers(owned, first)
  BY Zenon DEF RecvsPayload
<1>6. /\ SenderInv' /\ Contiguous' /\ Begun' = Begun
      /\ Edge(1)' = Behind(m, piece.at, n)
  BY <1>1, <1>2, <1>4, <1>5, TakeKeeps DEF QueueInv
<1> HIDE DEF piece, n
<1>7. got \in Seq([size: Nat, fds: 0..MaxScmFds]) /\ Begun \in Int
  BY DEF QueueInv, InOrder, SenderInv, Begun
<1>8. CASE n < need
  <2>1. Edge(1)' = Place(m, Encoded(m) - (need - n))
    BY <1>2, <1>3, <1>4, <1>6, <1>8 DEF Behind
  <2>2. got' = got /\ rpc' = "payload" /\ need' = need - n /\ filled' = Header
        /\ owned' = owned /\ first' = first
    BY <1>1, <1>5, <1>8
  <2>3. Here' = Place(m, Encoded(m) - (need - n))
    BY <2>2 DEF Here, Place, Encoded
  <2>4. need' \in 1..Messages[Len(got') + 1].size
    BY <2>2, <1>1, <1>3, <1>4, <1>8
  <2>5. /\ Len(got') < Begun' /\ Len(got') <= Begun' /\ first' = Place(Len(got') + 1, 0)
        /\ owned' = Messages[Len(got') + 1].fds
    BY <2>2, <1>1, <1>2, <1>6, <1>7
  <2>6. InOrder'
    BY <2>1, <2>2, <2>3, <2>4, <2>5, <1>7 DEF InOrder
  <2> QED
    BY <2>2, <2>6, <1>6 DEF QueueInv, NextGot
<1>9. CASE ~(n < need)
  <2>1. n = need
    BY <1>3, <1>4, <1>9
  <2>2. Edge(1)' = Place(Len(got) + 2, 0)
    BY <2>1, <1>2, <1>3, <1>6 DEF Behind
  <2>3. InOrder' /\ NextGot
    BY <2>2, <1>1, <1>2, <1>5, <1>6, <1>9, DeliversNext
  <2> QED
    BY <2>3, <1>6 DEF QueueInv
<1> QED
  BY <1>8, <1>9

\* An end leaves what was received as it is; one of them leaves no socket.
LEMMA EndsKeep ==
  ASSUME QueueInv, RecvsEnd \/ ReceiverGoes \/ SenderGoes \/ UNCHANGED sockVars
  PROVE  QueueInv' /\ got' = got /\ Begun' = Begun
<1>1. UNCHANGED <<sMsg, offset, got>>
  BY DEF RecvsEnd, ReceiverGoes, SenderGoes, sockVars, sender, receiver
<1>2. Begun' = Begun /\ SenderInv'
  BY <1>1 DEF Begun, QueueInv, SenderInv, Encoded
<1>3. CASE RecvsEnd
  <2>1. UNCHANGED pieces /\ rpc' \in {"clean", "error"}
    BY <1>3 DEF RecvsEnd
  <2>2. Contiguous'
    BY <2>1, <1>1, <1>2
    DEF QueueInv, Contiguous, Fits, Behind, Edge, There, Place, Encoded
  <2>3. InOrder'
    BY <2>1, <1>1, <1>2 DEF QueueInv, InOrder
  <2> QED
    BY <2>2, <2>3, <1>1, <1>2 DEF QueueInv
<1>4. CASE ReceiverGoes
  <2>1. pieces' = <<>> /\ rpc' = "gone"
    BY <1>4 DEF ReceiverGoes
  <2>2. Contiguous'
    BY <2>1 DEF Contiguous
  <2>3. InOrder'
    BY <2>1, <1>1, <1>2 DEF QueueInv, InOrder
  <2> QED
    BY <2>2, <2>3, <1>1, <1>2 DEF QueueInv
<1>5. CASE SenderGoes \/ UNCHANGED sockVars
  <2>1. UNCHANGED <<pieces, filled, first, owned, need, rpc>>
    BY <1>5 DEF SenderGoes, sockVars, receiver
  <2>2. Contiguous'
    BY <2>1, <1>1, <1>2
    DEF QueueInv, Contiguous, Fits, Behind, Edge, There, Place, Encoded
  <2>3. InOrder'
    BY <2>1, <1>1, <1>2 DEF QueueInv, InOrder, Edge, There, Here, Place, Encoded
  <2> QED
    BY <2>2, <2>3, <1>1, <1>2 DEF QueueInv
<1> QED
  BY <1>3, <1>4, <1>5

\* What is sent: the sender goes on with its message, or begins the next.
LEMMA SendsKeep ==
  ASSUME QueueInv, Sends
  PROVE  /\ QueueInv' /\ UNCHANGED <<rpc, got>>
         /\ Begun' = Begun \/ (Begun < Len(Messages) /\ Begun' = Begun + 1)
<1>0. sMsg \in 1..(Len(Messages) + 1) /\ offset \in Nat
  BY DEF QueueInv, SenderInv
<1>1. ASSUME NEW n \in Nat, n > 0, NEW fds, Writes(n, fds),
             sMsg <= Len(Messages), offset + n <= Encoded(sMsg),
             sMsg <= Config \/ offset + n = Encoded(sMsg),
             fds = IF offset = 0 THEN Messages[sMsg].fds ELSE 0
      PROVE  /\ QueueInv' /\ UNCHANGED <<rpc, got>>
             /\ Begun' = Begun \/ (Begun < Len(Messages) /\ Begun' = Begun + 1)
  <2>1. QueueInv' /\ Begun' = sMsg
    BY <1>1, WriteKeeps
  <2>2. UNCHANGED <<rpc, got>>
    BY <1>1 DEF Writes, receiver
  <2> QED
    BY <2>1, <2>2, <1>0, <1>1, Constants DEF Begun
<1>2. CASE SendsFds
  <2>1. PICK n \in 1..Encoded(sMsg) : Writes(n, Messages[sMsg].fds)
    BY <1>2 DEF SendsFds
  <2>2. sMsg <= Config /\ offset = 0
    BY <1>2 DEF SendsFds, Sending
  <2>3. sMsg \in 1..Len(Messages) /\ sMsg <= Len(Messages)
    BY <2>2, <1>0, Constants
  <2>4. n \in Nat /\ n > 0 /\ offset + n <= Encoded(sMsg)
    <3>1. Encoded(sMsg) \in Nat
      BY <2>3, MessageFacts
    <3> QED
      BY <3>1, <2>1, <2>2
  <2> QED
    BY <2>1, <2>2, <2>3, <2>4, <1>1
<1>3. CASE SendsRest
  <2>1. PICK n \in 1..Encoded(sMsg) - offset : Writes(n, 0)
    BY <1>3 DEF SendsRest
  <2>2. sMsg <= Config /\ (offset > 0 \/ Messages[sMsg].fds = 0)
    BY <1>3 DEF SendsRest, Sending
  <2>3. sMsg \in 1..Len(Messages) /\ sMsg <= Len(Messages)
    BY <2>2, <1>0, Constants
  <2>4. n \in Nat /\ n > 0 /\ offset + n <= Encoded(sMsg)
    <3>1. Encoded(sMsg) \in Nat
      BY <2>3, MessageFacts
    <3> QED
      BY <3>1, <2>1, <1>0
  <2>5. 0 = IF offset = 0 THEN Messages[sMsg].fds ELSE 0
    BY <2>2, <1>0
  <2> QED
    BY <2>1, <2>2, <2>3, <2>4, <2>5, <1>1
<1>4. CASE SendsControl
  <2>1. sMsg \in Config + 1..Len(Messages)
    BY <1>4 DEF SendsControl, Controls
  <2>2. sMsg \in 1..Len(Messages) /\ sMsg <= Len(Messages) /\ offset = 0
        /\ Messages[sMsg].fds = 0
    BY <2>1, <1>0, Constants, TransportAssumption
    DEF QueueInv, SenderInv, TransportAssumption
  <2>3. CASE Encoded(sMsg) <= Space /\ Writes(Encoded(sMsg), 0)
    <3>1. Encoded(sMsg) \in Nat /\ Encoded(sMsg) > 0
      <4>1. /\ Encoded(sMsg) = Header + Messages[sMsg].size
            /\ Messages[sMsg].size \in Nat
        BY <2>2, MessageFacts
      <4> QED
        BY <4>1, Constants
    <3>2. offset + Encoded(sMsg) = Encoded(sMsg) /\ offset + Encoded(sMsg) <= Encoded(sMsg)
      BY <3>1, <2>2
    <3> QED
      BY <3>1, <3>2, <2>2, <2>3, <1>1
  <2>4. CASE UNCHANGED <<sMsg, offset, pieces, receiver>>
    <3>1. Begun' = Begun /\ UNCHANGED <<rpc, got>>
      BY <2>4 DEF Begun, receiver
    <3>2. SenderInv' /\ Contiguous' /\ InOrder'
      BY <2>4, <3>1 DEF QueueInv, SenderInv, Contiguous, InOrder, Fits, Behind, Edge, There,
         Here, Place, Encoded, receiver
    <3> QED
      BY <3>1, <3>2 DEF QueueInv
  <2> QED
    BY <2>3, <2>4, <1>4 DEF SendsControl
<1> QED
  BY <1>2, <1>3, <1>4 DEF Sends

LEMMA QueueInductive == QueueInv /\ [SockNext]_sockVars => QueueInv'
  BY SendsKeep, HeaderKeeps, PayloadKeeps, EndsKeep DEF SockNext, Recvs

LEMMA QueueInvariant == SockSpec => []QueueInv
  BY QueueInitial, QueueInductive, PTL DEF SockSpec

-----------------------------------------------------------------------------
(* The shape of the state. What is in the socket is what was written to it   *)
(* less what was taken from it.                                              *)

PieceType == [msg: 1..Len(Messages), at: Nat, size: Nat \ {0}, fds: 0..MaxScmFds]

Bytes(seq) == [i \in 1..Len(seq) |-> seq[i].size]

LEMMA InSocketIsTotal ==
  InSocket = Total(Bytes(pieces)) /\ InSocket' = Total(Bytes(pieces'))
  BY DEF InSocket, Total, Bytes

LEMMA FitsTyped ==
  ASSUME NEW p \in [msg: Nat, at: Nat, size: Nat, fds: Nat], Fits(p)
  PROVE  p \in PieceType
<1>1. p.msg \in 1..Len(Messages)
  BY DEF Fits
<1>2. Messages[p.msg].fds \in 0..MaxScmFds
  BY <1>1, MessageFacts
<1>3. p.fds \in 0..MaxScmFds
  BY <1>2, Constants DEF Fits
<1> QED
  BY <1>1, <1>3 DEF Fits, PieceType

LEMMA PiecesTyped ==
  /\ QueueInv => pieces \in Seq(PieceType)
  /\ QueueInv' => pieces' \in Seq(PieceType)
<1>1. ASSUME QueueInv PROVE pieces \in Seq(PieceType)
  <2>1. pieces \in Seq([msg: Nat, at: Nat, size: Nat, fds: Nat])
    BY <1>1 DEF QueueInv, Contiguous
  <2>2. ASSUME NEW i \in 1..Len(pieces) PROVE pieces[i] \in PieceType
    <3>1. Fits(pieces[i])
      BY <1>1 DEF QueueInv, Contiguous
    <3>2. pieces[i] \in [msg: Nat, at: Nat, size: Nat, fds: Nat]
      BY <2>1, ElementOfSeq
    <3> QED
      BY <3>1, <3>2, FitsTyped
  <2> QED
    BY <2>1, <2>2
<1>2. ASSUME QueueInv' PROVE pieces' \in Seq(PieceType)
  <2>1. pieces' \in Seq([msg: Nat, at: Nat, size: Nat, fds: Nat])
    BY <1>2 DEF QueueInv, Contiguous
  <2>2. ASSUME NEW i \in 1..Len(pieces') PROVE pieces'[i] \in PieceType
    <3>1. Fits(pieces'[i])
      BY <1>2 DEF QueueInv, Contiguous, Fits, Encoded
    <3>2. pieces'[i] \in [msg: Nat, at: Nat, size: Nat, fds: Nat]
      BY <2>1, ElementOfSeq
    <3> QED
      BY <3>1, <3>2, FitsTyped
  <2> QED
    BY <2>1, <2>2
<1> QED
  BY <1>1, <1>2

LEMMA BytesTyped ==
  ASSUME NEW seq \in Seq(PieceType)
  PROVE  Bytes(seq) \in Seq(Nat) /\ Len(Bytes(seq)) = Len(seq) /\ Total(Bytes(seq)) \in Nat
<1>1. ASSUME NEW i \in 1..Len(seq) PROVE seq[i].size \in Nat
  <2>1. seq[i] \in PieceType
    OBVIOUS
  <2> QED
    BY <2>1 DEF PieceType
<1>2. Bytes(seq) \in Seq(Nat) /\ Len(Bytes(seq)) = Len(seq)
  BY <1>1 DEF Bytes
<1> QED
  BY <1>2, TotalNat

LEMMA BytesAppend ==
  ASSUME NEW seq \in Seq(PieceType), NEW piece \in PieceType
  PROVE  Total(Bytes(Append(seq, piece))) = Total(Bytes(seq)) + piece.size
<1> DEFINE longer == Append(seq, piece)
           bytes == Append(Bytes(seq), piece.size)
<1>1. piece.size \in Nat /\ Bytes(seq) \in Seq(Nat) /\ Len(Bytes(seq)) = Len(seq)
  BY BytesTyped DEF PieceType
<1>2. /\ longer \in Seq(PieceType) /\ Len(longer) = Len(seq) + 1 /\ Len(seq) \in Nat
      /\ longer[Len(seq) + 1] = piece /\ \A i \in 1..Len(seq) : longer[i] = seq[i]
  OBVIOUS
<1>3. /\ bytes \in Seq(Nat) /\ Len(bytes) = Len(seq) + 1
      /\ bytes[Len(seq) + 1] = piece.size
      /\ \A i \in 1..Len(seq) : bytes[i] = Bytes(seq)[i]
  BY <1>1
<1> HIDE DEF longer, bytes
<1>4. Bytes(longer) \in Seq(Nat) /\ Len(Bytes(longer)) = Len(seq) + 1
  BY <1>2, BytesTyped
<1>5. ASSUME NEW i \in 1..Len(seq) + 1 PROVE Bytes(longer)[i] = bytes[i]
  <2>1. Bytes(longer)[i] = longer[i].size
    BY <1>2 DEF Bytes
  <2>2. CASE i = Len(seq) + 1
    BY <2>1, <2>2, <1>2, <1>3
  <2>3. CASE i \in 1..Len(seq)
    <3>1. Bytes(seq)[i] = seq[i].size
      BY <2>3 DEF Bytes
    <3> QED
      BY <3>1, <2>1, <2>3, <1>2, <1>3
  <2> QED
    BY <2>2, <2>3, <1>2
<1>6. Bytes(longer) = bytes
  BY <1>3, <1>4, <1>5
<1>7. Total(bytes) = Total(Bytes(seq)) + piece.size
  BY <1>1, TotalAppend DEF bytes
<1> QED
  BY <1>6, <1>7 DEF longer

LEMMA BytesTail ==
  ASSUME NEW seq \in Seq(PieceType), seq # <<>>
  PROVE  Total(Bytes(seq)) = Head(seq).size + Total(Bytes(Tail(seq)))
<1> DEFINE rest == Tail(seq)
           bytes == Tail(Bytes(seq))
<1>1. /\ Bytes(seq) \in Seq(Nat) /\ Len(Bytes(seq)) = Len(seq)
      /\ Len(seq) \in Nat /\ Len(seq) > 0
  BY BytesTyped
<1>2. Bytes(seq)[1] = seq[1].size
  BY <1>1 DEF Bytes
<1>3. Head(Bytes(seq)) = Head(seq).size
  BY <1>1, <1>2
<1>4. /\ rest \in Seq(PieceType) /\ Len(rest) = Len(seq) - 1
      /\ \A i \in 1..Len(seq) - 1 : rest[i] = seq[i + 1]
  BY <1>1
<1>5. /\ bytes \in Seq(Nat) /\ Len(bytes) = Len(seq) - 1
      /\ \A i \in 1..Len(seq) - 1 : bytes[i] = Bytes(seq)[i + 1]
  BY <1>1
<1> HIDE DEF rest, bytes
<1>6. Bytes(rest) \in Seq(Nat) /\ Len(Bytes(rest)) = Len(seq) - 1
  BY <1>4, BytesTyped
<1>7. ASSUME NEW i \in 1..Len(seq) - 1 PROVE Bytes(rest)[i] = bytes[i]
  <2>1. Bytes(rest)[i] = rest[i].size
    BY <1>4 DEF Bytes
  <2>2. i + 1 \in 1..Len(seq)
    BY <1>1
  <2>3. Bytes(seq)[i + 1] = seq[i + 1].size
    BY <2>2 DEF Bytes
  <2> QED
    BY <2>1, <2>3, <1>4, <1>5
<1>8. Bytes(rest) = bytes
  BY <1>1, <1>5, <1>6, <1>7, SeqEqual
<1>9. Bytes(seq) # <<>>
  BY <1>1
<1> QED
  BY <1>1, <1>3, <1>8, <1>9, TotalTail DEF rest, bytes

\* A read makes as much room as it takes, and leaves what it should.
LEMMA TakeFrees ==
  ASSUME QueueInv, QueueInv', pieces # <<>>, NEW n \in 1..Head(pieces).size, Take(n)
  PROVE  InSocket' = InSocket - n
<1> DEFINE piece == Head(pieces)
           rest == Piece(piece.msg, piece.at + n, piece.size - n, 0)
<1>1. pieces \in Seq(PieceType) /\ pieces' \in Seq(PieceType)
  BY PiecesTyped
<1>2. piece \in PieceType /\ Tail(pieces) \in Seq(PieceType)
  BY <1>1
<1>3. /\ piece.size \in Nat /\ n \in Nat
      /\ Total(Bytes(Tail(pieces))) \in Nat
      /\ Total(Bytes(pieces)) = piece.size + Total(Bytes(Tail(pieces)))
  <2>1. piece.size \in Nat /\ n \in Nat
    BY <1>2 DEF PieceType
  <2>2. Total(Bytes(Tail(pieces))) \in Nat
    BY <1>2, BytesTyped
  <2>3. Total(Bytes(pieces)) = piece.size + Total(Bytes(Tail(pieces)))
    BY <1>1, BytesTail
  <2> QED
    BY <2>1, <2>2, <2>3
<1>4. InSocket = Total(Bytes(pieces)) /\ InSocket' = Total(Bytes(pieces'))
  BY InSocketIsTotal
<1>5. CASE n = piece.size
  <2>1. pieces' = Tail(pieces)
    BY <1>5 DEF Take
  <2> HIDE DEF piece
  <2> QED
    BY <2>1, <1>3, <1>4, <1>5
<1>6. CASE n # piece.size
  <2>1. pieces' = [pieces EXCEPT ![1] = rest]
    BY <1>6 DEF Take
  <2>2. rest.size = piece.size - n
    BY DEF Piece
  <2> HIDE DEF piece, rest
  <2>3. pieces' # <<>> /\ Head(pieces') = rest /\ Tail(pieces') = Tail(pieces)
    BY <2>1, <1>1
  <2>4. Total(Bytes(pieces')) = rest.size + Total(Bytes(Tail(pieces)))
    BY <2>3, <1>1, BytesTail
  <2> QED
    BY <2>2, <2>4, <1>3, <1>4
<1> QED
  BY <1>5, <1>6

\* What QueueInv does not say of it.
Shape ==
  /\ sEnd \in {"open", "mute", "closed", "reset"}
  /\ Space \in Nat
  /\ filled \in 0..Header /\ first \in [msg: 1..(Len(Messages) + 1), at: Nat]
  /\ owned \in 0..MaxScmFds /\ need \in Nat

LEMMA SockTyped == QueueInv /\ Shape => SockTypeOK
<1> SUFFICES ASSUME QueueInv, Shape PROVE SockTypeOK
  OBVIOUS
<1>1. pieces \in Seq(PieceType)
  BY PiecesTyped
<1> QED
  BY <1>1 DEF QueueInv, SenderInv, InOrder, Shape, SockTypeOK, PieceType

LEMMA SpaceFacts == QueueInv => SockBuf \in Nat /\ InSocket \in Nat /\ Space = SockBuf - InSocket
<1> SUFFICES ASSUME QueueInv
             PROVE  SockBuf \in Nat /\ InSocket \in Nat /\ Space = SockBuf - InSocket
  OBVIOUS
<1>1. InSocket \in Nat
  BY PiecesTyped, BytesTyped, InSocketIsTotal
<1> QED
  BY <1>1, TransportAssumption DEF TransportAssumption, Space

LEMMA ShapeInitial == SockInit => Shape
<1> SUFFICES ASSUME SockInit PROVE Shape
  OBVIOUS
<1>1. pieces = <<>> /\ Bytes(<<>>) = <<>>
  BY DEF SockInit, Bytes
<1>2. InSocket = 0
  BY <1>1, InSocketIsTotal, TotalEmpty
<1>3. Space \in Nat
  BY <1>2, TransportAssumption DEF Space, TransportAssumption
<1> QED
  BY <1>3, Constants DEF SockInit, Shape, Start

\* A write leaves no less than no room.
LEMMA WriteShape ==
  ASSUME QueueInv, QueueInv', Shape, NEW n \in Nat, NEW fds, Writes(n, fds), n <= Space
  PROVE  Shape'
<1> DEFINE piece == Piece(sMsg, offset, n, fds)
<1>1. pieces' = Append(pieces, piece) /\ UNCHANGED <<sEnd, receiver>>
  BY DEF Writes
<1>2. pieces \in Seq(PieceType) /\ pieces' \in Seq(PieceType)
  BY PiecesTyped
<1>3. piece.size = n
  BY DEF Piece
<1> HIDE DEF piece
<1>4. piece \in PieceType
  <2>1. Len(pieces) + 1 \in 1..Len(pieces') /\ pieces'[Len(pieces) + 1] = piece
    BY <1>1, <1>2
  <2> QED
    BY <2>1, <1>2
<1>5. InSocket' = InSocket + n
  <2>1. InSocket = Total(Bytes(pieces)) /\ InSocket' = Total(Bytes(pieces'))
    BY InSocketIsTotal
  <2> QED
    BY <2>1, <1>1, <1>2, <1>3, <1>4, BytesAppend
<1>6. Space' \in Nat
  <2>1. Space' = SockBuf - InSocket'
    BY DEF Space
  <2> QED
    BY <2>1, <1>5, SpaceFacts
<1> QED
  BY <1>1, <1>6 DEF Shape, receiver

\* So does a read, and what it leaves of the receiver is right.
LEMMA ReadShape ==
  ASSUME QueueInv, QueueInv', Shape, RecvsHeader \/ RecvsPayload
  PROVE  Shape'
<1>1. pieces # <<>> /\ Fits(Head(pieces)) /\ sEnd' = sEnd
      /\ rpc \in {"header", "payload"}
  BY NextPiece DEF RecvsHeader, RecvsPayload, sender
<1>2. Head(pieces).size \in Nat /\ Head(pieces).size > 0
  BY <1>1 DEF Fits
<1>3. Space' \in Nat
  <2>1. ASSUME NEW n \in 1..Head(pieces).size, Take(n)
        PROVE  Space' \in Nat
    <3>1. InSocket' = InSocket - n
      BY <1>1, <2>1, TakeFrees
    <3>2. Space' = SockBuf - InSocket'
      BY DEF Space
    <3>3. SockBuf - InSocket \in Nat /\ n \in Nat /\ InSocket \in Nat /\ SockBuf \in Nat
      BY <1>2, SpaceFacts DEF Shape
    <3> QED
      BY <3>1, <3>2, <3>3
  <2>2. CASE RecvsHeader
    <3>1. Header - filled \in Nat /\ Header - filled > 0
      BY <2>2, Constants DEF RecvsHeader, QueueInv, InOrder
    <3>2. Lesser(Header - filled, Head(pieces).size) \in 1..Head(pieces).size
      BY <3>1, <1>2 DEF Lesser
    <3>3. Take(Lesser(Header - filled, Head(pieces).size))
      BY <2>2 DEF RecvsHeader
    <3> QED
      BY <3>2, <3>3, <2>1
  <2>3. CASE RecvsPayload
    <3>1. need \in Nat /\ need > 0
      BY <2>3 DEF RecvsPayload, QueueInv, InOrder, Shape
    <3>2. Lesser(need, Head(pieces).size) \in 1..Head(pieces).size
      BY <3>1, <1>2 DEF Lesser
    <3>3. Take(Lesser(need, Head(pieces).size))
      BY <2>3 DEF RecvsPayload
    <3> QED
      BY <3>2, <3>3, <2>1
  <2> QED
    BY <2>2, <2>3
<1>4. rpc' \in {"header", "payload"}
  BY <1>1, Zenon DEF RecvsHeader, RecvsPayload, Delivers
<1>5. filled' \in 0..Header
  BY <1>4, Constants DEF QueueInv, InOrder
<1>6. first' \in [msg: 1..(Len(Messages) + 1), at: Nat]
  <2>1. first' \in {first, [msg |-> Head(pieces).msg, at |-> Head(pieces).at]}
    BY Zenon DEF RecvsHeader, RecvsPayload
  <2>2. Head(pieces).msg \in 1..(Len(Messages) + 1) /\ Head(pieces).at \in Nat
    BY <1>1, Constants DEF Fits
  <2> QED
    BY <2>1, <2>2 DEF Shape
<1>7. ASSUME rpc' = "payload" \/ filled' > 0
      PROVE  Len(got') + 1 \in 1..Len(Messages) /\ owned' = Messages[Len(got') + 1].fds
  <2>1. Len(got') < Begun' /\ owned' = Messages[Len(got') + 1].fds
    BY <1>4, <1>7 DEF QueueInv, InOrder
  <2>2. Len(got') \in Nat /\ sMsg' \in 1..(Len(Messages) + 1) /\ offset' \in Nat
        /\ (offset' > 0 => sMsg' <= Config)
    BY DEF QueueInv, InOrder, SenderInv
  <2> QED
    BY <2>1, <2>2, Constants DEF Begun
<1>8. owned' \in 0..MaxScmFds
  <2>1. CASE rpc' = "payload" \/ filled' > 0
    BY <2>1, <1>7, MessageFacts
  <2>2. CASE rpc' = "header" /\ filled' = 0
    BY <2>2, Constants DEF QueueInv, InOrder
  <2> QED
    BY <2>1, <2>2, <1>4, <1>5
<1>9. need' \in Nat
  <2>1. CASE rpc' = "payload"
    <3>1. need' \in 1..Messages[Len(got') + 1].size
      BY <2>1 DEF QueueInv, InOrder
    <3>2. Messages[Len(got') + 1].size \in Nat
      BY <2>1, <1>7, MessageFacts
    <3> QED
      BY <3>1, <3>2
  <2>2. CASE rpc' = "header"
    <3>1. need' \in {need, 0}
      BY <2>2, Zenon DEF RecvsHeader, RecvsPayload, Delivers
    <3> QED
      BY <3>1 DEF Shape
  <2> QED
    BY <2>1, <2>2, <1>4
<1> QED
  BY <1>1, <1>3, <1>5, <1>6, <1>8, <1>9 DEF Shape

LEMMA EndShape ==
  ASSUME QueueInv, QueueInv', Shape, RecvsEnd \/ ReceiverGoes \/ SenderGoes \/ UNCHANGED sockVars
  PROVE  Shape'
<1>1. UNCHANGED <<filled, first, owned, need>> /\ sEnd' \in {sEnd, "closed", "reset"}
  BY DEF RecvsEnd, ReceiverGoes, SenderGoes, sockVars, sender, receiver
<1>2. Space' \in Nat
  <2>1. CASE pieces' = pieces
    <3>1. Space' = Space
      BY <2>1, InSocketIsTotal DEF Space
    <3> QED
      BY <3>1 DEF Shape
  <2>2. CASE pieces' = <<>>
    <3>1. Bytes(pieces') = <<>>
      BY <2>2 DEF Bytes
    <3>2. InSocket' = Total(Bytes(pieces'))
      BY InSocketIsTotal
    <3>3. Space' = SockBuf - InSocket'
      BY DEF Space
    <3> QED
      BY <3>1, <3>2, <3>3, TotalEmpty, TransportAssumption DEF TransportAssumption
  <2> QED
    BY <2>1, <2>2 DEF RecvsEnd, ReceiverGoes, SenderGoes, sockVars, receiver
<1> QED
  BY <1>1, <1>2 DEF Shape

LEMMA ShapeKept ==
  ASSUME QueueInv, QueueInv', Shape, [SockNext]_sockVars
  PROVE  Shape'
<1>0. sMsg \in 1..(Len(Messages) + 1) /\ offset \in Nat
  BY DEF QueueInv, SenderInv
<1>1. CASE SendsFds
  <2>1. PICK n \in 1..Encoded(sMsg) : n <= Space /\ Writes(n, Messages[sMsg].fds)
    BY <1>1 DEF SendsFds
  <2>2. sMsg \in 1..Len(Messages)
    BY <1>0, <1>1, Constants DEF SendsFds, Sending
  <2>3. n \in Nat
    BY <2>1, <2>2, MessageFacts
  <2> QED
    BY <2>1, <2>3, WriteShape
<1>2. CASE SendsRest
  <2>1. PICK n \in 1..Encoded(sMsg) - offset : n <= Space /\ Writes(n, 0)
    BY <1>2 DEF SendsRest
  <2>2. sMsg \in 1..Len(Messages)
    BY <1>0, <1>2, Constants DEF SendsRest, Sending
  <2>3. Encoded(sMsg) \in Nat
    BY <2>2, MessageFacts
  <2>4. n \in Nat
    BY <2>1, <2>3, <1>0
  <2> QED
    BY <2>1, <2>4, WriteShape
<1>3. CASE SendsControl
  <2>1. sMsg \in 1..Len(Messages)
    BY <1>0, <1>3, Constants DEF SendsControl, Controls
  <2>2. Encoded(sMsg) \in Nat
    BY <2>1, MessageFacts
  <2>3. CASE Encoded(sMsg) <= Space /\ Writes(Encoded(sMsg), 0)
    BY <2>2, <2>3, WriteShape
  <2>4. CASE sEnd' = "mute" /\ UNCHANGED <<sMsg, offset, pieces, receiver>>
    <3>1. Space' = Space
      BY <2>4, InSocketIsTotal DEF Space
    <3> QED
      BY <2>4, <3>1 DEF Shape, receiver
  <2> QED
    BY <2>3, <2>4, <1>3 DEF SendsControl
<1>4. CASE RecvsHeader \/ RecvsPayload
  BY <1>4, ReadShape
<1>5. CASE RecvsEnd \/ ReceiverGoes \/ SenderGoes \/ UNCHANGED sockVars
  BY <1>5, EndShape
<1> QED
  BY <1>1, <1>2, <1>3, <1>4, <1>5 DEF SockNext, Sends, Recvs

\* The socket never holds more than it can, and the receiver never has more of a
\* header, nor more descriptors, than one message has (send, recv_header).
THEOREM SockTypes == SockSpec => []SockTypeOK
<1>1. SockInit => QueueInv /\ Shape
  BY QueueInitial, ShapeInitial
<1>2. QueueInv /\ Shape /\ [SockNext]_sockVars => QueueInv' /\ Shape'
  BY QueueInductive, ShapeKept
<1> QED
  BY <1>1, <1>2, SockTyped, PTL DEF SockSpec

-----------------------------------------------------------------------------
\* An end is clean only between two messages, when nothing that was begun is
\* missing; and with an error at most one is.
LEMMA EndsRight ==
  ASSUME QueueInv, RecvsEnd
  PROVE  \/ rpc' = "clean" /\ Len(got) = Begun
         \/ rpc' = "error" /\ Begun <= Len(got) + 1
<1>1. /\ rpc \in {"header", "payload"} /\ pieces = <<>>
      /\ rpc' = IF rpc = "header" /\ filled = 0 /\ owned = 0 /\ sEnd = "closed"
                THEN "clean" ELSE "error"
  BY DEF RecvsEnd
<1>2. There = Here
  BY <1>1 DEF QueueInv, InOrder, Edge
<1>3. sMsg = Len(got) + 1 /\ (rpc = "header" => offset = filled)
  BY <1>2 DEF There, Here, Place
<1>4. Len(got) \in Nat /\ sMsg \in Nat /\ offset \in Nat
  BY Constants DEF QueueInv, InOrder, SenderInv
<1> QED
  BY <1>1, <1>3, <1>4 DEF Begun

\* However the socket cuts what is written, and wherever either end stops, what
\* is received is what was sent, in order, with its own descriptors, and a clean
\* end comes only behind a whole message (Transport::recv, recv_header).
THEOREM TransportIsQueue == SockSpec => IsQueue
<1>1. SockInit => Q!Init
  BY DEF SockInit, Q!Init
<1>2. QueueInv /\ [SockNext]_sockVars => [Q!Next]_Q!vars
  <2> SUFFICES ASSUME QueueInv, [SockNext]_sockVars
               PROVE  [Q!Next]_Q!vars
    OBVIOUS
  <2>0. Len(got) <= Begun /\ Len(got) \in Nat
    BY DEF QueueInv, InOrder
  <2>1. CASE Sends
    BY <2>1, SendsKeep DEF Begun, Q!Next, Q!Put, Q!vars
  <2>2. CASE RecvsHeader
    <3>1. NextGot /\ Begun' = Begun /\ rpc = "header" /\ rpc' \in {"header", "payload"}
      BY <2>2, HeaderKeeps DEF RecvsHeader, Delivers
    <3> QED
      BY <3>1 DEF NextGot, Begun, Q!Next, Q!Get, Q!vars
  <2>3. CASE RecvsPayload
    <3>1. NextGot /\ Begun' = Begun /\ rpc = "payload" /\ rpc' \in {"header", "payload"}
      BY <2>3, PayloadKeeps DEF RecvsPayload, Delivers
    <3> QED
      BY <3>1 DEF NextGot, Begun, Q!Next, Q!Get, Q!vars
  <2>4. CASE RecvsEnd
    <3>1. got' = got /\ Begun' = Begun /\ rpc \in {"header", "payload"}
      BY <2>4, EndsKeep DEF RecvsEnd
    <3> QED
      BY <2>4, <3>1, EndsRight DEF Begun, Q!Next, Q!End, Q!vars
  <2>5. CASE ReceiverGoes
    <3>1. /\ got' = got /\ Begun' = Begun
          /\ rpc \in {"header", "payload"} /\ rpc' = "gone"
      BY <2>5, EndsKeep DEF ReceiverGoes
    <3> QED
      BY <3>1 DEF Begun, Q!vars
  <2>6. CASE SenderGoes \/ UNCHANGED sockVars
    <3>1. got' = got /\ Begun' = Begun /\ rpc' = rpc
      BY <2>6, EndsKeep DEF SenderGoes, sockVars, receiver
    <3> QED
      BY <3>1 DEF Begun, Q!vars
  <2> QED
    BY <2>1, <2>2, <2>3, <2>4, <2>5, <2>6 DEF SockNext, Recvs
<1> QED
  BY <1>1, <1>2, QueueInvariant, PTL DEF SockSpec, IsQueue, Q!Spec
=============================================================================
