--------------------------- MODULE UnixTransport ---------------------------
(***************************************************************************)
(* Messages and descriptors over a stream socket, one direction of it: send *)
(* at one end and recv at the other, each at most a part of a message at a  *)
(* time (crates/capsudo-transport/src/unix.rs).                             *)
(*                                                                         *)
(* A message is its payload's length and the number of descriptors sent     *)
(* with it. Modelled from how the code uses it: the socket, a sequence of   *)
(* the pieces that were written. A piece keeps the descriptors that were    *)
(* passed with it; whoever takes its first byte takes them too, and loses   *)
(* them without a control buffer. A read that spans two pieces is two       *)
(* steps; one that takes descriptors ends with their piece.                 *)
(***************************************************************************)
EXTENDS Naturals, Sequences

CONSTANTS
  Messages,  \* what the sender sends, in order
  Config,    \* how many of them go through send; the others, through a ControlSender
  Header,    \* Header::SIZE
  SockBuf,   \* what the socket holds
  MaxScmFds  \* MAX_SCM_FDS

ASSUME TransportAssumption ==
  /\ Header \in Nat \ {0} /\ SockBuf \in Nat \ {0} /\ MaxScmFds \in Nat
  /\ Messages \in Seq([size: Nat, fds: 0..MaxScmFds])
  /\ Config \in 0..Len(Messages)
  /\ \A m \in Config + 1..Len(Messages) : Messages[m].fds = 0

VARIABLES
  sMsg,    \* the message being sent
  offset,  \* bytes of it written
  sEnd,    \* the sender's end: "open", "mute" (open, but a control message failed),
           \* "closed", or "reset": closed with something unread
  pieces,  \* the socket
  filled,  \* bytes of the current header read
  first,   \* where its first byte was in what was sent
  owned,   \* descriptors that came with them
  need,    \* bytes of its payload still to read
  rpc,     \* "header", "payload", "clean", "error", or "gone": the receiver closed its end
  got      \* messages received (auxiliary)

sender   == <<sMsg, offset, sEnd>>
receiver == <<filled, first, owned, need, rpc, got>>
sockVars == <<sender, pieces, receiver>>

Lesser(a, b) == IF a < b THEN a ELSE b
Encoded(m) == Header + Messages[m].size

Piece(m, at, size, fds) == [msg |-> m, at |-> at, size |-> size, fds |-> fds]

InSocket ==
  LET sizes == [i \in 1..Len(pieces) |-> pieces[i].size]
      upto[i \in 0..Len(sizes)] == IF i = 0 THEN 0 ELSE upto[i - 1] + sizes[i]
  IN  upto[Len(sizes)]
Space == SockBuf - InSocket

Start == [msg |-> 1, at |-> 0]

SockInit ==
  /\ sMsg = 1 /\ offset = 0 /\ sEnd = "open" /\ pieces = <<>>
  /\ filled = 0 /\ first = Start /\ owned = 0 /\ need = 0
  /\ rpc = "header" /\ got = <<>>

-----------------------------------------------------------------------------
(* send, and send_control for what comes behind the configuration.           *)

ReceiverOpen == rpc # "gone"

\* Writes n more bytes with the given descriptors, which may end the message.
Writes(n, fds) ==
  /\ pieces' = Append(pieces, Piece(sMsg, offset, n, fds))
  /\ IF offset + n = Encoded(sMsg) THEN sMsg' = sMsg + 1 /\ offset' = 0
                                   ELSE offset' = offset + n /\ UNCHANGED sMsg
  /\ UNCHANGED <<sEnd, receiver>>

Sending == sEnd = "open" /\ sMsg <= Config /\ ReceiverOpen
Controls == sEnd = "open" /\ sMsg \in Config + 1..Len(Messages) /\ ReceiverOpen

\* Mutant: descriptors go with every part of the message that is written.
SendsRest_WithFds ==
  /\ Sending
  /\ offset > 0 \/ Messages[sMsg].fds = 0
  /\ \E n \in 1..Encoded(sMsg) - offset : n <= Space /\ Writes(n, Messages[sMsg].fds)

\* Mutant: a message with descriptors is sent when all of it has room.
SendsFds_Whole ==
  /\ Sending
  /\ offset = 0 /\ Messages[sMsg].fds > 0
  /\ Encoded(sMsg) <= Space
  /\ Writes(Encoded(sMsg), Messages[sMsg].fds)

\* sendmsg, with the descriptors: the socket may take part of the message only.
SendsFds ==
  /\ Sending
  /\ offset = 0 /\ Messages[sMsg].fds > 0
  /\ \E n \in 1..Encoded(sMsg) : n <= Space /\ Writes(n, Messages[sMsg].fds)

\* write_all, of a message without descriptors or of what sendmsg left.
SendsRest ==
  /\ Sending
  /\ offset > 0 \/ Messages[sMsg].fds = 0
  /\ \E n \in 1..Encoded(sMsg) - offset : n <= Space /\ Writes(n, 0)

\* A control message goes through a dup of the socket, which is nonblocking:
\* small as it is, it is written whole, or fails and is the last one.
SendsControl ==
  /\ Controls
  /\ IF Encoded(sMsg) <= Space THEN Writes(Encoded(sMsg), 0)
     ELSE sEnd' = "mute" /\ UNCHANGED <<sMsg, offset, pieces, receiver>>

\* The sender closes the socket or dies, in the middle of a message or not.
SenderGoes ==
  /\ sEnd \in {"open", "mute"}
  /\ sEnd' \in {"closed", "reset"}
  /\ UNCHANGED <<sMsg, offset, pieces, receiver>>

-----------------------------------------------------------------------------
(* recv.                                                                     *)

\* The length field of a header that begins there: right if a message does.
Lengths(at) == IF at.at = 0 THEN {Messages[at.msg].size} ELSE 0..SockBuf

\* The first n bytes of the first piece are taken.
Take(n) ==
  LET piece == Head(pieces) IN
    pieces' = IF n = piece.size THEN Tail(pieces)
              ELSE [pieces EXCEPT ![1] = Piece(piece.msg, piece.at + n, piece.size - n, 0)]

\* The message is complete. It is handed out with the descriptors it came with.
Delivers(fds, at) ==
  /\ got' = Append(got, [size |-> Messages[at.msg].size, fds |-> fds])
  /\ filled' = 0 /\ owned' = 0 /\ need' = 0
  /\ rpc' = "header"

\* recv_header: recvmsg for what the header still lacks, with room for the
\* descriptors that come with it.
RecvsHeader ==
  /\ rpc = "header" /\ pieces # <<>>
  /\ LET piece == Head(pieces)
         n == Lesser(Header - filled, piece.size)
         at == IF filled = 0 THEN [msg |-> piece.msg, at |-> piece.at] ELSE first
         fds == owned + piece.fds IN
       /\ Take(n)
       /\ first' = at
       /\ IF filled + n < Header
          THEN filled' = filled + n /\ owned' = fds /\ UNCHANGED <<need, rpc, got>>
          ELSE \E len \in Lengths(at) :
                 IF len = 0 THEN Delivers(fds, at)
                 ELSE /\ filled' = Header /\ owned' = fds /\ need' = len
                      /\ rpc' = "payload" /\ UNCHANGED got
  /\ UNCHANGED sender

\* read_exact of the payload, which has no room for descriptors.
RecvsPayload ==
  /\ rpc = "payload" /\ pieces # <<>>
  /\ LET n == Lesser(need, Head(pieces).size) IN
       /\ Take(n)
       /\ IF n < need
          THEN need' = need - n /\ UNCHANGED <<filled, owned, rpc, got>>
          ELSE Delivers(owned, first)
  /\ UNCHANGED <<sender, first>>

\* Mutant: an end within a header is taken for the end of the stream.
RecvsEnd_AlwaysClean ==
  /\ rpc \in {"header", "payload"} /\ pieces = <<>> /\ sEnd \in {"closed", "reset"}
  /\ rpc' = IF rpc = "header" /\ sEnd = "closed" THEN "clean" ELSE "error"
  /\ UNCHANGED <<sender, pieces, filled, first, owned, need, got>>

\* Nothing more will come. Only between two messages is that a clean end.
RecvsEnd ==
  /\ rpc \in {"header", "payload"} /\ pieces = <<>> /\ sEnd \in {"closed", "reset"}
  /\ rpc' = IF rpc = "header" /\ filled = 0 /\ owned = 0 /\ sEnd = "closed"
            THEN "clean" ELSE "error"
  /\ UNCHANGED <<sender, pieces, filled, first, owned, need, got>>

\* The receiver is done, or dies; what it had not read is lost.
ReceiverGoes ==
  /\ rpc \in {"header", "payload"}
  /\ rpc' = "gone" /\ pieces' = <<>>
  /\ UNCHANGED <<sender, filled, first, owned, need, got>>

Sends == SendsFds \/ SendsRest \/ SendsControl
Recvs == RecvsHeader \/ RecvsPayload \/ RecvsEnd

SockNext == Sends \/ SenderGoes \/ Recvs \/ ReceiverGoes

SockSpec == SockInit /\ [][SockNext]_sockVars

-----------------------------------------------------------------------------
\* The shape of the state: no more in the socket than it holds, and a receiver
\* that never has more of a header than there is.
SockTypeOK ==
  /\ sMsg \in 1..(Len(Messages) + 1) /\ offset \in Nat
  /\ sEnd \in {"open", "mute", "closed", "reset"}
  /\ pieces \in Seq([msg: 1..Len(Messages), at: Nat, size: Nat \ {0}, fds: 0..MaxScmFds])
  /\ Space \in Nat
  /\ filled \in 0..Header /\ first \in [msg: 1..(Len(Messages) + 1), at: Nat]
  /\ owned \in 0..MaxScmFds /\ need \in Nat
  /\ rpc \in {"header", "payload", "clean", "error", "gone"}
  /\ got \in Seq([size: Nat, fds: 0..MaxScmFds])

-----------------------------------------------------------------------------
Q == INSTANCE MessageQueue WITH
       begun <- IF offset > 0 THEN sMsg ELSE sMsg - 1,
       ended <- CASE rpc \in {"header", "payload", "gone"} -> "no"
                  [] rpc = "clean" -> "clean"
                  [] rpc = "error" -> "error"

\* However the socket cuts what is written, and wherever either end stops, the
\* receiver gets the messages that were sent, each with its own descriptors, and
\* a clean end only behind a whole message (Transport::recv).
IsQueue == Q!Spec
=============================================================================
