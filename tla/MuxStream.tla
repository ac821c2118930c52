----------------------------- MODULE MuxStream -----------------------------
(***************************************************************************)
(* One delegated stream of a MuxTransport, from the pump that reads a       *)
(* descriptor at the sending end to the pump that writes one at the         *)
(* receiving end, with the four driver tasks between them and the credit    *)
(* that flows back (crates/capsudo-transport/src/mux.rs).                   *)
(*                                                                         *)
(*   source -> [pump] -> sq -> [writer] -> wire -> [reader] -> queue        *)
(*                                                     -> [pump] -> holder  *)
(*   [pump] <- available <- [reader] <- back <- [writer] <- rq, owed        *)
(*                                                                         *)
(* Payload bytes are abstracted to the cost of the frame that carries them. *)
(* Every frame also carries the running total of its direction, `upto`, as  *)
(* an auxiliary tag: it identifies the frame, and it makes the sum of the   *)
(* costs in a queue a difference of two tags.                               *)
(***************************************************************************)
EXTENDS Integers, Sequences

CONSTANTS
  Window,    \* the window the receiving end grants (STREAM_WINDOW)
  Share,     \* a grant is due at this part of the window (4 in the code)
  Header,    \* MUX_HEADER
  PumpBuf,   \* PUMP_BUF, the most payload one read takes
  Depth,     \* CHANNEL_DEPTH, the frames that queue for a writer task
  Wire,      \* frames the channel holds in each direction
  Total      \* bound on the cost the source ever offers

ASSUME SizesAssumption ==
  /\ Window \in Nat \ {0}
  /\ Share \in Nat \ {0}
  /\ Header \in Nat \ {0}
  /\ PumpBuf \in Nat \ {0}
  /\ Depth \in Nat \ {0}
  /\ Wire \in Nat \ {0}
  /\ Total \in Nat

\* Mutant: the limit forgets the frame a sender may overshoot by.
QueueLimit_NoFrame == Window

\* Flow::queue_limit: one window plus one frame.
QueueLimit == Window + Header + PumpBuf

Kinds == {"data", "close", "hello", "window"}
Frame(kind, cost, upto) == [kind |-> kind, cost |-> cost, upto |-> upto]
Frames == [kind: Kinds, cost: Nat, upto: Nat]

VARIABLES
  \* How the two ends were set up, fixed from the start.
  peer,        \* "unwindowed", "early" or "windowed": what the sender knows
  delegator,   \* "sender" or "receiver": the end that passed the descriptor
  \* The sending end.
  spc,         \* its reading pump
  shand,       \* the frame that pump is queueing
  ended,       \* the pump read the source's end of file
  debited,     \* cost charged so far (auxiliary total)
  available,   \* Progress.available
  received,    \* grants taken so far (auxiliary total)
  sHello,      \* Flow.peer_windowed at the sending end
  sClosed,     \* Flow.closed there: its reader task is gone
  sDropped,    \* its MuxTransport was dropped
  sq,          \* frames queued for its writer task
  sWriter,     \* that writer task runs
  \* The channel.
  link,        \* "up", "shut" by an end that finished, or "lost"
  wire, back,  \* frames in flight towards the receiving and the sending end
  \* The receiving end's driver tasks.
  rHello, rpc, rhand,
  arrived,     \* cost read off the channel (auxiliary total)
  rDropped, rq, rWriter, owed,
  issued,      \* grants put in rq (auxiliary total)
  written,     \* grants put on the channel (auxiliary total)
  \* The stream's sink and the pump that owns it.
  registered,  \* the id is in StreamMap
  rxOpen,      \* the pump holds its UnboundedReceiver
  queue,       \* messages in it
  queued,      \* QueueDepth.queued
  depthClosed, \* QueueDepth.closed
  wpc, whand,
  ungranted,   \* StreamSink.ungranted
  wgrant,      \* the grant the pump is queueing
  consumed,    \* cost whose payload the holder was given (auxiliary total)
  eof,         \* the holder was shown end of file
  holderGone   \* the holder closed the descriptor

setup    == <<peer, delegator>>
sPump    == <<spc, shand, ended, debited>>
sCredit  == <<available, received, sHello, sClosed>>
sEnd     == <<sDropped, sq, sWriter>>
channel  == <<link, wire, back>>
rReader  == <<rHello, rpc, rhand, arrived>>
rOut     == <<rq, rWriter, issued>>
rOwed    == <<owed, written>>
sinkVars == <<registered, rxOpen, queue, queued, depthClosed>>
wPump    == <<wpc, whand, ungranted, wgrant, consumed, eof>>
vars == <<setup, sPump, sCredit, sEnd, channel, rReader, rDropped, rOut, rOwed,
          sinkVars, wPump, holderGone>>

Empty(seq) == seq = <<>>
Up == link = "up"

-----------------------------------------------------------------------------
(* The stream once its Fds frame is behind it. An end that materializes the *)
(* stream has read the other end's Hello, which goes first on the channel;  *)
(* the delegating end may not have yet.                                     *)
Init ==
  /\ peer \in {"unwindowed", "early", "windowed"}
  /\ delegator \in {"sender", "receiver"}
  /\ peer = "early" => delegator = "sender"
  /\ spc = "ready" /\ shand = <<>> /\ ended = FALSE /\ debited = 0
  /\ sHello = (peer = "windowed")
  /\ available = IF sHello THEN Window ELSE 0
  /\ received = 0 /\ sClosed = FALSE /\ sDropped = FALSE
  /\ sq = <<>> /\ sWriter = TRUE
  /\ link = "up"
  /\ rHello \in IF delegator = "sender" THEN {peer # "unwindowed"}
                ELSE {FALSE, peer # "unwindowed"}
  /\ wire = IF peer # "unwindowed" /\ ~rHello THEN <<Frame("hello", 0, 0)>> ELSE <<>>
  /\ back = IF peer = "early" THEN <<Frame("hello", 0, 0)>> ELSE <<>>
  /\ rpc = "frame" /\ rhand = <<>> /\ arrived = 0
  /\ rDropped = FALSE /\ rq = <<>> /\ rWriter = TRUE
  /\ issued = 0 /\ owed = 0 /\ written = 0
  /\ registered = TRUE /\ rxOpen = TRUE /\ queue = <<>> /\ queued = 0
  /\ depthClosed = FALSE
  /\ wpc = "recv" /\ whand = <<>> /\ ungranted = 0 /\ wgrant = 0 /\ consumed = 0
  /\ eof = FALSE /\ holderGone = FALSE

-----------------------------------------------------------------------------
(* The sending end: spawn_blocking_reader or async_reader, writer_task, and  *)
(* the reader_task that brings its grants.                                   *)

\* Outbound::ready returns.
SReady ==
  /\ spc = "ready"
  /\ spc' = IF sClosed THEN "done" ELSE "read"
  /\ sClosed \/ ~sHello \/ available > 0
  /\ UNCHANGED <<setup, shand, ended, debited, sCredit, sEnd, channel, rReader,
                 rDropped, rOut, rOwed, sinkVars, wPump, holderGone>>

\* One read and its debit: the frame is charged before it is queued.
SRead(cost) ==
  /\ spc = "read"
  /\ debited + cost <= Total
  /\ shand' = <<Frame("data", cost, debited + cost)>>
  /\ debited' = debited + cost
  /\ available' = available - cost
  /\ spc' = "send"
  /\ UNCHANGED <<setup, ended, received, sHello, sClosed, sEnd, channel, rReader,
                 rDropped, rOut, rOwed, sinkVars, wPump, holderGone>>

\* End of file at the source, or a read error of a blocking pump. A read that
\* would block or is interrupted is tried again, which changes nothing.
SEof ==
  /\ spc = "read"
  /\ shand' = <<Frame("close", 0, debited)>>
  /\ ended' = TRUE
  /\ spc' = "send"
  /\ UNCHANGED <<setup, debited, sCredit, sEnd, channel, rReader, rDropped, rOut,
                 rOwed, sinkVars, wPump, holderGone>>

\* frame_tx.send completes: room in the queue, or no writer task any more.
SSend ==
  /\ spc = "send"
  /\ \/ /\ sWriter /\ Len(sq) < Depth
        /\ sq' = sq \o shand
        /\ spc' = IF ended THEN "done" ELSE "ready"
     \/ /\ ~sWriter
        /\ spc' = "done"
        /\ UNCHANGED sq
  /\ shand' = <<>>
  /\ UNCHANGED <<setup, ended, debited, sCredit, sDropped, sWriter, channel,
                 rReader, rDropped, rOut, rOwed, sinkVars, wPump, holderGone>>

\* The cancel pipe fires, which only the blocking pump polls.
SCancelled ==
  /\ spc = "read" /\ sDropped /\ delegator = "sender"
  /\ spc' = "done"
  /\ UNCHANGED <<setup, shand, ended, debited, sCredit, sEnd, channel, rReader,
                 rDropped, rOut, rOwed, sinkVars, wPump, holderGone>>

\* A read error of the asynchronous pump, which breaks without a StreamClose.
SReadFails ==
  /\ spc = "read" /\ delegator = "receiver"
  /\ spc' = "done"
  /\ UNCHANGED <<setup, shand, ended, debited, sCredit, sEnd, channel, rReader,
                 rDropped, rOut, rOwed, sinkVars, wPump, holderGone>>

\* writer_task puts the next frame on the channel, or returns on an error.
SWriter ==
  /\ sWriter /\ ~Empty(sq)
  /\ \/ /\ Up /\ Len(wire) < Wire
        /\ wire' = Append(wire, Head(sq))
        /\ sq' = Tail(sq)
        /\ UNCHANGED sWriter
     \/ /\ ~Up
        /\ sq' = <<>> /\ sWriter' = FALSE
        /\ UNCHANGED wire
  /\ UNCHANGED <<setup, sPump, sCredit, sDropped, link, back, rReader, rDropped,
                 rOut, rOwed, sinkVars, wPump, holderGone>>

\* reader_task reads the next frame that comes back for the stream.
STakes ==
  /\ ~sClosed /\ ~Empty(back)
  /\ received' = Head(back).upto
  /\ back' = Tail(back)

\* Flow::take_hello: the window is added to what a stream opened before has
\* left, and counts once. A pump that is done has left the map.
STakesHello ==
  /\ STakes /\ Head(back).kind = "hello"
  /\ sHello' = TRUE
  /\ available' = IF sHello \/ spc = "done" THEN available ELSE available + Window
  /\ UNCHANGED <<setup, sPump, sClosed, sEnd, link, wire, rReader, rDropped, rOut,
                 rOwed, sinkVars, wPump, holderGone>>

\* Flow::grant.
STakesWindow ==
  /\ STakes /\ Head(back).kind = "window"
  /\ available' = IF spc = "done" THEN available ELSE available + Head(back).cost
  /\ UNCHANGED <<setup, sPump, sHello, sClosed, sEnd, link, wire, rReader, rDropped,
                 rOut, rOwed, sinkVars, wPump, holderGone>>

\* reader_task finds the channel ended: Flow::close.
SReaderEnds ==
  /\ ~sClosed /\ ~Up /\ Empty(back)
  /\ sClosed' = TRUE
  /\ UNCHANGED <<setup, sPump, available, received, sHello, sEnd, channel, rReader,
                 rDropped, rOut, rOwed, sinkVars, wPump, holderGone>>

\* The transport is dropped: the reader is aborted and the flow closed.
SDrop ==
  /\ ~sDropped
  /\ sDropped' = TRUE /\ sClosed' = TRUE
  /\ UNCHANGED <<setup, sPump, available, received, sHello, sq, sWriter, channel,
                 rReader, rDropped, rOut, rOwed, sinkVars, wPump, holderGone>>

\* Mutant: the writer leaves without draining its queue.
SShutdown_NoDrain ==
  /\ sDropped /\ spc = "done" /\ sWriter
  /\ sWriter' = FALSE
  /\ link' = IF Up THEN "shut" ELSE link
  /\ UNCHANGED <<setup, sPump, sCredit, sDropped, sq, wire, back, rReader,
                 rDropped, rOut, rOwed, sinkVars, wPump, holderGone>>

\* Nobody holds frame_tx any more: writer_task drains, shuts down and returns,
\* which drops the last half of the channel.
SShutdown ==
  /\ sDropped /\ spc = "done" /\ sWriter /\ Empty(sq)
  /\ sWriter' = FALSE
  /\ link' = IF Up THEN "shut" ELSE link
  /\ UNCHANGED <<setup, sPump, sCredit, sDropped, sq, wire, back, rReader,
                 rDropped, rOut, rOwed, sinkVars, wPump, holderGone>>

-----------------------------------------------------------------------------
(* The receiving end's reader_task.                                          *)

\* read_frame yields the next frame of the channel.
RTakes ==
  /\ rpc = "frame" /\ ~Empty(wire)
  /\ wire' = Tail(wire)
  /\ arrived' = Head(wire).upto

\* The peer's Hello.
RHello ==
  /\ RTakes /\ Head(wire).kind = "hello"
  /\ rHello' = TRUE
  /\ UNCHANGED <<setup, sPump, sCredit, sEnd, link, back, rpc, rhand, rDropped,
                 rOut, rOwed, sinkVars, wPump, holderGone>>

\* Mutant: what is discarded is not owed.
Owe_Nothing(cost) == UNCHANGED owed

\* Flow::owe, for a peer that waits for credit.
Owe(cost) == owed' = IF rHello THEN owed + cost ELSE owed

\* A stream frame: the sink is looked up, and without one its cost is owed.
RData ==
  /\ RTakes /\ Head(wire).kind = "data"
  /\ IF registered
       THEN /\ rpc' = "room" /\ rhand' = <<Head(wire)>>
            /\ UNCHANGED owed
       ELSE /\ Owe(Head(wire).cost)
            /\ UNCHANGED <<rpc, rhand>>
  /\ UNCHANGED <<setup, sPump, sCredit, sEnd, link, back, rHello, rDropped, rOut,
                 written, sinkVars, wPump, holderGone>>

\* Mutant: the reader never waits for room.
HasRoom_Always(cost) == TRUE

\* wait_for_room returns.
HasRoom(cost) == queued = 0 \/ queued + cost <= QueueLimit \/ depthClosed

\* Mutant: only the payload is counted.
RRoom_PayloadOnly ==
  /\ rpc = "room" /\ HasRoom(Head(rhand).cost)
  /\ queued' = queued + Head(rhand).cost - Header
  /\ rpc' = "send"
  /\ UNCHANGED <<setup, sPump, sCredit, sEnd, channel, rHello, rhand, arrived,
                 rDropped, rOut, rOwed, registered, rxOpen, queue, depthClosed,
                 wPump, holderGone>>

\* The frame is counted, before it is sent.
RRoom ==
  /\ rpc = "room" /\ HasRoom(Head(rhand).cost)
  /\ queued' = queued + Head(rhand).cost
  /\ rpc' = "send"
  /\ UNCHANGED <<setup, sPump, sCredit, sEnd, channel, rHello, rhand, arrived,
                 rDropped, rOut, rOwed, registered, rxOpen, queue, depthClosed,
                 wPump, holderGone>>

\* tx.send: the frame is queued, or owed when the pump is gone.
RSend ==
  /\ rpc = "send"
  /\ queue' = IF rxOpen THEN queue \o rhand ELSE queue
  /\ IF rxOpen THEN UNCHANGED owed ELSE Owe(Head(rhand).cost)
  /\ rhand' = <<>>
  /\ rpc' = "frame"
  /\ UNCHANGED <<setup, sPump, sCredit, sEnd, channel, rHello, arrived, rDropped,
                 rOut, written, registered, rxOpen, queued, depthClosed, wPump,
                 holderGone>>

\* Mutant: the close goes ahead of the data in the queue.
RClose_Overtakes ==
  /\ RTakes /\ Head(wire).kind = "close"
  /\ registered' = FALSE
  /\ queue' = IF registered /\ rxOpen THEN <<Head(wire)>> \o queue ELSE queue
  /\ UNCHANGED <<setup, sPump, sCredit, sEnd, link, back, rHello, rpc, rhand,
                 rDropped, rOut, rOwed, rxOpen, queued, depthClosed, wPump,
                 holderGone>>

\* StreamClose unregisters the sink and queues the close behind the data.
RClose ==
  /\ RTakes /\ Head(wire).kind = "close"
  /\ registered' = FALSE
  /\ queue' = IF registered /\ rxOpen THEN Append(queue, Head(wire)) ELSE queue
  /\ UNCHANGED <<setup, sPump, sCredit, sEnd, link, back, rHello, rpc, rhand,
                 rDropped, rOut, rOwed, rxOpen, queued, depthClosed, wPump,
                 holderGone>>

\* The channel ended. The sinks stay in the map, which the transport holds.
REnds ==
  /\ rpc = "frame" /\ ~Up /\ Empty(wire)
  /\ rpc' = "ended"
  /\ UNCHANGED <<setup, sPump, sCredit, sEnd, channel, rHello, rhand, arrived,
                 rDropped, rOut, rOwed, sinkVars, wPump, holderGone>>

\* The transport is dropped, which asks the reader to stop.
RDrop ==
  /\ ~rDropped
  /\ rDropped' = TRUE
  /\ UNCHANGED <<setup, sPump, sCredit, sEnd, channel, rReader, rOut, rOwed,
                 sinkVars, wPump, holderGone>>

\* Mutant: the drop does not abort the reader.
RAborted_Never == FALSE

\* It stops where it next waits, so not between counting a frame and sending it.
RAborted ==
  /\ rDropped /\ rpc \in {"frame", "room"}
  /\ rpc' = "ended" /\ rhand' = <<>>
  /\ UNCHANGED <<setup, sPump, sCredit, sEnd, channel, rHello, arrived, rDropped,
                 rOut, rOwed, sinkVars, wPump, holderGone>>

-----------------------------------------------------------------------------
(* The pump that owns the sink: spawn_blocking_writer or async_writer.       *)

\* A frame to write out.
WRecv ==
  /\ wpc = "recv" /\ ~Empty(queue) /\ Head(queue).kind = "data"
  /\ whand' = <<Head(queue)>>
  /\ queue' = Tail(queue)
  /\ wpc' = "write"
  /\ UNCHANGED <<setup, sPump, sCredit, sEnd, channel, rReader, rDropped, rOut,
                 rOwed, registered, rxOpen, queued, depthClosed, ungranted,
                 wgrant, consumed, eof, holderGone>>

\* The pump returns: its receiver goes, and StreamSink::drop unregisters.
WReturns ==
  /\ wpc' = "done"
  /\ rxOpen' = FALSE /\ queue' = <<>>
  /\ registered' = FALSE /\ depthClosed' = TRUE

\* The peer's close: the holder is shown end of file.
WClose ==
  /\ wpc = "recv" /\ ~Empty(queue) /\ Head(queue).kind = "close"
  /\ eof' = TRUE
  /\ WReturns
  /\ UNCHANGED <<setup, sPump, sCredit, sEnd, channel, rReader, rDropped, rOut,
                 rOwed, queued, whand, ungranted, wgrant, consumed, holderGone>>

\* Mutant: the sink holds the map, and with it the queue's sender.
MapGone_Never == FALSE

\* StreamMap goes with the transport and its reader; the sink's hold is weak.
MapGone == rDropped /\ rpc = "ended"

\* The queue closed under the pump. Dropping the descriptor shows the holder
\* end of file.
WQueueClosed ==
  /\ wpc = "recv" /\ Empty(queue) /\ MapGone
  /\ eof' = TRUE
  /\ WReturns
  /\ UNCHANGED <<setup, sPump, sCredit, sEnd, channel, rReader, rDropped, rOut,
                 rOwed, queued, whand, ungranted, wgrant, consumed, holderGone>>

\* Mutant: a grant waits for its share even when nothing is left to consume.
GrantDue_NoIdle(cost) == ungranted + cost >= Window \div Share

\* StreamSink::consumed: a grant is due at a share of the window, and
\* whenever the queue is empty.
GrantDue(cost) == ungranted + cost >= Window \div Share \/ Empty(queue)

\* The frame is written out and its cost leaves the queue.
WWrite ==
  /\ wpc = "write" /\ ~holderGone
  /\ LET cost == Head(whand).cost IN
       /\ consumed' = Head(whand).upto
       /\ queued' = queued - cost
       /\ \/ /\ rHello /\ GrantDue(cost)
             /\ wgrant' = ungranted + cost /\ ungranted' = 0
             /\ wpc' = "grant"
          \/ /\ rHello /\ ~GrantDue(cost)
             /\ ungranted' = ungranted + cost
             /\ wpc' = "recv" /\ UNCHANGED wgrant
          \/ /\ ~rHello
             /\ wpc' = "recv" /\ UNCHANGED <<wgrant, ungranted>>
  /\ whand' = <<>>
  /\ UNCHANGED <<setup, sPump, sCredit, sEnd, channel, rReader, rDropped, rOut,
                 rOwed, registered, rxOpen, queue, depthClosed, eof, holderGone>>

\* frame_tx.send of a grant completes; without a writer task it is lost.
WGrant ==
  /\ wpc \in {"grant", "last"}
  /\ \/ /\ rWriter /\ Len(rq) < Depth
        /\ rq' = Append(rq, Frame("window", wgrant, issued + wgrant))
        /\ issued' = issued + wgrant
     \/ ~rWriter /\ UNCHANGED <<rq, issued>>
  /\ wgrant' = 0
  /\ wpc' = IF wpc = "grant" THEN "recv" ELSE "done"
  /\ UNCHANGED <<setup, sPump, sCredit, sEnd, channel, rReader, rDropped, rWriter,
                 rOwed, sinkVars, whand, ungranted, consumed, eof, holderGone>>

\* The holder closed the descriptor, and the pump's write fails or, if it is
\* an async_writer, it is told while it waits. StreamSink::abandon drops the
\* receiver.
WAbandons ==
  /\ holderGone
  /\ wpc = "write" \/ (wpc = "recv" /\ delegator = "sender")
  /\ rxOpen' = FALSE /\ queue' = <<>> /\ whand' = <<>>
  /\ wpc' = "load"
  /\ UNCHANGED <<setup, sPump, sCredit, sEnd, channel, rReader, rDropped, rOut,
                 rOwed, registered, queued, depthClosed, ungranted, wgrant,
                 consumed, eof, holderGone>>

\* Mutant: what the queue still held is forgotten.
WLoads_Ungranted ==
  /\ wpc = "load"
  /\ wgrant' = ungranted
  /\ ungranted' = 0
  /\ wpc' = "drop"
  /\ UNCHANGED <<setup, sPump, sCredit, sEnd, channel, rReader, rDropped, rOut,
                 rOwed, sinkVars, whand, consumed, eof, holderGone>>

\* It reads how much credit the stream holds.
WLoads ==
  /\ wpc = "load"
  /\ wgrant' = ungranted + queued
  /\ ungranted' = 0
  /\ wpc' = "drop"
  /\ UNCHANGED <<setup, sPump, sCredit, sEnd, channel, rReader, rDropped, rOut,
                 rOwed, sinkVars, whand, consumed, eof, holderGone>>

\* It drops the sink, and grants what it read to a windowed peer.
WDrops ==
  /\ wpc = "drop"
  /\ registered' = FALSE /\ depthClosed' = TRUE
  /\ \/ rHello /\ wpc' = "last" /\ UNCHANGED wgrant
     \/ ~rHello /\ wpc' = "done" /\ wgrant' = 0
  /\ UNCHANGED <<setup, sPump, sCredit, sEnd, channel, rReader, rDropped, rOut,
                 rOwed, rxOpen, queue, queued, whand, ungranted, consumed, eof,
                 holderGone>>

-----------------------------------------------------------------------------
(* The receiving end's writer_task.                                          *)

\* What is owed goes first.
RFlushOwed ==
  /\ rWriter /\ Up /\ owed > 0 /\ Len(back) < Wire
  /\ back' = Append(back, Frame("window", owed, written + owed))
  /\ written' = written + owed
  /\ owed' = 0
  /\ UNCHANGED <<setup, sPump, sCredit, sEnd, link, wire, rReader, rDropped, rOut,
                 sinkVars, wPump, holderGone>>

RWriter ==
  /\ rWriter /\ Up /\ owed = 0 /\ ~Empty(rq) /\ Len(back) < Wire
  /\ written' = written + Head(rq).cost
  /\ back' = Append(back, Frame("window", Head(rq).cost, written'))
  /\ rq' = Tail(rq)
  /\ UNCHANGED <<setup, sPump, sCredit, sEnd, link, wire, rReader, rDropped,
                 rWriter, issued, owed, sinkVars, wPump, holderGone>>

RWriterFails ==
  /\ rWriter /\ ~Up /\ (owed > 0 \/ ~Empty(rq))
  /\ rWriter' = FALSE /\ rq' = <<>> /\ owed' = 0
  /\ UNCHANGED <<setup, sPump, sCredit, sEnd, channel, rReader, rDropped, issued,
                 written, sinkVars, wPump, holderGone>>

\* Nobody holds frame_tx any more.
RShutdown ==
  /\ rDropped /\ rpc = "ended" /\ wpc = "done"
  /\ rWriter /\ Empty(rq) /\ owed = 0
  /\ rWriter' = FALSE
  /\ link' = IF Up THEN "shut" ELSE link
  /\ UNCHANGED <<setup, sPump, sCredit, sEnd, wire, back, rReader, rDropped, rq,
                 issued, rOwed, sinkVars, wPump, holderGone>>

-----------------------------------------------------------------------------
(* The environment: who holds the written descriptor, and the channel.       *)

HolderCloses ==
  /\ ~holderGone
  /\ holderGone' = TRUE
  /\ UNCHANGED <<setup, sPump, sCredit, sEnd, channel, rReader, rDropped, rOut,
                 rOwed, sinkVars, wPump, eof>>

\* The channel fails, and may lose the last frames in flight each way.
ChannelEnds ==
  /\ link # "lost"
  /\ link' = "lost"
  /\ \E n \in 0..Len(wire), m \in 0..Len(back) :
       wire' = SubSeq(wire, 1, n) /\ back' = SubSeq(back, 1, m)
  /\ UNCHANGED <<setup, sPump, sCredit, sEnd, rReader, rDropped, rOut, rOwed,
                 sinkVars, wPump, holderGone>>

\* Both transports are dropped and every task has returned.
Terminated ==
  /\ sDropped /\ rDropped /\ spc = "done" /\ wpc = "done" /\ rpc = "ended" /\ ~Up
  /\ UNCHANGED vars

-----------------------------------------------------------------------------
Costs == Header + 1 .. Header + PumpBuf

SenderEnd ==
  \/ SReady \/ (\E cost \in Costs : SRead(cost)) \/ SEof \/ SSend \/ SCancelled
  \/ SReadFails \/ SWriter \/ STakesHello \/ STakesWindow \/ SReaderEnds \/ SDrop
  \/ SShutdown

ReaderTask == RHello \/ RData \/ RRoom \/ RSend \/ RClose \/ REnds \/ RDrop
              \/ RAborted

WritePump ==
  \/ WRecv \/ WClose \/ WQueueClosed \/ WWrite \/ WGrant \/ WAbandons \/ WLoads
  \/ WDrops

WriterTask == RFlushOwed \/ RWriter \/ RWriterFails \/ RShutdown

Next == SenderEnd \/ ReaderTask \/ WritePump \/ WriterTask
        \/ HolderCloses \/ ChannelEnds \/ Terminated

Spec == Init /\ [][Next]_vars

-----------------------------------------------------------------------------
SenderOK ==
  /\ spc \in {"ready", "read", "send", "done"}
  /\ shand \in Seq(Frames) /\ ended \in BOOLEAN /\ debited \in Nat
  /\ available \in Int /\ received \in Nat
  /\ sHello \in BOOLEAN /\ sClosed \in BOOLEAN
  /\ sDropped \in BOOLEAN /\ sq \in Seq(Frames) /\ sWriter \in BOOLEAN

ChannelOK ==
  /\ peer \in {"unwindowed", "early", "windowed"}
  /\ delegator \in {"sender", "receiver"}
  /\ link \in {"up", "shut", "lost"} /\ wire \in Seq(Frames) /\ back \in Seq(Frames)
  /\ holderGone \in BOOLEAN

DriversOK ==
  /\ rHello \in BOOLEAN /\ rpc \in {"frame", "room", "send", "ended"}
  /\ rhand \in Seq(Frames) /\ arrived \in Nat /\ rDropped \in BOOLEAN
  /\ rq \in Seq(Frames) /\ rWriter \in BOOLEAN /\ issued \in Nat
  /\ owed \in Nat /\ written \in Nat

\* QueueDepth.queued is unsigned: it must never be taken below zero.
SinkOK ==
  /\ registered \in BOOLEAN /\ rxOpen \in BOOLEAN /\ depthClosed \in BOOLEAN
  /\ queue \in Seq(Frames) /\ queued \in Nat
  /\ wpc \in {"recv", "write", "grant", "load", "drop", "last", "done"}
  /\ whand \in Seq(Frames)
  /\ ungranted \in Nat /\ wgrant \in Nat /\ consumed \in Nat /\ eof \in BOOLEAN

\* The state's shape, with a counter of queued bytes that never wraps: a frame
\* is counted before the pump can see it and taken off once (mux.rs, QueueDepth).
TypeOK == SenderOK /\ ChannelOK /\ DriversOK /\ SinkOK

\* The cost of the frames of a sequence, from their running totals.
Sum(seq) ==
  IF Empty(seq) THEN 0 ELSE seq[Len(seq)].upto - seq[1].upto + seq[1].cost

\* Both transports are in use and the channel works, so no frame is lost.
Linked == Up /\ ~sClosed /\ ~rDropped

\* Where a window's credit is: with the sender, with the data it was spent on,
\* with the receiving pump, or on its way back.
AtReader == IF rpc = "room" \/ ~rxOpen THEN Sum(rhand) ELSE 0
InFlight == Sum(shand) + Sum(sq) + Sum(wire) + AtReader
AtPump ==
  IF wpc \in {"drop", "last", "done"} THEN wgrant ELSE ungranted + queued + wgrant
Returning == Sum(rq) + Sum(back) + owed
Credit == (IF sHello THEN 0 ELSE Window) + available + InFlight + AtPump + Returning

\* No credit is made or lost while the receiving pump has the stream, whatever
\* the two ends' tasks do between a debit and its grant; and none is lost after
\* the pump abandons it, by the grant of what it held (StreamSink::abandon) and
\* by what the reader owes for data that finds no pump (Flow::owe).
CreditConserved ==
  peer # "unwindowed" /\ Linked /\ spc # "done" =>
    IF rxOpen THEN Credit = Window ELSE Credit >= Window

\* Flow::queue_limit: what waits for the pump stays within the window plus one
\* frame, even from a sender that was never told of the window.
BacklogBounded == Sum(whand) + Sum(queue) <= QueueLimit

\* The comment on Flow::queue_limit: only a peer without windowing, or one that
\* sent before this end's Hello reached it, makes the reader wait. That holds
\* while the pump has the stream; an abandoned frame can be granted twice.
ReaderNeverWaits ==
  peer = "windowed" /\ rxOpen /\ rpc = "room" => HasRoom(Head(rhand).cost)

\* Nothing of the stream is on its way anywhere.
Quiet ==
  /\ Empty(shand) /\ Empty(sq) /\ Empty(wire) /\ Empty(rhand) /\ Empty(queue)
  /\ Empty(whand) /\ Empty(rq) /\ Empty(back)
  /\ owed = 0 /\ wpc \in {"recv", "done"}

\* A stream that falls silent has its whole window back, so a sender is never
\* left waiting on a remainder (StreamSink::consumed, `idle`), nor on what was
\* queued when the holder closed.
WholeWindowReturns ==
  peer # "unwindowed" /\ Linked /\ spc # "done" /\ Quiet => available >= Window

-----------------------------------------------------------------------------
(* What the stream stands for is the descriptor it replaces: a first-in      *)
(* first-out pipe. What is in the pipe is what can still reach the holder.   *)

\* The items of a sequence of frames: those that carry data, by their tags.
Item(frame) == IF frame.kind = "data" THEN <<frame.upto>> ELSE <<>>
Tags(seq) ==
  LET upto[i \in 0..Len(seq)] == IF i = 0 THEN <<>> ELSE upto[i - 1] \o Item(seq[i])
  IN  upto[Len(seq)]

AtHolder == Tags(whand) \o Tags(queue)
AtReaderTask == Tags(rhand) \o Tags(wire)
AtSource == Tags(sq) \o Tags(shand)

InPipe ==
  IF holderGone THEN <<>>
  ELSE AtHolder \o (IF rpc = "ended" THEN <<>>
                    ELSE AtReaderTask \o (IF Up THEN AtSource ELSE <<>>))

P == INSTANCE Pipe WITH
       Items  <- 1..Total,
       buf    <- InPipe,
       got    <- consumed,
       closed <- ended,
       eof    <- eof,
       broken <- holderGone \/ rDropped \/ link = "lost"

\* The holder is given exactly what the source gave, in order, and is shown end
\* of file only behind all of it, unless it or the link is gone.
IsPipe == P!Spec

-----------------------------------------------------------------------------
(* Every task takes the steps it can. The two readers are never held up by   *)
(* the rest of the transport here, and whoever holds the written descriptor  *)
(* goes on reading it or closes it. Nothing makes the source produce data.   *)
Fairness ==
  /\ WF_vars(SReady \/ SSend \/ SCancelled)
  /\ WF_vars(SWriter \/ SShutdown)
  /\ WF_vars(STakesHello \/ STakesWindow \/ SReaderEnds)
  /\ WF_vars(RHello \/ RData \/ RRoom \/ RSend \/ RClose \/ REnds \/ RAborted)
  /\ WF_vars(WritePump)
  /\ WF_vars(WriterTask)

FairSpec == Spec /\ Fairness

\* A stream the source has ended is ended at the holder too, and its last bytes
\* survive the drop of the sending transport, unless the link fails, the holder
\* closes or the receiving transport is dropped.
EofDelivered ==
  ended ~> eof \/ holderGone \/ rDropped \/ link = "lost"

\* A sender that waits for credit is released: by a grant, also from a pump that
\* abandoned the stream, or by the end of the transport (Flow::close).
SenderReleased == spc = "ready" ~> spc # "ready"

\* The pump that writes stops once its transport is dropped, because the map
\* that holds its queue is weak in the sink (StreamSink's comment). If the
\* other transport is dropped too, nobody may take its last grant.
PumpStops == rDropped ~> wpc = "done" \/ sDropped

\* Dropping the receiving transport closes the channel, while the other end
\* still takes what the writer has left to put on it.
ReceiverDropCloses == rDropped ~> ~Up \/ sDropped

\* tests/mux_close.rs:1-2: dropping a multiplexing transport must close the
\* channel under it, or a peer in a long-lived process waits on it forever.
SenderDropCloses == sDropped ~> ~Up \/ rDropped
=============================================================================
