----------------------------- MODULE MuxSession -----------------------------
(***************************************************************************)
(* A session over a MuxTransport from the start of the program to the       *)
(* client's outcome: the daemon that waits for the program and reports its  *)
(* exit behind its output, the outputs that share one channel with the      *)
(* control messages, and the client that shows the one and waits for the    *)
(* other (crates/capsudo-core/src/{daemon,pty,client}.rs over               *)
(* crates/capsudo-transport/src/mux.rs).                                    *)
(*                                                                         *)
(*   program -> [pty -> relay ->] stand-in -> [pump] \                      *)
(*                              main loop -> Exit ---> dq -> wire -> client *)
(*   main loop <- ctrl <- [reader] <- back <- cq <- resizes, grants         *)
(*                                                                         *)
(* Both ends speak windowing, so the client's reader never waits for room   *)
(* (MuxStream proves it); every frame is large enough for a grant of its    *)
(* own. Data is counted, by the daemon relative to the barrier that waits   *)
(* for it, so that a holder may go on writing for ever.                     *)
(***************************************************************************)
EXTENDS Integers, Sequences

CONSTANTS
  Streams,   \* the outputs the client delegated: its stdout and its stderr
  Terminal,  \* the one of them that shows the pty of an interactive session
  Window,    \* what the client grants each of them (STREAM_WINDOW)
  PumpBuf,   \* PUMP_BUF
  Sock,      \* what the socket of a stand-in holds
  Pty,       \* what the pty holds
  Depth,     \* CHANNEL_DEPTH, of the frame queues and of the control queue
  Wire,      \* frames the channel holds in each direction
  Resizes    \* bound on the resizes of the client's terminal

ASSUME SessionAssumption ==
  /\ Terminal \in Streams
  /\ \A size \in {Window, PumpBuf, Sock, Pty, Depth, Wire} : size \in Nat \ {0}
  /\ Resizes \in Nat

VARIABLES
  mode,      \* "pty" (interactive) or "direct", fixed from the start
  \* The program.
  prog,      \* "runs" or "exited"
  leftover,  \* a process it started still holds its outputs, or the slave of its pty
  early,     \* by output: written by the program, still to come to the client (auxiliary)
  \* The daemon's session.
  main,      \* "run", "kill", "stuck", "join", "barrier", "done", or "failed"
             \* without an Exit
  pty, relay,\* what waits in the pty, and the thread that shows it
  ctrl,      \* control messages that wait for recv
  pending,   \* streams the barrier has yet to look at
  awaited,   \* the one it waits for, if any
  left,      \* what of its target is not queued yet
  \* The daemon's end of each output.
  sock,      \* unread in the stand-in
  pump, hand,\* async_reader, and the size of the frame it is queueing
  credit,    \* Progress.available
  \* The daemon's driver tasks, and the channel.
  dq, dWriter, drpc,
  link, wire, back,
  \* The client.
  inbox,     \* by output: frames that wait for its pump, a close as size 0
  queued,    \* QueueDepth.queued: what these frames cost
  vpc, due,  \* spawn_blocking_writer, and the grant it is queueing
  gone,      \* who holds the client's descriptor closed it
  owed, cq, cWriter, cEnded,
  exitIn,    \* the Exit waits for recv
  outcome,   \* "none", "exited" or "closed": what run_session returned
  resizes

program == <<mode, prog, leftover>>
daemon  == <<main, pending, awaited>>
term    == <<pty, relay>>
pumps   == <<pump, hand>>
channel == <<link, wire, back>>
viewer  == <<inbox, queued, vpc, due>>
cOut    == <<cq, cWriter>>
client  == <<cEnded, exitIn, outcome>>
vars == <<program, early, daemon, term, ctrl, left, sock, pumps, credit, dq,
          dWriter, drpc, channel, viewer, gone, owed, cOut, client, resizes>>

Up == link = "up"
Over == main \in {"done", "failed"}
DataFrame(s, size) == [kind |-> "data", stream |-> s, size |-> size]
CloseFrame(s)      == [kind |-> "close", stream |-> s, size |-> 0]
WindowFrame(s, size) == [kind |-> "window", stream |-> s, size |-> size]
ExitFrame    == [kind |-> "exit"]
WinsizeFrame == [kind |-> "winsize"]

-----------------------------------------------------------------------------
(* The program was started, on a pty or on the stand-ins themselves.         *)
Init ==
  /\ mode \in {"pty", "direct"}
  /\ prog = "runs" /\ leftover = FALSE /\ early = [s \in Streams |-> 0]
  /\ main = "run" /\ pty = 0 /\ ctrl = 0
  /\ relay = IF mode = "pty" THEN "runs" ELSE "ended"
  /\ pending = {} /\ awaited = {} /\ left = 0
  /\ sock = [s \in Streams |-> 0] /\ pump = [s \in Streams |-> "ready"]
  /\ hand = [s \in Streams |-> 0] /\ credit = [s \in Streams |-> Window]
  /\ dq = <<>> /\ dWriter = TRUE /\ drpc = "frame"
  /\ link = "up" /\ wire = <<>> /\ back = <<>>
  /\ inbox = [s \in Streams |-> <<>>] /\ queued = [s \in Streams |-> 0]
  /\ vpc = [s \in Streams |-> "recv"] /\ due = [s \in Streams |-> 0]
  /\ gone = [s \in Streams |-> FALSE]
  /\ owed = [s \in Streams |-> 0] /\ cq = <<>> /\ cWriter = TRUE
  /\ cEnded = FALSE /\ exitIn = FALSE /\ outcome = "none" /\ resizes = 0

-----------------------------------------------------------------------------
(* The program, and what it leaves behind.                                   *)

\* What the program writes is counted until the client has it. Once the channel
\* failed nothing of it need arrive.
Counts(s) ==
  early' = IF prog = "runs" /\ Up THEN [early EXCEPT ![s] = @ + 1] ELSE early

WritesToPty ==
  /\ mode = "pty" /\ (prog = "runs" \/ leftover) /\ pty < Pty
  /\ pty' = pty + 1
  /\ Counts(Terminal)
  /\ UNCHANGED <<program, daemon, relay, ctrl, left, sock, pumps, credit, dq,
                 dWriter, drpc, channel, viewer, gone, owed, cOut, client, resizes>>

WritesToSocket(s) ==
  /\ mode = "direct" /\ (prog = "runs" \/ leftover)
  /\ pump[s] # "done" /\ sock[s] < Sock
  /\ sock' = [sock EXCEPT ![s] = @ + 1]
  /\ Counts(s)
  /\ UNCHANGED <<program, daemon, term, ctrl, left, pumps, credit, dq, dWriter,
                 drpc, channel, viewer, gone, owed, cOut, client, resizes>>

\* The program exits. A process it started may keep its outputs, and in the
\* background of a pty the slave: the exit signals only the foreground.
ProgramExits ==
  /\ prog = "runs"
  /\ prog' = "exited" /\ leftover' \in BOOLEAN
  /\ UNCHANGED <<mode, early, daemon, term, ctrl, left, sock, pumps, credit, dq,
                 dWriter, drpc, channel, viewer, gone, owed, cOut, client, resizes>>

LeftoverEnds ==
  /\ leftover
  /\ leftover' = FALSE
  /\ UNCHANGED <<mode, prog, early, daemon, term, ctrl, left, sock, pumps, credit,
                 dq, dWriter, drpc, channel, viewer, gone, owed, cOut, client, resizes>>

-----------------------------------------------------------------------------
(* Bridge: the thread that copies the pty master to the client's terminal.   *)

RelayCopies ==
  /\ relay = "runs" /\ pty > 0
  /\ pump[Terminal] # "done" /\ sock[Terminal] < Sock
  /\ pty' = pty - 1
  /\ sock' = [sock EXCEPT ![Terminal] = @ + 1]
  /\ UNCHANGED <<program, early, daemon, relay, ctrl, left, pumps, credit, dq,
                 dWriter, drpc, channel, viewer, gone, owed, cOut, client, resizes>>

\* The master reports end of file once nobody has the slave, or the stand-in
\* takes no more.
RelayEnds ==
  /\ relay = "runs"
  /\ \/ prog = "exited" /\ ~leftover /\ pty = 0
     \/ pump[Terminal] = "done" /\ pty > 0
  /\ relay' = "ended" /\ pty' = 0
  /\ UNCHANGED <<program, early, daemon, ctrl, left, sock, pumps, credit, dq,
                 dWriter, drpc, channel, viewer, gone, owed, cOut, client, resizes>>

-----------------------------------------------------------------------------
(* The pump that reads a stand-in: async_reader.                             *)

\* The daemon's Flow.closed: its reader ended or its transport was dropped.
DClosed == drpc = "ended"

\* Mutant: nobody wakes a pump that waits for credit when the transport goes.
PumpReady_Deaf(s) ==
  /\ pump[s] = "ready"
  /\ credit[s] > 0
  /\ pump' = [pump EXCEPT ![s] = IF DClosed THEN "done" ELSE "read"]
  /\ UNCHANGED <<program, early, daemon, term, ctrl, left, sock, hand, credit, dq,
                 dWriter, drpc, channel, viewer, gone, owed, cOut, client, resizes>>

\* Outbound::ready returns.
PumpReady(s) ==
  /\ pump[s] = "ready"
  /\ DClosed \/ credit[s] > 0
  /\ pump' = [pump EXCEPT ![s] = IF DClosed THEN "done" ELSE "read"]
  /\ UNCHANGED <<program, early, daemon, term, ctrl, left, sock, hand, credit, dq,
                 dWriter, drpc, channel, viewer, gone, owed, cOut, client, resizes>>

\* Mutant: the frame is not charged.
PumpReads_Uncharged(s) ==
  /\ pump[s] = "read" /\ sock[s] > 0
  /\ LET size == IF sock[s] < PumpBuf THEN sock[s] ELSE PumpBuf IN
       /\ sock' = [sock EXCEPT ![s] = @ - size]
       /\ hand' = [hand EXCEPT ![s] = size]
  /\ pump' = [pump EXCEPT ![s] = "send"]
  /\ UNCHANGED <<program, early, daemon, term, ctrl, left, credit, dq, dWriter,
                 drpc, channel, viewer, gone, owed, cOut, client, resizes>>

\* Outbound::read and debit.
PumpReads(s) ==
  /\ pump[s] = "read" /\ sock[s] > 0
  /\ LET size == IF sock[s] < PumpBuf THEN sock[s] ELSE PumpBuf IN
       /\ sock' = [sock EXCEPT ![s] = @ - size]
       /\ hand' = [hand EXCEPT ![s] = size]
       /\ credit' = [credit EXCEPT ![s] = @ - size]
  /\ pump' = [pump EXCEPT ![s] = "send"]
  /\ UNCHANGED <<program, early, daemon, term, ctrl, left, dq, dWriter, drpc,
                 channel, viewer, gone, owed, cOut, client, resizes>>

\* Everyone closed the other end of the stand-in. The daemon's own copies go
\* with the relay, or with the Command and the descriptors the session holds.
OutputClosed(s) ==
  IF mode = "pty" /\ s = Terminal THEN relay = "ended"
  ELSE Over /\ (mode = "direct" => ~leftover)

PumpEof(s) ==
  /\ pump[s] = "read" /\ sock[s] = 0 /\ OutputClosed(s)
  /\ pump' = [pump EXCEPT ![s] = "send"]
  /\ UNCHANGED <<program, early, daemon, term, ctrl, left, sock, hand, credit, dq,
                 dWriter, drpc, channel, viewer, gone, owed, cOut, client, resizes>>

\* What a barrier that begins now waits for: read but not queued, and unread.
Backlog(s) == hand[s] + sock[s]

\* The frame is queued, and counted as sent; after a close the pump is done.
PumpSends(s) ==
  /\ pump[s] = "send"
  /\ \/ /\ dWriter /\ Len(dq) < Depth
        /\ dq' = Append(dq, IF hand[s] = 0 THEN CloseFrame(s)
                                           ELSE DataFrame(s, hand[s]))
        /\ pump' = [pump EXCEPT ![s] = IF hand[s] = 0 THEN "done" ELSE "ready"]
     \/ /\ ~dWriter
        /\ pump' = [pump EXCEPT ![s] = "done"]
        /\ UNCHANGED dq
  /\ hand' = [hand EXCEPT ![s] = 0]
  /\ left' = IF s \notin awaited THEN left
             ELSE IF hand[s] < left THEN left - hand[s] ELSE 0
  /\ UNCHANGED <<program, early, daemon, term, ctrl, sock, credit, dWriter, drpc,
                 channel, viewer, gone, owed, cOut, client, resizes>>

-----------------------------------------------------------------------------
(* The daemon's session: serve_connection once the program runs.             *)

\* winsize_loop takes a message. Only an interactive session reads while the
\* program runs.
MainRecv ==
  /\ mode = "pty" /\ main = "run" /\ ctrl > 0
  /\ ctrl' = ctrl - 1
  /\ UNCHANGED <<program, early, daemon, term, left, sock, pumps, credit, dq,
                 dWriter, drpc, channel, viewer, gone, owed, cOut, client, resizes>>

\* It finds the client gone, and kills the program.
MainHungUp ==
  /\ mode = "pty" /\ main = "run" /\ ctrl = 0 /\ DClosed
  /\ main' = "kill"
  /\ UNCHANGED <<program, early, pending, awaited, term, ctrl, left, sock, pumps,
                 credit, dq, dWriter, drpc, channel, viewer, gone, owed, cOut,
                 client, resizes>>

KillTakes ==
  /\ main = "kill" /\ prog = "runs"
  /\ prog' = "exited" /\ leftover' \in BOOLEAN
  /\ UNCHANGED <<mode, early, daemon, term, ctrl, left, sock, pumps,
                 credit, dq, dWriter, drpc, channel, viewer, gone, owed, cOut,
                 client, resizes>>

\* Flow::barrier begins: it looks at the streams there are.
BarrierBegins ==
  /\ main' = "barrier"
  /\ pending' = {s \in Streams : pump[s] # "done"}

\* Mutant: the bridge is stopped without waiting for the relay.
MainReaps_NoJoin ==
  /\ main \in {"run", "kill"} /\ prog = "exited"
  /\ BarrierBegins
  /\ UNCHANGED <<program, early, awaited, term, ctrl, left, sock, pumps, credit,
                 dq, dWriter, drpc, channel, viewer, gone, owed, cOut, client, resizes>>

\* child.wait returns. A bridge is stopped first, which waits for the thread that
\* copies the client's input even if that cannot be cancelled (PtyBridge says when).
MainReaps ==
  /\ main \in {"run", "kill"} /\ prog = "exited"
  /\ \/ mode = "pty" /\ main' \in {"join", "stuck"} /\ UNCHANGED pending
     \/ mode = "direct" /\ BarrierBegins
  /\ UNCHANGED <<program, early, awaited, term, ctrl, left, sock, pumps, credit,
                 dq, dWriter, drpc, channel, viewer, gone, owed, cOut, client, resizes>>

\* What that thread waited for came after all.
InputFreed ==
  /\ main = "stuck"
  /\ main' = "join"
  /\ UNCHANGED <<program, early, pending, awaited, term, ctrl, left, sock, pumps,
                 credit, dq, dWriter, drpc, channel, viewer, gone, owed, cOut,
                 client, resizes>>

\* The wait fails, as it does if the daemon was started with SIGCHLD ignored. The
\* session returns without an Exit and drops its transport and its bridge, whose
\* relay goes on to the end of its output.
MainFails ==
  /\ main \in {"run", "kill"} /\ prog = "exited"
  /\ main' = "failed"
  /\ drpc' = "ended" /\ ctrl' = 0
  /\ UNCHANGED <<program, early, pending, awaited, term, left, sock, pumps, credit,
                 dq, dWriter, channel, viewer, gone, owed, cOut, client, resizes>>

\* Bridge::stop returns.
MainJoins ==
  /\ main = "join" /\ relay = "ended"
  /\ BarrierBegins
  /\ UNCHANGED <<program, early, awaited, term, ctrl, left, sock, pumps, credit,
                 dq, dWriter, drpc, channel, viewer, gone, owed, cOut, client, resizes>>

\* The barrier fixes its target for the next stream.
MainTargets(s) ==
  /\ main = "barrier" /\ awaited = {} /\ s \in pending
  /\ awaited' = {s} /\ pending' = pending \ {s}
  /\ left' = Backlog(s)
  /\ UNCHANGED <<program, early, main, term, ctrl, sock, pumps, credit, dq,
                 dWriter, drpc, channel, viewer, gone, owed, cOut, client, resizes>>

\* Why a barrier stops waiting for a stream.
Passed(s) == DClosed \/ pump[s] = "done" \/ left = 0

MainPasses ==
  /\ main = "barrier" /\ awaited # {} /\ \A s \in awaited : Passed(s)
  /\ awaited' = {} /\ left' = 0
  /\ UNCHANGED <<program, early, main, pending, term, ctrl, sock, pumps, credit,
                 dq, dWriter, drpc, channel, viewer, gone, owed, cOut, client, resizes>>

\* The Exit is queued, or there is no writer for it. The session returns and
\* drops its transport: the reader is aborted and the flow closed.
MainSendsExit ==
  /\ main = "barrier" /\ awaited = {} /\ pending = {}
  /\ \/ dWriter /\ Len(dq) < Depth /\ dq' = Append(dq, ExitFrame)
     \/ ~dWriter /\ UNCHANGED dq
  /\ main' = "done"
  /\ drpc' = "ended" /\ ctrl' = 0
  /\ UNCHANGED <<program, early, pending, awaited, term, left, sock, pumps, credit,
                 dWriter, channel, viewer, gone, owed, cOut, client, resizes>>

-----------------------------------------------------------------------------
(* The daemon's writer_task and reader_task.                                 *)

DWrites ==
  /\ dWriter /\ dq # <<>>
  /\ \/ /\ Up /\ Len(wire) < Wire
        /\ wire' = Append(wire, Head(dq))
        /\ dq' = Tail(dq)
        /\ UNCHANGED dWriter
     \/ ~Up /\ dq' = <<>> /\ dWriter' = FALSE /\ UNCHANGED wire
  /\ UNCHANGED <<program, early, daemon, term, ctrl, left, sock, pumps, credit,
                 drpc, link, back, viewer, gone, owed, cOut, client, resizes>>

\* Mutant: the writer leaves with the session, whatever is still queued.
DShuts_NoDrain ==
  /\ dWriter /\ Over
  /\ dWriter' = FALSE
  /\ link' = IF Up THEN "shut" ELSE link
  /\ UNCHANGED <<program, early, daemon, term, ctrl, left, sock, pumps, credit, dq,
                 drpc, wire, back, viewer, gone, owed, cOut, client, resizes>>

\* Nobody holds frame_tx any more.
DShuts ==
  /\ dWriter /\ Over /\ dq = <<>>
  /\ \A s \in Streams : pump[s] = "done"
  /\ dWriter' = FALSE
  /\ link' = IF Up THEN "shut" ELSE link
  /\ UNCHANGED <<program, early, daemon, term, ctrl, left, sock, pumps, credit, dq,
                 drpc, wire, back, viewer, gone, owed, cOut, client, resizes>>

\* Flow::grant.
DTakesWindow ==
  /\ drpc = "frame" /\ back # <<>> /\ Head(back).kind = "window"
  /\ back' = Tail(back)
  /\ credit' = [credit EXCEPT ![Head(back).stream] = @ + Head(back).size]
  /\ UNCHANGED <<program, early, daemon, term, ctrl, left, sock, pumps, dq,
                 dWriter, drpc, link, wire, viewer, gone, owed, cOut, client, resizes>>

DTakesWinsize ==
  /\ drpc = "frame" /\ back # <<>> /\ Head(back).kind = "winsize"
  /\ back' = Tail(back)
  /\ drpc' = "ctrl"
  /\ UNCHANGED <<program, early, daemon, term, ctrl, left, sock, pumps, credit, dq,
                 dWriter, link, wire, viewer, gone, owed, cOut, client, resizes>>

\* ctrl_tx.send completes: there is room among what waits for recv.
DDelivers ==
  /\ drpc = "ctrl" /\ ctrl < Depth
  /\ ctrl' = ctrl + 1
  /\ drpc' = "frame"
  /\ UNCHANGED <<program, early, daemon, term, left, sock, pumps, credit, dq,
                 dWriter, channel, viewer, gone, owed, cOut, client, resizes>>

\* The channel ended: Flow::close.
DEnds ==
  /\ drpc = "frame" /\ ~Up /\ back = <<>>
  /\ drpc' = "ended"
  /\ UNCHANGED <<program, early, daemon, term, ctrl, left, sock, pumps, credit, dq,
                 dWriter, channel, viewer, gone, owed, cOut, client, resizes>>

-----------------------------------------------------------------------------
(* The client's reader_task, which its own recv never holds up.              *)

CTakes == ~cEnded /\ wire # <<>> /\ wire' = Tail(wire)

\* Mutant: what nobody reads is not owed.
Owed_Nothing(s, size) == owed

\* Flow::owe.
Owed(s, size) == [owed EXCEPT ![s] = @ + size]

\* Stream data, for the pump if it still has the stream.
CTakesData ==
  /\ CTakes /\ Head(wire).kind = "data"
  /\ LET s == Head(wire).stream
         size == Head(wire).size
     IN /\ early' = [early EXCEPT ![s] = IF size < @ THEN @ - size ELSE 0]
        /\ IF vpc[s] \in {"last", "done"}
             THEN owed' = Owed(s, size) /\ UNCHANGED <<inbox, queued>>
             ELSE /\ inbox' = [inbox EXCEPT ![s] = Append(@, size)]
                  /\ queued' = [queued EXCEPT ![s] = @ + size]
                  /\ UNCHANGED owed
  /\ UNCHANGED <<program, daemon, term, ctrl, left, sock, pumps, credit, dq,
                 dWriter, drpc, link, back, vpc, due, gone, cOut, client, resizes>>

CTakesClose ==
  /\ CTakes /\ Head(wire).kind = "close"
  /\ LET s == Head(wire).stream IN
       inbox' = IF vpc[s] \in {"last", "done"} THEN inbox
                ELSE [inbox EXCEPT ![s] = Append(@, 0)]
  /\ UNCHANGED <<program, early, daemon, term, ctrl, left, sock, pumps, credit, dq,
                 dWriter, drpc, link, back, queued, vpc, due, gone, owed, cOut, client,
                 resizes>>

CTakesExit ==
  /\ CTakes /\ Head(wire).kind = "exit"
  /\ exitIn' = TRUE
  /\ UNCHANGED <<program, early, daemon, term, ctrl, left, sock, pumps, credit, dq,
                 dWriter, drpc, link, back, viewer, gone, owed, cOut, cEnded,
                 outcome, resizes>>

\* Its end of the channel is empty and no more comes: nothing is early any more.
CEnds ==
  /\ ~cEnded /\ ~Up /\ wire = <<>>
  /\ cEnded' = TRUE /\ early' = [s \in Streams |-> 0]
  /\ UNCHANGED <<program, daemon, term, ctrl, left, sock, pumps, credit, dq,
                 dWriter, drpc, channel, viewer, gone, owed, cOut, exitIn, outcome,
                 resizes>>

\* await_outcome returns, and the client drops its transport.
CReturns ==
  /\ outcome = "none" /\ (exitIn \/ cEnded)
  /\ outcome' = IF exitIn THEN "exited" ELSE "closed"
  /\ cEnded' = TRUE
  /\ UNCHANGED <<program, early, daemon, term, ctrl, left, sock, pumps, credit, dq,
                 dWriter, drpc, channel, viewer, gone, owed, cOut, exitIn, resizes>>

-----------------------------------------------------------------------------
(* The client's pumps, resize forwarder and writer_task.                     *)

\* spawn_blocking_writer writes a frame out, and has a grant for it.
VWrites(s) ==
  /\ vpc[s] = "recv" /\ inbox[s] # <<>> /\ Head(inbox[s]) > 0 /\ ~gone[s]
  /\ due' = [due EXCEPT ![s] = Head(inbox[s])]
  /\ inbox' = [inbox EXCEPT ![s] = Tail(@)]
  /\ queued' = [queued EXCEPT ![s] = @ - Head(inbox[s])]
  /\ vpc' = [vpc EXCEPT ![s] = "grant"]
  /\ UNCHANGED <<program, early, daemon, term, ctrl, left, sock, pumps, credit, dq,
                 dWriter, drpc, channel, gone, owed, cOut, client, resizes>>

\* The write fails: StreamSink::abandon. What is queued is dropped, and its
\* count with the sink.
VAbandons(s) ==
  /\ vpc[s] = "recv" /\ inbox[s] # <<>> /\ Head(inbox[s]) > 0 /\ gone[s]
  /\ due' = [due EXCEPT ![s] = queued[s]]
  /\ inbox' = [inbox EXCEPT ![s] = <<>>]
  /\ queued' = [queued EXCEPT ![s] = 0]
  /\ vpc' = [vpc EXCEPT ![s] = "last"]
  /\ UNCHANGED <<program, early, daemon, term, ctrl, left, sock, pumps, credit, dq,
                 dWriter, drpc, channel, gone, owed, cOut, client, resizes>>

VGrants(s) ==
  /\ vpc[s] \in {"grant", "last"}
  /\ \/ cWriter /\ Len(cq) < Depth /\ cq' = Append(cq, WindowFrame(s, due[s]))
     \/ ~cWriter /\ UNCHANGED cq
  /\ due' = [due EXCEPT ![s] = 0]
  /\ vpc' = [vpc EXCEPT ![s] = IF @ = "grant" THEN "recv" ELSE "done"]
  /\ UNCHANGED <<program, early, daemon, term, ctrl, left, sock, pumps, credit, dq,
                 dWriter, drpc, channel, inbox, queued, gone, owed, cWriter, client,
                 resizes>>

\* The stream was closed, or its queue was, by the drop of the transport.
VEnds(s) ==
  /\ vpc[s] = "recv"
  /\ \/ inbox[s] # <<>> /\ Head(inbox[s]) = 0
     \/ inbox[s] = <<>> /\ outcome # "none"
  /\ vpc' = [vpc EXCEPT ![s] = "done"]
  /\ inbox' = [inbox EXCEPT ![s] = <<>>]
  /\ queued' = [queued EXCEPT ![s] = 0]
  /\ UNCHANGED <<program, early, daemon, term, ctrl, left, sock, pumps, credit, dq,
                 dWriter, drpc, channel, due, gone, owed, cOut, client, resizes>>

\* spawn_winch_forwarder sends the new size of the terminal, behind a barrier
\* that finds no stand-in at this end.
Resize ==
  /\ mode = "pty" /\ outcome = "none" /\ resizes < Resizes
  /\ cWriter /\ Len(cq) < Depth
  /\ cq' = Append(cq, WinsizeFrame)
  /\ resizes' = resizes + 1
  /\ UNCHANGED <<program, early, daemon, term, ctrl, left, sock, pumps, credit, dq,
                 dWriter, drpc, channel, viewer, gone, owed, cWriter, client>>

\* writer_task, with what is owed first.
CFlushes(s) ==
  /\ cWriter /\ Up /\ owed[s] > 0 /\ Len(back) < Wire
  /\ back' = Append(back, WindowFrame(s, owed[s]))
  /\ owed' = [owed EXCEPT ![s] = 0]
  /\ UNCHANGED <<program, early, daemon, term, ctrl, left, sock, pumps, credit, dq,
                 dWriter, drpc, link, wire, viewer, gone, cOut, client, resizes>>

NothingOwed == \A s \in Streams : owed[s] = 0

CWrites ==
  /\ cWriter /\ Up /\ NothingOwed /\ cq # <<>> /\ Len(back) < Wire
  /\ back' = Append(back, Head(cq))
  /\ cq' = Tail(cq)
  /\ UNCHANGED <<program, early, daemon, term, ctrl, left, sock, pumps, credit, dq,
                 dWriter, drpc, link, wire, viewer, gone, owed, cWriter, client, resizes>>

CWriterFails ==
  /\ cWriter /\ ~Up /\ ~(NothingOwed /\ cq = <<>>)
  /\ cWriter' = FALSE
  /\ cq' = <<>> /\ owed' = [s \in Streams |-> 0]
  /\ UNCHANGED <<program, early, daemon, term, ctrl, left, sock, pumps, credit, dq,
                 dWriter, drpc, channel, viewer, gone, client, resizes>>

CShuts ==
  /\ cWriter /\ outcome # "none" /\ cq = <<>> /\ NothingOwed
  /\ \A s \in Streams : vpc[s] = "done"
  /\ cWriter' = FALSE
  /\ link' = IF Up THEN "shut" ELSE link
  /\ UNCHANGED <<program, early, daemon, term, ctrl, left, sock, pumps, credit, dq,
                 dWriter, drpc, wire, back, viewer, gone, owed, cq, client, resizes>>

-----------------------------------------------------------------------------
(* The environment.                                                          *)

\* Who reads the client's descriptor closes it.
ViewerLeaves(s) ==
  /\ ~gone[s]
  /\ gone' = [gone EXCEPT ![s] = TRUE]
  /\ UNCHANGED <<program, early, daemon, term, ctrl, left, sock, pumps, credit, dq,
                 dWriter, drpc, channel, viewer, owed, cOut, client, resizes>>

\* The channel fails, and may lose the last frames in flight each way.
ChannelEnds ==
  /\ link # "lost"
  /\ link' = "lost"
  /\ \E n \in 0..Len(wire), m \in 0..Len(back) :
       wire' = SubSeq(wire, 1, n) /\ back' = SubSeq(back, 1, m)
  /\ UNCHANGED <<program, early, daemon, term, ctrl, left, sock, pumps, credit, dq,
                 dWriter, drpc, viewer, gone, owed, cOut, client, resizes>>

\* Both ends have returned.
Terminated == Over /\ outcome # "none" /\ UNCHANGED vars

-----------------------------------------------------------------------------
Program == WritesToPty \/ (\E s \in Streams : WritesToSocket(s))
           \/ ProgramExits \/ LeftoverEnds

Pump(s) == PumpReady(s) \/ PumpReads(s) \/ PumpEof(s) \/ PumpSends(s)

Main ==
  \/ MainRecv \/ MainHungUp \/ KillTakes \/ MainReaps \/ MainJoins
  \/ (\E s \in Streams : MainTargets(s)) \/ MainPasses \/ MainSendsExit

DReader == DTakesWindow \/ DTakesWinsize \/ DDelivers \/ DEnds

CReader == CTakesData \/ CTakesClose \/ CTakesExit \/ CEnds

Viewer(s) == VWrites(s) \/ VAbandons(s) \/ VGrants(s) \/ VEnds(s)

Flush == \E s \in Streams : CFlushes(s)

Next ==
  \/ Program \/ RelayCopies \/ RelayEnds \/ InputFreed \/ MainFails
  \/ (\E s \in Streams : Pump(s)) \/ Main \/ DWrites \/ DShuts \/ DReader
  \/ CReader \/ CReturns \/ (\E s \in Streams : Viewer(s)) \/ Resize
  \/ Flush \/ CWrites \/ CWriterFails \/ CShuts
  \/ (\E s \in Streams : ViewerLeaves(s)) \/ ChannelEnds \/ Terminated

Spec == Init /\ [][Next]_vars

-----------------------------------------------------------------------------
PerStream(set) == [Streams -> set]
DaemonFrames ==
  [kind: {"data", "close"}, stream: Streams, size: 0..PumpBuf] \cup {ExitFrame}
ClientFrames == [kind: {"window"}, stream: Streams, size: Nat] \cup {WinsizeFrame}

\* The state's shape; no more is ever sent than a window and what one read may
\* overshoot it by (Progress.available).
TypeOK ==
  /\ mode \in {"pty", "direct"} /\ prog \in {"runs", "exited"} /\ leftover \in BOOLEAN
  /\ early \in PerStream(Nat)
  /\ main \in {"run", "kill", "stuck", "join", "barrier", "done", "failed"}
  /\ pty \in 0..Pty /\ relay \in {"runs", "ended"} /\ ctrl \in 0..Depth
  /\ pending \subseteq Streams /\ awaited \subseteq Streams /\ left \in Nat
  /\ sock \in PerStream(0..Sock) /\ pump \in PerStream({"ready", "read", "send", "done"})
  /\ hand \in PerStream(0..PumpBuf) /\ credit \in PerStream(1 - PumpBuf..Window)
  /\ dq \in Seq(DaemonFrames) /\ wire \in Seq(DaemonFrames) /\ dWriter \in BOOLEAN
  /\ drpc \in {"frame", "ctrl", "ended"} /\ link \in {"up", "shut", "lost"}
  /\ back \in Seq(ClientFrames) /\ cq \in Seq(ClientFrames) /\ cWriter \in BOOLEAN
  /\ inbox \in PerStream(Seq(0..PumpBuf))
  /\ queued \in PerStream(Nat) /\ due \in PerStream(Nat)
  /\ vpc \in PerStream({"recv", "grant", "last", "done"})
  /\ gone \in PerStream(BOOLEAN) /\ owed \in PerStream(Nat)
  /\ cEnded \in BOOLEAN /\ exitIn \in BOOLEAN
  /\ outcome \in {"none", "exited", "closed"} /\ resizes \in 0..Resizes

\* Everything the program wrote is with the client when it learns of the exit,
\* on each output, however the program's last writes, the relay, the pumps and
\* the barrier interleave (the comments on Flow::barrier and on Bridge).
OutputBeforeExit == exitIn => \A s \in Streams : early[s] = 0

\* A client whose channel did not fail learns of the exit, unless the daemon's wait
\* for the program failed: the drop of the daemon's transport right behind the Exit
\* never loses it.
Broken == link = "lost" \/ main = "failed"

ExitNotLost == outcome = "closed" => Broken

\* What a client is told is what Report promises it: the exit, once, after it and
\* behind all output, or, only if the channel or the wait for the program failed,
\* that the channel closed.
Promise == INSTANCE Report WITH
             Outputs <- Streams, runs <- prog = "runs", owed <- early,
             told <- IF outcome = "none" THEN "nothing" ELSE outcome,
             broken <- Broken

IsReport == Promise!Spec

-----------------------------------------------------------------------------
(* Every task takes the steps it can. A frame queue is first come first      *)
(* served, so nobody that waits for room in one waits for ever, and the      *)
(* client's writer flushes what is owed faster than it is asked to. Who      *)
(* reads the client's descriptor goes on reading or closes it. The program   *)
(* need not do anything, what it left behind need not end, and no stuck      *)
(* relay of input need be freed.                                             *)
Fairness ==
  /\ WF_vars(RelayCopies \/ RelayEnds)
  /\ \A s \in Streams :
       /\ WF_vars(PumpReady(s) \/ PumpReads(s) \/ PumpEof(s)) /\ SF_vars(PumpSends(s))
       /\ WF_vars(VWrites(s) \/ VAbandons(s) \/ VEnds(s)) /\ SF_vars(VGrants(s))
  /\ WF_vars(MainRecv \/ MainHungUp \/ KillTakes \/ MainReaps \/ MainJoins
             \/ (\E s \in Streams : MainTargets(s)) \/ MainPasses)
  /\ SF_vars(MainSendsExit)
  /\ WF_vars(DWrites \/ DShuts) /\ WF_vars(DReader) /\ WF_vars(CReader)
  /\ WF_vars(CReturns) /\ WF_vars(Flush \/ CWriterFails \/ CShuts) /\ SF_vars(CWrites)

FairSpec == Spec /\ Fairness

\* The client learns that the program exited, or that the channel closed, even if
\* a process left behind on the stand-ins themselves writes for ever, or nobody
\* reads the output any more (mux_flow.rs, output_reader_goes_away). Excepted is
\* what a session waits for without end: whoever else has the slave of a pty, a
\* stuck relay of input, and, behind a wait that failed, the stand-ins' holder.
ExitReported ==
  prog = "exited" /\ (mode = "direct" \/ ~leftover)
    ~> outcome # "none" \/ main = "stuck" \/ (main = "failed" /\ leftover)

\* An interactive session ends when its client is gone (run_interactive: "tear
\* down the child rather than linger"): its program at once, the session itself
\* once nobody has the pty, unless its relay of input is stuck.
HangupEndsSession ==
  /\ mode = "pty" /\ link = "lost" ~> prog = "exited"
  /\ mode = "pty" /\ link = "lost" /\ prog = "exited" /\ ~leftover
       ~> Over \/ main = "stuck"

\* The module's comment, mux.rs:25-27: "a stream whose far end stops reading
\* never stops the reader from delivering control messages or the other
\* streams". Not even without a process that keeps the pty, or a stuck bridge.
ReaderDelivers == drpc = "ctrl" ~> drpc # "ctrl" \/ leftover \/ main = "stuck"
=============================================================================
