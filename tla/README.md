# A verification project for capsudo-rs

capsudo-rs runs a program for a client through a daemon that already holds the
privilege for it. The client hands over its standard streams; over a local
socket they travel as descriptors, and over any other byte channel (another
zone) a *multiplexing transport* stands in for them with flow-controlled
streams. This directory holds TLA+ modules of that system, TLC runs that check
them on small instances, and TLAPS proofs, for instances of any size, of every
safety and action property and of every refinement that the runs check.

Modules use the names of the source. Line numbers are those of
`src/crates/.../*.rs`; `PROJECT.json` maps every definition to its lines.

## The system

| Component | State it keeps | Operations | Talks to |
|---|---|---|---|
| **Mux stream data path** (`mux.rs`) | per stream: `Progress` (credit, bytes taken and sent), `Inbound`/`QueueDepth`, `StreamSink.ungranted`, `Flow.owed` | four pumps (blocking and async, read and write), `reader_task`, `writer_task`, `drop` | its twin at the other end, over data, close, Hello and Window frames; the holders of the descriptors |
| **Mux session channel** (`mux.rs`) | `frame_tx` and control queues of `CHANNEL_DEPTH`, the barrier's targets | `send`, `recv`, `send_control`, `barrier` | every stream of the transport, which shares the channel and the two tasks with it |
| **Mux stream registry** (`mux.rs`) | `StreamMap`, `Flow.progress`, live-stream count, `next_id`, `owed` map | `alloc_id`, `start_sender_pumps`, `materialize_stream`, `Outbound::drop`, `StreamSink::drop` | the peer, which names ids |
| **Unix transport** (`unix.rs`) | a nonblocking socket, read buffer, received descriptors | `send`, `recv`, the control sender on a dup | the kernel |
| **Listening socket** (`unix.rs`, `ownerspec.rs`) | a bound path with owner and mode | `bind`, `accept` | the file system |
| **Client session** (`client.rs`, `capsudo/main.rs`) | the request, a failure seen so far, the resize forwarder | `send_configuration`, `await_outcome`, `spawn_winch_forwarder`, one retry with a secret | daemon or front-end, through a `Transport` |
| **Daemon session** (`daemon.rs`, `exit.rs`) | policy, the request as far as received | `receive_configuration`, `run_and_report`, `send_exit` | client, program |
| **Pty bridge** (`pty.rs`) | pty master, two relay threads, a cancel pipe | `Bridge::start`/`stop`, `relay`, `winsize_loop` | program, stand-ins, `recv` |
| **Password front-end** (`capsudod-pwauth`) | one connection | check the first message, hand the socket on | client, `capsudod` |
| **Wire types** (`capsudo-proto`) | none | encode and decode one message | all |
| **Fake IDM channel** (`fakeidm.rs`) | none | connect, accept | mux |

What is hard in it is not any one function. A stream passes through six tasks
of two processes that share counters without a common lock; credit that is lost
stops a stream for good and credit that is made up removes the bound on memory;
the tasks unwind through weak references, closed queues and a cancel pipe, in
whatever order the ends go away; one reader serves all streams and all control
messages, so whatever stops it stops everything; and the exit of a program must
neither overtake its output nor wait for a writer that never stops.
`PROJECT.json` lists these hazards with the line where each bites and the
properties that cover it.

What makes each component correct:

* *data path*: a stream is a first-in first-out pipe with its end of file
  behind its data; credit is conserved; the backlog is bounded; nobody waits
  for credit that will not come; dropped transports unwind.
* *session channel*: an exit follows all output written before it, and arrives;
  the reader always gets on.
* *registry*: data never precedes its registration; an id names the pumps of the
  last stream that took it; slots, sockets and credit come back; the limits hold.
* *unix transport*: messages and descriptors stay together and in order.
* *sessions*: the client's outcome is what happened; the daemon runs exactly
  what its policy allows; a challenge wins over a failed send.
* *pty bridge*: final output is not truncated, input is not stolen, both end.

## Modules

| Module | Role |
|---|---|
| `MuxStream` | one stream of one direction, with both pumps, the four driver tasks, credit, both drops and the failing channel |
| `Pipe` | what that stream promises: the pipe its descriptor stands for; `MuxStream` implements it under `P!Spec` |
| `MuxStreamInv` | the inductive invariant of `MuxStream`, what its sequences of frames put into the pipe, and lemmas on both |
| `MuxStreamProofs` | one lemma per action, the theorems of the invariant, and the refinement of `Pipe` |
| `MuxStreams` | the registry: delegation, ids, slots, and stand-ins of every direction, at both ends of a channel |
| `MuxStreamsProofs` | the inductive invariant of `MuxStreams`, its theorems, and where its credit is |
| `MCStreams` | channels of `MuxStreams` for TLC |
| `MuxSession` | a running session: program, pty relay, barrier, exit, control queue and several output streams on one channel, up to the client's outcome |
| `MuxSessionProofs` | the inductive invariant of `MuxSession`, its theorems, and the refinement of `Report` |
| `Report` | what a client is told of the program it had run; `MuxSession`, `PtyBridge` and `LocalSession` implement it, each under its `Promise!Spec` |
| `UnixTransport` | messages and descriptors on a stream socket that cuts what is written anywhere |
| `MessageQueue` | what a `Transport` promises its receiver; `UnixTransport` implements it under `Q!Spec` |
| `UnixTransportProofs` | the proof of that refinement, and of the transport's types |
| `Tally` | the sum of a sequence, which `MuxStreams` counts credit with |
| `Totals` | sums over sequences, and the induction over numbers that the recursive functions of the models need |
| `PtyBridge` | the two relays of an interactive session, its terminal and program, and `run_interactive` |
| `LocalSession` | `serve_connection` over `UnixTransport` and `PtyBridge`: the configuration, the program, the client's end |
| `LocalSessionProofs` | the inductive invariant of `PtyBridge`, its theorems, and the refinement of `Report`; each step of a `LocalSession` is a step of each part, so their theorems carry over; `Served` and the types |
| `Session` | one use of a capability over a Unix socket: request, challenge, retry, policy, start, report, and the size of the terminal |
| `Capability` | what that use promises: one run of what the policy permits, and a true report; `Session` implements it |
| `SessionProofs` | the inductive invariants of `Session`, its theorems, and the refinement of `Capability` |
| `MCSession` | daemons and clients of `Session` for TLC |

Two compositions join components: `MuxSession` is the session over a mux, with
the bridge reduced to its output relay and to whether its input relay is stuck, and
streams reduced to counters;
`LocalSession` is the session on a local socket, with transport and bridge in
full. Both keep the one promise `Report` makes to a client, whichever way its
session travels. `MuxStream` has one stream in full, `MuxStreams` several with a stream
reduced to frames of cost one.

### MuxStream

Variables are grouped by their owner. `spc`, `shand` are the reading pump
(`spawn_blocking_reader` if the sender delegated, `async_reader` if the receiver
did) and the frame it is queueing; `available` is `Progress.available`; `sq` is
`frame_rx` as far as the stream fills it; `wire` and `back` the channel; `rpc`,
`rhand` are `reader_task` between its awaits; `queue`, `queued`, `depthClosed`,
`registered`, `rxOpen` are what the reader and the writing pump share; `wpc` is
the writing pump. Every await of the code is a boundary between two actions,
and so is every point where two tasks touch shared state: `RRoom` and `RSend`
split the count of a frame from its queueing, `WAbandons`, `WLoads` and
`WDrops` split `StreamSink::abandon`.

A payload is reduced to the cost of its frame, header and payload bytes, the
number all the accounting is about. Frames carry a running total of their
direction (`upto`), an auxiliary tag that gives each an identity and turns the
cost of a queue into a difference. `debited`, `received`, `arrived`, `issued`,
`written` and `consumed` are auxiliary totals too; no guard reads them except
for the bound `Total` on what a source offers.

`peer` says what the sender knows of windowing: nothing (a peer from before
windowing), not yet (`early`: `Hello` is still on its way back), or its window.
The two readers are modelled as far as this stream holds them up. A read that fails
ends a blocking pump as end of file does (`SEof`) and an asynchronous one without
a word to the other end (`SReadFails`); one that would block, or is interrupted, is
tried again, which is no step.

### MuxSession

`mode` chooses an interactive (`"pty"`) or direct session. `main` is the
daemon's session task: the `select!` of `run_interactive` or the `child.wait`
of `run_and_report`, `Bridge::stop`, the barrier in `send`, and the return that
drops the transport. The stand-ins are counters of unread bytes, `pump` their
`async_reader`. The barrier's target is kept as what is `left` of it, so a
holder that writes for ever (`leftover`) makes a cycle rather than an unbounded
state. A direct session holds a copy of the program's outputs in its `Command`
until it returns, so its pumps see end of file only then (`OutputClosed`); an
interactive one drops the command early and hands its copy to the relay.
The client's pumps are `vpc`; a reader that leaves makes them abandon
(`VAbandons`), and what arrives later is `owed`.

`early` counts what the program wrote and the client does not yet have; once the
client's end has gone, nothing is still to come. `Promise` maps it to what `Report`
says is `owed`, and the client's outcome to what it says is `told`.

`leftover` is a process that outlives the program with what it had: the stand-ins
of a direct session, or the slave of a pty. The output relay ends when the program
and such a process are both gone (`RelayEnds`), and the join in `Bridge::stop` waits
for it. The input relay is reduced to whether the join waits for it first: `main`
is `stuck` while it does, which it may be for ever (finding 4), or until
`InputFreed`. `MainFails` is a failed `child.wait`, with which the session drops its
transport and sends no `Exit`.

Taken from `MuxStream` rather than modelled again: Hello, the split of
`abandon`, and that the client's reader never waits for room. Every grant is of
its own, as for any window under four times a frame.

### MuxStreams

The *near* end delegates descriptors of its own (`start_sender_pumps`), the *far*
end makes stand-ins (`materialize_stream`). `rp[s][d]` and `wp[s][d]` are the
pumps of stream `d` at end `s` that read into and write out of the channel;
`sink` and `prog` the two tables, by id, so that a table can hold another stream
than the one a pump serves. Delegation is in two steps at the near end, because
the far end runs between them: `Delegates` queues the `Fds` frame, `OpensPumps`
opens the pumps, `OpensFail` is a failed `dup`. A frame announces one descriptor;
the client announces its three in one frame, which the limit and the tables
treat as three in a row that nothing of the far end comes between.

`holder` is who has the other end of the socket pair. One that closes with nothing
unread and without having shut a direction down first is `closed`; one that closes
in any other way is `left`. A close with something unread shows up as a read error
(`reset`), as Unix sockets have it. `hangup` is the `Notify` of the two pumps that
share a pair. A direction of a pair holds one write.

Reduced against `MuxStream`: frames cost one, frame queues have room, Hello came,
and `abandon` is one step.

### UnixTransport and MessageQueue

A message is the length of its payload and how many descriptors are sent with
it. The socket is a sequence of *pieces*, one for each write; a write takes any
part of what is left of a message that fits. A piece remembers which message
and which byte of it it starts with, so that a reader that lost its place would
take those bytes for a header (`Lengths`) and deliver the wrong message. The
descriptors come with the first byte of their piece and are gone if it is read
without a control buffer, as `read_exact` does. `SendsControl` is the control
sender: whole, or `EAGAIN` and the last one.

`MessageQueue` is the promise: messages in order, once, with their descriptors;
a clean end only behind the last that was begun, an error with at most one lost.

### PtyBridge

`relayIn` and `relayOut` are the threads between their system calls, `main` is
`run_interactive` from its `select!` to the `Exit`. The pty holds `InPty` bytes for
the program and `OutPty` for the master. On Linux a pty is not hung up when the
program that controls it exits: that signals the foreground process group only, so a
process in the background keeps the slave. `leftover` is such a process; it reads
and writes the pty as the program did, until `LeftoverEnds`. Reads of the master
fail when neither has the slave and what was written is read; writes to it go on,
fill it and then wait. `early` is what the program wrote before it exited and the
client's output does not have yet, which is what its exit must not overtake; what
the other process writes later comes behind it and is owed to nobody. `tty` is
whether the client's descriptors are nonblocking, which their owner decides; then a
full output is an error to `write_all` (`cutShort`) and input taken by another
process (`Shared`) ends the relay, where a blocking read would wait. `MainFails` is
a failed `wait`: the bridge is dropped without `stop`, and its input relay is woken
by the closed pipe or is not.

### LocalSession

`pc` is `serve_connection`; `Listens` is when it calls `recv`, in
`receive_configuration` and in `winsize_loop` while the select lasts. The messages
are `Fd` with three descriptors, `End`, and a resize; what goes ahead of `Fd`
takes the same way through the transport, and `Session` has the whole request.

### Session

`cpc` is the client from `connect` to its exit, once round again for a retry;
`srv` is whoever has the other end of the connection: the front-end, the daemon
after a hand-over, or the daemon from the start. `Configuration` is the order in
which `send_configuration` sends, one message at a time into a socket of
`Buffer` messages, so every refusal can come at every point of it, and a client
can die between any two. `got` is `SessionRequest` as it grows, `policy` a
`DaemonConfig`. Words of a command, secrets and sizes are values; a refusal is
the `Error` and the `Exit` that `fail`, `send_spawn_failure` and
`serve_connection` send.

Modelled from how the code uses them: a Unix socket gives a reader what was
written before the other end closed and only then the end or the reset, while a
writer fails at once; a small write to it is done whole or fails with `EAGAIN`;
`SIGWINCH` is dropped by a process that has no handler and merged while it is
pending; an ignored `SIGCHLD` survives `exec`, and makes the kernel reap
children, so that a wait on them fails.

A running program is reduced to its exit; its output and the transport that
carries it are the subject of `MuxSession`, and the bridge that of `PtyBridge`: an
interactive daemon whose program exited is ready to report, or `stuck` in
`Bridge::stop` until `BridgeFreed`, if ever (`Reaped`).
With `SIGCHLD` ignored, a start that fails may find no child to wait for either, and
end the daemon with no report (`SpawnFails`).

## Runs

| Run | Shows |
|---|---|
| `mux_credit` | `CreditConserved`, `BacklogBounded`, `ReaderNeverWaits`, `WholeWindowReturns`, and that the stream implements `Pipe`, in every interleaving with closing holders, dropped transports and a failing channel |
| `mux_live` | end of file arrives, senders are released, a dropped transport stops its pump and closes the channel |
| `mux_drop_closes` | *violated*: finding 1 |
| `streams` | `TablesExact`, `NeverTooEarly`, `StandInsBounded`, `HalfClosedReads`; credit is kept at both ends, also for streams that were closed or share an id (`CreditKept`); a clean close frees the stand-in, senders are released, a drop reaches the holder |
| `streams_freed` | *violated*: finding 2 |
| `session` | the exit is behind all output on both streams, and the session implements `Report` |
| `session_live` | exits are reported and a hangup ends an interactive session, unless another process has the pty or the input relay is stuck |
| `session_stuck` | *violated*: finding 3 |
| `local` | on a local socket that cuts messages anywhere: the transport is a `MessageQueue` and the session implements `Report`: no last output is truncated; requests are served, and taken to their end; input is left alone once the bridge is cancelled; a client that goes takes its program with it; a session ends once nobody has the pty, unless its input relay is stuck; output flows |
| `bridge_stuck` | *violated*: finding 4 |
| `request` | with and without a front-end: `Session` implements `Capability`; a challenge wins over a failed send; clients are answered; exits are reported, unless the bridge is stuck; an interactive program ends with its client; resizes arrive |
| `request_chained` | *violated*: finding 5 |

### Bounds

* `mux_credit`: a window of 3, frames of cost 2, and 6 units in all. The queue limit
  is 5, so a sender that knows no window can exceed it; a windowed one overshoots
  its window by one with the second frame, and waits for a grant before the third.
  Queues and channel hold one frame each: every wait for room happens, and more room
  only adds slack between tasks that already interleave freely. `Share` is 1 in
  place of 4: a quarter of a window of 3 is always reached, and with 1 a grant waits
  for a whole window unless the queue is empty, which is the case that can strand a
  remainder.
* `mux_live` and `mux_drop_closes`: frames of cost 2, 4 units, and a window of 1 or
  2, so a sender waits for credit after each frame.
* `session`: two outputs, every buffer of size one, one resize. One unit can then be
  in each of pty, stand-in, pump, frame queue, channel and client at once, so an
  exit has every one of them to overtake. The writes of the program are not bounded.
* `session_live`: the same with one output. `Resizes` is the depth of the control
  queue; `session_stuck` has one more.
* `streams`: four channels. One descriptor that is read and written, for the two
  pumps that share a socket; an output and an input with ids of their own and one
  live stream allowed, for the limit and for directions that do not share; two
  outputs that share an id, for everything that finds another stream's entry, once
  with both alive and once one at a time. Each channel but the one with both alive
  may fail; on that one an end can go away, which ends it as well. A window of one
  frame makes every sender wait for every grant. A third stream would meet the
  second as the second meets the first. `MaxOwed` is 1, and no end has two ids that
  may owe: past the limit the credit of an id is not recorded, by design, and
  `CreditKept` asks that no more ids send than may owe. `streams_freed` has the
  first channel alone.
* `local`: a header of two bytes and a socket of two, so that every message is cut at
  every byte, also behind the first byte of a header, and none fits whole with its
  payload. Pty, relays, input and output take one byte each: every buffer can be
  full, one unread key is enough to be stolen or left, and the last output can be in
  three places when the program exits. A relay's write is then never partial; that is
  left to the proofs, which hold for buffers of all sizes. Neither typing nor what a
  process that was left behind writes is bounded in number. `bridge_stuck` has
  relays that read two bytes, and two keys, and no other reader of the input.
* `request`: all four policies with and without a fixed command, requests with and
  without one, both session types. The socket holds two messages of at most eight,
  so a sender waits and is refused in the middle. Three sizes and two resizes: one
  while another is being forwarded. The violated runs take one policy and one
  command.

### Fairness

Each task is weakly fair: the runtime polls what is ready. A full `mpsc` serves
waiters in order, so in `MuxSession` sends are strongly fair; so is the
client's `writer_task` in taking its queue, which assumes that credit owed for
discarded data does not come in faster than one frame each time the writer
goes round (its `select!` is biased towards what is owed). Who holds a written
descriptor goes on reading or closes it. The readers are not held up by other
streams in `MuxStream`; `MuxSession` has the one thing that can hold them up.
The runtime has a worker to spare while `Bridge::stop` blocks one. Nothing makes
a source produce data, a program exit, a process it left behind let go of what it
holds, a stuck input relay go on, or a holder close.

In `MuxStreams` each pump, reader and writer is weakly fair, and who holds a
stand-in reads it, and need do nothing else; nothing makes what the near end reads
readable. What the near end writes is always writable: its writing pumps never wait
for who reads the client's descriptors. `CleanCloseFrees` needs that, since the end
of a stream comes behind its data. In `LocalSession` both ends of the socket, the
daemon's task and the two relays are weakly fair, and whoever has the client's
output reads it or closes it; nothing makes the client type, the program do
anything, or who else has the slave let go of it. The last two are where a session
may wait for ever: in finding 4, and for a process in the background (*Seen while
modelling*). For an interactive session `SessionEnds`, and `ExitReported` and
`HangupEndsSession` over a mux, except a stuck input relay and begin when nobody has
the slave; `HangupEndsProgram` needs neither exception, because the program is killed
before the join, and nor does the part of `HangupEndsSession` that is about the
program. Behind a wait that failed, who holds the stand-ins keeps the channel, and
the client with it, so `ExitReported` over a mux excepts that too.

In `Session` client, forwarder, front-end and daemon are each weakly fair; the
user at the prompt, the program and what keeps a bridge stuck are not.

`PumpStops` and `ReceiverDropCloses` end in "or the other transport is dropped
too": two writers that both wait for a full channel nobody reads wait until it
fails. `ReaderNeverWaits` holds while the pump has the stream: after it
abandoned one, its sender may have more than its window (see *Seen while
modelling*).

## Findings

1. `mux_drop_closes`. `tests/mux_close.rs` says that dropping a transport must
   close its channel. An `async_reader` that waits for a silent holder is not
   woken by the drop and keeps `frame_tx`, so the writer goes on and the channel
   stays open until the holder writes or closes.
2. `streams_freed`. The comment on `async_writer` says that a stream nobody holds
   frees its socket (mux.rs:1104-1106), and `tests/mux_flow.rs` has a test of it
   (`a_delegated_end_that_is_dropped_frees_its_stream`) with holders that close
   at once. The pump that reads a stand-in looks for the close only at end of
   file. If the holder shut down what it writes first, that was before the
   close; if it closes with something unread, there is a read error in place of
   the end of file, and the pump leaves without a word. The pump that writes
   then keeps the socket and the slot until the peer sends something or ends
   the stream.
3. `session_stuck`. The module comment of `mux.rs` says that a stream whose far
   end stops reading never stops the reader. While the daemon joins the bridge
   or waits in the barrier of its exit, nobody calls `recv`. If the client's
   terminal is resized more often than `CHANNEL_DEPTH` in that time, the reader
   waits in `ctrl_tx.send`, in front of the Window grants the output needs. Both
   ends then wait for ever, also once the channel is gone, which the reader
   never finds out.
4. `bridge_stuck`. The comments on `Bridge` and `stop` say that the thread that
   copies the client's input is cancellable (pty.rs:132-133, 169). It looks at
   the cancel pipe only before a read. If it waits in a write to a full pty when
   the program exits, which is what happens to a program that is sent more input
   than the pty holds and exits without reading it, nobody makes room any more
   and `stop` joins it for ever: no `Exit`, and one worker of the daemon lost. A
   blocking read of input that someone else took after the poll has the same
   effect.
5. `request_chained`. The front-end ignores `SIGCHLD` (capsudod-pwauth main.rs:167)
   so as not to wait for the daemons it starts. They inherit that, so their own
   wait for the program fails with `ECHILD` when it exits, and the session ends
   with no `Exit`: behind a front-end a client is never told an exit status
   (daemon.rs:4-6 promises it). This holds where tokio waits through a pidfd;
   where it installs a handler for `SIGCHLD`, that undoes the inheritance.

### Seen while modelling

Consequences of the modelled code that no run is spent on.

* `StreamSink::abandon` says that nothing is counted into a closed queue
  (mux.rs:466-467). The reader counts a frame before it sends it (802-803); in
  between the abandoned stream grants the frame, and the reader, whose send then
  fails, owes it again. The sender of that dead stream has more than a window.
* The terminal's size is read before the connection and reused after a password
  prompt (capsudo main.rs:140); `SIGWINCH` is listened for once the request was
  sent. A resize in between is not forwarded.
* `UnixControlSender` is documented to write blocking (unix.rs:218-219), but its dup
  shares the socket's `O_NONBLOCK`. A resize that finds the socket full, some
  280 messages with Linux's defaults, fails, and the forwarder ends for good.
* A `dup` that fails after the `Fds` frame was queued (mux.rs:647) is an error of
  `send`; the client goes on to wait for the outcome (client.rs:84-97) and the
  daemon for `End`, each for the other.
* A delegated descriptor that closes at once can have its `StreamClose` at the near
  end before `OpensPumps` registered it; the writer is then told of the end of
  the stream by nothing but the end of the transport.
* When the channel fails, the sinks stay registered until the transport is dropped
  (mux.rs:826-829). A daemon that waits for a program that waits for the end of
  its input does not drop it.
* `Flow::close` does not wake a sender whose id a later stream took over.
* The comments in `run_interactive` and on `stop` say that the master reports end of
  file when the child exits (pty.rs:81-82, 169). It does when the last process closes
  the slave. One the program left in the background, which its exit does not signal,
  keeps it; the output relay then waits in `poll`, `stop` joins it, and the client is
  told nothing until that process ends. A client that gives up does not help: only
  the program is killed (101). In the models that process need not end, and
  `SessionEnds`, `HangupEndsSession` and `ExitReported` begin when it has.
* `closed_by_holder` (mux.rs:1161) takes a holder that shuts down what it writes for one
  that closed, and the stream ends that the holder still reads.
* `write_all` of the bridge takes `EAGAIN` for an error (pty.rs:224-229): a client
  output that is nonblocking and full loses the rest of the output.

## Proofs

Every theorem is about the module's specification with any values of its
constants that satisfy its named assumption; the constants of the runs are one
instance. Each rests on an inductive invariant with one lemma per action or per
part, because none of the properties is inductive as it stands.

A sum over a sequence, and the data that a sequence of frames carries, are
recursive functions. The library's induction theorems take an operator, which
the installed provers cannot instantiate, so `Totals` proves induction over *sets*
of naturals (`Smallest`, `Induction`, from the well-foundedness of `<`), and from it
that a sum exists and is unique (`SumsExist`, `SumsUnique`), and what appending,
taking, cutting and changing one entry does to it (`TotalAppend`, `TotalTail`,
`TotalPrefix`, `TotalExcept`), for bare sums and for sums of what each entry
weighs (`Weigh...`); the other proofs use that.

### The stream

They rest on `SizesAssumption` alone: windows, frame sizes and queue
depths are positive, with no relation between them; `Total` is any number.

| Theorem of `MuxStreamProofs` | Property |
|---|---|
| `Invariance` | `Inv`, the inductive invariant |
| `TypeCorrect` | `TypeOK`: in particular `QueueDepth.queued`, unsigned in the code, never wraps |
| `Backlog` | `BacklogBounded` |
| `NeverWaits` | `ReaderNeverWaits` |
| `CreditKept` | `CreditConserved` |
| `WindowBack` | `WholeWindowReturns` |
| `StreamIsPipe` | `IsPipe`: `MuxStream` implements `Pipe` |

Whether the queue is within its limit depends on
what the counter `queued` has to do with it, that on where the frame in the
reader's hand is, and the credit on every place a frame or a grant can be.
`Inv` (in `MuxStreamInv`) says it in parts:

* `Places`, `Control`: which frames and which hands go with which program
  counter, and when nothing can be left ungranted;
* `Closing`: a close is the last frame of its stream;
* `Forward`, `Received`, `Backward`: each sequence of frames is a `Chain` of
  running totals that starts where the one ahead of it ends, and `queued` is
  the cost of the queue, of the frame being written and of the one counted but
  not sent. A `Chain` states sums as differences, so appending, taking and
  losing frames need no induction over sequences (`ChainAppend`, `ChainTail`,
  `ChainPrefix`);
* `Granted`, `Accounted`: what arrived is granted, held or on its way back;
* `Overshoot`: a sender is at most one frame over its window;
* `HelloFirst`: a receiver that has not taken `Hello` has had no data yet.

There is one lemma per action, `InitInv`, `StepInv`, and each
theorem from the parts it needs. `Undisturbed` disposes of the steps that touch
nothing the invariant speaks of.

For the refinement, the pipe's contents (`InPipe`) are the items of six places one behind
another: the writing pump's hand, its queue, the reader's hand, the channel, the
sender's queue, the reading pump's hand. `Spells` describes what a sequence of
frames puts in without recursion, so that moving a frame from the head of one
place to the tail of the next, or into the next, leaves the whole as it is
(`Regroups`, `Moves`, `InRows`). Each action is then a `Put` or `Close` at the
sending end, a `Get` or `Eof` at the receiving one, a `Lose` of the last items
when a task or the channel goes, or a stutter (`PipeSender`, `PipeReader`,
`PipePump`, `PipeBreaks`). `Inv` does not say enough about the end of a stream:
that data comes for a pump that returned must be excluded, or it would be lost
in the middle. `Ending` says that such a pump has had all that was debited,
unless the holder or the reader has gone, and is kept by every step (`Endings`).

### The session channel

| Theorem of `MuxSessionProofs` | Property |
|---|---|
| `SessionTypeOK` | `TypeOK`: no buffer and no window overflows |
| `SessionOutputBeforeExit` | `OutputBeforeExit` |
| `SessionExitNotLost` | `ExitNotLost`, which no run needs: `IsReport` implies it. Left without the `Exit` is only a client whose channel failed, or whose daemon's wait for the program did |
| `SessionIsReport` | `IsReport`: `MuxSession` implements `Report` |

For any number of outputs and any sizes (`SessionAssumption`: all positive). An
`Exit` overtakes output only if it was queued too early, so the invariant follows
the output from the program on. `Carried`: until the session is over, what a program wrote
early is in the pty, a stand-in, a pump's hand, or ahead on the channel; the
barrier has passed only streams where it is in the last of these. `BehindOutput`:
an `Exit` anywhere on its way has all of it ahead of it, which holds when the
`Exit` is queued by `Carried`, and afterwards because queues are in order.
`ExitComes` says where the `Exit` is while the channel lives and the wait for the
program did not fail, `DriversRun` that
nothing on the daemon's side stops earlier, and `Credited` that credit and
everything it can be spent on fit in one window, which bounds what the client
queues. `SessionIsReport` takes each step to a step of `Report`: what the program
writes is a `Write`, what the client's reader takes in a `Show`, a channel or a wait
that fails a `Break`, the end of the client's transport a `Break` or a stutter, the
client's outcome a `Tell`, of which `BehindOutput` and `ExitComes` give the two
conditions, and everything else a stutter.

### The registry

| Theorem of `MuxStreamsProofs` | Property |
|---|---|
| `StreamsTypeOK` | `TypeOK` |
| `StreamsTablesExact` | `TablesExact` |
| `StreamsNeverTooEarly` | `NeverTooEarly` |
| `StreamsBounded` | `StandInsBounded` |
| `StreamsHalfClosedReads` | `HalfClosedReads` |
| `StreamsCreditKept` | `CreditKept` |

For any list of descriptors with any directions, any number of ids (so for every
way they can wrap), any limits and window (`StreamsAssumption`). That data is not
early is a property of the order of two tasks at each end: `AllAnnounced` says
that a delegated stream has its writer or its `Fds` frame in the queue,
`FdsInOrder` that those frames are of later streams than the stand-ins made so
far, and `DataInTime` that each data frame has its stream's `Fds` ahead of it, or
its writer there. `EntriesRun` and `AllListed` are the two directions of the tables:
an entry is of a running pump under its own id; and a running pump has its
entry, unless a later stream took the id or its close is already queued. The
limit is a cardinality (`StandInsBounded`), kept because a stand-in is made only
below it.

`CreditKept` is about a sum over five places: what is available to the sender, its
data on the channel, what the other end has queued, ungranted or owed under that id,
and the grants on their way back. The sums run over sequences of frames and over all
pumps of an id, dead ones with it. It needs two more invariants above `Inv`.
`Queueing` says what can be in those places: a data frame has a cost of one, only a
pump that runs has messages and a close is the last of them, and credit is owed only
to an id under which the other end sends (so `MaxOwed` suffices where no more ids
send than that). `Credits` is `KeptAll`, the property for each id, and `Silent`:
nothing was spent under an id of one stream before it starts, without which the sum
would start above the window. `CreditMoves` reduces a step to the change of the sum;
then there is a lemma for each way credit moves: data into a queue or, where it
finds none, into what is owed (`KeepsData`), a queue into a grant, frame by frame or
all of it when its pump goes (`KeepsGranted`), what is owed into a grant
(`KeepsPaid`), and the sender's own spending and receiving (`SendsCredits`,
`WindowCredits`). Where an id is another stream's too, credit may only be gained,
and the sum is a bound from below.

### The use of a capability

| Theorem of `SessionProofs` | Property |
|---|---|
| `ChallengeKept` | `ChallengeWins` |
| `Truthful` | `Truth`: one run at most, and the client is told its exit, or that nothing ran, only if so |
| `SessionShape` | `TypeOK` |
| `SessionIsCapability` | `IsCapability`: `Session` implements `Capability` |

They hold for all policies, requests, deployments and bounds (`SessionAssumption`
names the types). The invariant `Inv` there ties three places a verdict can be:
what the other end has done, what it left in the socket (`Reports` lists the
four possible contents), and what the client made of it. `Truth` alone is not
inductive: an `Exit` on its way must already be true, unless an `Error` was ahead
of it, and the client's `failure` says whether one was.

That what runs is what the policy permits needs the request as well. `Whole` adds
that what the daemon took is some prefix of `Configuration`, of which the socket
holds what comes next (`Behind`), and that `got` is what the policy makes of that
prefix (`After`: its own words, then those asked for unless it refuses them).
`Started`: at `End` the prefix is everything, and `got` is `Permitted`.

### The local session

| Theorem | Property |
|---|---|
| `TransportIsQueue` (`UnixTransportProofs`) | `IsQueue`: `UnixTransport` implements `MessageQueue` |
| `SockTypes` (`UnixTransportProofs`) | `SockTypeOK`: the socket never holds more than it may |
| `BridgeTypes`, `BridgeFinalOutput`, `BridgeKeysStay` (`LocalSessionProofs`) | `BridgeTypeOK`, `FinalOutput` (which no run needs: `IsReport` says it of every session; both except an output that was closed or gave up), `KeysStay` |
| `BridgeIsReport` (`LocalSessionProofs`) | `IsReport`: `PtyBridge` implements `Report` |
| `SessionIsQueue`, `SessionFinalOutput`, `SessionIsReport`, `SessionKeysStay`, `SessionServed`, `LocalTypeOK` (`LocalSessionProofs`) | the same of `LocalSession`; `Served` and `TypeOK` |

`TransportIsQueue` holds for any messages, header and socket sizes
(`TransportAssumption`; control messages carry no descriptors). Its invariant
`QueueInv` says that the pieces in the socket are `Contiguous` from what the
receiver has of the message it is in to the sender's `offset`, that descriptors
lie only on a first byte, and that what was received is a prefix of `Messages`
(`InOrder`). Every step of `UnixTransport` is then a step of `MessageQueue` or a
stutter: a first write is `Put`, a last byte taken is `Get`.

`BridgeInv` bounds what the program wrote and the output does not have by what is in
the pty and in the relay's hand (`Accounted`), and ties the end of the output relay
to a slave nobody has and an empty pty (`RelayEndsLast`), neither of which
`FinalOutput` alone implies one step earlier. They hold for all sizes
(`BridgeAssumption`). For `Report`, what is owed is what the program wrote and the
output does not have, as long as the output is read and takes what it is given;
`BridgeInv` gives that nothing is owed when `run_interactive` reports.

A step of `LocalSession` is a step of `UnixTransport` or leaves its variables alone,
and likewise for `PtyBridge` (`SessionIsTransport`, `SessionIsBridge`), so the
theorems carry over; `Served` needs `QueueInv` as well, because it is about which
descriptors the message in hand came with.

### What is only model-checked

Liveness, which rests on fairness and so on ENABLED, beyond the prover:
`EofDelivered`, `SenderReleased`, `PumpStops`, `ReceiverDropCloses` of the stream;
`ExitReported` and `HangupEndsSession` of the session channel; `CleanCloseFrees`,
`SendersReleased`, `DropReachesHolder` of the registry; `Answered`, `ExitReported`,
`HangupEndsProgram`, `ResizeArrives` of the use of a capability; `ConfigEnds`,
`SessionEnds`, `HangupEndsProgram`, `OutputFlows` of the local session. The findings
are counterexamples.

The proofs are about each module's model. That the streams of `MuxSession`, reduced
to counters, behave as `MuxStream` does, and those of `MuxStreams` reduced to
frames of cost one, is argued under *Modules* and not proved.

## What could come next

* A proof that each stream of `MuxSession` and `MuxStreams` is a `Pipe`, which would
  join them to `MuxStream` by more than the argument under *Modules*.
* `MuxStreams` with several descriptors in an `Fds` frame and a failure between two
  of them, and both ends delegating at once.

## Not modelled

Message encodings (stateless), option parsing, ownership and mode of sockets,
SELinux contexts, password hashing, and termios (straight-line calls to the
system); the TCP stand-in for IDM. Frame sizes beyond the receiver's limit and
malformed frames, which end the session. Over a mux, the input stream of a session is an
instance of `MuxStream` and shares with `MuxSession` nothing but the frame
queues.

## Running

    tlc -config MuxCredit.cfg MuxStream
    tlc -config MuxSession.cfg MuxSession
    tlc -config Request.cfg MCSession
    tlc -config Streams.cfg MCStreams
    tlc -config Local.cfg LocalSession
    tlapm Totals.tla && tlapm MuxStreamInv.tla && tlapm MuxStreamProofs.tla
    tlapm MuxSessionProofs.tla && tlapm MuxStreamsProofs.tla
    tlapm SessionProofs.tla
    tlapm UnixTransportProofs.tla && tlapm LocalSessionProofs.tla

`PROJECT.json` lists the configuration of every run. With two workers a run
takes up to two and a half minutes; all proofs take about fifteen minutes from
scratch.
