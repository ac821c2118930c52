----------------------------- MODULE PtyBridge -----------------------------
(***************************************************************************)
(* An interactive session from the start of its program to the Exit the     *)
(* daemon sends: run_interactive and the two threads of its Bridge          *)
(* (crates/capsudo-core/src/pty.rs).                                        *)
(*                                                                         *)
(*   client's input  -> [relayIn]  -> pty -> program                        *)
(*   client's output <- [relayOut] <- pty <- program                        *)
(*                                                                         *)
(* Bytes are counted. Modelled from how the code uses it: the pty, which    *)
(* holds InPty and OutPty bytes. Reads of the master fail once no process   *)
(* has the slave any more and what was written to it is read. That may be   *)
(* long after the program that controls the pty: its exit signals only the  *)
(* foreground group, and a process in the background keeps the slave.       *)
(* Writes to the master go on as before, and wait once it is full.          *)
(***************************************************************************)
EXTENDS Naturals

CONSTANTS
  Buf,      \* BRIDGE_BUF, the most one read of a relay takes
  Keys,     \* what the client's input holds
  InPty,    \* what the pty holds for the program
  OutPty,   \* what it holds for the master
  Room,     \* what the client's output holds for who reads it
  Shared    \* whether another process reads the client's input too

ASSUME BridgeAssumption ==
  /\ \A size \in {Buf, Keys, InPty, OutPty, Room} : size \in Nat \ {0}
  /\ Shared \in BOOLEAN

VARIABLES
  \* The client's descriptors, which outlive the session.
  tty,       \* what they are, fixed: "blocking", or "nonblocking" as their owner uses them
  input,     \* typed and unread
  inputEnd,  \* the client's input is at its end
  output,    \* written to the client's output and not yet read there
  deaf,      \* who reads that output closed it
  client,    \* "here" or "gone": its end of the transport
  \* The program, and its pty.
  prog,      \* "runs" or "exited"
  leftover,  \* the program exited, and a process it started still has the slave
  toProg,    \* bytes in the pty for who has the slave
  fromProg,  \* bytes in the pty for the master
  early,     \* bytes written while the program ran, still to come to the client's output (auxiliary)
  \* The daemon.
  relayIn,   \* the cancellable thread: "poll", "read", "write" or "ended"
  inHand,    \* what it read and has not written
  relayOut,  \* the other thread: "read", "write" or "ended"
  outHand,
  cutShort,  \* it ended on a full output (auxiliary)
  cancelled, \* the cancel pipe is readable
  main       \* "select", "kill", "stop", "joinIn", "joinOut", "report",
             \* "done", or "failed" without a report

keys   == <<input, inputEnd>>
screen == <<output, deaf>>
program == <<prog, leftover, toProg, fromProg, early>>
taker  == <<relayIn, inHand>>
giver  == <<relayOut, outHand, cutShort>>
daemon == <<cancelled, main>>
bridgeVars == <<tty, keys, screen, client, program, taker, giver, daemon>>

Least(a, b) == IF a < b THEN a ELSE b

\* The program was spawned and the bridge started.
BridgeInit ==
  /\ tty \in {"blocking", "nonblocking"}
  /\ input = 0 /\ inputEnd = FALSE
  /\ output = 0 /\ deaf = FALSE /\ client = "here"
  /\ prog = "runs" /\ leftover = FALSE /\ toProg = 0 /\ fromProg = 0 /\ early = 0
  /\ relayIn = "poll" /\ inHand = 0
  /\ relayOut = "read" /\ outHand = 0 /\ cutShort = FALSE
  /\ cancelled = FALSE /\ main = "select"

-----------------------------------------------------------------------------
(* The client's terminal.                                                    *)

Types ==
  /\ input < Keys /\ ~inputEnd
  /\ input' = input + 1
  /\ UNCHANGED <<tty, inputEnd, screen, client, program, taker, giver, daemon>>

InputEnds ==
  /\ ~inputEnd
  /\ inputEnd' = TRUE
  /\ UNCHANGED <<tty, input, screen, client, program, taker, giver, daemon>>

\* Another process that has the client's input reads it, as one in the
\* background of the client's terminal may.
OtherReads ==
  /\ Shared /\ input > 0
  /\ input' = input - 1
  /\ UNCHANGED <<tty, inputEnd, screen, client, program, taker, giver, daemon>>

OutputRead ==
  /\ output > 0 /\ ~deaf
  /\ output' = output - 1
  /\ UNCHANGED <<tty, keys, deaf, client, program, taker, giver, daemon>>

OutputCloses ==
  /\ ~deaf
  /\ deaf' = TRUE
  /\ UNCHANGED <<tty, keys, output, client, program, taker, giver, daemon>>

ClientGoes ==
  /\ client = "here"
  /\ client' = "gone"
  /\ UNCHANGED <<tty, keys, screen, program, taker, giver, daemon>>

-----------------------------------------------------------------------------
(* The program, and what it leaves behind.                                   *)

SlaveOpen == prog = "runs" \/ leftover

ProgReads ==
  /\ SlaveOpen /\ toProg > 0
  /\ toProg' = toProg - 1
  /\ UNCHANGED <<tty, keys, screen, client, prog, leftover, fromProg, early, taker,
                 giver, daemon>>

\* What is written behind the exit is nobody's output any more.
ProgWrites ==
  /\ SlaveOpen /\ fromProg < OutPty
  /\ fromProg' = fromProg + 1
  /\ early' = IF prog = "runs" THEN early + 1 ELSE early
  /\ UNCHANGED <<tty, keys, screen, client, prog, leftover, toProg, taker, giver, daemon>>

\* By itself or killed.
Exits ==
  /\ prog' = "exited"
  /\ leftover' \in IF prog = "runs" THEN BOOLEAN ELSE {leftover}
  /\ UNCHANGED <<toProg, fromProg, early>>

ProgExits ==
  /\ prog = "runs" /\ Exits
  /\ UNCHANGED <<tty, keys, screen, client, taker, giver, daemon>>

LeftoverEnds ==
  /\ leftover
  /\ leftover' = FALSE
  /\ UNCHANGED <<tty, keys, screen, client, prog, toProg, fromProg, early, taker, giver,
                 daemon>>

-----------------------------------------------------------------------------
(* relay(client_in, master, cancel).                                         *)

\* Mutant: the cancel pipe is looked at only when the input is silent.
InPolls_InputFirst ==
  /\ relayIn = "poll"
  /\ \/ input > 0 \/ inputEnd
     \/ cancelled
  /\ relayIn' = IF input > 0 \/ inputEnd THEN "read" ELSE "ended"
  /\ UNCHANGED <<tty, keys, screen, client, program, inHand, giver, daemon>>

\* Polls for input or cancellation; cancellation comes first.
InPolls ==
  /\ relayIn = "poll"
  /\ input > 0 \/ inputEnd \/ cancelled
  /\ relayIn' = IF cancelled THEN "ended" ELSE "read"
  /\ UNCHANGED <<tty, keys, screen, client, program, inHand, giver, daemon>>

\* Reads what is there. Someone else may have read it first: then a blocking
\* read waits and a nonblocking one fails, which ends the relay like an end of
\* file does.
InReads ==
  /\ relayIn = "read"
  /\ \/ /\ input > 0
        /\ \E n \in 1..Least(input, Buf) : input' = input - n /\ inHand' = n
        /\ relayIn' = "write"
     \/ /\ input = 0 /\ (inputEnd \/ tty = "nonblocking")
        /\ relayIn' = "ended"
        /\ UNCHANGED <<input, inHand>>
  /\ UNCHANGED <<tty, inputEnd, screen, client, program, giver, daemon>>

\* write_all to the master waits while the pty is full, for the program or not.
InWrites ==
  /\ relayIn = "write" /\ toProg < InPty
  /\ LET n == Least(inHand, InPty - toProg) IN
       /\ toProg' = toProg + n
       /\ inHand' = inHand - n
  /\ relayIn' = IF inHand' = 0 THEN "poll" ELSE "write"
  /\ UNCHANGED <<tty, keys, screen, client, prog, leftover, fromProg, early, giver,
                 daemon>>

-----------------------------------------------------------------------------
(* relay(master, client_out, None).                                          *)

\* Mutant: the relay ends when the program does.
OutReads_Leaves ==
  /\ relayOut = "read"
  /\ \/ /\ fromProg > 0 /\ prog = "runs"
        /\ \E n \in 1..Least(fromProg, Buf) : fromProg' = fromProg - n /\ outHand' = n
        /\ relayOut' = "write"
     \/ /\ prog = "exited"
        /\ relayOut' = "ended"
        /\ UNCHANGED <<fromProg, outHand>>
  /\ UNCHANGED <<tty, keys, screen, client, prog, leftover, toProg, early, taker,
                 cutShort, daemon>>

\* The master is read until it fails behind the last output, when nobody has the
\* slave any more.
OutReads ==
  /\ relayOut = "read"
  /\ \/ /\ fromProg > 0
        /\ \E n \in 1..Least(fromProg, Buf) : fromProg' = fromProg - n /\ outHand' = n
        /\ relayOut' = "write"
     \/ /\ fromProg = 0 /\ ~SlaveOpen
        /\ relayOut' = "ended"
        /\ UNCHANGED <<fromProg, outHand>>
  /\ UNCHANGED <<tty, keys, screen, client, prog, leftover, toProg, early, taker,
                 cutShort, daemon>>

\* The program's last output comes ahead of what is written behind its exit.
Shown(n) == early' = IF n < early THEN early - n ELSE 0

\* Mutant: an output nobody reads any more is waited for.
OutWrites_Waits ==
  /\ relayOut = "write" /\ ~deaf
  /\ \/ /\ output < Room
        /\ output' = output + 1 /\ outHand' = outHand - 1 /\ Shown(1)
        /\ relayOut' = IF outHand' = 0 THEN "read" ELSE "write"
        /\ UNCHANGED cutShort
     \/ /\ output = Room /\ tty = "nonblocking"
        /\ relayOut' = "ended" /\ cutShort' = TRUE
        /\ UNCHANGED <<output, outHand, early>>
  /\ UNCHANGED <<tty, keys, deaf, client, prog, leftover, toProg, fromProg, taker, daemon>>

\* Mutant: the output is written without regard to its room.
OutWrites_Over ==
  /\ relayOut = "write"
  /\ IF deaf THEN relayOut' = "ended" /\ UNCHANGED <<output, outHand, early>>
     ELSE /\ relayOut' = "read" /\ output' = output + outHand /\ outHand' = 0
          /\ Shown(outHand)
  /\ UNCHANGED <<tty, keys, deaf, client, prog, leftover, toProg, fromProg, taker, cutShort,
                 daemon>>

\* write_all to the client's output. It waits for room if the descriptor
\* blocks, and takes EAGAIN for an error if it does not.
OutWrites ==
  /\ relayOut = "write"
  /\ \/ /\ ~deaf /\ output < Room
        /\ LET n == Least(outHand, Room - output) IN
             /\ output' = output + n
             /\ outHand' = outHand - n
             /\ Shown(n)
        /\ relayOut' = IF outHand' = 0 THEN "read" ELSE "write"
        /\ UNCHANGED cutShort
     \/ /\ deaf \/ (output = Room /\ tty = "nonblocking")
        /\ relayOut' = "ended"
        /\ cutShort' = ~deaf
        /\ UNCHANGED <<output, outHand, early>>
  /\ UNCHANGED <<tty, keys, deaf, client, prog, leftover, toProg, fromProg, taker, daemon>>

-----------------------------------------------------------------------------
(* run_interactive.                                                          *)

\* The select: the program exited, or recv found the client gone.
MainSelects ==
  /\ main = "select"
  /\ \/ prog = "exited" /\ main' = "stop"
     \/ client = "gone" /\ main' = "kill"
  /\ UNCHANGED <<tty, keys, screen, client, program, taker, giver, cancelled>>

\* Mutant: a program whose client left is waited for, not killed.
MainKills_Waits ==
  /\ main = "kill" /\ prog = "exited"
  /\ main' = "stop"
  /\ UNCHANGED <<tty, keys, screen, client, program, taker, giver, cancelled>>

\* start_kill, and the wait for it.
MainKills ==
  /\ main = "kill"
  /\ Exits /\ main' = "stop"
  /\ UNCHANGED <<tty, keys, screen, client, taker, giver, cancelled>>

\* The wait fails, as it does if the daemon was started with SIGCHLD ignored:
\* the session ends without a report, and the bridge is dropped, not stopped.
\* Its input relay finds the cancel pipe closed, unless the program of another
\* session inherited the end that wakes it: the pipe is not close-on-exec.
MainFails ==
  /\ main \in {"select", "kill"} /\ prog = "exited"
  /\ cancelled' \in BOOLEAN /\ main' = "failed"
  /\ UNCHANGED <<tty, keys, screen, client, program, taker, giver>>

\* Mutant: stop joins its threads without waking either.
MainCancels_Silent ==
  /\ main = "stop"
  /\ main' = "joinIn"
  /\ UNCHANGED <<tty, keys, screen, client, program, taker, giver, cancelled>>

\* Bridge::stop wakes the thread that can be cancelled, and joins both.
MainCancels ==
  /\ main = "stop"
  /\ cancelled' = TRUE /\ main' = "joinIn"
  /\ UNCHANGED <<tty, keys, screen, client, program, taker, giver>>

MainJoins ==
  /\ \/ main = "joinIn" /\ relayIn = "ended" /\ main' = "joinOut"
     \/ main = "joinOut" /\ relayOut = "ended" /\ main' = "report"
  /\ UNCHANGED <<tty, keys, screen, client, program, taker, giver, cancelled>>

\* send_exit.
MainReports ==
  /\ main = "report"
  /\ main' = "done"
  /\ UNCHANGED <<tty, keys, screen, client, program, taker, giver, cancelled>>

Main == MainSelects \/ MainKills \/ MainFails \/ MainCancels \/ MainJoins \/ MainReports
Input == InPolls \/ InReads \/ InWrites
Output == OutReads \/ OutWrites

\* What a cancelled input relay can still wait for: a full pty that nobody need
\* read, or input that someone else took after it was polled.
InputStuck ==
  \/ relayIn = "write" /\ toProg = InPty
  \/ relayIn = "read" /\ input = 0 /\ ~inputEnd /\ tty = "blocking"

BridgeTerminated ==
  /\ main \in {"done", "failed"} \/ (main = "joinIn" /\ InputStuck)
  /\ UNCHANGED bridgeVars

Terminal == Types \/ InputEnds \/ OtherReads \/ OutputRead \/ OutputCloses
Program  == ProgReads \/ ProgWrites \/ ProgExits \/ LeftoverEnds

BridgeStep == Terminal \/ Program \/ Input \/ Output \/ Main

BridgeNext == BridgeStep \/ ClientGoes \/ BridgeTerminated

BridgeSpec == BridgeInit /\ [][BridgeNext]_bridgeVars

-----------------------------------------------------------------------------
\* The shape of the state, with every buffer within what it holds.
BridgeTypeOK ==
  /\ tty \in {"blocking", "nonblocking"} /\ client \in {"here", "gone"}
  /\ input \in 0..Keys /\ inputEnd \in BOOLEAN
  /\ output \in 0..Room /\ deaf \in BOOLEAN
  /\ prog \in {"runs", "exited"} /\ leftover \in BOOLEAN /\ toProg \in 0..InPty
  /\ fromProg \in 0..OutPty /\ early \in 0..OutPty + Buf
  /\ relayIn \in {"poll", "read", "write", "ended"} /\ inHand \in 0..Buf
  /\ relayOut \in {"read", "write", "ended"} /\ outHand \in 0..Buf
  /\ cutShort \in BOOLEAN /\ cancelled \in BOOLEAN
  /\ main \in {"select", "kill", "stop", "joinIn", "joinOut", "report", "done", "failed"}

\* The comment on Bridge: the master is read to its end, so the child's final
\* output is never truncated. When the exit is reported, all the program wrote
\* is in the client's output, unless who reads that closed it, or the relay
\* gave up because it is nonblocking and was full.
FinalOutput ==
  main \in {"report", "done"} /\ ~deaf /\ ~cutShort => early = 0

\* What the client types is left to whoever reads its terminal next: once the
\* bridge is cancelled nothing more is taken of it than by the read that had
\* begun, and nothing at all once the exit is reported.
KeysStay ==
  [][/\ cancelled /\ relayIn' = "read" => relayIn = "read"
     /\ main = "done" => inHand' <= inHand]_bridgeVars

\* What is reported, and when, is what Report promises the client, as it does of
\* a session over a mux: the exit, once, after it and behind all output, unless
\* that was cut short or nobody reads it.
Lossy == deaf \/ cutShort

Promise == INSTANCE Report WITH
             Outputs <- {"terminal"}, runs <- prog = "runs",
             owed <- [o \in {"terminal"} |-> IF Lossy THEN 0 ELSE early],
             told <- IF main = "done" THEN "exited" ELSE "nothing", broken <- Lossy

IsReport == Promise!Spec

-----------------------------------------------------------------------------
(* The threads and the session's task run. Whoever has the client's output   *)
(* reads it. Nothing makes the client type, the program do anything, or who  *)
(* it left behind let go of the pty.                                         *)
BridgeFairness ==
  /\ WF_bridgeVars(Input) /\ WF_bridgeVars(Output) /\ WF_bridgeVars(Main)
  /\ WF_bridgeVars(OutputRead)

BridgeFairSpec == BridgeSpec /\ BridgeFairness

\* The session of a program that exited ends once nobody has its pty any more,
\* whoever reads its output or left, unless the relay of its input is stuck.
SessionEnds ==
  prog = "exited" /\ ~leftover ~> main \in {"done", "failed"} \/ InputStuck

\* A program that waits for room in its pty goes on: the relay that empties it
\* waits for nothing but the client's output, and ends only with that.
OutputFlows == fromProg = OutPty ~> fromProg < OutPty \/ relayOut = "ended"

\* The comments on Bridge and its stop: the thread that copies the client's input
\* is cancellable, and stop wakes it before it joins it.
InputCancels == main = "joinIn" ~> relayIn = "ended"
=============================================================================
