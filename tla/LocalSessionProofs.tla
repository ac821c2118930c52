------------------------- MODULE LocalSessionProofs -------------------------
(***************************************************************************)
(* A session on the local socket is a behaviour of its socket and of its    *)
(* bridge, so what is proved of each of them holds of it; and no request is *)
(* refused for what the socket made of it.                                  *)
(***************************************************************************)
EXTENDS LocalSession, UnixTransportProofs

-----------------------------------------------------------------------------
(* The bridge: none of its buffers overflows, whatever their sizes; the exit *)
(* is reported behind the last output; and a bridge that is cancelled leaves *)
(* the client's input alone.                                                 *)

\* What the program wrote while it ran and is still to come to the client's output
\* is in the pty or in the hand of the relay.
Accounted == early <= fromProg + outHand

\* The output relay holds nothing while it reads, and ends behind the last that
\* anyone writes to the pty, or because it cannot write.
RelayEndsLast ==
  /\ relayOut = "read" => outHand = 0
  /\ relayOut = "ended" /\ ~deaf /\ ~cutShort =>
       ~SlaveOpen /\ fromProg = 0 /\ outHand = 0

\* The session goes on only behind the program's end and each join.
Joined ==
  /\ main \notin {"select", "kill"} => prog = "exited"
  /\ main \in {"joinOut", "report", "done"} => relayIn = "ended"
  /\ main \in {"report", "done"} => relayOut = "ended"

BridgeInv == BridgeTypeOK /\ Accounted /\ RelayEndsLast /\ Joined

-----------------------------------------------------------------------------
LEMMA Sizes ==
  /\ Buf \in Nat /\ Keys \in Nat /\ InPty \in Nat /\ OutPty \in Nat /\ Room \in Nat
  /\ Buf > 0 /\ Keys > 0 /\ InPty > 0 /\ OutPty > 0 /\ Room > 0
  BY BridgeAssumption DEF BridgeAssumption

\* What is on its way through the pty and the relay fits into them.
LEMMA Within ==
  ASSUME NEW a \in Nat, NEW b \in 0..OutPty, NEW c \in 0..Buf, a <= b + c
  PROVE  a \in 0..OutPty + Buf
  BY Sizes

LEMMA BridgeInitial == BridgeInit => BridgeInv
<1> SUFFICES ASSUME BridgeInit
             PROVE  BridgeInv
  OBVIOUS
<1>1. BridgeTypeOK
  <2>1. {inputEnd, deaf, cutShort, cancelled, leftover} \subseteq BOOLEAN
    BY DEF BridgeInit
  <2>2. /\ input \in 0..Keys /\ output \in 0..Room /\ toProg \in 0..InPty
        /\ fromProg \in 0..OutPty /\ early \in 0..OutPty + Buf
        /\ inHand \in 0..Buf /\ outHand \in 0..Buf
    BY Sizes DEF BridgeInit
  <2> QED
    BY <2>1, <2>2 DEF BridgeInit, BridgeTypeOK
<1>2. Accounted
  BY DEF BridgeInit, Accounted
<1>3. RelayEndsLast /\ Joined
  BY DEF BridgeInit, RelayEndsLast, Joined
<1> QED
  BY <1>1, <1>2, <1>3 DEF BridgeInv

\* The terminal and the client touch nothing but its descriptors.
LEMMA TerminalKeeps ==
  ASSUME BridgeInv, Terminal \/ ClientGoes \/ UNCHANGED bridgeVars
  PROVE  BridgeInv'
<1> USE Sizes DEF BridgeInv, BridgeTypeOK, Accounted, RelayEndsLast, SlaveOpen, Joined,
        keys, screen, program, taker, giver, daemon
<1>1. CASE Types
  BY <1>1 DEF Types
<1>2. CASE InputEnds
  BY <1>2 DEF InputEnds
<1>3. CASE OtherReads
  BY <1>3 DEF OtherReads
<1>4. CASE OutputRead
  BY <1>4 DEF OutputRead
<1>5. CASE OutputCloses
  BY <1>5 DEF OutputCloses
<1>6. CASE ClientGoes
  BY <1>6 DEF ClientGoes
<1>7. CASE UNCHANGED bridgeVars
  BY <1>7 DEF bridgeVars
<1> QED
  BY <1>1, <1>2, <1>3, <1>4, <1>5, <1>6, <1>7 DEF Terminal

LEMMA ProgramKeeps ==
  ASSUME BridgeInv, Program
  PROVE  BridgeInv'
<1> USE Sizes DEF BridgeInv, BridgeTypeOK, Accounted, RelayEndsLast, SlaveOpen, Joined,
        keys, screen, program, taker, giver, daemon
<1>1. CASE ProgReads
  BY <1>1 DEF ProgReads
<1>2. CASE ProgWrites
  <2>1. fromProg' \in 0..OutPty /\ fromProg' = fromProg + 1
    BY <1>2 DEF ProgWrites
  <2>2. early' \in Nat /\ early' <= early + 1
    BY <1>2 DEF ProgWrites
  <2>3. early' <= fromProg' + outHand
    BY <2>1, <2>2
  <2>4. early' \in 0..OutPty + Buf
    BY <2>1, <2>2, <2>3, Within
  <2> QED
    BY <1>2, <2>1, <2>3, <2>4 DEF ProgWrites
<1>3. CASE ProgExits
  BY <1>3 DEF ProgExits, Exits
<1>4. CASE LeftoverEnds
  <2>1. leftover' \in BOOLEAN /\ UNCHANGED <<keys, screen, taker, giver, daemon>>
    BY <1>4 DEF LeftoverEnds
  <2>2. RelayEndsLast'
    BY <1>4 DEF LeftoverEnds
  <2> QED
    BY <1>4, <2>1, <2>2 DEF LeftoverEnds
<1> QED
  BY <1>1, <1>2, <1>3, <1>4 DEF Program

LEMMA InputKeeps ==
  ASSUME BridgeInv, Input
  PROVE  BridgeInv'
<1> USE Sizes DEF BridgeInv, BridgeTypeOK, Accounted, RelayEndsLast, SlaveOpen, Joined,
        keys, screen, program, taker, giver, daemon
<1>1. CASE InPolls
  BY <1>1 DEF InPolls
<1>2. CASE InReads
  BY <1>2 DEF InReads, Least
<1>3. CASE InWrites
  BY <1>3 DEF InWrites, Least
<1> QED
  BY <1>1, <1>2, <1>3 DEF Input

\* What a relay of output takes in hand leaves the pty, and what it writes out
\* leaves its hand; it ends only behind the last of it.
LEMMA OutputKeeps ==
  ASSUME BridgeInv, Output
  PROVE  BridgeInv'
<1> USE DEF BridgeInv
<1>1. Accounted'
  <2> USE DEF BridgeTypeOK, Accounted, RelayEndsLast, program
  <2>1. CASE OutReads
    BY <2>1 DEF OutReads, Least, screen
  <2>2. CASE OutWrites
    <3> DEFINE n == Least(outHand, Room - output)
    <3>1. \/ Shown(n) /\ outHand' = outHand - n
          \/ early' = early /\ outHand' = outHand
      BY <2>2, Zenon DEF OutWrites
    <3>2. fromProg' = fromProg
      BY <2>2 DEF OutWrites
    <3>3. n \in Nat /\ n <= outHand
      BY Sizes DEF Least
    <3> QED
      BY <3>1, <3>2, <3>3, Sizes DEF Shown
  <2> QED
    BY <2>1, <2>2 DEF Output
<1>2. BridgeTypeOK'
  <2> USE Sizes DEF BridgeTypeOK, RelayEndsLast,
          keys, screen, program, taker, giver, daemon
  <2>1. CASE OutReads
    <3>1. /\ fromProg' \in 0..OutPty /\ outHand' \in 0..Buf
          /\ relayOut' \in {"read", "write", "ended"}
      BY <2>1 DEF OutReads, Least
    <3>2. early' \in 0..OutPty + Buf /\ output' \in 0..Room /\ toProg' \in 0..InPty
          /\ input' \in 0..Keys /\ inHand' \in 0..Buf
      BY <2>1 DEF OutReads
    <3> QED
      BY <2>1, <3>1, <3>2 DEF OutReads
  <2>2. CASE OutWrites
    <3>1. cutShort' \in BOOLEAN /\ deaf' \in BOOLEAN
      BY <2>2 DEF OutWrites
    <3>2. output' \in 0..Room /\ outHand' \in 0..Buf
      BY <2>2 DEF OutWrites, Least
    <3>3. relayOut' \in {"read", "write", "ended"}
      BY <2>2 DEF OutWrites
    <3>4. early' \in Nat
      BY <2>2 DEF OutWrites, Least, Shown
    <3>5. fromProg' \in 0..OutPty
      BY <2>2 DEF OutWrites
    <3>6. early' \in 0..OutPty + Buf
      <4>1. early' <= fromProg' + outHand'
        BY <1>1 DEF Accounted
      <4> QED
        BY <3>2, <3>4, <3>5, <4>1, Within
    <3> QED
      BY <2>2, <3>1, <3>2, <3>3, <3>6 DEF OutWrites
  <2> QED
    BY <2>1, <2>2 DEF Output
<1>3. RelayEndsLast'
  <2> USE DEF BridgeTypeOK, RelayEndsLast, SlaveOpen, program
  <2>1. CASE OutReads
    BY <2>1 DEF OutReads
  <2>2. CASE OutWrites
    <3>1. relayOut' = "read" => outHand' = 0
      BY <2>2 DEF OutWrites
    <3>2. relayOut' = "ended" => deaf' \/ cutShort'
      BY <2>2 DEF OutWrites
    <3> QED
      BY <3>1, <3>2
  <2> QED
    BY <2>1, <2>2 DEF Output
<1>4. Joined'
  BY DEF Joined, Output, OutReads, OutWrites, program, taker, daemon
<1> QED
  BY <1>1, <1>2, <1>3, <1>4

LEMMA MainKeeps ==
  ASSUME BridgeInv, Main
  PROVE  BridgeInv'
<1> USE Sizes DEF BridgeInv, BridgeTypeOK, Accounted, RelayEndsLast, SlaveOpen, Joined,
        keys, screen, program, taker, giver, daemon
<1>1. CASE MainSelects
  BY <1>1 DEF MainSelects
<1>2. CASE MainKills
  BY <1>2 DEF MainKills, Exits
<1>3. CASE MainFails
  BY <1>3 DEF MainFails
<1>4. CASE MainCancels
  BY <1>4 DEF MainCancels
<1>5. CASE MainJoins
  BY <1>5 DEF MainJoins
<1>6. CASE MainReports
  BY <1>6 DEF MainReports
<1> QED
  BY <1>1, <1>2, <1>3, <1>4, <1>5, <1>6 DEF Main

LEMMA BridgeInductive == BridgeInv /\ [BridgeNext]_bridgeVars => BridgeInv'
  BY TerminalKeeps, ProgramKeeps, InputKeeps, OutputKeeps, MainKeeps
  DEF BridgeNext, BridgeStep, BridgeTerminated

LEMMA BridgeInvariant == BridgeSpec => []BridgeInv
  BY BridgeInitial, BridgeInductive, PTL DEF BridgeSpec

-----------------------------------------------------------------------------
\* The relays, the pty and the descriptors never hold more than they can
\* (BRIDGE_BUF, and what write_all waits for).
THEOREM BridgeTypes == BridgeSpec => []BridgeTypeOK
<1>1. BridgeInv => BridgeTypeOK
  BY DEF BridgeInv
<1> QED
  BY <1>1, BridgeInvariant, PTL

\* The child's final output is never truncated: the exit is reported only when
\* all of it is in the client's output (the comment on Bridge).
THEOREM BridgeFinalOutput == BridgeSpec => []FinalOutput
<1>1. BridgeInv => FinalOutput
  BY DEF BridgeInv, BridgeTypeOK, Accounted, RelayEndsLast, Joined, FinalOutput
<1> QED
  BY <1>1, BridgeInvariant, PTL

\* What the client types is left to whoever reads its terminal next: of what is
\* typed once the bridge is cancelled, nothing is taken by a new read, and
\* nothing at all behind the report (the comment on Bridge::stop).
THEOREM BridgeKeysStay == BridgeSpec => KeysStay
<1>1. BridgeInv /\ [BridgeNext]_bridgeVars =>
        [/\ cancelled /\ relayIn' = "read" => relayIn = "read"
         /\ main = "done" => inHand' <= inHand]_bridgeVars
  <2> SUFFICES ASSUME BridgeInv, BridgeNext
               PROVE  /\ cancelled /\ relayIn' = "read" => relayIn = "read"
                      /\ main = "done" => inHand' <= inHand
    BY DEF bridgeVars
  <2> USE DEF BridgeInv, BridgeTypeOK, Joined, keys, screen, program, taker, giver, daemon
  <2>1. CASE InPolls
    BY <2>1 DEF InPolls
  <2>2. CASE InReads
    BY <2>2 DEF InReads
  <2>3. CASE InWrites
    BY <2>3 DEF InWrites
  <2>4. CASE UNCHANGED taker
    BY <2>4
  <2>5. Terminal \/ ClientGoes \/ Program \/ Output \/ Main \/ BridgeTerminated
          => UNCHANGED taker
    BY DEF Terminal, Types, InputEnds, OtherReads, OutputRead, OutputCloses, ClientGoes,
       Program, ProgReads, ProgWrites, ProgExits, LeftoverEnds, Output, OutReads, OutWrites,
       Main, MainSelects, MainKills, MainFails, MainCancels, MainJoins, MainReports,
       BridgeTerminated, bridgeVars
  <2> QED
    BY <2>1, <2>2, <2>3, <2>4, <2>5 DEF BridgeNext, BridgeStep, Input
<1> QED
  BY <1>1, BridgeInvariant, PTL DEF BridgeSpec, KeysStay

-----------------------------------------------------------------------------
(* The session keeps what Report promises.                                   *)

\* A step of the promise, or none.
Promised == [Promise!Next]_(Promise!vars)

\* What the program wrote and is still to come.
Still == IF Lossy THEN 0 ELSE early

LEMMA Untold ==
  ASSUME UNCHANGED <<prog, Lossy, Still>>, main # "done", main' # "done"
  PROVE  Promised
  BY DEF Promised, Promise!vars, Still

\* A way that fails takes with it what was still to come.
LEMMA Breaks ==
  ASSUME Lossy', prog' = prog, main' = main
  PROVE  Promised
<1>1. Promise!Break
  BY DEF Promise!Break, Promise!Nothing
<1> QED
  BY <1>1 DEF Promised, Promise!Next

\* The client's output is written, and read there.
LEMMA OutputPromised ==
  ASSUME BridgeInv, Terminal \/ Output
  PROVE  Promised
<1> USE DEF keys, screen, program, taker, giver, daemon
<1>1. CASE UNCHANGED <<prog, early, Lossy, main>>
  BY <1>1 DEF Promised, Promise!vars
<1>2. CASE Types \/ InputEnds \/ OtherReads \/ OutputRead \/ OutReads
  BY <1>1, <1>2 DEF Types, InputEnds, OtherReads, OutputRead, OutReads, Lossy
<1>3. CASE OutputCloses
  BY <1>3, Breaks DEF OutputCloses, Lossy
<1>4. CASE OutWrites /\ relayOut' = "ended"
  <2>1. Lossy' /\ prog' = prog /\ main' = main
    BY <1>4 DEF OutWrites, Lossy
  <2> QED
    BY <2>1, Breaks
<1>5. CASE OutWrites /\ relayOut' # "ended"
  <2>1. /\ Shown(Least(outHand, Room - output)) /\ output < Room
        /\ UNCHANGED <<prog, main>> /\ Lossy' = Lossy
    BY <1>5 DEF OutWrites, Lossy
  <2>2. Least(outHand, Room - output) \in Nat /\ early \in Nat
    BY Sizes, <2>1 DEF Least, BridgeInv, BridgeTypeOK
  <2>3. early' = early \/ (\E n \in 1..early : early' = early - n)
    BY <2>1, <2>2 DEF Shown
  <2>4. CASE early' = early \/ Lossy
    BY <2>1, <2>4 DEF Promised, Promise!vars
  <2>5. CASE early' # early /\ ~Lossy
    <3>1. Promise!Show("terminal")
      BY <2>1, <2>3, <2>5 DEF Promise!Show
    <3> QED
      BY <3>1 DEF Promised, Promise!Next
  <2> QED
    BY <2>4, <2>5
<1> QED
  BY <1>2, <1>3, <1>4, <1>5 DEF Terminal, Output

\* What is written behind the exit is owed to nobody.
LEMMA ProgramPromised ==
  ASSUME BridgeInv, Program
  PROVE  Promised
<1> USE DEF keys, screen, program, taker, giver, daemon
<1>1. CASE ProgReads \/ LeftoverEnds
  BY <1>1 DEF ProgReads, LeftoverEnds, Lossy, Promised, Promise!vars
<1>2. CASE ProgWrites
  <2>1. Lossy' = Lossy /\ UNCHANGED <<prog, main>>
    BY <1>2 DEF ProgWrites, Lossy
  <2>2. CASE Lossy \/ prog # "runs"
    BY <1>2, <2>1, <2>2 DEF ProgWrites, Promised, Promise!vars
  <2>3. CASE ~Lossy /\ prog = "runs"
    <3>1. Promise!Write("terminal")
      BY <1>2, <2>1, <2>3 DEF ProgWrites, Promise!Write
    <3> QED
      BY <3>1 DEF Promised, Promise!Next
  <2> QED
    BY <2>2, <2>3
<1>3. CASE ProgExits
  <2>1. Promise!Exit
    BY <1>3 DEF ProgExits, Exits, Promise!Exit, Lossy
  <2> QED
    BY <2>1 DEF Promised, Promise!Next
<1> QED
  BY <1>1, <1>2, <1>3 DEF Program

\* The exit is reported behind the program and all it wrote.
LEMMA MainPromised ==
  ASSUME BridgeInv, Main
  PROVE  Promised
<1> USE DEF keys, screen, program, taker, giver, daemon
<1>1. CASE MainKills
  <2>1. Promise!Exit
    BY <1>1 DEF MainKills, Exits, Promise!Exit, Lossy
  <2> QED
    BY <2>1 DEF Promised, Promise!Next
<1>2. CASE MainReports
  <2>1. prog = "exited" /\ main = "report" /\ main' = "done"
        /\ UNCHANGED <<prog, early, deaf, cutShort>>
    BY <1>2 DEF MainReports, BridgeInv, Joined
  <2>2. Lossy \/ early = 0
    BY <2>1 DEF Lossy, BridgeInv, BridgeTypeOK, Accounted, RelayEndsLast, Joined
  <2>3. Promise!Tell
    BY <2>1, <2>2 DEF Promise!Tell, Promise!Nothing, Lossy
  <2> QED
    BY <2>3 DEF Promised, Promise!Next
<1>3. CASE MainSelects \/ MainFails \/ MainCancels \/ MainJoins
  BY <1>3, Untold DEF MainSelects, MainFails, MainCancels, MainJoins, Lossy, Still
<1> QED
  BY <1>1, <1>2, <1>3 DEF Main

LEMMA OthersPromised ==
  ASSUME Input \/ ClientGoes \/ BridgeTerminated \/ UNCHANGED bridgeVars
  PROVE  Promised
  BY DEF Input, InPolls, InReads, InWrites, ClientGoes, BridgeTerminated, bridgeVars, Lossy,
     keys, screen, program, taker, giver, daemon, Promised, Promise!vars

\* An interactive session implements Report, whatever its pty and its relays hold:
\* the exit is reported once, after it and behind all output; only an output that
\* was closed or refused to wait loses any (run_interactive, Bridge::stop).
THEOREM BridgeIsReport == BridgeSpec => IsReport
<1>1. BridgeInit => Promise!Init
  BY DEF BridgeInit, Promise!Init, Promise!Nothing, Lossy
<1>2. BridgeInv /\ [BridgeNext]_bridgeVars => Promised
  BY OutputPromised, ProgramPromised, MainPromised, OthersPromised DEF BridgeNext, BridgeStep
<1> QED
  BY <1>1, <1>2, BridgeInvariant, PTL DEF BridgeSpec, IsReport, Promise!Spec, Promised

-----------------------------------------------------------------------------
(* The session.                                                              *)

LEMMA StepIsBoth ==
  [Next]_vars => [SockNext]_sockVars /\ [BridgeNext]_bridgeVars
<1> SUFFICES ASSUME [Next]_vars
             PROVE  [SockNext]_sockVars /\ [BridgeNext]_bridgeVars
  OBVIOUS
<1>1. CASE ClientSends
  BY <1>1 DEF ClientSends, SockNext
<1>2. CASE ClientEnds
  BY <1>2 DEF ClientEnds, SockNext
<1>3. CASE DaemonRecvs
  BY <1>3 DEF DaemonRecvs, SockNext, Recvs
<1>4. CASE DaemonLosesClient
  BY <1>4 DEF DaemonLosesClient, SockNext, Recvs, BridgeNext
<1>5. CASE SessionRuns
  BY <1>5 DEF SessionRuns, BridgeNext
<1>6. CASE DaemonCloses
  BY <1>6 DEF DaemonCloses, SockNext
<1>7. CASE Terminated \/ UNCHANGED vars
  BY <1>7 DEF Terminated, vars
<1> QED
  BY <1>1, <1>2, <1>3, <1>4, <1>5, <1>6, <1>7 DEF Next, Receives

LEMMA SessionIsTransport == Spec => SockSpec
<1>1. Init => SockInit
  BY DEF Init
<1> QED
  BY <1>1, StepIsBoth, PTL DEF Spec, SockSpec

LEMMA SessionIsBridge == Spec => BridgeSpec
<1>1. Init => BridgeInit
  BY DEF Init
<1> QED
  BY <1>1, StepIsBoth, PTL DEF Spec, BridgeSpec

-----------------------------------------------------------------------------
\* Neither the socket nor a relay nor a terminal ever holds more than it can,
\* whatever their sizes.
THEOREM LocalTypeOK == Spec => []TypeOK
<1>1. Init => pc \in {"config", "session", "refused"}
  BY DEF Init
<1>2. pc \in {"config", "session", "refused"} /\ [Next]_vars
        => (pc \in {"config", "session", "refused"})'
  BY DEF Next, ClientSends, ClientEnds, Receives, DaemonRecvs, DaemonLosesClient,
     SessionRuns, DaemonCloses, Terminated, vars
<1>3. SockTypeOK /\ BridgeTypeOK /\ pc \in {"config", "session", "refused"} => TypeOK
  BY DEF TypeOK
<1> QED
  BY <1>1, <1>2, <1>3, SessionIsTransport, SessionIsBridge, SockTypes, BridgeTypes, PTL
  DEF Spec

\* What the daemon receives is what the client sent, each message with its own
\* descriptors, whatever the sizes of the socket and the headers.
THEOREM SessionIsQueue == Spec => IsQueue
  BY SessionIsTransport, TransportIsQueue, PTL

\* No program's last output is missing from the client's output when the daemon
\* reports its exit, unless who reads that closed it or the relay gave up on a full
\* nonblocking one.
THEOREM SessionFinalOutput == Spec => []FinalOutput
  BY SessionIsBridge, BridgeFinalOutput, PTL

\* A session on the local socket tells its client what Report promises.
THEOREM SessionIsReport == Spec => IsReport
  BY SessionIsBridge, BridgeIsReport, PTL

\* The session takes nothing of what the client types once it is over.
THEOREM SessionKeysStay == Spec => KeysStay
  BY SessionIsBridge, BridgeKeysStay, PTL

-----------------------------------------------------------------------------
\* What was received grows by the next message, or not at all.
LEMMA GotGrows ==
  ASSUME QueueInv, [SockNext]_sockVars
  PROVE  NextGot
<1>1. CASE Sends
  BY <1>1, SendsKeep DEF NextGot
<1>2. CASE RecvsHeader
  BY <1>2, HeaderKeeps
<1>3. CASE RecvsPayload
  BY <1>3, PayloadKeeps
<1>4. CASE RecvsEnd \/ ReceiverGoes \/ SenderGoes \/ UNCHANGED sockVars
  BY <1>4, EndsKeep DEF NextGot
<1> QED
  BY <1>1, <1>2, <1>3, <1>4 DEF SockNext, Recvs

\* The first message that is received carries the three descriptors.
LEMMA FirstIsFd ==
  ASSUME QueueInv, NextGot, got' # got, Len(got') = FdMsg
  PROVE  got'[FdMsg].fds = 3
<1>1. got' = Append(got, Messages[Len(got) + 1]) /\ got \in Seq([size: Nat, fds: 0..MaxScmFds])
  BY DEF NextGot, QueueInv, InOrder
<1>2. Len(got) = 0
  BY <1>1 DEF FdMsg
<1>3. got'[FdMsg] = Messages[1]
  BY <1>1, <1>2 DEF FdMsg
<1> QED
  BY <1>3, SessionAssumption DEF SessionAssumption, SessionMessages

\* A request is refused because its client went or its program cannot be started,
\* and for nothing the socket did to it (receive_configuration).
THEOREM SessionServed == Spec => []Served
<1>1. Init => Served
  BY DEF Init, Served
<1>2. QueueInv /\ Served /\ [Next]_vars => Served'
  <2> SUFFICES ASSUME QueueInv, Served, [Next]_vars
               PROVE  Served'
    OBVIOUS
  <2>1. CASE ClientSends
    <3>1. UNCHANGED <<pc, got>> /\ (sEnd # "open" => sEnd' # "open")
      BY <2>1, SendsKeep DEF ClientSends, Sends, SendsFds, SendsRest, SendsControl, Writes
    <3> QED
      BY <3>1 DEF Served
  <2>2. CASE ClientEnds
    BY <2>2 DEF ClientEnds, SenderGoes, Served
  <2>3. CASE DaemonRecvs
    <3>1. CASE pc = "config" /\ pc' = "refused"
      <4>1. got' # got /\ (Len(got') = FdMsg \/ Len(got') = EndMsg)
        BY <2>3, <3>1 DEF DaemonRecvs
      <4>2. CASE Len(got') = FdMsg
        <5>1. got'[FdMsg].fds = 3
          BY <4>1, <4>2, GotGrows, StepIsBoth, FirstIsFd
        <5> QED
          BY <5>1, <4>1, <4>2, <2>3, <3>1 DEF DaemonRecvs, FdMsg, EndMsg
      <4> QED
        BY <4>1, <4>2 DEF Served
    <3>2. CASE pc' # "refused"
      BY <3>2 DEF Served
    <3>3. pc # "refused" /\ (pc # "config" => pc' = pc)
      BY <2>3 DEF DaemonRecvs, Listens
    <3> QED
      BY <3>1, <3>2, <3>3
  <2>4. CASE DaemonLosesClient
    BY <2>4 DEF DaemonLosesClient, RecvsEnd, sender, Served
  <2>5. CASE SessionRuns \/ Terminated \/ UNCHANGED vars
    BY <2>5 DEF SessionRuns, Terminated, vars, sockVars, sender, receiver, Served
  <2>6. CASE DaemonCloses
    BY <2>6 DEF DaemonCloses, ReceiverGoes, sender, Served
  <2> QED
    BY <2>1, <2>2, <2>3, <2>4, <2>5, <2>6 DEF Next, Receives
<1> QED
  BY <1>1, <1>2, SessionIsTransport, QueueInvariant, PTL DEF Spec
=============================================================================
