-------------------------- MODULE MuxSessionProofs --------------------------
(***************************************************************************)
(* The theorems of MuxSession, for every number of outputs, window, frame   *)
(* size and queue depth: that the Exit is behind everything the program     *)
(* wrote, that only a failed channel or wait loses it, and that no buffer   *)
(* and no window overflows. They rest on one inductive invariant, whose parts say  *)
(* where the early output of the program is, and what every byte of a       *)
(* window is spent on.                                                      *)
(***************************************************************************)
EXTENDS MuxSession, Totals

-----------------------------------------------------------------------------
(* The inductive invariant.                                                  *)

\* What is on its way to the client, of the data of a stream.
Sent(s) == Load(dq, "data", s) + Load(wire, "data", s)

\* The frames of a queue ahead of one of them.
Ahead(seq, k) == SubSeq(seq, 1, k - 1)

HasExit(seq) == \E k \in 1..Len(seq) : seq[k].kind = "exit"

\* How far the session is: it waits for the program, for the relay, and for one
\* stream at a time, and only then is there an Exit. A pump has a frame only
\* while it queues it.
Stages ==
  /\ main \in {"stuck", "join", "barrier", "done", "failed"} => prog = "exited"
  /\ main \in {"barrier", "done"} => relay = "ended"
  /\ main # "barrier" => pending = {} /\ awaited = {}
  /\ \A a, b \in awaited : a = b
  /\ mode = "direct" => relay = "ended" /\ pty = 0
  /\ \A s \in Streams : pump[s] # "send" => hand[s] = 0
  /\ exitIn \/ HasExit(wire) \/ HasExit(dq) => main = "done"

\* While the channel is up the daemon's drivers run until the session is over.
DriversRun ==
  /\ Up => dWriter
  /\ Up /\ ~Over => drpc # "ended"

\* The relay ends behind what the program wrote, when nobody has its pty, and the
\* pump of its stand-in behind the relay; no other pump ends before the session.
RelayLast ==
  relay = "ended" => pty = 0 /\ (mode = "pty" => prog = "exited" /\ ~leftover)

PumpLast(s) ==
  pump[s] = "done" \/ (pump[s] = "send" /\ hand[s] = 0) =>
    s = Terminal /\ mode = "pty" /\ relay = "ended" /\ sock[s] = 0

\* What the program wrote early is in the pty, in a stand-in, with a pump or on
\* its way, and the barrier has passed only streams where all of it is.
Held(s) == hand[s] + sock[s] + IF s = Terminal THEN pty ELSE 0

OnTheWay(s) ==
  /\ early[s] <= Sent(s) + Held(s)
  /\ main = "barrier" /\ s \in awaited => early[s] <= Sent(s) + left
  /\ main = "barrier" /\ s \notin pending \cup awaited => early[s] <= Sent(s)

\* This is so while nothing failed and the session goes on.
Carried ==
  Up /\ ~Over => RelayLast /\ \A s \in Streams : PumpLast(s) /\ OnTheWay(s)

\* Every Exit that can still arrive is behind what the program wrote early.
BehindOutput ==
  /\ exitIn => \A s \in Streams : early[s] = 0
  /\ \A k \in 1..Len(wire) : wire[k].kind = "exit" =>
       \A s \in Streams : early[s] <= Load(Ahead(wire, k), "data", s)
  /\ Up => \A k \in 1..Len(dq) : dq[k].kind = "exit" =>
       \A s \in Streams : early[s] <= Load(wire, "data", s) + Load(Ahead(dq, k), "data", s)

\* The Exit is not lost between the daemon's session and the client's, unless
\* the channel fails, or the wait for the program did.
ExitComes ==
  /\ Up /\ main = "done" => exitIn \/ HasExit(wire) \/ HasExit(dq)
  /\ link = "shut" => exitIn \/ HasExit(wire) \/ main = "failed"
  /\ cEnded => exitIn \/ Broken
  /\ outcome # "none" => cEnded
  /\ outcome = "closed" => Broken

\* What the window of a stream is spent on, one way and back.
Kept(s) == due[s] + IF vpc[s] \in {"recv", "grant"} THEN queued[s] ELSE 0

Spent(s) ==
  hand[s] + Sent(s) + Kept(s) + owed[s] + Load(cq, "window", s) + Load(back, "window", s)

WithinWindow(s) ==
  /\ credit[s] + Spent(s) <= Window
  /\ pump[s] = "read" => credit[s] > 0
  /\ vpc[s] \in {"recv", "grant"} => queued[s] = Total(inbox[s])

Credited == \A s \in Streams : WithinWindow(s)

\* The parts of the type invariant that a step disturbs together.
SessionTypes ==
  /\ mode \in {"pty", "direct"} /\ prog \in {"runs", "exited"} /\ leftover \in BOOLEAN
  /\ main \in {"run", "kill", "stuck", "join", "barrier", "done", "failed"}
  /\ pty \in 0..Pty /\ relay \in {"runs", "ended"} /\ ctrl \in 0..Depth
  /\ pending \subseteq Streams /\ awaited \subseteq Streams /\ left \in Nat

PumpTypes ==
  /\ early \in PerStream(Nat) /\ sock \in PerStream(0..Sock)
  /\ pump \in PerStream({"ready", "read", "send", "done"})
  /\ hand \in PerStream(0..PumpBuf) /\ credit \in PerStream(1 - PumpBuf..Window)

QueueTypes ==
  /\ dq \in Seq(DaemonFrames) /\ wire \in Seq(DaemonFrames)
  /\ back \in Seq(ClientFrames) /\ cq \in Seq(ClientFrames)

DriverTypes ==
  /\ dWriter \in BOOLEAN /\ cWriter \in BOOLEAN
  /\ drpc \in {"frame", "ctrl", "ended"} /\ link \in {"up", "shut", "lost"}
  /\ cEnded \in BOOLEAN /\ exitIn \in BOOLEAN
  /\ outcome \in {"none", "exited", "closed"} /\ resizes \in 0..Resizes

ViewerTypes ==
  /\ inbox \in PerStream(Seq(0..PumpBuf))
  /\ queued \in PerStream(Nat) /\ due \in PerStream(Nat) /\ owed \in PerStream(Nat)
  /\ vpc \in PerStream({"recv", "grant", "last", "done"}) /\ gone \in PerStream(BOOLEAN)

Inv ==
  /\ SessionTypes /\ PumpTypes /\ QueueTypes /\ DriverTypes /\ ViewerTypes
  /\ Stages /\ DriversRun /\ Carried /\ BehindOutput /\ ExitComes /\ Credited
-----------------------------------------------------------------------------
(* What the frames of the model carry.                                       *)

\* The constants are positive.
LEMMA Sizes ==
  /\ Terminal \in Streams
  /\ Window \in Nat /\ PumpBuf \in Nat /\ Sock \in Nat /\ Pty \in Nat /\ Depth \in Nat
  /\ Window > 0 /\ PumpBuf > 0 /\ Sock > 0 /\ Pty > 0 /\ Depth > 0 /\ Resizes \in Nat
  BY SessionAssumption DEF SessionAssumption

\* What a new frame is, and what it carries of a stream.
LEMMA NewDaemonFrames ==
  ASSUME NEW s \in Streams, NEW n \in 0..PumpBuf
  PROVE  /\ DataFrame(s, n) \in DaemonFrames /\ DataFrame(s, n).kind = "data"
         /\ CloseFrame(s) \in DaemonFrames /\ CloseFrame(s).kind = "close"
         /\ ExitFrame \in DaemonFrames /\ ExitFrame.kind = "exit"
         /\ \A t : Weight(DataFrame(s, n), "data", t) = IF t = s THEN n ELSE 0
         /\ \A t : Weight(CloseFrame(s), "data", t) = 0
         /\ \A t : Weight(ExitFrame, "data", t) = 0
  BY Sizes DEF DataFrame, CloseFrame, ExitFrame, DaemonFrames, Weight

LEMMA NewClientFrames ==
  ASSUME NEW s \in Streams, NEW n \in Nat
  PROVE  /\ WindowFrame(s, n) \in ClientFrames /\ WinsizeFrame \in ClientFrames
         /\ \A t : Weight(WindowFrame(s, n), "window", t) = IF t = s THEN n ELSE 0
         /\ \A t : Weight(WinsizeFrame, "window", t) = 0
  BY DEF WindowFrame, WinsizeFrame, ClientFrames, Weight

\* What a frame in a queue is.
LEMMA DaemonFrameFacts ==
  ASSUME NEW f \in DaemonFrames
  PROVE  /\ f.kind \in {"data", "close", "exit"}
         /\ f.kind # "exit" => f.stream \in Streams /\ f.size \in 0..PumpBuf
         /\ \A t : Weight(f, "data", t) = IF f.kind = "data" /\ f.stream = t THEN f.size ELSE 0
         /\ \A t : Weight(f, "data", t) \in Nat
  BY Sizes DEF DaemonFrames, ExitFrame, Weight

LEMMA ClientFrameFacts ==
  ASSUME NEW f \in ClientFrames
  PROVE  /\ f.kind \in {"window", "winsize"}
         /\ f.kind = "window" => f.stream \in Streams /\ f.size \in Nat
         /\ \A t : Weight(f, "window", t) = IF f.kind = "window" /\ f.stream = t THEN f.size ELSE 0
         /\ \A t : Weight(f, "window", t) \in Nat
  BY DEF ClientFrames, WinsizeFrame, Weight

\* The data in a queue of the daemon's frames.
LEMMA DataLoads ==
  ASSUME NEW seq \in Seq(DaemonFrames), NEW s
  PROVE  /\ Load(seq, "data", s) \in Nat
         /\ \A f \in DaemonFrames :
              Load(Append(seq, f), "data", s) = Load(seq, "data", s) + Weight(f, "data", s)
         /\ seq # <<>> => Load(seq, "data", s) = Weight(Head(seq), "data", s) + Load(Tail(seq), "data", s)
         /\ \A n \in 0..Len(seq) : Load(SubSeq(seq, 1, n), "data", s) <= Load(seq, "data", s)
  <1>1. Weighed(DaemonFrames, "data", s)
    BY DaemonFrameFacts DEF Weighed
  <1> QED BY <1>1, LoadNat, LoadAppend, LoadTail, LoadPrefix

\* The grants in a queue of the client's frames.
LEMMA GrantLoads ==
  ASSUME NEW seq \in Seq(ClientFrames), NEW s
  PROVE  /\ Load(seq, "window", s) \in Nat
         /\ \A f \in ClientFrames :
              Load(Append(seq, f), "window", s) = Load(seq, "window", s) + Weight(f, "window", s)
         /\ seq # <<>> => Load(seq, "window", s) = Weight(Head(seq), "window", s) + Load(Tail(seq), "window", s)
         /\ \A n \in 0..Len(seq) : Load(SubSeq(seq, 1, n), "window", s) <= Load(seq, "window", s)
  <1>1. Weighed(ClientFrames, "window", s)
    BY ClientFrameFacts DEF Weighed
  <1> QED BY <1>1, LoadNat, LoadAppend, LoadTail, LoadPrefix

\* The frames ahead of one of them, when the queue grows, moves on or is cut.
LEMMA AheadFacts ==
  ASSUME NEW frames, NEW seq \in Seq(frames)
  PROVE  /\ seq # <<>> => Ahead(seq, 1) = <<>>
         /\ \A k \in 1..Len(seq) : Ahead(seq, k) \in Seq(frames)
         /\ \A f \in frames : \A k \in 1..Len(seq) : Ahead(Append(seq, f), k) = Ahead(seq, k)
         /\ \A f \in frames : Ahead(Append(seq, f), Len(seq) + 1) = seq
         /\ \A k \in 1..Len(seq) : k > 1 =>
              /\ Ahead(seq, k) # <<>> /\ Head(Ahead(seq, k)) = Head(seq)
              /\ Tail(Ahead(seq, k)) = Ahead(Tail(seq), k - 1)
         /\ \A n \in 0..Len(seq) : \A k \in 1..n : Ahead(SubSeq(seq, 1, n), k) = Ahead(seq, k)
  BY DEF Ahead

\* Whether there is an Exit in a queue that grows, moves on or is cut.
LEMMA ExitFacts ==
  ASSUME NEW seq \in Seq(DaemonFrames)
  PROVE  /\ \A f \in DaemonFrames : HasExit(Append(seq, f)) <=> HasExit(seq) \/ f.kind = "exit"
         /\ seq # <<>> => (HasExit(seq) <=> Head(seq).kind = "exit" \/ HasExit(Tail(seq)))
         /\ \A n \in 0..Len(seq) : HasExit(SubSeq(seq, 1, n)) => HasExit(seq)
         /\ ~HasExit(<<>>)
  <1>1. ASSUME NEW f \in DaemonFrames
        PROVE  HasExit(Append(seq, f)) <=> HasExit(seq) \/ f.kind = "exit"
    <2>1. /\ Len(Append(seq, f)) = Len(seq) + 1 /\ Append(seq, f)[Len(seq) + 1] = f
          /\ \A k \in 1..Len(seq) : Append(seq, f)[k] = seq[k]
      OBVIOUS
    <2> QED BY <2>1 DEF HasExit
  <1>2. ASSUME seq # <<>>
        PROVE  HasExit(seq) <=> Head(seq).kind = "exit" \/ HasExit(Tail(seq))
    <2> DEFINE t == Tail(seq)
    <2>1. /\ Len(seq) = Len(t) + 1 /\ Len(t) \in Nat /\ Head(seq) = seq[1]
          /\ \A k \in 1..Len(t) : t[k] = seq[k + 1]
      BY <1>2
    <2> HIDE DEF t
    <2>2. ASSUME HasExit(seq) PROVE Head(seq).kind = "exit" \/ HasExit(t)
      <3>1. PICK k \in 1..Len(seq) : seq[k].kind = "exit"
        BY <2>2 DEF HasExit
      <3>2. CASE k # 1
        <4>1. k - 1 \in 1..Len(t) /\ (k - 1) + 1 = k
          BY <2>1, <3>2
        <4> QED BY <2>1, <3>1, <4>1 DEF HasExit
      <3> QED BY <2>1, <3>1, <3>2
    <2>3. ASSUME HasExit(t) PROVE HasExit(seq)
      <3>1. PICK k \in 1..Len(t) : t[k].kind = "exit"
        BY <2>3 DEF HasExit
      <3>2. k + 1 \in 1..Len(seq) /\ seq[k + 1].kind = "exit"
        BY <2>1, <3>1
      <3> QED BY <3>2 DEF HasExit
    <2>4. Head(seq).kind = "exit" => HasExit(seq)
      BY <2>1 DEF HasExit
    <2> QED BY <2>2, <2>3, <2>4 DEF t
  <1>3. ASSUME NEW n \in 0..Len(seq), HasExit(SubSeq(seq, 1, n)) PROVE HasExit(seq)
    <2>1. Len(SubSeq(seq, 1, n)) = n /\ \A k \in 1..n : SubSeq(seq, 1, n)[k] = seq[k]
      OBVIOUS
    <2> QED BY <1>3, <2>1 DEF HasExit
  <1>4. ~HasExit(<<>>)
    BY DEF HasExit
  <1> QED BY <1>1, <1>2, <1>3, <1>4

LEMMA TypeParts ==
  TypeOK <=> SessionTypes /\ PumpTypes /\ QueueTypes /\ DriverTypes /\ ViewerTypes
  BY DEF TypeOK, SessionTypes, PumpTypes, QueueTypes, DriverTypes, ViewerTypes

\* All that is counted is a number.
LEMMA Amounts ==
  ASSUME Inv, NEW s \in Streams
  PROVE  /\ Load(dq, "data", s) \in Nat /\ Load(wire, "data", s) \in Nat
         /\ Load(cq, "window", s) \in Nat /\ Load(back, "window", s) \in Nat
         /\ early[s] \in Nat /\ hand[s] \in Nat /\ sock[s] \in Nat /\ credit[s] \in Int
         /\ owed[s] \in Nat /\ due[s] \in Nat /\ queued[s] \in Nat
         /\ pty \in Nat /\ left \in Nat /\ Window \in Nat
  <1>1. /\ Load(dq, "data", s) \in Nat /\ Load(wire, "data", s) \in Nat
        /\ Load(cq, "window", s) \in Nat /\ Load(back, "window", s) \in Nat
    BY DataLoads, GrantLoads DEF Inv, QueueTypes
  <1>2. /\ early[s] \in Nat /\ hand[s] \in Nat /\ sock[s] \in Nat /\ credit[s] \in Int
    BY Sizes DEF Inv, PumpTypes, PerStream
  <1>3. owed[s] \in Nat /\ due[s] \in Nat /\ queued[s] \in Nat
    BY DEF Inv, ViewerTypes, PerStream
  <1>4. pty \in Nat /\ left \in Nat /\ Window \in Nat
    BY Sizes DEF Inv, SessionTypes
  <1> QED BY <1>1, <1>2, <1>3, <1>4

\* A sequence over a set is one over a larger set.
LEMMA WiderSeq ==
  ASSUME NEW S, NEW T, S \subseteq T, NEW seq \in Seq(S)
  PROVE  seq \in Seq(T)
  OBVIOUS

\* The front of a sequence and the rest.
LEMMA FrontOf ==
  ASSUME NEW S, NEW seq \in Seq(S), seq # <<>>
  PROVE  Head(seq) \in S /\ Tail(seq) \in Seq(S)
  OBVIOUS

\* What waits for a pump of the client has a total.
LEMMA InboxTotals ==
  ASSUME ViewerTypes, NEW s \in Streams
  PROVE  inbox[s] \in Seq(Nat) /\ Total(inbox[s]) \in Nat
  <1> DEFINE box == inbox[s]
  <1>1. box \in Seq(0..PumpBuf) /\ 0..PumpBuf \subseteq Nat
    BY Sizes DEF ViewerTypes, PerStream
  <1> HIDE DEF box
  <1>3. box \in Seq(Nat)
    <2>1. box \in Seq(0..PumpBuf) /\ 0..PumpBuf \subseteq Nat => box \in Seq(Nat)
      BY WiderSeq
    <2> QED BY <1>1, <2>1
  <1> QED BY <1>3, TotalNat DEF box

\* A part of the invariant whose variables keep their values is kept.
LEMMA Undisturbed ==
  /\ SessionTypes /\ UNCHANGED <<mode, prog, leftover, main, pty, relay, ctrl, pending,
                                 awaited, left>> => SessionTypes'
  /\ PumpTypes /\ UNCHANGED <<early, sock, pump, hand, credit>> => PumpTypes'
  /\ QueueTypes /\ UNCHANGED <<dq, wire, back, cq>> => QueueTypes'
  /\ DriverTypes /\ UNCHANGED <<dWriter, cWriter, drpc, link, cEnded, exitIn, outcome,
                                resizes>> => DriverTypes'
  /\ ViewerTypes /\ UNCHANGED <<inbox, queued, due, owed, vpc, gone>> => ViewerTypes'
  /\ Stages /\ UNCHANGED <<mode, prog, main, pending, awaited, pty, relay, pump, hand,
                           exitIn, wire, dq>> => Stages'
  /\ DriversRun /\ UNCHANGED <<link, dWriter, main, drpc>> => DriversRun'
  /\ Carried /\ UNCHANGED <<link, mode, prog, leftover, main, pending, awaited, left, pty, relay,
                            pump, hand, sock, early, wire, dq>> => Carried'
  /\ BehindOutput /\ UNCHANGED <<link, exitIn, early, wire, dq>> => BehindOutput'
  /\ ExitComes /\ UNCHANGED <<link, main, exitIn, wire, dq, cEnded, outcome>> => ExitComes'
  /\ Credited /\ UNCHANGED <<due, vpc, queued, inbox, owed, cq, back, hand, dq, wire,
                             credit, pump>> => Credited'
  BY DEF SessionTypes, PumpTypes, QueueTypes, DriverTypes, ViewerTypes, Stages, DriversRun,
         Carried, RelayLast, PumpLast, OnTheWay, BehindOutput, ExitComes, Credited,
         WithinWindow, Up, Over, Broken, Sent, Held, Kept, Spent, HasExit
-----------------------------------------------------------------------------
\* The program writes to the pty, and early data is counted where it is.
LEMMA WritesToPtyStep ==
  ASSUME Inv, WritesToPty
  PROVE  Inv'
  <1> USE DEF Inv, Over, program, daemon, term, pumps, channel, viewer, cOut, client
  <1>others. QueueTypes' /\ DriverTypes' /\ ViewerTypes' /\ DriversRun' /\
              ExitComes' /\ Credited'
    BY Undisturbed DEF WritesToPty, Counts
  <1>SessionTypes. SessionTypes'
    BY Sizes DEF WritesToPty, Counts, SessionTypes
  <1>PumpTypes. PumpTypes'
    BY Sizes DEF WritesToPty, Counts, PumpTypes, PerStream
  <1>Stages. Stages'
    BY DEF WritesToPty, Counts, Stages
  <1>Carried. Carried'
    <2> SUFFICES ASSUME Up', ~Over'
             PROVE  RelayLast' /\ \A t \in Streams : PumpLast(t)' /\ OnTheWay(t)'
      BY DEF Carried
    <2>1. RelayLast /\ \A t \in Streams : PumpLast(t) /\ OnTheWay(t)
      BY DEF WritesToPty, Counts, Carried, Up
    <2>2. RelayLast'
      BY <2>1 DEF WritesToPty, Counts, RelayLast, Stages
    <2>3. ASSUME NEW t \in Streams PROVE PumpLast(t)' /\ OnTheWay(t)'
      <3>1. PumpLast(t)'
        BY <2>1 DEF WritesToPty, Counts, PumpLast, Stages, PumpTypes, PerStream, DriversRun, Up
      <3>2. OnTheWay(t)'
        BY <2>1, Amounts DEF WritesToPty, Counts, OnTheWay, Sent, Held, Stages, PumpTypes, PerStream
      <3> QED BY <3>1, <3>2
    <2> QED BY <2>2, <2>3
  <1>BehindOutput. BehindOutput'
    <2>1. prog = "runs" => main # "done"
      BY DEF Stages
    <2>2. prog = "runs" => ~exitIn /\ ~HasExit(wire) /\ ~HasExit(dq)
      BY <2>1 DEF Stages
    <2>3. CASE prog = "runs"
      BY <2>2, <2>3 DEF WritesToPty, Counts, BehindOutput, HasExit, Up
    <2>4. CASE prog # "runs"
      BY <2>4, Undisturbed DEF WritesToPty, Counts
    <2> QED BY <2>3, <2>4
  <1> QED BY <1>others, <1>SessionTypes, <1>PumpTypes, <1>Stages, <1>Carried,
            <1>BehindOutput

\* It writes to a stand-in; what a process it left behind writes is not counted.
LEMMA WritesToSocketStep ==
  ASSUME Inv, NEW s \in Streams, WritesToSocket(s)
  PROVE  Inv'
  <1> USE DEF Inv, Over, program, daemon, term, pumps, channel, viewer, cOut, client
  <1>others. SessionTypes' /\ QueueTypes' /\ DriverTypes' /\ ViewerTypes' /\ Stages' /\
              DriversRun' /\ ExitComes' /\ Credited'
    BY Undisturbed DEF WritesToSocket, Counts
  <1>PumpTypes. PumpTypes'
    BY Sizes DEF WritesToSocket, Counts, PumpTypes, PerStream
  <1>Carried. Carried'
    <2> SUFFICES ASSUME Up', ~Over'
             PROVE  RelayLast' /\ \A t \in Streams : PumpLast(t)' /\ OnTheWay(t)'
      BY DEF Carried
    <2>1. RelayLast /\ \A t \in Streams : PumpLast(t) /\ OnTheWay(t)
      BY DEF WritesToSocket, Counts, Carried, Up
    <2>2. RelayLast'
      BY <2>1 DEF WritesToSocket, Counts, RelayLast, Stages
    <2>3. ASSUME NEW t \in Streams PROVE PumpLast(t)' /\ OnTheWay(t)'
      <3>1. PumpLast(t)'
        BY <2>1 DEF WritesToSocket, Counts, PumpLast, Stages, PumpTypes, PerStream, DriversRun, Up
      <3>2. OnTheWay(t)'
        BY <2>1, Amounts DEF WritesToSocket, Counts, OnTheWay, Sent, Held, Stages, PumpTypes, PerStream
      <3> QED BY <3>1, <3>2
    <2> QED BY <2>2, <2>3
  <1>BehindOutput. BehindOutput'
    <2>1. prog = "runs" => main # "done"
      BY DEF Stages
    <2>2. prog = "runs" => ~exitIn /\ ~HasExit(wire) /\ ~HasExit(dq)
      BY <2>1 DEF Stages
    <2>3. CASE prog = "runs"
      BY <2>2, <2>3 DEF WritesToSocket, Counts, BehindOutput, HasExit, Up
    <2>4. CASE prog # "runs"
      BY <2>4, Undisturbed DEF WritesToSocket, Counts
    <2> QED BY <2>3, <2>4
  <1> QED BY <1>others, <1>PumpTypes, <1>Carried, <1>BehindOutput

\* The program exits.
LEMMA ProgramExitsStep ==
  ASSUME Inv, ProgramExits
  PROVE  Inv'
  <1> USE DEF Inv, Over, program, daemon, term, pumps, channel, viewer, cOut, client
  <1>others. PumpTypes' /\ QueueTypes' /\ DriverTypes' /\ ViewerTypes' /\
              DriversRun' /\ BehindOutput' /\ ExitComes' /\ Credited'
    BY Undisturbed DEF ProgramExits
  <1>SessionTypes. SessionTypes'
    BY Sizes DEF ProgramExits, SessionTypes
  <1>Stages. Stages'
    BY DEF ProgramExits, Stages
  <1>Carried. Carried'
    <2> SUFFICES ASSUME Up', ~Over'
             PROVE  RelayLast' /\ \A t \in Streams : PumpLast(t)' /\ OnTheWay(t)'
      BY DEF Carried
    <2>1. RelayLast /\ \A t \in Streams : PumpLast(t) /\ OnTheWay(t)
      BY DEF ProgramExits, Carried, Up
    <2>2. RelayLast'
      BY <2>1 DEF ProgramExits, RelayLast, Stages
    <2>3. ASSUME NEW t \in Streams PROVE PumpLast(t)' /\ OnTheWay(t)'
      <3>1. PumpLast(t)'
        BY <2>1 DEF ProgramExits, PumpLast, Stages, PumpTypes, PerStream, DriversRun, Up
      <3>2. OnTheWay(t)'
        BY <2>1, Amounts DEF ProgramExits, OnTheWay, Sent, Held, Stages, PumpTypes, PerStream
      <3> QED BY <3>1, <3>2
    <2> QED BY <2>2, <2>3
  <1> QED BY <1>others, <1>SessionTypes, <1>Stages, <1>Carried

\* A process it left behind ends.
LEMMA LeftoverEndsStep ==
  ASSUME Inv, LeftoverEnds
  PROVE  Inv'
  <1> USE DEF Inv, Over, program, daemon, term, pumps, channel, viewer, cOut, client
  <1>others. PumpTypes' /\ QueueTypes' /\ DriverTypes' /\ ViewerTypes' /\ Stages' /\
              DriversRun' /\ BehindOutput' /\ ExitComes' /\ Credited'
    BY Undisturbed DEF LeftoverEnds
  <1>SessionTypes. SessionTypes'
    BY Sizes DEF LeftoverEnds, SessionTypes
  <1>Carried. Carried'
    BY DEF LeftoverEnds, Carried, Up, RelayLast, PumpLast, OnTheWay, Sent, Held
  <1> QED BY <1>others, <1>SessionTypes, <1>Carried

\* The relay moves what it copies from the pty to the stand-in.
LEMMA RelayCopiesStep ==
  ASSUME Inv, RelayCopies
  PROVE  Inv'
  <1> USE DEF Inv, Over, program, daemon, term, pumps, channel, viewer, cOut, client
  <1>others. QueueTypes' /\ DriverTypes' /\ ViewerTypes' /\ DriversRun' /\
              BehindOutput' /\ ExitComes' /\ Credited'
    BY Undisturbed DEF RelayCopies
  <1>SessionTypes. SessionTypes'
    BY Sizes DEF RelayCopies, SessionTypes
  <1>PumpTypes. PumpTypes'
    BY Sizes DEF RelayCopies, PumpTypes, PerStream
  <1>Stages. Stages'
    BY DEF RelayCopies, Stages
  <1>Carried. Carried'
    <2> SUFFICES ASSUME Up', ~Over'
             PROVE  RelayLast' /\ \A t \in Streams : PumpLast(t)' /\ OnTheWay(t)'
      BY DEF Carried
    <2>1. RelayLast /\ \A t \in Streams : PumpLast(t) /\ OnTheWay(t)
      BY DEF RelayCopies, Carried, Up
    <2>2. RelayLast'
      BY <2>1 DEF RelayCopies, RelayLast, Stages
    <2>3. ASSUME NEW t \in Streams PROVE PumpLast(t)' /\ OnTheWay(t)'
      <3>1. PumpLast(t)'
        BY <2>1 DEF RelayCopies, PumpLast, Stages, PumpTypes, PerStream, DriversRun, Up
      <3>2. OnTheWay(t)'
        BY <2>1, Amounts DEF RelayCopies, OnTheWay, Sent, Held, Stages, PumpTypes, PerStream, SessionTypes
      <3> QED BY <3>1, <3>2
    <2> QED BY <2>2, <2>3
  <1> QED BY <1>others, <1>SessionTypes, <1>PumpTypes, <1>Stages, <1>Carried

\* The relay ends with an empty pty, or behind a pump that has ended, which none does early.
LEMMA RelayEndsStep ==
  ASSUME Inv, RelayEnds
  PROVE  Inv'
  <1> USE DEF Inv, Over, program, daemon, term, pumps, channel, viewer, cOut, client
  <1>others. PumpTypes' /\ QueueTypes' /\ DriverTypes' /\ ViewerTypes' /\
              DriversRun' /\ BehindOutput' /\ ExitComes' /\ Credited'
    BY Undisturbed DEF RelayEnds
  <1>SessionTypes. SessionTypes'
    BY Sizes DEF RelayEnds, SessionTypes
  <1>Stages. Stages'
    BY DEF RelayEnds, Stages
  <1>Carried. Carried'
    <2> SUFFICES ASSUME Up', ~Over'
             PROVE  RelayLast' /\ \A t \in Streams : PumpLast(t)' /\ OnTheWay(t)'
      BY DEF Carried
    <2>1. RelayLast /\ \A t \in Streams : PumpLast(t) /\ OnTheWay(t)
      BY DEF RelayEnds, Carried, Up
    <2>e. prog = "exited" /\ ~leftover /\ pty = 0
      BY <2>1, Sizes DEF RelayEnds, PumpLast
    <2>2. RelayLast'
      BY <2>e DEF RelayEnds, RelayLast
    <2>3. ASSUME NEW t \in Streams PROVE PumpLast(t)' /\ OnTheWay(t)'
      <3>1. PumpLast(t)'
        BY <2>1 DEF RelayEnds, PumpLast, Stages, PumpTypes, PerStream, DriversRun, Up
      <3>2. OnTheWay(t)'
        BY <2>1, <2>e, Amounts DEF RelayEnds, OnTheWay, Sent, Held
      <3> QED BY <3>1, <3>2
    <2> QED BY <2>2, <2>3
  <1> QED BY <1>others, <1>SessionTypes, <1>Stages, <1>Carried

\* A pump that goes on has credit.
LEMMA PumpReadyStep ==
  ASSUME Inv, NEW s \in Streams, PumpReady(s)
  PROVE  Inv'
  <1> USE DEF Inv, Over, program, daemon, term, pumps, channel, viewer, cOut, client
  <1>others. SessionTypes' /\ QueueTypes' /\ DriverTypes' /\ ViewerTypes' /\
              DriversRun' /\ BehindOutput' /\ ExitComes'
    BY Undisturbed DEF PumpReady, DClosed
  <1>PumpTypes. PumpTypes'
    BY Sizes DEF PumpReady, DClosed, PumpTypes, PerStream
  <1>Stages. Stages'
    BY DEF PumpReady, DClosed, Stages
  <1>Carried. Carried'
    <2> SUFFICES ASSUME Up', ~Over'
             PROVE  RelayLast' /\ \A t \in Streams : PumpLast(t)' /\ OnTheWay(t)'
      BY DEF Carried
    <2>1. RelayLast /\ \A t \in Streams : PumpLast(t) /\ OnTheWay(t)
      BY DEF PumpReady, DClosed, Carried, Up
    <2>2. RelayLast'
      BY <2>1 DEF PumpReady, DClosed, RelayLast, Stages
    <2>3. ASSUME NEW t \in Streams PROVE PumpLast(t)' /\ OnTheWay(t)'
      <3>1. PumpLast(t)'
        BY <2>1 DEF PumpReady, DClosed, PumpLast, Stages, PumpTypes, PerStream, DriversRun, Up
      <3>2. OnTheWay(t)'
        BY <2>1, Amounts DEF PumpReady, DClosed, OnTheWay, Sent, Held, Stages, PumpTypes, PerStream
      <3> QED BY <3>1, <3>2
    <2> QED BY <2>2, <2>3
  <1>Credited. Credited'
    <2> SUFFICES ASSUME NEW t \in Streams PROVE WithinWindow(t)'
      BY DEF Credited
    <2>1. WithinWindow(t)
      BY DEF Credited
    <2> QED BY <2>1, Amounts DEF PumpReady, DClosed, WithinWindow, Spent, Sent, Kept,
            PumpTypes, ViewerTypes, PerStream
  <1> QED BY <1>others, <1>PumpTypes, <1>Stages, <1>Carried, <1>Credited

\* What a pump reads it charges, and has it in hand.
LEMMA PumpReadsStep ==
  ASSUME Inv, NEW s \in Streams, PumpReads(s)
  PROVE  Inv'
  <1> USE DEF Inv, Over, program, daemon, term, pumps, channel, viewer, cOut, client
  <1>others. SessionTypes' /\ QueueTypes' /\ DriverTypes' /\ ViewerTypes' /\
              DriversRun' /\ BehindOutput' /\ ExitComes'
    BY Undisturbed DEF PumpReads
  <1> DEFINE size == IF sock[s] < PumpBuf THEN sock[s] ELSE PumpBuf
  <1>size. /\ size \in 1..PumpBuf /\ size <= sock[s] /\ sock[s] \in 0..Sock /\ hand[s] = 0
           /\ credit[s] \in 1 - PumpBuf..Window /\ credit[s] > 0
           /\ pump[s] = "read" /\ pump' = [pump EXCEPT ![s] = "send"]
           /\ sock' = [sock EXCEPT ![s] = sock[s] - size]
           /\ hand' = [hand EXCEPT ![s] = size]
           /\ credit' = [credit EXCEPT ![s] = credit[s] - size]
    BY Sizes DEF PumpReads, PumpTypes, PerStream, Stages, Credited, WithinWindow
  <1>types. early \in PerStream(Nat) /\ PumpTypes /\ UNCHANGED <<early, dq, wire, pty, due, vpc, queued, inbox, owed, cq, back, main, left, pending, awaited, mode, relay, prog, exitIn, link>>
    BY DEF PumpReads, PumpTypes
  <1> HIDE DEF size
  <1>PumpTypes. PumpTypes'
    <2>1. sock[s] - size \in 0..Sock /\ size \in 0..PumpBuf /\ credit[s] - size \in 1 - PumpBuf..Window
      BY <1>size, Sizes
    <2> QED BY <1>size, <1>types, <2>1 DEF PumpTypes, PerStream
  <1>Stages. Stages'
    BY <1>size, <1>types DEF Stages, HasExit, PumpTypes, PerStream
  <1>Carried. Carried'
    <2> SUFFICES ASSUME Up', ~Over'
             PROVE  RelayLast' /\ \A t \in Streams : PumpLast(t)' /\ OnTheWay(t)'
      BY DEF Carried
    <2>1. RelayLast /\ \A t \in Streams : PumpLast(t) /\ OnTheWay(t)
      BY DEF PumpReads, Carried, Up
    <2>2. RelayLast'
      BY <2>1 DEF PumpReads, RelayLast, Stages
    <2>3. ASSUME NEW t \in Streams PROVE PumpLast(t)' /\ OnTheWay(t)'
      <3>1. PumpLast(t)'
        BY <1>size, <1>types, <2>1 DEF PumpLast, PumpTypes, PerStream
      <3>2. OnTheWay(t)'
        BY <1>size, <1>types, <2>1, Amounts DEF OnTheWay, Sent, Held, PumpTypes, PerStream
      <3> QED BY <3>1, <3>2
    <2> QED BY <2>2, <2>3
  <1>Credited. Credited'
    <2> SUFFICES ASSUME NEW t \in Streams PROVE WithinWindow(t)'
      BY DEF Credited
    <2>1. WithinWindow(t)
      BY DEF Credited
    <2> QED BY <1>size, <1>types, <2>1, Amounts DEF WithinWindow, Spent, Sent, Kept, PumpTypes, PerStream
  <1> QED BY <1>others, <1>PumpTypes, <1>Stages, <1>Carried, <1>Credited

\* The pump of an output that is closed has a close to queue.
LEMMA PumpEofStep ==
  ASSUME Inv, NEW s \in Streams, PumpEof(s)
  PROVE  Inv'
  <1> USE DEF Inv, Over, program, daemon, term, pumps, channel, viewer, cOut, client
  <1>others. SessionTypes' /\ QueueTypes' /\ DriverTypes' /\ ViewerTypes' /\
              DriversRun' /\ BehindOutput' /\ ExitComes'
    BY Undisturbed DEF PumpEof, OutputClosed
  <1>PumpTypes. PumpTypes'
    BY Sizes DEF PumpEof, OutputClosed, PumpTypes, PerStream
  <1>Stages. Stages'
    BY DEF PumpEof, OutputClosed, Stages
  <1>Carried. Carried'
    <2> SUFFICES ASSUME Up', ~Over'
             PROVE  RelayLast' /\ \A t \in Streams : PumpLast(t)' /\ OnTheWay(t)'
      BY DEF Carried
    <2>1. RelayLast /\ \A t \in Streams : PumpLast(t) /\ OnTheWay(t)
      BY DEF PumpEof, OutputClosed, Carried, Up
    <2>2. RelayLast'
      BY <2>1 DEF PumpEof, OutputClosed, RelayLast, Stages
    <2>3. ASSUME NEW t \in Streams PROVE PumpLast(t)' /\ OnTheWay(t)'
      <3>1. PumpLast(t)'
        BY <2>1 DEF PumpEof, OutputClosed, PumpLast, Stages, PumpTypes, PerStream, DriversRun, Up
      <3>2. OnTheWay(t)'
        BY <2>1, Amounts DEF PumpEof, OutputClosed, OnTheWay, Sent, Held, Stages, PumpTypes, PerStream
      <3> QED BY <3>1, <3>2
    <2> QED BY <2>2, <2>3
  <1>Credited. Credited'
    <2> SUFFICES ASSUME NEW t \in Streams PROVE WithinWindow(t)'
      BY DEF Credited
    <2>1. WithinWindow(t)
      BY DEF Credited
    <2> QED BY <2>1, Amounts DEF PumpEof, OutputClosed, WithinWindow, Spent, Sent, Kept,
            PumpTypes, ViewerTypes, PerStream
  <1> QED BY <1>others, <1>PumpTypes, <1>Stages, <1>Carried, <1>Credited

\* A frame is queued, and the barrier waits for that much less.
LEMMA PumpSendsStep ==
  ASSUME Inv, NEW s \in Streams, PumpSends(s)
  PROVE  Inv'
  <1> USE DEF Inv, Over, program, daemon, term, pumps, channel, viewer, cOut, client
  <1>others. DriverTypes' /\ ViewerTypes' /\ DriversRun'
    BY Undisturbed DEF PumpSends
  <1>dq. /\ dq' \in Seq(DaemonFrames)
         /\ \A t : Load(dq', "data", t) =
              Load(dq, "data", t) + (IF t = s /\ dWriter THEN hand[s] ELSE 0)
    <2>1. CASE dWriter
      <3> DEFINE f == IF hand[s] = 0 THEN CloseFrame(s) ELSE DataFrame(s, hand[s])
      <3>1. f \in DaemonFrames /\ f.kind # "exit"
            /\ \A t : Weight(f, "data", t) = IF t = s THEN hand[s] ELSE 0
        BY NewDaemonFrames DEF PumpTypes, PerStream
      <3>2. dq' = Append(dq, f)
        BY <2>1 DEF PumpSends
      <3> HIDE DEF f
      <3> QED BY <2>1, <3>1, <3>2, DataLoads DEF QueueTypes
    <2>2. CASE ~dWriter
      BY <2>2, DataLoads, NewDaemonFrames DEF PumpSends, QueueTypes, PumpTypes, PerStream
    <2> QED BY <2>1, <2>2
  <1>exit. /\ HasExit(dq') <=> HasExit(dq)
           /\ \A k \in 1..Len(dq') : dq'[k].kind = "exit" =>
                k \in 1..Len(dq) /\ dq[k].kind = "exit" /\ Ahead(dq', k) = Ahead(dq, k)
    <2>1. CASE dWriter
      <3> DEFINE f == IF hand[s] = 0 THEN CloseFrame(s) ELSE DataFrame(s, hand[s])
      <3>1. f \in DaemonFrames /\ f.kind # "exit"
        BY NewDaemonFrames DEF PumpTypes, PerStream
      <3>2. dq' = Append(dq, f)
        BY <2>1 DEF PumpSends
      <3> HIDE DEF f
      <3> QED BY <3>1, <3>2, ExitFacts, AheadFacts DEF QueueTypes
    <2>2. CASE ~dWriter
      BY <2>2 DEF PumpSends
    <2> QED BY <2>1, <2>2
  <1>hand. /\ hand[s] \in Nat /\ pump[s] = "send" /\ hand' = [hand EXCEPT ![s] = 0]
           /\ \E next \in {"ready", "done"} :
                /\ pump' = [pump EXCEPT ![s] = next]
                /\ dWriter /\ next = "done" => hand[s] = 0
           /\ left' = IF s \notin awaited THEN left
                      ELSE IF hand[s] < left THEN left - hand[s] ELSE 0
    <2>1. hand[s] \in Nat
      BY Amounts
    <2> QED BY <2>1 DEF PumpSends
  <1>types. PumpTypes /\ UNCHANGED <<early, sock, credit, wire, pty, due, vpc, queued, inbox, owed, cq, back, main, pending, awaited, mode, relay, prog, exitIn, link>>
    BY DEF PumpSends
  <1>SessionTypes. SessionTypes'
    BY Amounts DEF PumpSends, SessionTypes
  <1>PumpTypes. PumpTypes'
    BY Sizes, <1>hand, <1>types DEF PumpTypes, PerStream
  <1>QueueTypes. QueueTypes'
    BY <1>dq DEF PumpSends, QueueTypes
  <1>Stages. Stages'
    BY <1>exit, <1>hand, <1>types DEF Stages, PumpTypes, PerStream
  <1>Carried. Carried'
    <2> SUFFICES ASSUME Up', ~Over'
             PROVE  RelayLast' /\ \A t \in Streams : PumpLast(t)' /\ OnTheWay(t)'
      BY DEF Carried
    <2>1. RelayLast /\ \A t \in Streams : PumpLast(t) /\ OnTheWay(t)
      BY DEF PumpSends, Carried, Up
    <2>2. RelayLast'
      BY <2>1 DEF PumpSends, RelayLast, Stages
    <2>3. ASSUME NEW t \in Streams PROVE PumpLast(t)' /\ OnTheWay(t)'
      <3>1. PumpLast(t)'
        BY <1>hand, <1>types, <2>1 DEF PumpLast, PumpTypes, PerStream, DriversRun, Up
      <3>2. OnTheWay(t)'
        <4>1. OnTheWay(t) /\ PumpLast(t) /\ dWriter
          BY <1>types, <2>1 DEF DriversRun, Up
        <4>2. CASE t = s
          <5>1. Sent(t)' = Sent(t) + hand[s] /\ Sent(t) \in Nat
            BY <1>dq, <1>types, <4>1, <4>2, Amounts DEF Sent
          <5>2. hand'[t] = 0
            BY <1>hand, <1>types, <4>2 DEF PumpTypes, PerStream
          <5>3. Held(t)' = Held(t) - hand[s] /\ Held(t) \in Nat
            BY <1>types, <4>2, <5>2, Amounts DEF Held
          <5> QED BY <1>hand, <1>types, <4>1, <4>2, <5>1, <5>3, Amounts DEF OnTheWay
        <4>3. CASE t # s
          <5>1. Sent(t)' = Sent(t) /\ Sent(t) \in Nat
            BY <1>dq, <1>types, <4>3, Amounts DEF Sent
          <5>3. Held(t)' = Held(t)
            <6>1. hand'[t] = hand[t]
              BY <1>hand, <1>types, <4>3 DEF PumpTypes, PerStream
            <6> QED BY <1>types, <6>1 DEF Held
          <5>2. t \in awaited => left' = left
            BY <1>hand, <4>3 DEF Stages
          <5> QED BY <1>types, <4>1, <5>1, <5>2, <5>3, Amounts DEF OnTheWay
        <4> QED BY <4>2, <4>3
      <3> QED BY <3>1, <3>2
    <2> QED BY <2>2, <2>3
  <1>BehindOutput. BehindOutput'
    BY <1>exit DEF PumpSends, BehindOutput, Up
  <1>ExitComes. ExitComes'
    BY <1>exit DEF PumpSends, ExitComes, Broken, Up
  <1>Credited. Credited'
    <2> SUFFICES ASSUME NEW t \in Streams PROVE WithinWindow(t)'
      BY DEF Credited
    <2>1. WithinWindow(t)
      BY DEF Credited
    <2>2. hand'[t] = (IF t = s THEN 0 ELSE hand[t]) /\ (pump'[t] = "read" => pump[t] = "read")
      BY <1>hand, <1>types DEF PumpTypes, PerStream
    <2>3. hand'[t] + Load(dq', "data", t) <= hand[t] + Load(dq, "data", t)
          /\ Load(dq', "data", t) \in Nat /\ hand'[t] \in Nat
      BY <1>dq, <1>hand, <2>2, Amounts
    <2>4. credit[t] + Spent(t)' <= Window
      <3>1. Kept(t)' = Kept(t) /\ Kept(t) \in Nat
        BY <1>types, Amounts DEF Kept
      <3> DEFINE h == hand[t]
                 h1 == hand'[t]
                 d == Load(dq, "data", t)
                 d1 == Load(dq', "data", t)
                 w == Load(wire, "data", t)
                 k == Kept(t)
                 o == owed[t]
                 c == Load(cq, "window", t)
                 b == Load(back, "window", t)
      <3>2. /\ h \in Nat /\ h1 \in Nat /\ d \in Nat /\ d1 \in Nat /\ w \in Nat /\ k \in Nat
            /\ o \in Nat /\ c \in Nat /\ b \in Nat /\ h1 + d1 <= h + d
        BY <2>3, <3>1, Amounts
      <3>3. Spent(t) = h + (d + w) + k + o + c + b
        BY DEF Spent, Sent
      <3>4. Spent(t)' = h1 + (d1 + w) + k + o + c + b
        BY <1>types, <3>1 DEF Spent, Sent
      <3> HIDE DEF h, h1, d, d1, w, k, o, c, b
      <3>5. h1 + (d1 + w) + k + o + c + b <= h + (d + w) + k + o + c + b
        BY <3>2
      <3>6. /\ h1 + (d1 + w) + k + o + c + b \in Nat /\ h + (d + w) + k + o + c + b \in Nat
        BY <3>2
      <3>7. credit[t] + Spent(t) <= Window /\ credit[t] \in Int /\ Window \in Nat
        BY <2>1, Amounts DEF WithinWindow
      <3> QED BY <3>3, <3>4, <3>5, <3>6, <3>7
    <2> QED BY <1>types, <2>1, <2>2, <2>4 DEF WithinWindow
  <1> QED BY <1>others, <1>SessionTypes, <1>PumpTypes, <1>QueueTypes, <1>Stages,
            <1>Carried, <1>BehindOutput, <1>ExitComes, <1>Credited

\* Taking a control message disturbs nothing.
LEMMA MainRecvStep ==
  ASSUME Inv, MainRecv
  PROVE  Inv'
  <1> USE DEF Inv, Over, program, daemon, term, pumps, channel, viewer, cOut, client
  <1>others. PumpTypes' /\ QueueTypes' /\ DriverTypes' /\ ViewerTypes' /\ Stages' /\
              DriversRun' /\ Carried' /\ BehindOutput' /\ ExitComes' /\ Credited'
    BY Undisturbed DEF MainRecv
  <1>SessionTypes. SessionTypes'
    BY Sizes DEF MainRecv, SessionTypes
  <1> QED BY <1>others, <1>SessionTypes

\* The session is told of a client that is gone.
LEMMA MainHungUpStep ==
  ASSUME Inv, MainHungUp
  PROVE  Inv'
  <1> USE DEF Inv, Over, program, daemon, term, pumps, channel, viewer, cOut, client
  <1>others. PumpTypes' /\ QueueTypes' /\ DriverTypes' /\ ViewerTypes' /\
              BehindOutput' /\ Credited'
    BY Undisturbed DEF MainHungUp
  <1>SessionTypes. SessionTypes'
    BY Sizes DEF MainHungUp, SessionTypes
  <1>Stages. Stages'
    BY DEF MainHungUp, Stages
  <1>DriversRun. DriversRun'
    BY DEF MainHungUp, DriversRun, Up
  <1>Carried. Carried'
    <2> SUFFICES ASSUME Up', ~Over'
             PROVE  RelayLast' /\ \A t \in Streams : PumpLast(t)' /\ OnTheWay(t)'
      BY DEF Carried
    <2>1. RelayLast /\ \A t \in Streams : PumpLast(t) /\ OnTheWay(t)
      BY DEF MainHungUp, Carried, Up
    <2>2. RelayLast'
      BY <2>1 DEF MainHungUp, RelayLast, Stages
    <2>3. ASSUME NEW t \in Streams PROVE PumpLast(t)' /\ OnTheWay(t)'
      <3>1. PumpLast(t)'
        BY <2>1 DEF MainHungUp, PumpLast, Stages, PumpTypes, PerStream, DriversRun, Up
      <3>2. OnTheWay(t)'
        BY <2>1, Amounts DEF MainHungUp, OnTheWay, Sent, Held, Stages, PumpTypes, PerStream
      <3> QED BY <3>1, <3>2
    <2> QED BY <2>2, <2>3
  <1>ExitComes. ExitComes'
    BY DEF MainHungUp, ExitComes, Broken, Up
  <1> QED BY <1>others, <1>SessionTypes, <1>Stages, <1>DriversRun, <1>Carried,
            <1>ExitComes

\* The program is killed.
LEMMA KillTakesStep ==
  ASSUME Inv, KillTakes
  PROVE  Inv'
  <1> USE DEF Inv, Over, program, daemon, term, pumps, channel, viewer, cOut, client
  <1>others. PumpTypes' /\ QueueTypes' /\ DriverTypes' /\ ViewerTypes' /\
              DriversRun' /\ BehindOutput' /\ ExitComes' /\ Credited'
    BY Undisturbed DEF KillTakes
  <1>SessionTypes. SessionTypes'
    BY Sizes DEF KillTakes, SessionTypes
  <1>Stages. Stages'
    BY DEF KillTakes, Stages
  <1>Carried. Carried'
    <2> SUFFICES ASSUME Up', ~Over'
             PROVE  RelayLast' /\ \A t \in Streams : PumpLast(t)' /\ OnTheWay(t)'
      BY DEF Carried
    <2>1. RelayLast /\ \A t \in Streams : PumpLast(t) /\ OnTheWay(t)
      BY DEF KillTakes, Carried, Up
    <2>2. RelayLast'
      BY <2>1 DEF KillTakes, RelayLast, Stages
    <2>3. ASSUME NEW t \in Streams PROVE PumpLast(t)' /\ OnTheWay(t)'
      <3>1. PumpLast(t)'
        BY <2>1 DEF KillTakes, PumpLast, Stages, PumpTypes, PerStream, DriversRun, Up
      <3>2. OnTheWay(t)'
        BY <2>1, Amounts DEF KillTakes, OnTheWay, Sent, Held, Stages, PumpTypes, PerStream
      <3> QED BY <3>1, <3>2
    <2> QED BY <2>2, <2>3
  <1> QED BY <1>others, <1>SessionTypes, <1>Stages, <1>Carried

\* Without a relay the barrier begins with the program's exit.
LEMMA MainReapsStep ==
  ASSUME Inv, MainReaps
  PROVE  Inv'
  <1> USE DEF Inv, Over, program, daemon, term, pumps, channel, viewer, cOut, client
  <1>others. PumpTypes' /\ QueueTypes' /\ DriverTypes' /\ ViewerTypes' /\
              BehindOutput' /\ Credited'
    BY Undisturbed DEF MainReaps, BarrierBegins
  <1>SessionTypes. SessionTypes'
    BY Sizes DEF MainReaps, BarrierBegins, SessionTypes
  <1>Stages. Stages'
    BY DEF MainReaps, BarrierBegins, Stages, SessionTypes
  <1>DriversRun. DriversRun'
    BY DEF MainReaps, BarrierBegins, DriversRun, Up
  <1>Carried. Carried'
    <2> SUFFICES ASSUME Up', ~Over'
             PROVE  RelayLast' /\ \A t \in Streams : PumpLast(t)' /\ OnTheWay(t)'
      BY DEF Carried
    <2>1. RelayLast /\ \A t \in Streams : PumpLast(t) /\ OnTheWay(t)
      BY DEF MainReaps, BarrierBegins, Carried, Up
    <2>2. RelayLast'
      BY <2>1 DEF MainReaps, BarrierBegins, RelayLast, Stages
    <2>3. ASSUME NEW t \in Streams PROVE PumpLast(t)' /\ OnTheWay(t)'
      <3>1. PumpLast(t)'
        BY <2>1 DEF MainReaps, BarrierBegins, PumpLast, Stages, PumpTypes, PerStream, DriversRun, Up
      <3>2. OnTheWay(t)'
        BY <2>1, Amounts DEF MainReaps, BarrierBegins, OnTheWay, Sent, Held, Stages, PumpTypes, PerStream, RelayLast, PumpLast
      <3> QED BY <3>1, <3>2
    <2> QED BY <2>2, <2>3
  <1>ExitComes. ExitComes'
    BY DEF MainReaps, BarrierBegins, ExitComes, Broken, Up
  <1> QED BY <1>others, <1>SessionTypes, <1>Stages, <1>DriversRun, <1>Carried,
            <1>ExitComes

\* The stuck relay of input ends after all.
LEMMA InputFreedStep ==
  ASSUME Inv, InputFreed
  PROVE  Inv'
  <1> USE DEF Inv, Over, program, daemon, term, pumps, channel, viewer, cOut, client
  <1>others. PumpTypes' /\ QueueTypes' /\ DriverTypes' /\ ViewerTypes' /\
              BehindOutput' /\ Credited'
    BY Undisturbed DEF InputFreed
  <1>SessionTypes. SessionTypes'
    BY Sizes DEF InputFreed, SessionTypes
  <1>Stages. Stages'
    BY DEF InputFreed, Stages
  <1>DriversRun. DriversRun'
    BY DEF InputFreed, DriversRun, Up
  <1>Carried. Carried'
    BY DEF InputFreed, Carried, Up, RelayLast, PumpLast, OnTheWay, Sent, Held
  <1>ExitComes. ExitComes'
    BY DEF InputFreed, ExitComes, Broken, Up
  <1> QED BY <1>others, <1>SessionTypes, <1>Stages, <1>DriversRun, <1>Carried,
            <1>ExitComes

\* A session whose wait failed is over, and carries nothing any more.
LEMMA MainFailsStep ==
  ASSUME Inv, MainFails
  PROVE  Inv'
  <1> USE DEF Inv, Over, program, daemon, term, pumps, channel, viewer, cOut, client
  <1>others. PumpTypes' /\ QueueTypes' /\ ViewerTypes' /\ BehindOutput' /\ Credited'
    BY Undisturbed DEF MainFails
  <1>SessionTypes. SessionTypes'
    BY Sizes DEF MainFails, SessionTypes
  <1>DriverTypes. DriverTypes'
    BY DEF MainFails, DriverTypes
  <1>Stages. Stages'
    BY DEF MainFails, Stages
  <1>DriversRun. DriversRun'
    BY DEF MainFails, DriversRun, Up
  <1>Carried. Carried'
    BY DEF MainFails, Carried
  <1>ExitComes. ExitComes'
    BY DEF MainFails, ExitComes, Broken, Up
  <1> QED BY <1>others, <1>SessionTypes, <1>DriverTypes, <1>Stages, <1>DriversRun,
            <1>Carried, <1>ExitComes

\* With one it begins behind the relay.
LEMMA MainJoinsStep ==
  ASSUME Inv, MainJoins
  PROVE  Inv'
  <1> USE DEF Inv, Over, program, daemon, term, pumps, channel, viewer, cOut, client
  <1>others. PumpTypes' /\ QueueTypes' /\ DriverTypes' /\ ViewerTypes' /\
              BehindOutput' /\ Credited'
    BY Undisturbed DEF MainJoins, BarrierBegins
  <1>SessionTypes. SessionTypes'
    BY Sizes DEF MainJoins, BarrierBegins, SessionTypes
  <1>Stages. Stages'
    BY DEF MainJoins, BarrierBegins, Stages
  <1>DriversRun. DriversRun'
    BY DEF MainJoins, BarrierBegins, DriversRun, Up
  <1>Carried. Carried'
    <2> SUFFICES ASSUME Up', ~Over'
             PROVE  RelayLast' /\ \A t \in Streams : PumpLast(t)' /\ OnTheWay(t)'
      BY DEF Carried
    <2>1. RelayLast /\ \A t \in Streams : PumpLast(t) /\ OnTheWay(t)
      BY DEF MainJoins, BarrierBegins, Carried, Up
    <2>2. RelayLast'
      BY <2>1 DEF MainJoins, BarrierBegins, RelayLast, Stages
    <2>3. ASSUME NEW t \in Streams PROVE PumpLast(t)' /\ OnTheWay(t)'
      <3>1. PumpLast(t)'
        BY <2>1 DEF MainJoins, BarrierBegins, PumpLast, Stages, PumpTypes, PerStream, DriversRun, Up
      <3>2. OnTheWay(t)'
        BY <2>1, Amounts DEF MainJoins, BarrierBegins, OnTheWay, Sent, Held, Stages, PumpTypes, PerStream, RelayLast, PumpLast
      <3> QED BY <3>1, <3>2
    <2> QED BY <2>2, <2>3
  <1>ExitComes. ExitComes'
    BY DEF MainJoins, BarrierBegins, ExitComes, Broken, Up
  <1> QED BY <1>others, <1>SessionTypes, <1>Stages, <1>DriversRun, <1>Carried,
            <1>ExitComes

\* The target of the barrier is all that has not been queued yet.
LEMMA MainTargetsStep ==
  ASSUME Inv, NEW s \in Streams, MainTargets(s)
  PROVE  Inv'
  <1> USE DEF Inv, Over, program, daemon, term, pumps, channel, viewer, cOut, client
  <1>others. PumpTypes' /\ QueueTypes' /\ DriverTypes' /\ ViewerTypes' /\
              DriversRun' /\ BehindOutput' /\ ExitComes' /\ Credited'
    BY Undisturbed DEF MainTargets, Backlog
  <1>SessionTypes. SessionTypes'
    BY Amounts DEF MainTargets, Backlog, SessionTypes
  <1>Stages. Stages'
    BY DEF MainTargets, Backlog, Stages
  <1>Carried. Carried'
    <2> SUFFICES ASSUME Up', ~Over'
             PROVE  RelayLast' /\ \A t \in Streams : PumpLast(t)' /\ OnTheWay(t)'
      BY DEF Carried
    <2>1. RelayLast /\ \A t \in Streams : PumpLast(t) /\ OnTheWay(t)
      BY DEF MainTargets, Backlog, Carried, Up
    <2>2. RelayLast'
      BY <2>1 DEF MainTargets, Backlog, RelayLast, Stages
    <2>3. ASSUME NEW t \in Streams PROVE PumpLast(t)' /\ OnTheWay(t)'
      <3>1. PumpLast(t)'
        BY <2>1 DEF MainTargets, Backlog, PumpLast, Stages, PumpTypes, PerStream, DriversRun, Up
      <3>2. OnTheWay(t)'
        BY <2>1, Amounts DEF MainTargets, Backlog, OnTheWay, Sent, Held, Stages, PumpTypes, PerStream, RelayLast
      <3> QED BY <3>1, <3>2
    <2> QED BY <2>2, <2>3
  <1> QED BY <1>others, <1>SessionTypes, <1>Stages, <1>Carried

\* The barrier passes a stream whose early output is queued.
LEMMA MainPassesStep ==
  ASSUME Inv, MainPasses
  PROVE  Inv'
  <1> USE DEF Inv, Over, program, daemon, term, pumps, channel, viewer, cOut, client
  <1>others. PumpTypes' /\ QueueTypes' /\ DriverTypes' /\ ViewerTypes' /\
              DriversRun' /\ BehindOutput' /\ ExitComes' /\ Credited'
    BY Undisturbed DEF MainPasses, Passed, DClosed
  <1>SessionTypes. SessionTypes'
    BY Sizes DEF MainPasses, Passed, DClosed, SessionTypes
  <1>Stages. Stages'
    BY DEF MainPasses, Passed, DClosed, Stages
  <1>Carried. Carried'
    <2> SUFFICES ASSUME Up', ~Over'
             PROVE  RelayLast' /\ \A t \in Streams : PumpLast(t)' /\ OnTheWay(t)'
      BY DEF Carried
    <2>1. RelayLast /\ \A t \in Streams : PumpLast(t) /\ OnTheWay(t)
      BY DEF MainPasses, Passed, DClosed, Carried, Up
    <2>2. RelayLast'
      BY <2>1 DEF MainPasses, Passed, DClosed, RelayLast, Stages
    <2>3. ASSUME NEW t \in Streams PROVE PumpLast(t)' /\ OnTheWay(t)'
      <3>1. PumpLast(t)'
        BY <2>1 DEF MainPasses, Passed, DClosed, PumpLast, Stages, PumpTypes, PerStream, DriversRun, Up
      <3>2. OnTheWay(t)'
        BY <2>1, Amounts DEF MainPasses, Passed, DClosed, OnTheWay, Sent, Held, Stages, PumpTypes, PerStream, RelayLast, PumpLast, DriversRun, Up
      <3> QED BY <3>1, <3>2
    <2> QED BY <2>2, <2>3
  <1> QED BY <1>others, <1>SessionTypes, <1>Stages, <1>Carried

\* The Exit is queued behind all that the program wrote early.
LEMMA MainSendsExitStep ==
  ASSUME Inv, MainSendsExit
  PROVE  Inv'
  <1> USE DEF Inv, Over, program, daemon, term, pumps, channel, viewer, cOut, client
  <1>others. PumpTypes' /\ ViewerTypes'
    BY Undisturbed DEF MainSendsExit
  <1>dq. \/ dWriter /\ dq' = Append(dq, ExitFrame)
         \/ ~dWriter /\ dq' = dq
    BY DEF MainSendsExit
  <1>frame. ExitFrame \in DaemonFrames /\ ExitFrame.kind = "exit" /\ \A t : Weight(ExitFrame, "data", t) = 0
    BY NewDaemonFrames, Sizes
  <1>append. LET longer == Append(dq, ExitFrame)
             IN  /\ longer \in Seq(DaemonFrames) /\ HasExit(longer)
                 /\ \A t : Load(longer, "data", t) = Load(dq, "data", t)
    <2>1. dq \in Seq(DaemonFrames)
      BY DEF QueueTypes
    <2>2. Append(dq, ExitFrame) \in Seq(DaemonFrames)
      BY <2>1, <1>frame
    <2>3. HasExit(Append(dq, ExitFrame))
      BY <2>1, <1>frame, ExitFacts
    <2>4. ASSUME NEW t PROVE Load(Append(dq, ExitFrame), "data", t) = Load(dq, "data", t)
      <3>1. Load(Append(dq, ExitFrame), "data", t) =
              Load(dq, "data", t) + Weight(ExitFrame, "data", t)
        BY <2>1, <1>frame, DataLoads
      <3>2. Load(dq, "data", t) \in Nat /\ Weight(ExitFrame, "data", t) = 0
        BY <2>1, <1>frame, DataLoads
      <3> QED BY <3>1, <3>2
    <2> QED BY <2>2, <2>3, <2>4
  <1>load. dq' \in Seq(DaemonFrames) /\ \A t : Load(dq', "data", t) = Load(dq, "data", t)
    BY <1>dq, <1>append DEF QueueTypes
  <1>exit. dWriter => HasExit(dq')
    BY <1>dq, <1>append
  <1>SessionTypes. SessionTypes'
    BY Sizes DEF MainSendsExit, SessionTypes
  <1>QueueTypes. QueueTypes'
    BY <1>load DEF MainSendsExit, QueueTypes
  <1>DriverTypes. DriverTypes'
    BY Sizes DEF MainSendsExit, DriverTypes
  <1>Stages. Stages'
    BY DEF MainSendsExit, Stages
  <1>DriversRun. DriversRun'
    BY DEF MainSendsExit, DriversRun, Up
  <1>Carried. Carried'
    BY DEF MainSendsExit, Carried
  <1>BehindOutput. BehindOutput'
    <2> SUFFICES ASSUME Up, NEW k \in 1..Len(dq'), dq'[k].kind = "exit", NEW t \in Streams
                 PROVE  early[t] <= Load(wire, "data", t) + Load(Ahead(dq', k), "data", t)
      BY DEF MainSendsExit, BehindOutput, Up
    <2>1. dWriter /\ main = "barrier" /\ awaited = {} /\ pending = {} /\ dq' = Append(dq, ExitFrame)
      BY <1>dq DEF MainSendsExit, DriversRun
    <2>2. early[t] <= Sent(t)
      BY <2>1 DEF Carried, OnTheWay
    <2>3. ~HasExit(dq)
      BY <2>1 DEF Stages
    <2>4. k = Len(dq) + 1
      <3>1. /\ Len(dq') = Len(dq) + 1 /\ Len(dq) \in Nat
            /\ \A j \in 1..Len(dq) : dq'[j] = dq[j]
        BY <2>1, <1>frame DEF QueueTypes
      <3> QED BY <2>3, <3>1 DEF HasExit
    <2>5. Ahead(dq', k) = dq
      BY <2>1, <2>4, <1>frame, AheadFacts DEF QueueTypes
    <2> QED BY <2>2, <2>5, Amounts DEF Sent
  <1>ExitComes. ExitComes'
    BY <1>exit DEF MainSendsExit, ExitComes, Broken, DriversRun, Up
  <1>Credited. Credited'
    <2> SUFFICES ASSUME NEW t \in Streams PROVE WithinWindow(t)'
      BY DEF Credited
    <2>1. WithinWindow(t)
      BY DEF Credited
    <2> QED BY <2>1, <1>load, Amounts DEF MainSendsExit, WithinWindow, Spent, Sent, Kept
  <1> QED BY <1>others, <1>SessionTypes, <1>QueueTypes, <1>DriverTypes, <1>Stages,
            <1>DriversRun, <1>Carried, <1>BehindOutput, <1>ExitComes, <1>Credited

\* A frame moves on to the channel, or the writer fails with it.
LEMMA DWritesStep ==
  ASSUME Inv, DWrites
  PROVE  Inv'
  <1> USE DEF Inv, Over, program, daemon, term, pumps, channel, viewer, cOut, client
  <1>others. SessionTypes' /\ PumpTypes' /\ ViewerTypes'
    BY Undisturbed DEF DWrites
  <1>moves. \/ /\ Up /\ wire' = Append(wire, Head(dq)) /\ dq' = Tail(dq) /\ dWriter' = dWriter
            \/ ~Up /\ dq' = <<>> /\ dWriter' = FALSE /\ wire' = wire
    BY DEF DWrites
  <1>head. /\ dq # <<>> /\ Head(dq) \in DaemonFrames /\ Tail(dq) \in Seq(DaemonFrames)
           /\ dq \in Seq(DaemonFrames) /\ wire \in Seq(DaemonFrames)
    BY DEF DWrites, QueueTypes
  <1>queues. dq' \in Seq(DaemonFrames) /\ wire' \in Seq(DaemonFrames)
    <2>1. Append(wire, Head(dq)) \in Seq(DaemonFrames) /\ <<>> \in Seq(DaemonFrames)
      BY <1>head
    <2> QED BY <1>moves, <1>head, <2>1
  <1>load. ASSUME NEW t
           PROVE  /\ Load(dq', "data", t) \in Nat /\ Load(wire', "data", t) \in Nat
                  /\ Up => Load(dq', "data", t) + Load(wire', "data", t) =
                             Load(dq, "data", t) + Load(wire, "data", t)
                  /\ Load(dq', "data", t) + Load(wire', "data", t) <=
                       Load(dq, "data", t) + Load(wire, "data", t)
    <2>1. /\ Load(dq, "data", t) \in Nat /\ Load(wire, "data", t) \in Nat
          /\ Load(dq', "data", t) \in Nat /\ Load(wire', "data", t) \in Nat
      BY <1>head, <1>queues, DataLoads
    <2>2. CASE Up
      <3>1. Load(dq, "data", t) = Weight(Head(dq), "data", t) + Load(Tail(dq), "data", t)
        BY <1>head, DataLoads
      <3>2. Load(Append(wire, Head(dq)), "data", t) = Load(wire, "data", t) + Weight(Head(dq), "data", t)
        BY <1>head, DataLoads
      <3>3. Weight(Head(dq), "data", t) \in Nat
        BY <1>head, DaemonFrameFacts
      <3>4. wire' = Append(wire, Head(dq)) /\ dq' = Tail(dq)
        BY <1>moves, <2>2
      <3> QED BY <2>1, <3>1, <3>2, <3>3, <3>4
    <2>3. CASE ~Up
      BY <1>moves, <2>1, <2>3, LoadEmpty
    <2> QED BY <2>1, <2>2, <2>3
  <1>exit. /\ HasExit(wire) => HasExit(wire')
           /\ HasExit(dq') \/ HasExit(wire') => HasExit(dq) \/ HasExit(wire)
           /\ Up /\ (HasExit(dq) \/ HasExit(wire)) => HasExit(dq') \/ HasExit(wire')
    <2>1. HasExit(Append(wire, Head(dq))) <=> HasExit(wire) \/ Head(dq).kind = "exit"
      BY <1>head, ExitFacts
    <2>2. HasExit(dq) <=> Head(dq).kind = "exit" \/ HasExit(Tail(dq))
      BY <1>head, ExitFacts
    <2>3. ~HasExit(<<>>)
      BY <1>head, ExitFacts
    <2> QED BY <1>moves, <2>1, <2>2, <2>3
  <1>QueueTypes. QueueTypes'
    BY <1>queues DEF DWrites, QueueTypes
  <1>DriverTypes. DriverTypes'
    BY Sizes DEF DWrites, DriverTypes
  <1>Stages. Stages'
    BY <1>exit DEF DWrites, Stages
  <1>DriversRun. DriversRun'
    BY DEF DWrites, DriversRun, Up
  <1>Carried. Carried'
    <2> SUFFICES ASSUME Up', ~Over'
             PROVE  RelayLast' /\ \A t \in Streams : PumpLast(t)' /\ OnTheWay(t)'
      BY DEF Carried
    <2>1. RelayLast /\ \A t \in Streams : PumpLast(t) /\ OnTheWay(t)
      BY DEF DWrites, Carried, Up
    <2>2. RelayLast'
      BY <2>1 DEF DWrites, RelayLast, Stages
    <2>3. ASSUME NEW t \in Streams PROVE PumpLast(t)' /\ OnTheWay(t)'
      <3>1. PumpLast(t)'
        BY <2>1 DEF DWrites, PumpLast
      <3>2. OnTheWay(t)'
        <4>1. Sent(t)' = Sent(t)
          BY <1>load DEF DWrites, Sent, Up
        <4> QED BY <2>1, <4>1 DEF DWrites, OnTheWay, Held
      <3> QED BY <3>1, <3>2
    <2> QED BY <2>2, <2>3
  <1>BehindOutput. BehindOutput'
    <2>1. exitIn' => \A t \in Streams : early'[t] = 0
      BY DEF DWrites, BehindOutput
    <2>2. CASE Up
      <3>1. wire' = Append(wire, Head(dq)) /\ dq' = Tail(dq) /\ UNCHANGED <<early, link>>
        BY <1>moves, <2>2 DEF DWrites
      <3>2. ASSUME NEW k \in 1..Len(wire'), wire'[k].kind = "exit", NEW t \in Streams
            PROVE  early[t] <= Load(Ahead(wire', k), "data", t)
        <4>1. CASE k \in 1..Len(wire)
          <5>1. Ahead(wire', k) = Ahead(wire, k) /\ wire[k].kind = "exit"
            BY <1>head, <3>1, <3>2, <4>1, AheadFacts
          <5> QED BY <4>1, <5>1 DEF BehindOutput
        <4>2. CASE k = Len(wire) + 1
          <5>1. Ahead(wire', k) = wire /\ Head(dq).kind = "exit" /\ Ahead(dq, 1) = <<>>
            BY <1>head, <3>1, <3>2, <4>2, AheadFacts
          <5>2. 1 \in 1..Len(dq) /\ dq[1] = Head(dq)
            BY <1>head
          <5>3. early[t] <= Load(wire, "data", t) + Load(Ahead(dq, 1), "data", t)
            BY <2>2, <5>1, <5>2 DEF BehindOutput
          <5> QED BY <5>1, <5>3, LoadEmpty, Amounts
        <4> QED BY <1>head, <3>1, <4>1, <4>2
      <3>3. ASSUME NEW k \in 1..Len(dq'), dq'[k].kind = "exit", NEW t \in Streams
            PROVE  early[t] <= Load(wire', "data", t) + Load(Ahead(dq', k), "data", t)
        <4>1. k + 1 \in 1..Len(dq) /\ dq[k + 1].kind = "exit" /\ k + 1 > 1
          BY <1>head, <3>1, <3>3
        <4> DEFINE a == Ahead(dq, k + 1)
        <4>2. early[t] <= Load(wire, "data", t) + Load(a, "data", t)
          BY <2>2, <4>1 DEF BehindOutput
        <4>3. a \in Seq(DaemonFrames) /\ a # <<>> /\ Head(a) = Head(dq) /\ Tail(a) = Ahead(dq', k)
          <5>1. (k + 1) - 1 = k
            OBVIOUS
          <5> QED BY <1>head, <3>1, <4>1, <5>1, AheadFacts
        <4> HIDE DEF a
        <4>4. Load(a, "data", t) = Weight(Head(dq), "data", t) + Load(Ahead(dq', k), "data", t)
          BY <4>3, DataLoads
        <4>5. Load(wire', "data", t) = Load(wire, "data", t) + Weight(Head(dq), "data", t)
          BY <1>head, <3>1, DataLoads
        <4>6. Weight(Head(dq), "data", t) \in Nat
          BY <1>head, DaemonFrameFacts
        <4>7. Load(Ahead(dq', k), "data", t) \in Nat
          <5>1. Tail(a) \in Seq(DaemonFrames)
            BY <4>3
          <5> QED BY <4>3, <5>1, DataLoads
        <4> QED BY <4>2, <4>4, <4>5, <4>6, <4>7, Amounts
      <3> QED BY <2>1, <3>1, <3>2, <3>3 DEF BehindOutput
    <2>3. CASE ~Up
      BY <1>moves, <2>1, <2>3 DEF DWrites, BehindOutput, Up
    <2> QED BY <2>2, <2>3
  <1>ExitComes. ExitComes'
    BY <1>exit DEF DWrites, ExitComes, Broken, Up
  <1>Credited. Credited'
    <2> SUFFICES ASSUME NEW t \in Streams PROVE WithinWindow(t)'
      BY DEF Credited
    <2>1. WithinWindow(t)
      BY DEF Credited
    <2>2. Sent(t)' <= Sent(t) /\ Sent(t)' \in Nat /\ Sent(t) \in Nat
      BY <1>load, Amounts DEF Sent
    <2>3. Kept(t)' = Kept(t) /\ Kept(t) \in Nat
      BY Amounts DEF DWrites, Kept
    <2>4. Spent(t)' <= Spent(t) /\ Spent(t)' \in Nat /\ Spent(t) \in Nat
      <3>1. UNCHANGED <<hand, owed, cq, back>>
        BY DEF DWrites
      <3> QED BY <2>2, <2>3, <3>1, Amounts DEF Spent
    <2> QED BY <2>1, <2>4, Amounts DEF DWrites, WithinWindow
  <1> QED BY <1>others, <1>QueueTypes, <1>DriverTypes, <1>Stages, <1>DriversRun,
            <1>Carried, <1>BehindOutput, <1>ExitComes, <1>Credited

\* The writer ends behind the last frame.
LEMMA DShutsStep ==
  ASSUME Inv, DShuts
  PROVE  Inv'
  <1> USE DEF Inv, Over, program, daemon, term, pumps, channel, viewer, cOut, client
  <1>others. SessionTypes' /\ PumpTypes' /\ QueueTypes' /\ ViewerTypes' /\ Stages' /\
              Credited'
    BY Undisturbed DEF DShuts
  <1>DriverTypes. DriverTypes'
    BY Sizes DEF DShuts, DriverTypes
  <1>DriversRun. DriversRun'
    BY DEF DShuts, DriversRun, Up
  <1>Carried. Carried'
    BY DEF DShuts, Carried, Up
  <1>BehindOutput. BehindOutput'
    BY DEF DShuts, BehindOutput, Up
  <1>ExitComes. ExitComes'
    BY ExitFacts DEF DShuts, ExitComes, Broken, Up, Stages, QueueTypes
  <1> QED BY <1>others, <1>DriverTypes, <1>DriversRun, <1>Carried, <1>BehindOutput,
            <1>ExitComes

\* So does the client's, with the Exit or behind the failure.
LEMMA CShutsStep ==
  ASSUME Inv, CShuts
  PROVE  Inv'
  <1> USE DEF Inv, Over, program, daemon, term, pumps, channel, viewer, cOut, client
  <1>others. SessionTypes' /\ PumpTypes' /\ QueueTypes' /\ ViewerTypes' /\ Stages' /\
              Credited'
    BY Undisturbed DEF CShuts, NothingOwed
  <1>DriverTypes. DriverTypes'
    BY Sizes DEF CShuts, NothingOwed, DriverTypes
  <1>DriversRun. DriversRun'
    BY DEF CShuts, NothingOwed, DriversRun, Up
  <1>Carried. Carried'
    BY DEF CShuts, Carried, Up, Stages, ExitComes
  <1>BehindOutput. BehindOutput'
    BY DEF CShuts, BehindOutput, Up
  <1>ExitComes. ExitComes'
    BY DEF CShuts, ExitComes, Broken, Up
  <1> QED BY <1>others, <1>DriverTypes, <1>DriversRun, <1>Carried, <1>BehindOutput,
            <1>ExitComes

\* A control message is handed to the session.
LEMMA DDeliversStep ==
  ASSUME Inv, DDelivers
  PROVE  Inv'
  <1> USE DEF Inv, Over, program, daemon, term, pumps, channel, viewer, cOut, client
  <1>others. PumpTypes' /\ QueueTypes' /\ ViewerTypes' /\ Stages' /\ Carried' /\
              BehindOutput' /\ ExitComes' /\ Credited'
    BY Undisturbed DEF DDelivers
  <1>SessionTypes. SessionTypes'
    BY Sizes DEF DDelivers, SessionTypes
  <1>DriverTypes. DriverTypes'
    BY Sizes DEF DDelivers, DriverTypes
  <1>DriversRun. DriversRun'
    BY DEF DDelivers, DriversRun, Up
  <1> QED BY <1>others, <1>SessionTypes, <1>DriverTypes, <1>DriversRun

\* The daemon's reader ends with the channel.
LEMMA DEndsStep ==
  ASSUME Inv, DEnds
  PROVE  Inv'
  <1> USE DEF Inv, Over, program, daemon, term, pumps, channel, viewer, cOut, client
  <1>others. SessionTypes' /\ PumpTypes' /\ QueueTypes' /\ ViewerTypes' /\ Stages' /\
              Carried' /\ BehindOutput' /\ ExitComes' /\ Credited'
    BY Undisturbed DEF DEnds
  <1>DriverTypes. DriverTypes'
    BY Sizes DEF DEnds, DriverTypes
  <1>DriversRun. DriversRun'
    BY DEF DEnds, DriversRun, Up
  <1> QED BY <1>others, <1>DriverTypes, <1>DriversRun

\* The client's reader ends with the channel, and behind the Exit if it is only shut.
LEMMA CEndsStep ==
  ASSUME Inv, CEnds
  PROVE  Inv'
  <1> USE DEF Inv, Over, program, daemon, term, pumps, channel, viewer, cOut, client
  <1>others. SessionTypes' /\ QueueTypes' /\ ViewerTypes' /\ Stages' /\ DriversRun' /\
              Credited'
    BY Undisturbed DEF CEnds
  <1>PumpTypes. PumpTypes'
    BY DEF CEnds, PumpTypes, PerStream
  <1>DriverTypes. DriverTypes'
    BY Sizes DEF CEnds, DriverTypes
  <1>Carried. Carried'
    BY DEF CEnds, Carried, Up
  <1>BehindOutput. BehindOutput'
    BY DEF CEnds, BehindOutput, Up
  <1>ExitComes. ExitComes'
    BY ExitFacts DEF CEnds, ExitComes, Broken, Up, QueueTypes, DriverTypes
  <1> QED BY <1>others, <1>PumpTypes, <1>DriverTypes, <1>Carried, <1>BehindOutput,
            <1>ExitComes

\* The client returns.
LEMMA CReturnsStep ==
  ASSUME Inv, CReturns
  PROVE  Inv'
  <1> USE DEF Inv, Over, program, daemon, term, pumps, channel, viewer, cOut, client
  <1>others. SessionTypes' /\ PumpTypes' /\ QueueTypes' /\ ViewerTypes' /\ Stages' /\
              DriversRun' /\ Carried' /\ BehindOutput' /\ Credited'
    BY Undisturbed DEF CReturns
  <1>DriverTypes. DriverTypes'
    BY Sizes DEF CReturns, DriverTypes
  <1>ExitComes. ExitComes'
    BY DEF CReturns, ExitComes, Broken, Up
  <1> QED BY <1>others, <1>DriverTypes, <1>ExitComes

\* A viewer that leaves disturbs nothing.
LEMMA ViewerLeavesStep ==
  ASSUME Inv, NEW s \in Streams, ViewerLeaves(s)
  PROVE  Inv'
  <1> USE DEF Inv, Over, program, daemon, term, pumps, channel, viewer, cOut, client
  <1>others. SessionTypes' /\ PumpTypes' /\ QueueTypes' /\ DriverTypes' /\ Stages' /\
              DriversRun' /\ Carried' /\ BehindOutput' /\ ExitComes' /\ Credited'
    BY Undisturbed DEF ViewerLeaves
  <1>ViewerTypes. ViewerTypes'
    BY Sizes DEF ViewerLeaves, ViewerTypes, PerStream
  <1> QED BY <1>others, <1>ViewerTypes

\* A grant is credited.
LEMMA DTakesWindowStep ==
  ASSUME Inv, DTakesWindow
  PROVE  Inv'
  <1> USE DEF Inv, Over, program, daemon, term, pumps, channel, viewer, cOut, client
  <1>others. SessionTypes' /\ DriverTypes' /\ ViewerTypes' /\ Stages' /\ DriversRun' /\
              Carried' /\ BehindOutput' /\ ExitComes'
    BY Undisturbed DEF DTakesWindow
  <1>head. /\ back # <<>> /\ Head(back) \in ClientFrames /\ Head(back).kind = "window"
           /\ Head(back).stream \in Streams /\ Head(back).size \in Nat
           /\ back' = Tail(back) /\ back' \in Seq(ClientFrames)
    BY ClientFrameFacts DEF DTakesWindow, QueueTypes
  <1> DEFINE to == Head(back).stream
             size == Head(back).size
  <1>load. \A t \in Streams :
             /\ Load(back', "window", t) \in Nat
             /\ Load(back, "window", t) = (IF t = to THEN size ELSE 0) + Load(back', "window", t)
    <2> TAKE t \in Streams
    <2>1. Load(back, "window", t) = Weight(Head(back), "window", t) + Load(Tail(back), "window", t)
      BY <1>head, GrantLoads DEF QueueTypes
    <2>2. Weight(Head(back), "window", t) = IF t = to THEN size ELSE 0
      BY <1>head, ClientFrameFacts
    <2>3. Load(back', "window", t) \in Nat
      BY <1>head, GrantLoads
    <2> QED BY <1>head, <2>1, <2>2, <2>3
  <1>credit. credit' = [credit EXCEPT ![to] = credit[to] + size]
    BY DEF DTakesWindow
  <1>typed. to \in Streams /\ size \in Nat
    BY <1>head
  <1> HIDE DEF to, size
  <1>bound. credit[to] + size \in 1 - PumpBuf..Window
    <2>1. WithinWindow(to) /\ credit[to] \in 1 - PumpBuf..Window
      BY <1>typed DEF Credited, PumpTypes, PerStream
    <2>2. Load(back, "window", to) = size + Load(back', "window", to)
          /\ Load(back', "window", to) \in Nat
      BY <1>load, <1>typed
    <2>3. Kept(to) \in Nat /\ Sent(to) \in Nat
      BY <1>typed, Amounts DEF Kept, Sent
    <2>4. size <= Spent(to) /\ Spent(to) \in Nat
      BY <1>typed, <2>2, <2>3, Amounts DEF Spent
    <2> QED BY <1>typed, <2>1, <2>4, Sizes DEF WithinWindow
  <1>PumpTypes. PumpTypes'
    BY <1>credit, <1>bound, <1>typed DEF DTakesWindow, PumpTypes, PerStream
  <1>QueueTypes. QueueTypes'
    BY <1>head DEF DTakesWindow, QueueTypes
  <1>Credited. Credited'
    <2> SUFFICES ASSUME NEW t \in Streams PROVE WithinWindow(t)'
      BY DEF Credited
    <2>1. WithinWindow(t)
      BY DEF Credited
    <2>2. credit'[t] = credit[t] + IF t = to THEN size ELSE 0
      <3>1. credit \in [Streams -> Int]
        BY Sizes DEF PumpTypes, PerStream
      <3>2. credit[t] \in Int
        BY <3>1
      <3> QED BY <1>credit, <1>typed, <3>1, <3>2
    <2>3. Kept(t)' = Kept(t) /\ Sent(t)' = Sent(t) /\ Kept(t) \in Nat /\ Sent(t) \in Nat
      BY Amounts DEF DTakesWindow, Kept, Sent
    <2>4. credit'[t] + Spent(t)' = credit[t] + Spent(t)
      <3>1. UNCHANGED <<hand, owed, cq>>
        BY DEF DTakesWindow
      <3> QED BY <1>load, <1>typed, <2>2, <2>3, <3>1, Amounts DEF Spent
    <2> QED BY <1>typed, <2>1, <2>2, <2>4, Amounts DEF DTakesWindow, WithinWindow
  <1> QED BY <1>others, <1>PumpTypes, <1>QueueTypes, <1>Credited

\* A resize is not.
LEMMA DTakesWinsizeStep ==
  ASSUME Inv, DTakesWinsize
  PROVE  Inv'
  <1> USE DEF Inv, Over, program, daemon, term, pumps, channel, viewer, cOut, client
  <1>others. SessionTypes' /\ PumpTypes' /\ ViewerTypes' /\ Stages' /\ Carried' /\
              BehindOutput' /\ ExitComes'
    BY Undisturbed DEF DTakesWinsize
  <1>head. /\ back # <<>> /\ back' = Tail(back) /\ back' \in Seq(ClientFrames)
           /\ Head(back) \in ClientFrames /\ Head(back).kind = "winsize"
    BY DEF DTakesWinsize, QueueTypes
  <1>load. \A t : Load(back', "window", t) = Load(back, "window", t)
    <2> TAKE t
    <2>1. Load(back, "window", t) = Weight(Head(back), "window", t) + Load(Tail(back), "window", t)
      BY <1>head, GrantLoads DEF QueueTypes
    <2>2. Weight(Head(back), "window", t) = 0 /\ Load(back', "window", t) \in Nat
      BY <1>head, ClientFrameFacts, GrantLoads
    <2> QED BY <1>head, <2>1, <2>2
  <1>QueueTypes. QueueTypes'
    BY <1>head DEF DTakesWinsize, QueueTypes
  <1>DriverTypes. DriverTypes'
    BY Sizes DEF DTakesWinsize, DriverTypes
  <1>DriversRun. DriversRun'
    BY DEF DTakesWinsize, DriversRun, Up
  <1>Credited. Credited'
    <2> SUFFICES ASSUME NEW t \in Streams PROVE WithinWindow(t)'
      BY DEF Credited
    <2>1. WithinWindow(t)
      BY DEF Credited
    <2> QED BY <2>1, <1>load DEF DTakesWinsize, WithinWindow, Spent, Sent, Kept
  <1> QED BY <1>others, <1>QueueTypes, <1>DriverTypes, <1>DriversRun, <1>Credited

\* A close reaches the queue of its stream, and weighs nothing.
LEMMA CTakesCloseStep ==
  ASSUME Inv, CTakesClose
  PROVE  Inv'
  <1> USE DEF Inv, Over, program, daemon, term, pumps, channel, viewer, cOut, client
  <1>others. SessionTypes' /\ PumpTypes' /\ DriverTypes' /\ DriversRun'
    BY Undisturbed DEF CTakesClose, CTakes
  <1>head. /\ wire # <<>> /\ wire' = Tail(wire) /\ wire \in Seq(DaemonFrames)
           /\ wire' \in Seq(DaemonFrames) /\ Head(wire) \in DaemonFrames
           /\ Head(wire).kind = "close" /\ dq' = dq
    BY DEF CTakesClose, CTakes, QueueTypes
  <1>load. ASSUME NEW t
           PROVE  /\ Load(wire, "data", t) = Weight(Head(wire), "data", t) + Load(wire', "data", t)
                  /\ Load(wire', "data", t) \in Nat /\ Weight(Head(wire), "data", t) \in Nat
    BY <1>head, DataLoads, DaemonFrameFacts
  <1>exit. HasExit(wire') <=> HasExit(wire)
    BY <1>head, ExitFacts
  <1>ahead. ASSUME NEW k \in 1..Len(wire'), wire'[k].kind = "exit", NEW t
            PROVE  /\ k + 1 \in 1..Len(wire) /\ wire[k + 1].kind = "exit"
                   /\ Load(Ahead(wire, k + 1), "data", t) =
                        Weight(Head(wire), "data", t) + Load(Ahead(wire', k), "data", t)
                   /\ Load(Ahead(wire', k), "data", t) \in Nat
    <2>1. k + 1 \in 1..Len(wire) /\ wire[k + 1].kind = "exit" /\ k + 1 > 1 /\ (k + 1) - 1 = k
      BY <1>head, <1>ahead
    <2> DEFINE a == Ahead(wire, k + 1)
    <2>2. a \in Seq(DaemonFrames) /\ a # <<>> /\ Head(a) = Head(wire) /\ Tail(a) = Ahead(wire', k)
      BY <1>head, <2>1, AheadFacts
    <2> HIDE DEF a
    <2>3. Tail(a) \in Seq(DaemonFrames)
      BY <2>2
    <2>4. Load(a, "data", t) = Weight(Head(wire), "data", t) + Load(Ahead(wire', k), "data", t)
      BY <2>2, DataLoads
    <2>5. Load(Ahead(wire', k), "data", t) \in Nat
      BY <2>2, <2>3, DataLoads
    <2> QED BY <2>1, <2>4, <2>5 DEF a
  <1>zero. \A t : Weight(Head(wire), "data", t) = 0
    BY <1>head, DaemonFrameFacts
  <1>inbox. /\ inbox' \in PerStream(Seq(0..PumpBuf))
            /\ \A t \in Streams : inbox'[t] = inbox[t] \/
                 (vpc[t] \in {"recv", "grant"} /\ inbox'[t] = Append(inbox[t], 0))
    <2>1. Head(wire).stream \in Streams /\ inbox \in PerStream(Seq(0..PumpBuf))
      BY <1>head, DaemonFrameFacts DEF ViewerTypes
    <2>2. 0 \in 0..PumpBuf /\ vpc \in PerStream({"recv", "grant", "last", "done"})
      BY Sizes DEF ViewerTypes
    <2> QED BY <2>1, <2>2 DEF CTakesClose, PerStream
  <1>QueueTypes. QueueTypes'
    BY <1>head DEF CTakesClose, QueueTypes
  <1>ViewerTypes. ViewerTypes'
    BY <1>inbox DEF CTakesClose, ViewerTypes
  <1>Stages. Stages'
    BY <1>exit, <1>head DEF CTakesClose, Stages
  <1>Carried. Carried'
    <2> SUFFICES ASSUME Up', ~Over'
             PROVE  RelayLast' /\ \A t \in Streams : PumpLast(t)' /\ OnTheWay(t)'
      BY DEF Carried
    <2>1. RelayLast /\ \A t \in Streams : PumpLast(t) /\ OnTheWay(t)
      BY DEF CTakesClose, CTakes, Carried, Up
    <2>2. RelayLast'
      BY <2>1 DEF CTakesClose, CTakes, RelayLast, Stages
    <2>3. ASSUME NEW t \in Streams PROVE PumpLast(t)' /\ OnTheWay(t)'
      <3>1. PumpLast(t)'
        BY <2>1 DEF CTakesClose, CTakes, PumpLast, Stages, PumpTypes, PerStream, DriversRun, Up
      <3>2. OnTheWay(t)'
        <4>1. Sent(t)' = Sent(t)
          BY <1>load, <1>zero, <1>head DEF Sent
        <4> QED BY <2>1, <4>1 DEF CTakesClose, OnTheWay, Held
      <3> QED BY <3>1, <3>2
    <2> QED BY <2>2, <2>3
  <1>BehindOutput. BehindOutput'
    <2>1. ASSUME NEW k \in 1..Len(wire'), wire'[k].kind = "exit", NEW t \in Streams
          PROVE  early[t] <= Load(Ahead(wire', k), "data", t)
      <3>1. early[t] <= Load(Ahead(wire, k + 1), "data", t)
        BY <1>ahead, <2>1 DEF BehindOutput
      <3> QED BY <1>ahead, <1>zero, <2>1, <3>1
    <2>2. \A t \in Streams : Load(wire', "data", t) = Load(wire, "data", t)
      BY <1>load, <1>zero
    <2> QED BY <2>1, <2>2 DEF CTakesClose, BehindOutput, Up
  <1>ExitComes. ExitComes'
    BY <1>exit, <1>head DEF CTakesClose, ExitComes, Broken, Up
  <1>Credited. Credited'
    <2> SUFFICES ASSUME NEW t \in Streams PROVE WithinWindow(t)'
      BY DEF Credited
    <2>1. WithinWindow(t)
      BY DEF Credited
    <2>2. Sent(t)' = Sent(t)
      BY <1>load, <1>zero, <1>head DEF Sent
    <2>3. vpc[t] \in {"recv", "grant"} => queued[t] = Total(inbox'[t])
      <3>1. inbox[t] \in Seq(Nat) /\ Total(inbox[t]) \in Nat
        BY InboxTotals
      <3>2. Total(Append(inbox[t], 0)) = Total(inbox[t])
        BY <3>1, TotalAppend
      <3>3. Total(inbox'[t]) = Total(inbox[t])
        BY <1>inbox, <3>2
      <3> QED BY <2>1, <3>3 DEF WithinWindow
    <2> QED BY <2>1, <2>2, <2>3 DEF CTakesClose, WithinWindow, Spent, Kept
  <1> QED BY <1>others, <1>QueueTypes, <1>ViewerTypes, <1>Stages, <1>Carried,
            <1>BehindOutput, <1>ExitComes, <1>Credited

\* The client that has the Exit has all that was ahead of it.
LEMMA CTakesExitStep ==
  ASSUME Inv, CTakesExit
  PROVE  Inv'
  <1> USE DEF Inv, Over, program, daemon, term, pumps, channel, viewer, cOut, client
  <1>others. SessionTypes' /\ PumpTypes' /\ ViewerTypes' /\ DriversRun'
    BY Undisturbed DEF CTakesExit, CTakes
  <1>head. /\ wire # <<>> /\ wire' = Tail(wire) /\ wire \in Seq(DaemonFrames)
           /\ wire' \in Seq(DaemonFrames) /\ Head(wire) \in DaemonFrames
           /\ Head(wire).kind = "exit" /\ dq' = dq
    BY DEF CTakesExit, CTakes, QueueTypes
  <1>load. ASSUME NEW t
           PROVE  /\ Load(wire, "data", t) = Weight(Head(wire), "data", t) + Load(wire', "data", t)
                  /\ Load(wire', "data", t) \in Nat /\ Weight(Head(wire), "data", t) \in Nat
    BY <1>head, DataLoads, DaemonFrameFacts
  <1>zero. \A t : Weight(Head(wire), "data", t) = 0
    BY <1>head, DaemonFrameFacts
  <1>first. 1 \in 1..Len(wire) /\ wire[1].kind = "exit" /\ HasExit(wire) /\ Ahead(wire, 1) = <<>>
    <2>1. 1 \in 1..Len(wire) /\ wire[1].kind = "exit"
      BY <1>head
    <2> QED BY <1>head, <2>1, AheadFacts DEF HasExit
  <1>done. main = "done" /\ main' = "done"
    BY <1>first DEF CTakesExit, Stages
  <1>none. \A t \in Streams : early[t] = 0
    <2> TAKE t \in Streams
    <2>1. early[t] <= Load(<<>>, "data", t)
      BY <1>first DEF BehindOutput
    <2> QED BY <2>1, LoadEmpty, Amounts
  <1>QueueTypes. QueueTypes'
    BY <1>head DEF CTakesExit, QueueTypes
  <1>DriverTypes. DriverTypes'
    BY Sizes DEF CTakesExit, CTakes, DriverTypes
  <1>Stages. Stages'
    BY <1>done, <1>head DEF CTakesExit, Stages, HasExit
  <1>Carried. Carried'
    BY <1>done DEF Carried
  <1>BehindOutput. BehindOutput'
    <2>1. ASSUME NEW k \in 1..Len(wire') PROVE \A t \in Streams : Load(Ahead(wire', k), "data", t) \in Nat
      BY <1>head, AheadFacts, DataLoads
    <2>2. ASSUME NEW k \in 1..Len(dq) PROVE \A t \in Streams : Load(Ahead(dq, k), "data", t) \in Nat
      BY AheadFacts, DataLoads DEF QueueTypes
    <2>3. UNCHANGED <<early, dq>> /\ \A t \in Streams : Load(wire', "data", t) \in Nat
      BY <1>load DEF CTakesExit
    <2> QED BY <1>none, <2>1, <2>2, <2>3 DEF BehindOutput
  <1>ExitComes. ExitComes'
    BY DEF CTakesExit, ExitComes, Broken, Up
  <1>Credited. Credited'
    <2> SUFFICES ASSUME NEW t \in Streams PROVE WithinWindow(t)'
      BY DEF Credited
    <2>1. WithinWindow(t)
      BY DEF Credited
    <2>2. Sent(t)' = Sent(t)
      BY <1>load, <1>zero, <1>head DEF Sent
    <2> QED BY <2>1, <2>2 DEF CTakesExit, WithinWindow, Spent, Kept
  <1> QED BY <1>others, <1>QueueTypes, <1>DriverTypes, <1>Stages, <1>Carried,
            <1>BehindOutput, <1>ExitComes, <1>Credited

\* Data the client takes is with it, and counted for its pump or owed.
LEMMA CTakesDataStep ==
  ASSUME Inv, CTakesData
  PROVE  Inv'
  <1> USE DEF Inv, Over, program, daemon, term, pumps, channel, viewer, cOut, client
  <1>others. SessionTypes' /\ DriverTypes' /\ DriversRun'
    BY Undisturbed DEF CTakesData, CTakes, Owed
  <1>head. /\ wire # <<>> /\ wire' = Tail(wire) /\ wire \in Seq(DaemonFrames)
           /\ wire' \in Seq(DaemonFrames) /\ Head(wire) \in DaemonFrames
           /\ Head(wire).kind = "data" /\ dq' = dq
    BY DEF CTakesData, CTakes, QueueTypes
  <1>load. ASSUME NEW t
           PROVE  /\ Load(wire, "data", t) = Weight(Head(wire), "data", t) + Load(wire', "data", t)
                  /\ Load(wire', "data", t) \in Nat /\ Weight(Head(wire), "data", t) \in Nat
    BY <1>head, DataLoads, DaemonFrameFacts
  <1>exit. HasExit(wire') <=> HasExit(wire)
    BY <1>head, ExitFacts
  <1>ahead. ASSUME NEW k \in 1..Len(wire'), wire'[k].kind = "exit", NEW t
            PROVE  /\ k + 1 \in 1..Len(wire) /\ wire[k + 1].kind = "exit"
                   /\ Load(Ahead(wire, k + 1), "data", t) =
                        Weight(Head(wire), "data", t) + Load(Ahead(wire', k), "data", t)
                   /\ Load(Ahead(wire', k), "data", t) \in Nat
    <2>1. k + 1 \in 1..Len(wire) /\ wire[k + 1].kind = "exit" /\ k + 1 > 1 /\ (k + 1) - 1 = k
      BY <1>head, <1>ahead
    <2> DEFINE a == Ahead(wire, k + 1)
    <2>2. a \in Seq(DaemonFrames) /\ a # <<>> /\ Head(a) = Head(wire) /\ Tail(a) = Ahead(wire', k)
      BY <1>head, <2>1, AheadFacts
    <2> HIDE DEF a
    <2>3. Tail(a) \in Seq(DaemonFrames)
      BY <2>2
    <2>4. Load(a, "data", t) = Weight(Head(wire), "data", t) + Load(Ahead(wire', k), "data", t)
      BY <2>2, DataLoads
    <2>5. Load(Ahead(wire', k), "data", t) \in Nat
      BY <2>2, <2>3, DataLoads
    <2> QED BY <2>1, <2>4, <2>5 DEF a
  <1> DEFINE to == Head(wire).stream
             size == Head(wire).size
  <1>frame. to \in Streams /\ size \in 0..PumpBuf /\ size \in Nat
            /\ \A t : Weight(Head(wire), "data", t) = IF t = to THEN size ELSE 0
    BY <1>head, DaemonFrameFacts, Sizes
  <1>takes. /\ early' = [early EXCEPT ![to] = IF size < early[to] THEN early[to] - size ELSE 0]
            /\ IF vpc[to] \in {"last", "done"}
                 THEN owed' = [owed EXCEPT ![to] = owed[to] + size] /\ UNCHANGED <<inbox, queued>>
                 ELSE /\ inbox' = [inbox EXCEPT ![to] = Append(inbox[to], size)]
                      /\ queued' = [queued EXCEPT ![to] = queued[to] + size]
                      /\ UNCHANGED owed
    BY DEF CTakesData, Owed
  <1> HIDE DEF to, size
  <1>early. ASSUME NEW t \in Streams
            PROVE  /\ early'[t] \in Nat
                   /\ \A n \in Nat : early[t] <= n + Weight(Head(wire), "data", t) => early'[t] <= n
    <2>1. early'[t] = IF t = to THEN IF size < early[t] THEN early[t] - size ELSE 0 ELSE early[t]
      BY <1>takes, <1>frame DEF PumpTypes, PerStream
    <2>2. Weight(Head(wire), "data", t) = IF t = to THEN size ELSE 0
      BY <1>frame
    <2> QED BY <1>frame, <2>1, <2>2, Amounts
  <1>PumpTypes. PumpTypes'
    <2>1. early' \in PerStream(Nat)
      <3>1. (IF size < early[to] THEN early[to] - size ELSE 0) \in Nat
        BY <1>frame, Amounts
      <3> QED BY <1>takes, <1>frame, <3>1 DEF PumpTypes, PerStream
    <2> QED BY <2>1 DEF CTakesData, PumpTypes
  <1>QueueTypes. QueueTypes'
    BY <1>head DEF CTakesData, QueueTypes
  <1>ViewerTypes. ViewerTypes'
    <2>1. /\ inbox \in PerStream(Seq(0..PumpBuf)) /\ queued \in PerStream(Nat) /\ owed \in PerStream(Nat)
      BY DEF ViewerTypes
    <2>2. Append(inbox[to], size) \in Seq(0..PumpBuf)
      <3>1. inbox[to] \in Seq(0..PumpBuf)
        BY <1>frame, <2>1 DEF PerStream
      <3> QED BY <1>frame, <3>1
    <2>3. queued[to] + size \in Nat /\ owed[to] + size \in Nat
      <3>1. queued[to] \in Nat /\ owed[to] \in Nat
        BY <1>frame, <2>1 DEF PerStream
      <3> QED BY <1>frame, <3>1
    <2>4. owed' \in PerStream(Nat)
      BY <1>takes, <2>1, <2>3 DEF PerStream
    <2>5. inbox' \in PerStream(Seq(0..PumpBuf))
      BY <1>takes, <2>1, <2>2 DEF PerStream
    <2>6. queued' \in PerStream(Nat)
      BY <1>takes, <2>1, <2>3 DEF PerStream
    <2>7. due' = due /\ vpc' = vpc /\ gone' = gone
      BY DEF CTakesData
    <2> QED BY <2>4, <2>5, <2>6, <2>7 DEF ViewerTypes
  <1>Stages. Stages'
    BY <1>exit, <1>head DEF CTakesData, Stages
  <1>Carried. Carried'
    <2> SUFFICES ASSUME Up', ~Over'
             PROVE  RelayLast' /\ \A t \in Streams : PumpLast(t)' /\ OnTheWay(t)'
      BY DEF Carried
    <2>1. RelayLast /\ \A t \in Streams : PumpLast(t) /\ OnTheWay(t)
      BY DEF CTakesData, CTakes, Owed, Carried, Up
    <2>2. RelayLast'
      BY <2>1 DEF CTakesData, CTakes, Owed, RelayLast, Stages
    <2>3. ASSUME NEW t \in Streams PROVE PumpLast(t)' /\ OnTheWay(t)'
      <3>1. PumpLast(t)'
        BY <2>1 DEF CTakesData, CTakes, Owed, PumpLast, Stages, PumpTypes, PerStream, DriversRun, Up
      <3>2. OnTheWay(t)'
        <4> DEFINE w == Weight(Head(wire), "data", t)
        <4>1. Sent(t) = Sent(t)' + w /\ Sent(t)' \in Nat /\ w \in Nat /\ Sent(t) \in Nat
          <5> DEFINE d == Load(dq, "data", t)
                     behind == Load(wire', "data", t)
          <5>1. d \in Nat /\ behind \in Nat /\ w \in Nat /\ Load(wire, "data", t) = w + behind
            BY <1>load, Amounts
          <5>2. Sent(t) = d + (w + behind)
            BY <5>1 DEF Sent
          <5>3. Sent(t)' = d + behind
            BY <1>head DEF Sent
          <5> HIDE DEF d, behind, w
          <5> QED BY <5>1, <5>2, <5>3
        <4>2. Held(t)' = Held(t) /\ Held(t) \in Nat
          BY Amounts DEF CTakesData, Held
        <4>3. \A n \in Nat : early[t] <= n + w => early'[t] <= n
          BY <1>early
        <4> HIDE DEF w
        <4>4. /\ early[t] <= Sent(t) + Held(t) => early'[t] <= Sent(t)' + Held(t)
              /\ early[t] <= Sent(t) + left => early'[t] <= Sent(t)' + left
              /\ early[t] <= Sent(t) => early'[t] <= Sent(t)'
          <5>1. /\ Sent(t) + Held(t) = (Sent(t)' + Held(t)) + w /\ Sent(t)' + Held(t) \in Nat
                /\ Sent(t) + left = (Sent(t)' + left) + w /\ Sent(t)' + left \in Nat
            BY <4>1, <4>2, Amounts
          <5> QED BY <4>1, <4>3, <5>1
        <4> QED BY <2>1, <4>2, <4>4 DEF CTakesData, OnTheWay
      <3> QED BY <3>1, <3>2
    <2> QED BY <2>2, <2>3
  <1>BehindOutput. BehindOutput'
    <2>1. ASSUME NEW k \in 1..Len(wire'), wire'[k].kind = "exit", NEW t \in Streams
          PROVE  early'[t] <= Load(Ahead(wire', k), "data", t)
      <3>1. early[t] <= Load(Ahead(wire, k + 1), "data", t)
        BY <1>ahead, <2>1 DEF BehindOutput
      <3>2. Load(Ahead(wire, k + 1), "data", t) =
              Weight(Head(wire), "data", t) + Load(Ahead(wire', k), "data", t)
        BY <1>ahead, <2>1
      <3> DEFINE w == Weight(Head(wire), "data", t)
                 n == Load(Ahead(wire', k), "data", t)
      <3>3. n \in Nat /\ w \in Nat
        BY <1>ahead, <1>load, <2>1
      <3>4. early[t] <= n + w => early'[t] <= n
        BY <1>early, <3>3
      <3> HIDE DEF w, n
      <3>5. early[t] <= w + n
        BY <3>1, <3>2 DEF w, n
      <3>6. w + n = n + w
        BY <3>3
      <3>7. early'[t] <= n
        BY <3>4, <3>5, <3>6
      <3> QED BY <3>7 DEF n
    <2>2. ASSUME Up, NEW k \in 1..Len(dq), dq[k].kind = "exit", NEW t \in Streams
          PROVE  early'[t] <= Load(wire', "data", t) + Load(Ahead(dq, k), "data", t)
      <3>1. early[t] <= Load(wire, "data", t) + Load(Ahead(dq, k), "data", t)
        BY <2>2 DEF BehindOutput
      <3>2. Load(Ahead(dq, k), "data", t) \in Nat
        BY AheadFacts, DataLoads DEF QueueTypes
      <3> DEFINE w == Weight(Head(wire), "data", t)
                 behind == Load(wire', "data", t)
                 ahead == Load(Ahead(dq, k), "data", t)
                 n == behind + ahead
      <3>3. w \in Nat /\ behind \in Nat /\ ahead \in Nat
            /\ Load(wire, "data", t) = w + behind
        BY <1>load, <3>2
      <3>4. \A m \in Nat : early[t] <= m + w => early'[t] <= m
        BY <1>early
      <3>5. early[t] <= (w + behind) + ahead
        BY <3>1, <3>3
      <3> HIDE DEF w, behind, ahead
      <3>6. n \in Nat /\ (w + behind) + ahead = n + w
        BY <3>3
      <3> HIDE DEF n
      <3>7. early'[t] <= n
        BY <3>4, <3>5, <3>6
      <3> QED BY <3>7 DEF n, behind, ahead
    <2>3. exitIn => \A t \in Streams : early'[t] = 0
      <3> SUFFICES ASSUME exitIn, NEW t \in Streams PROVE early'[t] = 0
        OBVIOUS
      <3>1. early[t] = 0
        BY DEF BehindOutput
      <3> QED BY <1>early, <1>load, <3>1
    <2> QED BY <1>head, <2>1, <2>2, <2>3 DEF CTakesData, BehindOutput, Up
  <1>ExitComes. ExitComes'
    BY <1>exit, <1>head DEF CTakesData, ExitComes, Broken, Up
  <1>Credited. Credited'
    <2> SUFFICES ASSUME NEW t \in Streams PROVE WithinWindow(t)'
      BY DEF Credited
    <2>1. WithinWindow(t)
      BY DEF Credited
    <2>2. Sent(t) = Sent(t)' + (IF t = to THEN size ELSE 0) /\ Sent(t)' \in Nat
      <3>1. Load(wire, "data", t) = (IF t = to THEN size ELSE 0) + Load(wire', "data", t)
        BY <1>load, <1>frame
      <3>2. Load(wire', "data", t) \in Nat /\ dq' = dq
        BY <1>load, <1>head
      <3> QED BY <1>frame, <3>1, <3>2, Amounts DEF Sent
    <2>3. CASE t # to
      <3>1. inbox'[t] = inbox[t] /\ queued'[t] = queued[t] /\ owed'[t] = owed[t]
        BY <1>takes, <1>frame, <2>3 DEF ViewerTypes, PerStream
      <3> QED BY <2>1, <2>2, <2>3, <3>1 DEF CTakesData, WithinWindow, Spent, Kept
    <2>4. CASE t = to /\ vpc[t] \in {"last", "done"}
      <3>1. owed'[t] = owed[t] + size /\ queued' = queued
        BY <1>takes, <1>frame, <2>4 DEF ViewerTypes, PerStream
      <3>2. Kept(t)' = Kept(t) /\ Kept(t) \in Nat
        BY <3>1, Amounts DEF CTakesData, Kept
      <3>3. Spent(t)' = Spent(t)
        <4> DEFINE h == hand[t]
                   d == Sent(t)'
                   k == Kept(t)
                   o == owed[t]
                   c == Load(cq, "window", t)
                   b == Load(back, "window", t)
        <4>1. /\ h \in Nat /\ d \in Nat /\ k \in Nat /\ o \in Nat /\ c \in Nat /\ b \in Nat
              /\ Sent(t) = d + size /\ size \in Nat
          BY <1>frame, <2>2, <2>4, <3>2, Amounts
        <4>2. Spent(t) = h + (d + size) + k + o + c + b
          BY <4>1 DEF Spent
        <4>3. Spent(t)' = h + d + k + (o + size) + c + b
          <5>1. UNCHANGED <<hand, cq, back>>
            BY DEF CTakesData
          <5> QED BY <3>1, <3>2, <5>1 DEF Spent
        <4> HIDE DEF h, d, k, o, c, b
        <4>4. h + (d + size) + k + o + c + b = h + d + k + (o + size) + c + b
          BY <4>1
        <4> QED BY <4>2, <4>3, <4>4
      <3> QED BY <2>1, <2>4, <3>3 DEF CTakesData, WithinWindow
    <2>5. CASE t = to /\ vpc[t] \notin {"last", "done"}
      <3>1. /\ owed' = owed /\ queued'[t] = queued[t] + size /\ inbox'[t] = Append(inbox[t], size)
            /\ vpc[t] \in {"recv", "grant"}
        BY <1>takes, <1>frame, <2>5 DEF ViewerTypes, PerStream
      <3>2. Kept(t)' = Kept(t) + size /\ Kept(t) \in Nat
        <4>1. vpc' = vpc /\ due' = due
          BY DEF CTakesData
        <4>2. Kept(t) = due[t] + queued[t] /\ due[t] \in Nat /\ queued[t] \in Nat
          BY <3>1, Amounts DEF Kept
        <4>3. Kept(t)' = due[t] + (queued[t] + size)
          BY <3>1, <4>1 DEF Kept
        <4> QED BY <1>frame, <4>2, <4>3
      <3>3. Spent(t)' = Spent(t)
        <4> DEFINE h == hand[t]
                   d == Sent(t)'
                   k == Kept(t)
                   o == owed[t]
                   c == Load(cq, "window", t)
                   b == Load(back, "window", t)
        <4>1. /\ h \in Nat /\ d \in Nat /\ k \in Nat /\ o \in Nat /\ c \in Nat /\ b \in Nat
              /\ Sent(t) = d + size /\ size \in Nat
          BY <1>frame, <2>2, <2>5, <3>2, Amounts
        <4>2. Spent(t) = h + (d + size) + k + o + c + b
          BY <4>1 DEF Spent
        <4>3. Spent(t)' = h + d + (k + size) + o + c + b
          <5>1. UNCHANGED <<hand, cq, back>>
            BY DEF CTakesData
          <5> QED BY <3>1, <3>2, <5>1 DEF Spent
        <4> HIDE DEF h, d, k, o, c, b
        <4>4. h + (d + size) + k + o + c + b = h + d + (k + size) + o + c + b
          BY <4>1
        <4> QED BY <4>2, <4>3, <4>4
      <3>4. inbox[t] \in Seq(Nat)
        BY InboxTotals
      <3>5. Total(inbox'[t]) = Total(inbox[t]) + size
        BY <1>frame, <3>1, <3>4, TotalAppend
      <3> QED BY <2>1, <3>1, <3>3, <3>5 DEF CTakesData, WithinWindow
    <2> QED BY <2>3, <2>4, <2>5
  <1> QED BY <1>others, <1>PumpTypes, <1>QueueTypes, <1>ViewerTypes, <1>Stages,
            <1>Carried, <1>BehindOutput, <1>ExitComes, <1>Credited

\* What a pump of the client writes out it will grant.
LEMMA VWritesStep ==
  ASSUME Inv, NEW s \in Streams, VWrites(s)
  PROVE  Inv'
  <1> USE DEF Inv, Over, program, daemon, term, pumps, channel, viewer, cOut, client
  <1>others. SessionTypes' /\ PumpTypes' /\ QueueTypes' /\ DriverTypes' /\ Stages' /\
              DriversRun' /\ Carried' /\ BehindOutput' /\ ExitComes'
    BY Undisturbed DEF VWrites
  <1>front. /\ inbox[s] \in Seq(0..PumpBuf) /\ inbox[s] # <<>> /\ inbox[s] \in Seq(Nat)
            /\ Head(inbox[s]) \in 0..PumpBuf /\ Head(inbox[s]) \in Nat
            /\ Tail(inbox[s]) \in Seq(0..PumpBuf) /\ Tail(inbox[s]) \in Seq(Nat)
            /\ Total(inbox[s]) = Head(inbox[s]) + Total(Tail(inbox[s]))
            /\ Total(Tail(inbox[s])) \in Nat
            /\ vpc[s] = "recv" /\ queued[s] = Total(inbox[s])
    <2> DEFINE box == inbox[s]
    <2>1. box \in Seq(0..PumpBuf) /\ box # <<>> /\ box \in Seq(Nat)
      BY InboxTotals DEF VWrites, ViewerTypes, PerStream
    <2>2. /\ Head(box) \in 0..PumpBuf /\ Head(box) \in Nat
          /\ Tail(box) \in Seq(0..PumpBuf) /\ Tail(box) \in Seq(Nat)
      <3> HIDE DEF box
      <3> QED BY <2>1, FrontOf
    <2>3. Total(box) = Head(box) + Total(Tail(box)) /\ Total(Tail(box)) \in Nat
      BY <2>1, <2>2, TotalTail, TotalNat
    <2>4. vpc[s] = "recv" /\ queued[s] = Total(box)
      BY DEF VWrites, Credited, WithinWindow
    <2> QED BY <2>1, <2>2, <2>3, <2>4
  <1>nat. queued[s] - Head(inbox[s]) = Total(Tail(inbox[s]))
    BY <1>front
  <1>ViewerTypes. ViewerTypes'
    BY <1>front, <1>nat DEF VWrites, ViewerTypes, PerStream
  <1>Credited. Credited'
    <2> SUFFICES ASSUME NEW t \in Streams PROVE WithinWindow(t)'
      BY DEF Credited
    <2>1. WithinWindow(t)
      BY DEF Credited
    <2>2. UNCHANGED <<hand, cq, back, owed, dq, wire, credit, pump>>
      BY DEF VWrites
    <2>3. Sent(t)' = Sent(t) /\ Sent(t) \in Nat
      BY <2>2, Amounts DEF Sent
    <2>4. CASE t = s
      <3>1. /\ due'[s] = Head(inbox[s]) /\ inbox'[s] = Tail(inbox[s]) /\ vpc'[s] = "grant"
            /\ queued'[s] = queued[s] - Head(inbox[s])
        BY DEF VWrites, ViewerTypes, PerStream
      <3>2. Kept(s)' = queued[s]
        BY <1>front, <1>nat, <3>1, Amounts DEF Kept
      <3>3. Kept(s)' <= Kept(s) /\ Kept(s) \in Nat /\ Kept(s)' \in Nat
        <4>1. Kept(s) = due[s] + queued[s] /\ due[s] \in Nat /\ queued[s] \in Nat
          BY <1>front, Amounts DEF Kept
        <4> QED BY <3>2, <4>1
      <3>4. Spent(s)' <= Spent(s) /\ Spent(s)' \in Nat /\ Spent(s) \in Nat
        BY <2>2, <2>3, <2>4, <3>3, Amounts DEF Spent
      <3>5. queued'[s] = Total(inbox'[s])
        BY <1>nat, <3>1
      <3> QED BY <2>1, <2>2, <2>4, <3>4, <3>5, Amounts DEF WithinWindow
    <2>5. CASE t # s
      <3>1. due'[t] = due[t] /\ inbox'[t] = inbox[t] /\ vpc'[t] = vpc[t] /\ queued'[t] = queued[t]
        BY <2>5 DEF VWrites, ViewerTypes, PerStream
      <3>2. Kept(t)' = Kept(t)
        BY <3>1 DEF Kept
      <3> QED BY <2>1, <2>2, <2>3, <3>1, <3>2 DEF WithinWindow, Spent
    <2> QED BY <2>4, <2>5
  <1> QED BY <1>others, <1>ViewerTypes, <1>Credited

\* A pump whose write fails grants all that is queued for it.
LEMMA VAbandonsStep ==
  ASSUME Inv, NEW s \in Streams, VAbandons(s)
  PROVE  Inv'
  <1> USE DEF Inv, Over, program, daemon, term, pumps, channel, viewer, cOut, client
  <1>others. SessionTypes' /\ PumpTypes' /\ QueueTypes' /\ DriverTypes' /\ Stages' /\
              DriversRun' /\ Carried' /\ BehindOutput' /\ ExitComes'
    BY Undisturbed DEF VAbandons
  <1>ViewerTypes. ViewerTypes'
    <2>1. /\ inbox \in PerStream(Seq(0..PumpBuf)) /\ queued \in PerStream(Nat)
          /\ due \in PerStream(Nat) /\ vpc \in PerStream({"recv", "grant", "last", "done"})
      BY DEF ViewerTypes
    <2>2. queued[s] \in Nat /\ <<>> \in Seq(0..PumpBuf)
      BY Amounts
    <2>3. inbox' \in PerStream(Seq(0..PumpBuf))
      BY <2>1, <2>2 DEF VAbandons, PerStream
    <2>4. queued' \in PerStream(Nat) /\ due' \in PerStream(Nat)
      BY <2>1, <2>2 DEF VAbandons, PerStream
    <2>5. vpc' \in PerStream({"recv", "grant", "last", "done"})
      BY <2>1 DEF VAbandons, PerStream
    <2>6. owed' = owed /\ gone' = gone
      BY DEF VAbandons
    <2> QED BY <2>3, <2>4, <2>5, <2>6 DEF ViewerTypes
  <1>Credited. Credited'
    <2> SUFFICES ASSUME NEW t \in Streams PROVE WithinWindow(t)'
      BY DEF Credited
    <2>1. WithinWindow(t)
      BY DEF Credited
    <2>2. UNCHANGED <<hand, cq, back, owed, dq, wire, credit, pump>>
      BY DEF VAbandons
    <2>3. Sent(t)' = Sent(t) /\ Sent(t) \in Nat
      BY <2>2, Amounts DEF Sent
    <2>4. CASE t = s
      <3>1. due'[s] = queued[s] /\ vpc'[s] = "last" /\ vpc[s] = "recv"
        BY DEF VAbandons, ViewerTypes, PerStream
      <3>2. Kept(s)' = queued[s]
        BY <3>1, Amounts DEF Kept
      <3>3. Kept(s)' <= Kept(s) /\ Kept(s) \in Nat /\ Kept(s)' \in Nat
        BY <3>1, <3>2, Amounts DEF Kept
      <3> QED BY <2>1, <2>2, <2>3, <2>4, <3>1, <3>3, Amounts DEF WithinWindow, Spent
    <2>5. CASE t # s
      <3>1. due'[t] = due[t] /\ inbox'[t] = inbox[t] /\ vpc'[t] = vpc[t] /\ queued'[t] = queued[t]
        BY <2>5 DEF VAbandons, ViewerTypes, PerStream
      <3>2. Kept(t)' = Kept(t)
        BY <3>1 DEF Kept
      <3> QED BY <2>1, <2>2, <2>3, <3>1, <3>2 DEF WithinWindow, Spent
    <2> QED BY <2>4, <2>5
  <1> QED BY <1>others, <1>ViewerTypes, <1>Credited

\* A grant is queued, or there is no writer for it.
LEMMA VGrantsStep ==
  ASSUME Inv, NEW s \in Streams, VGrants(s)
  PROVE  Inv'
  <1> USE DEF Inv, Over, program, daemon, term, pumps, channel, viewer, cOut, client
  <1>others. SessionTypes' /\ PumpTypes' /\ DriverTypes' /\ Stages' /\ DriversRun' /\
              Carried' /\ BehindOutput' /\ ExitComes'
    BY Undisturbed DEF VGrants
  <1>cq. /\ cq' \in Seq(ClientFrames)
         /\ \A t \in Streams : /\ Load(cq', "window", t) \in Nat
                   /\ Load(cq', "window", t) <=
                        Load(cq, "window", t) + (IF t = s THEN due[s] ELSE 0)
    <2>1. CASE cq' = Append(cq, WindowFrame(s, due[s]))
      <3> DEFINE f == WindowFrame(s, due[s])
      <3>1. f \in ClientFrames /\ \A t : Weight(f, "window", t) = IF t = s THEN due[s] ELSE 0
        BY NewClientFrames, Amounts
      <3>2. cq \in Seq(ClientFrames) /\ due[s] \in Nat /\ cq' = Append(cq, f)
        BY <2>1, Amounts DEF QueueTypes
      <3> HIDE DEF f
      <3>3. \A t \in Streams : Load(cq', "window", t) = Load(cq, "window", t) + Weight(f, "window", t)
        BY <3>1, <3>2, GrantLoads
      <3> SUFFICES ASSUME NEW t \in Streams
                   PROVE  LET n == Load(cq', "window", t)
                          IN  n \in Nat /\ n <= Load(cq, "window", t) + (IF t = s THEN due[s] ELSE 0)
        <4>1. cq' \in Seq(ClientFrames)
          BY <3>1, <3>2
        <4> QED BY <4>1
      <3>4. Load(cq, "window", t) \in Nat
        BY Amounts
      <3>5. Load(cq', "window", t) = Load(cq, "window", t) + (IF t = s THEN due[s] ELSE 0)
        BY <3>1, <3>3
      <3> QED BY <3>2, <3>4, <3>5
    <2>2. CASE cq' = cq
      <3>1. due[s] \in Nat /\ cq \in Seq(ClientFrames)
        BY Amounts DEF QueueTypes
      <3> QED BY <2>2, <3>1, Amounts
    <2> QED BY <2>1, <2>2 DEF VGrants
  <1>QueueTypes. QueueTypes'
    BY <1>cq DEF VGrants, QueueTypes
  <1>ViewerTypes. ViewerTypes'
    BY Sizes DEF VGrants, ViewerTypes, PerStream
  <1>Credited. Credited'
    <2> SUFFICES ASSUME NEW t \in Streams PROVE WithinWindow(t)'
      BY DEF Credited
    <2>1. WithinWindow(t)
      BY DEF Credited
    <2>2. UNCHANGED <<hand, back, owed, dq, wire, credit, pump, queued, inbox>>
      BY DEF VGrants
    <2>3. Sent(t)' = Sent(t) /\ Sent(t) \in Nat
      BY <2>2, Amounts DEF Sent
    <2>4. /\ Kept(t)' + (IF t = s THEN due[s] ELSE 0) <= Kept(t) /\ Kept(t) \in Nat /\ Kept(t)' \in Nat
          /\ vpc'[t] \in {"recv", "grant"} => vpc[t] \in {"recv", "grant"}
      <3>1. CASE t = s
        <4>1. due'[s] = 0 /\ vpc'[s] = (IF vpc[s] = "grant" THEN "recv" ELSE "done")
              /\ vpc[s] \in {"grant", "last"}
          BY DEF VGrants, ViewerTypes, PerStream
        <4> QED BY <2>2, <3>1, <4>1, Amounts DEF Kept
      <3>2. CASE t # s
        <4>1. due'[t] = due[t] /\ vpc'[t] = vpc[t]
          BY <3>2 DEF VGrants, ViewerTypes, PerStream
        <4>2. Kept(t)' = Kept(t) /\ Kept(t) \in Nat
          BY <2>2, <4>1, Amounts DEF Kept
        <4> QED BY <3>2, <4>1, <4>2
      <3> QED BY <3>1, <3>2
    <2>5. Spent(t)' <= Spent(t) /\ Spent(t)' \in Nat /\ Spent(t) \in Nat
      <3>1. /\ Load(cq', "window", t) \in Nat
            /\ Load(cq', "window", t) <= Load(cq, "window", t) + (IF t = s THEN due[s] ELSE 0)
        BY <1>cq
      <3> QED BY <2>2, <2>3, <2>4, <3>1, Amounts DEF Spent
    <2> QED BY <2>1, <2>2, <2>4, <2>5, Amounts DEF WithinWindow
  <1> QED BY <1>others, <1>QueueTypes, <1>ViewerTypes, <1>Credited

\* A pump that ends takes nothing more.
LEMMA VEndsStep ==
  ASSUME Inv, NEW s \in Streams, VEnds(s)
  PROVE  Inv'
  <1> USE DEF Inv, Over, program, daemon, term, pumps, channel, viewer, cOut, client
  <1>others. SessionTypes' /\ PumpTypes' /\ QueueTypes' /\ DriverTypes' /\ Stages' /\
              DriversRun' /\ Carried' /\ BehindOutput' /\ ExitComes'
    BY Undisturbed DEF VEnds
  <1>ViewerTypes. ViewerTypes'
    BY Sizes DEF VEnds, ViewerTypes, PerStream
  <1>Credited. Credited'
    <2> SUFFICES ASSUME NEW t \in Streams PROVE WithinWindow(t)'
      BY DEF Credited
    <2>1. WithinWindow(t)
      BY DEF Credited
    <2>2. UNCHANGED <<hand, cq, back, owed, dq, wire, credit, pump>>
      BY DEF VEnds
    <2>3. Sent(t)' = Sent(t) /\ Sent(t) \in Nat
      BY <2>2, Amounts DEF Sent
    <2>4. /\ vpc'[t] \in {"recv", "grant"} =>
               /\ t # s /\ vpc[t] = vpc'[t]
               /\ inbox'[t] = inbox[t] /\ queued'[t] = queued[t]
          /\ due' = due
      BY DEF VEnds, ViewerTypes, PerStream
    <2>5. Kept(t)' <= Kept(t) /\ Kept(t)' \in Nat /\ Kept(t) \in Nat
      BY <2>4, Amounts DEF Kept
    <2>6. Spent(t)' <= Spent(t) /\ Spent(t)' \in Nat /\ Spent(t) \in Nat
      BY <2>2, <2>3, <2>5, Amounts DEF Spent
    <2> QED BY <2>1, <2>2, <2>4, <2>6, Amounts DEF WithinWindow
  <1> QED BY <1>others, <1>ViewerTypes, <1>Credited

\* A resize is queued, which is no grant.
LEMMA ResizeStep ==
  ASSUME Inv, Resize
  PROVE  Inv'
  <1> USE DEF Inv, Over, program, daemon, term, pumps, channel, viewer, cOut, client
  <1>others. SessionTypes' /\ PumpTypes' /\ ViewerTypes' /\ Stages' /\ DriversRun' /\
              Carried' /\ BehindOutput' /\ ExitComes'
    BY Undisturbed DEF Resize
  <1>cq. cq' \in Seq(ClientFrames) /\ \A t \in Streams : Load(cq', "window", t) = Load(cq, "window", t)
    <2> DEFINE f == WinsizeFrame
    <2>1. f \in ClientFrames /\ \A t : Weight(f, "window", t) = 0
      BY Sizes, NewClientFrames
    <2>2. cq \in Seq(ClientFrames) /\ cq' = Append(cq, f)
      BY DEF Resize, QueueTypes
    <2> HIDE DEF f
    <2>3. \A t \in Streams : Load(cq', "window", t) = Load(cq, "window", t) + Weight(f, "window", t)
      BY <2>1, <2>2, GrantLoads
    <2> QED BY <2>1, <2>2, <2>3, Amounts
  <1>QueueTypes. QueueTypes'
    BY <1>cq DEF Resize, QueueTypes
  <1>DriverTypes. DriverTypes'
    BY Sizes DEF Resize, DriverTypes
  <1>Credited. Credited'
    <2> SUFFICES ASSUME NEW t \in Streams PROVE WithinWindow(t)'
      BY DEF Credited
    <2>1. WithinWindow(t)
      BY DEF Credited
    <2>2. UNCHANGED <<hand, back, owed, dq, wire, credit, pump, queued, inbox, vpc, due>>
      BY DEF Resize
    <2> QED BY <1>cq, <2>1, <2>2 DEF WithinWindow, Spent, Sent, Kept
  <1> QED BY <1>others, <1>QueueTypes, <1>DriverTypes, <1>Credited

\* What is owed is granted.
LEMMA CFlushesStep ==
  ASSUME Inv, NEW s \in Streams, CFlushes(s)
  PROVE  Inv'
  <1> USE DEF Inv, Over, program, daemon, term, pumps, channel, viewer, cOut, client
  <1>others. SessionTypes' /\ PumpTypes' /\ DriverTypes' /\ Stages' /\ DriversRun' /\
              Carried' /\ BehindOutput' /\ ExitComes'
    BY Undisturbed DEF CFlushes
  <1>back. back' \in Seq(ClientFrames) /\ \A t \in Streams :
             Load(back', "window", t) = Load(back, "window", t) + (IF t = s THEN owed[s] ELSE 0)
    <2> DEFINE f == WindowFrame(s, owed[s])
    <2>1. f \in ClientFrames /\ \A t : Weight(f, "window", t) = IF t = s THEN owed[s] ELSE 0
      BY NewClientFrames, Amounts
    <2>2. back \in Seq(ClientFrames) /\ back' = Append(back, f)
      BY DEF CFlushes, QueueTypes
    <2> HIDE DEF f
    <2>3. \A t \in Streams : Load(back', "window", t) = Load(back, "window", t) + Weight(f, "window", t)
      BY <2>1, <2>2, GrantLoads
    <2> QED BY <2>1, <2>2, <2>3
  <1>QueueTypes. QueueTypes'
    BY <1>back DEF CFlushes, QueueTypes
  <1>ViewerTypes. ViewerTypes'
    BY Sizes DEF CFlushes, ViewerTypes, PerStream
  <1>Credited. Credited'
    <2> SUFFICES ASSUME NEW t \in Streams PROVE WithinWindow(t)'
      BY DEF Credited
    <2>1. WithinWindow(t)
      BY DEF Credited
    <2>2. UNCHANGED <<hand, cq, dq, wire, credit, pump, queued, inbox, vpc, due>>
      BY DEF CFlushes
    <2>3. owed'[t] = IF t = s THEN 0 ELSE owed[t]
      BY DEF CFlushes, ViewerTypes, PerStream
    <2>4. Load(back', "window", t) + owed'[t] = Load(back, "window", t) + owed[t]
      BY <1>back, <2>3, Amounts
    <2>5. Sent(t)' = Sent(t) /\ Kept(t)' = Kept(t) /\ Sent(t) \in Nat /\ Kept(t) \in Nat
      BY <2>2, Amounts DEF Sent, Kept
    <2>6. Load(back', "window", t) \in Nat /\ owed'[t] \in Nat
      BY <1>back, <2>3, Amounts
    <2>7. Spent(t)' = Spent(t)
      BY <2>2, <2>4, <2>5, <2>6, Amounts DEF Spent
    <2> QED BY <2>1, <2>2, <2>7 DEF WithinWindow
  <1> QED BY <1>others, <1>QueueTypes, <1>ViewerTypes, <1>Credited

\* A grant moves on to the channel.
LEMMA CWritesStep ==
  ASSUME Inv, CWrites
  PROVE  Inv'
  <1> USE DEF Inv, Over, program, daemon, term, pumps, channel, viewer, cOut, client
  <1>others. SessionTypes' /\ PumpTypes' /\ DriverTypes' /\ ViewerTypes' /\ Stages' /\
              DriversRun' /\ Carried' /\ BehindOutput' /\ ExitComes'
    BY Undisturbed DEF CWrites, NothingOwed
  <1>moves. /\ back' \in Seq(ClientFrames) /\ cq' \in Seq(ClientFrames)
            /\ \A t \in Streams :
                 /\ Load(back', "window", t) \in Nat /\ Load(cq', "window", t) \in Nat
                 /\ Load(back', "window", t) + Load(cq', "window", t) =
                      Load(back, "window", t) + Load(cq, "window", t)
    <2> DEFINE f == Head(cq)
    <2>1. /\ cq # <<>> /\ cq \in Seq(ClientFrames) /\ back \in Seq(ClientFrames)
          /\ back' = Append(back, f) /\ cq' = Tail(cq) /\ f \in ClientFrames
      BY DEF CWrites, QueueTypes
    <2>2. back' \in Seq(ClientFrames) /\ cq' \in Seq(ClientFrames)
      BY <2>1
    <2>3. ASSUME NEW t \in Streams
          PROVE  /\ Load(cq, "window", t) = Weight(f, "window", t) + Load(cq', "window", t)
                 /\ Load(back', "window", t) = Load(back, "window", t) + Weight(f, "window", t)
                 /\ Weight(f, "window", t) \in Nat
                 /\ Load(cq', "window", t) \in Nat /\ Load(back', "window", t) \in Nat
      BY <2>1, <2>2, GrantLoads, ClientFrameFacts
    <2> HIDE DEF f
    <2> QED BY <2>2, <2>3, Amounts
  <1>QueueTypes. QueueTypes'
    BY <1>moves DEF CWrites, QueueTypes
  <1>Credited. Credited'
    <2> SUFFICES ASSUME NEW t \in Streams PROVE WithinWindow(t)'
      BY DEF Credited
    <2>1. WithinWindow(t)
      BY DEF Credited
    <2>2. UNCHANGED <<hand, owed, dq, wire, credit, pump, queued, inbox, vpc, due>>
      BY DEF CWrites
    <2>5. Sent(t)' = Sent(t) /\ Kept(t)' = Kept(t) /\ Sent(t) \in Nat /\ Kept(t) \in Nat
      BY <2>2, Amounts DEF Sent, Kept
    <2>7. Spent(t)' = Spent(t)
      <3>1. /\ Load(back', "window", t) \in Nat /\ Load(cq', "window", t) \in Nat
            /\ Load(back', "window", t) + Load(cq', "window", t) =
                 Load(back, "window", t) + Load(cq, "window", t)
        BY <1>moves
      <3> QED BY <2>2, <2>5, <3>1, Amounts DEF Spent
    <2> QED BY <2>1, <2>2, <2>7 DEF WithinWindow
  <1> QED BY <1>others, <1>QueueTypes, <1>Credited

\* A writer that fails drops the grants.
LEMMA CWriterFailsStep ==
  ASSUME Inv, CWriterFails
  PROVE  Inv'
  <1> USE DEF Inv, Over, program, daemon, term, pumps, channel, viewer, cOut, client
  <1>others. SessionTypes' /\ PumpTypes' /\ Stages' /\ DriversRun' /\ Carried' /\
              BehindOutput' /\ ExitComes'
    BY Undisturbed DEF CWriterFails, NothingOwed
  <1>QueueTypes. QueueTypes'
    BY Sizes DEF CWriterFails, NothingOwed, QueueTypes
  <1>DriverTypes. DriverTypes'
    BY Sizes DEF CWriterFails, NothingOwed, DriverTypes
  <1>ViewerTypes. ViewerTypes'
    BY Sizes DEF CWriterFails, NothingOwed, ViewerTypes, PerStream
  <1>Credited. Credited'
    <2> SUFFICES ASSUME NEW t \in Streams PROVE WithinWindow(t)'
      BY DEF Credited
    <2>1. WithinWindow(t)
      BY DEF Credited
    <2>2. UNCHANGED <<hand, back, dq, wire, credit, pump, queued, inbox, vpc, due>>
      BY DEF CWriterFails
    <2>3. owed'[t] = 0 /\ Load(cq', "window", t) = 0
      BY LoadEmpty DEF CWriterFails
    <2>5. Sent(t)' = Sent(t) /\ Kept(t)' = Kept(t) /\ Sent(t) \in Nat /\ Kept(t) \in Nat
      BY <2>2, Amounts DEF Sent, Kept
    <2>7. Spent(t)' <= Spent(t) /\ Spent(t)' \in Nat /\ Spent(t) \in Nat
      BY <2>2, <2>3, <2>5, Amounts DEF Spent
    <2> QED BY <2>1, <2>2, <2>7, Amounts DEF WithinWindow
  <1> QED BY <1>others, <1>QueueTypes, <1>DriverTypes, <1>ViewerTypes, <1>Credited

\* A channel that fails keeps what was ahead of what it delivers.
LEMMA ChannelEndsStep ==
  ASSUME Inv, ChannelEnds
  PROVE  Inv'
  <1> USE DEF Inv, Over, program, daemon, term, pumps, channel, viewer, cOut, client
  <1>others. SessionTypes' /\ PumpTypes' /\ ViewerTypes'
    BY Undisturbed DEF ChannelEnds
  <1>cut. /\ wire' \in Seq(DaemonFrames) /\ back' \in Seq(ClientFrames)
          /\ HasExit(wire') => HasExit(wire)
          /\ \A t \in Streams :
               /\ Load(wire', "data", t) <= Load(wire, "data", t) /\ Load(wire', "data", t) \in Nat
               /\ Load(back', "window", t) <= Load(back, "window", t) /\ Load(back', "window", t) \in Nat
          /\ \A k \in 1..Len(wire') :
               k \in 1..Len(wire) /\ wire[k] = wire'[k] /\ Ahead(wire', k) = Ahead(wire, k)
    <2>1. PICK n \in 0..Len(wire), m \in 0..Len(back) :
            wire' = SubSeq(wire, 1, n) /\ back' = SubSeq(back, 1, m)
      BY DEF ChannelEnds
    <2>2. /\ wire' \in Seq(DaemonFrames) /\ back' \in Seq(ClientFrames)
          /\ wire \in Seq(DaemonFrames) /\ back \in Seq(ClientFrames) /\ Len(wire') = n
      BY <2>1 DEF QueueTypes
    <2>3. ASSUME NEW t \in Streams
          PROVE  /\ Load(wire', "data", t) <= Load(wire, "data", t) /\ Load(wire', "data", t) \in Nat
                 /\ Load(back', "window", t) <= Load(back, "window", t) /\ Load(back', "window", t) \in Nat
      BY <2>1, <2>2, DataLoads, GrantLoads
    <2>4. HasExit(wire') => HasExit(wire)
      BY <2>1, <2>2, ExitFacts
    <2>5. ASSUME NEW k \in 1..Len(wire')
          PROVE  k \in 1..Len(wire) /\ wire[k] = wire'[k] /\ Ahead(wire', k) = Ahead(wire, k)
      <3>1. k \in 1..n /\ k \in 1..Len(wire) /\ wire[k] = wire'[k]
        BY <2>1, <2>2
      <3> QED BY <2>1, <2>2, <3>1, AheadFacts
    <2> QED BY <2>2, <2>3, <2>4, <2>5
  <1>QueueTypes. QueueTypes'
    BY <1>cut DEF ChannelEnds, QueueTypes
  <1>DriverTypes. DriverTypes'
    BY Sizes DEF ChannelEnds, DriverTypes
  <1>Stages. Stages'
    BY <1>cut DEF ChannelEnds, Stages
  <1>DriversRun. DriversRun'
    BY DEF ChannelEnds, DriversRun, Up
  <1>Carried. Carried'
    BY DEF ChannelEnds, Carried, Up
  <1>BehindOutput. BehindOutput'
    <2>1. ASSUME NEW k \in 1..Len(wire'), wire'[k].kind = "exit", NEW t \in Streams
          PROVE  early[t] <= Load(Ahead(wire', k), "data", t)
      <3>1. k \in 1..Len(wire) /\ wire[k] = wire'[k] /\ Ahead(wire', k) = Ahead(wire, k)
        BY <1>cut
      <3> QED BY <2>1, <3>1 DEF BehindOutput
    <2> QED BY <2>1 DEF ChannelEnds, BehindOutput, Up
  <1>ExitComes. ExitComes'
    BY DEF ChannelEnds, ExitComes, Broken, Up
  <1>Credited. Credited'
    <2> SUFFICES ASSUME NEW t \in Streams PROVE WithinWindow(t)'
      BY DEF Credited
    <2>1. WithinWindow(t)
      BY DEF Credited
    <2>2. UNCHANGED <<hand, owed, cq, dq, credit, pump, queued, inbox, vpc, due>>
      BY DEF ChannelEnds
    <2>3. Sent(t)' <= Sent(t) /\ Sent(t)' \in Nat /\ Sent(t) \in Nat
      <3>1. Load(wire', "data", t) <= Load(wire, "data", t) /\ Load(wire', "data", t) \in Nat
        BY <1>cut
      <3> QED BY <2>2, <3>1, Amounts DEF Sent
    <2>5. Kept(t)' = Kept(t) /\ Kept(t) \in Nat
      BY <2>2, Amounts DEF Kept
    <2>7. Spent(t)' <= Spent(t) /\ Spent(t)' \in Nat /\ Spent(t) \in Nat
      <3>1. Load(back', "window", t) <= Load(back, "window", t) /\ Load(back', "window", t) \in Nat
        BY <1>cut
      <3>2. /\ hand[t] \in Nat /\ owed[t] \in Nat
            /\ Load(cq, "window", t) \in Nat /\ Load(back, "window", t) \in Nat
        BY Amounts
      <3> QED BY <2>2, <2>3, <2>5, <3>1, <3>2 DEF Spent
    <2> QED BY <2>1, <2>2, <2>7, Amounts DEF WithinWindow
  <1> QED BY <1>others, <1>QueueTypes, <1>DriverTypes, <1>Stages, <1>DriversRun,
            <1>Carried, <1>BehindOutput, <1>ExitComes, <1>Credited

-----------------------------------------------------------------------------
(* The invariant holds from the start and in every step.                     *)

LEMMA InitInv == Init => Inv
  <1> SUFFICES ASSUME Init PROVE Inv
    OBVIOUS
  <1>1. SessionTypes /\ DriverTypes
    <2>1. 0 \in 0..Pty /\ 0 \in 0..Depth /\ 0 \in 0..Resizes
      BY Sizes
    <2>2. relay \in {"runs", "ended"}
      BY DEF Init
    <2> QED BY <2>1, <2>2 DEF Init, SessionTypes, DriverTypes
  <1>2. PumpTypes /\ ViewerTypes
    BY Sizes DEF Init, PumpTypes, ViewerTypes, PerStream
  <1>3. QueueTypes
    BY DEF Init, QueueTypes
  <1>4. \A s : Load(dq, "data", s) = 0 /\ Load(wire, "data", s) = 0
               /\ Load(cq, "window", s) = 0 /\ Load(back, "window", s) = 0
    BY LoadEmpty DEF Init
  <1>5. Stages /\ DriversRun /\ ExitComes
    BY DEF Init, Stages, DriversRun, ExitComes, HasExit, Up, Broken
  <1>6. RelayLast /\ \A s \in Streams : PumpLast(s) /\ OnTheWay(s)
    BY <1>4 DEF Init, RelayLast, PumpLast, OnTheWay, Sent, Held
  <1>7. BehindOutput
    BY DEF Init, BehindOutput
  <1>8. Credited
    <2> SUFFICES ASSUME NEW s \in Streams PROVE WithinWindow(s)
      BY DEF Credited
    <2>1. Spent(s) = 0 /\ credit[s] = Window
      BY <1>4 DEF Init, Spent, Sent, Kept
    <2> QED BY <2>1, TotalEmpty, Sizes DEF Init, WithinWindow
  <1> QED BY <1>1, <1>2, <1>3, <1>5, <1>6, <1>7, <1>8 DEF Inv, Carried

LEMMA StepInv == Inv /\ [Next]_vars => Inv'
  <1> SUFFICES ASSUME Inv, [Next]_vars PROVE Inv'
    OBVIOUS
  <1>1. CASE Program
    BY <1>1, WritesToPtyStep, WritesToSocketStep, ProgramExitsStep, LeftoverEndsStep DEF Program
  <1>2. CASE RelayCopies \/ RelayEnds \/ InputFreed \/ MainFails
    BY <1>2, RelayCopiesStep, RelayEndsStep, InputFreedStep, MainFailsStep
  <1>3. CASE \E s \in Streams : Pump(s)
    BY <1>3, PumpReadyStep, PumpReadsStep, PumpEofStep, PumpSendsStep DEF Pump
  <1>4. CASE Main
    BY <1>4, MainRecvStep, MainHungUpStep, KillTakesStep, MainReapsStep, MainJoinsStep,
       MainTargetsStep, MainPassesStep, MainSendsExitStep DEF Main
  <1>5. CASE DWrites \/ DShuts \/ DReader
    BY <1>5, DWritesStep, DShutsStep, DTakesWindowStep, DTakesWinsizeStep, DDeliversStep,
       DEndsStep DEF DReader
  <1>6. CASE CReader \/ CReturns
    BY <1>6, CTakesDataStep, CTakesCloseStep, CTakesExitStep, CEndsStep, CReturnsStep DEF CReader
  <1>7. CASE \E s \in Streams : Viewer(s)
    BY <1>7, VWritesStep, VAbandonsStep, VGrantsStep, VEndsStep DEF Viewer
  <1>8. CASE Resize \/ Flush \/ CWrites \/ CWriterFails \/ CShuts
    BY <1>8, ResizeStep, CFlushesStep, CWritesStep, CWriterFailsStep, CShutsStep DEF Flush
  <1>9. CASE (\E s \in Streams : ViewerLeaves(s)) \/ ChannelEnds
    BY <1>9, ViewerLeavesStep, ChannelEndsStep
  <1>10. CASE Terminated \/ UNCHANGED vars
    <2>1. UNCHANGED vars
      BY <1>10 DEF Terminated
    <2> QED BY <2>1, Undisturbed DEF Inv, vars, program, daemon, term, pumps, channel,
               viewer, cOut, client
  <1> QED BY <1>1, <1>2, <1>3, <1>4, <1>5, <1>6, <1>7, <1>8, <1>9, <1>10 DEF Next

LEMMA Invariant == Spec => []Inv
  BY InitInv, StepInv, PTL DEF Spec

-----------------------------------------------------------------------------
\* No queue, buffer or count leaves its range, and no stream is ever sent more
\* than its window and what one read may overshoot it by, for every window,
\* frame size and depth (Progress.available, the window grants of Flow::owe and
\* of spawn_blocking_writer).
THEOREM SessionTypeOK == Spec => []TypeOK
  <1>1. Inv => TypeOK
    BY TypeParts DEF Inv
  <1> QED BY <1>1, Invariant, PTL

\* A client that has the Exit has everything the program wrote before it exited,
\* on every output, for every number of outputs and every size (Flow::barrier
\* and the join of the relay in Bridge::stop).
THEOREM SessionOutputBeforeExit == Spec => []OutputBeforeExit
  <1>1. Inv => OutputBeforeExit
    BY DEF Inv, BehindOutput, OutputBeforeExit
  <1> QED BY <1>1, Invariant, PTL

\* A client is left without the Exit only by a channel, or a wait for the program,
\* that failed: never by the daemon's drop of the transport behind it (writer_task,
\* which drains).
THEOREM SessionExitNotLost == Spec => []ExitNotLost
  <1>1. Inv => ExitNotLost
    BY DEF Inv, ExitComes, ExitNotLost
  <1> QED BY <1>1, Invariant, PTL

-----------------------------------------------------------------------------
(* The session keeps what Report promises.                                   *)

\* What the promise speaks of.
Telling == <<prog, early, outcome, Broken>>

\* A step of the promise, or none.
Promised == [Promise!Next]_(Promise!vars)

LEMMA Untold == UNCHANGED Telling => Promised
  BY DEF Promised, Telling, Promise!vars

\* The program writes, and exits.
LEMMA ProgramPromised ==
  ASSUME Inv, Program
  PROVE  Promised
  <1> USE DEF program, daemon, term, pumps, channel, viewer, cOut, client
  <1>1. ASSUME NEW s \in Streams, Counts(s), UNCHANGED <<prog, outcome, link, main>> PROVE Promised
    <2>1. CASE prog = "runs" /\ Up
      <3>1. Promise!Write(s)
        BY <1>1, <2>1 DEF Promise!Write, Counts, Up, Broken, Inv, Stages
      <3> QED BY <3>1 DEF Promised, Promise!Next
    <2>2. CASE ~(prog = "runs" /\ Up)
      BY <1>1, <2>2, Untold DEF Counts, Telling, Broken
    <2> QED BY <2>1, <2>2
  <1>2. CASE WritesToPty
    BY <1>1, <1>2, Sizes DEF WritesToPty
  <1>3. CASE \E s \in Streams : WritesToSocket(s)
    BY <1>1, <1>3 DEF WritesToSocket
  <1>4. CASE ProgramExits
    BY <1>4 DEF ProgramExits, Promised, Promise!Next, Promise!Exit, Broken
  <1>5. CASE LeftoverEnds
    BY <1>5, Untold DEF LeftoverEnds, Telling, Broken
  <1> QED BY <1>2, <1>3, <1>4, <1>5 DEF Program

\* The client takes output, and is told the end.
LEMMA ClientPromised ==
  ASSUME Inv, CReader \/ CReturns
  PROVE  Promised
  <1> USE DEF program, daemon, term, pumps, channel, viewer, cOut, client
  <1>types. early \in [Streams -> Nat]
    BY DEF Inv, PumpTypes, PerStream
  <1>1. CASE CTakesData
    <2> DEFINE s == Head(wire).stream
               size == Head(wire).size
               n == IF size < early[s] THEN size ELSE early[s]
    <2>1. wire # <<>> /\ Head(wire).kind = "data"
          /\ early' = [early EXCEPT ![s] = IF size < early[s] THEN early[s] - size ELSE 0]
          /\ UNCHANGED <<prog, outcome, link, main>>
      BY <1>1 DEF CTakesData, CTakes
    <2>2. s \in Streams /\ size \in Nat
      <3>1. Head(wire) \in DaemonFrames
        BY <2>1 DEF Inv, QueueTypes
      <3> QED BY <2>1, <3>1, Sizes DEF DaemonFrames, ExitFrame
    <2> HIDE DEF s, size
    <2>3. n \in Nat /\ n <= early[s] /\ early' = [early EXCEPT ![s] = early[s] - n]
      <3>1. early[s] \in Nat
        BY <1>types, <2>2
      <3>2. n \in Nat /\ n <= early[s]
        BY <2>2, <3>1
      <3>3. (IF size < early[s] THEN early[s] - size ELSE 0) = early[s] - n
        BY <2>2, <3>1
      <3> QED BY <2>1, <3>2, <3>3
    <2> HIDE DEF n
    <2>4. CASE n = 0
      <3>1. early' = early
        BY <1>types, <2>2, <2>3, <2>4
      <3> QED BY <2>1, <3>1, Untold DEF Telling, Broken
    <2>5. CASE n # 0
      <3>1. n \in 1..early[s]
        BY <1>types, <2>2, <2>3, <2>5
      <3>2. Promise!Show(s)
        BY <2>1, <2>3, <3>1 DEF Promise!Show, Broken
      <3> QED BY <2>2, <3>2 DEF Promised, Promise!Next
    <2> QED BY <2>4, <2>5
  <1>2. CASE CTakesClose \/ CTakesExit
    BY <1>2, Untold DEF CTakesClose, CTakesExit, CTakes, Telling, Broken
  <1>3. CASE CEnds
    <2>1. ~Up /\ wire = <<>> /\ early' = Promise!Nothing /\ UNCHANGED <<prog, outcome, link, main>>
      BY <1>3 DEF CEnds, Promise!Nothing
    <2>2. CASE Broken
      BY <2>1, <2>2 DEF Promised, Promise!Next, Promise!Break, Broken
    <2>3. CASE link = "shut" /\ ~Broken
      <3>1. exitIn
        BY <2>1, <2>3 DEF Inv, ExitComes, HasExit, Broken
      <3>2. early = Promise!Nothing
        BY <1>types, <3>1 DEF Inv, BehindOutput, Promise!Nothing
      <3> QED BY <2>1, <3>2, Untold DEF Telling, Broken
    <2> QED BY <2>1, <2>2, <2>3 DEF Up, Inv, DriverTypes, Broken
  <1>4. CASE CReturns
    <2>1. /\ outcome = "none" /\ (exitIn \/ cEnded)
          /\ outcome' = IF exitIn THEN "exited" ELSE "closed"
          /\ UNCHANGED <<prog, early, Broken>>
      BY <1>4 DEF CReturns, Broken
    <2>2. CASE exitIn
      <3>1. prog = "exited"
        BY <2>2 DEF Inv, Stages
      <3>2. early = Promise!Nothing
        BY <1>types, <2>2 DEF Inv, BehindOutput, Promise!Nothing
      <3> QED BY <2>1, <2>2, <3>1, <3>2 DEF Promised, Promise!Next, Promise!Tell
    <2>3. CASE ~exitIn
      <3>1. Broken
        BY <2>1, <2>3 DEF Inv, ExitComes
      <3> QED BY <2>1, <2>3, <3>1 DEF Promised, Promise!Next, Promise!Tell
    <2> QED BY <2>2, <2>3
  <1> QED BY <1>1, <1>2, <1>3, <1>4 DEF CReader

\* Everything else says and loses nothing, unless the channel or the wait fails.
LEMMA OthersPromised ==
  ASSUME Inv, [Next]_vars, ~Program, ~(CReader \/ CReturns)
  PROVE  Promised
  <1> USE DEF program, daemon, term, pumps, channel, viewer, cOut, client
  <1>down. link' = (IF Up THEN "shut" ELSE link) /\ UNCHANGED <<prog, early, outcome, main>> => Promised
    BY DEF Up, Promised, Promise!vars, Broken
  <1>1. CASE RelayCopies \/ RelayEnds \/ InputFreed \/ \E s \in Streams : Pump(s)
    BY <1>1, Untold DEF RelayCopies, RelayEnds, InputFreed, Pump, PumpReady, PumpReads, PumpEof, PumpSends,
       Telling, Broken
  <1>2. CASE Main
    <2>1. CASE KillTakes
      BY <2>1 DEF KillTakes, Promised, Promise!Next, Promise!Exit, Broken
    <2>2. CASE ~KillTakes
      BY <1>2, <2>2, Untold DEF Main, MainRecv, MainHungUp, MainReaps, MainJoins, MainTargets,
         MainPasses, MainSendsExit, BarrierBegins, Telling, Broken
    <2> QED BY <2>1, <2>2
  <1>3. CASE DWrites \/ DShuts \/ DReader
    BY <1>3, <1>down, Untold DEF DWrites, DShuts, DReader, DTakesWindow, DTakesWinsize,
       DDelivers, DEnds, Telling, Broken
  <1>4. CASE (\E s \in Streams : Viewer(s)) \/ Resize \/ Flush
    BY <1>4, Untold DEF Viewer, VWrites, VAbandons, VGrants, VEnds, Resize, Flush, CFlushes,
       Telling, Broken
  <1>5. CASE CWrites \/ CWriterFails \/ CShuts \/ \E s \in Streams : ViewerLeaves(s)
    BY <1>5, <1>down, Untold DEF CWrites, CWriterFails, CShuts, ViewerLeaves, Telling, Broken
  <1>6. CASE ChannelEnds \/ MainFails
    BY <1>6 DEF ChannelEnds, MainFails, Promised, Promise!Next, Promise!Break, Broken
  <1>7. CASE Terminated \/ UNCHANGED vars
    BY <1>7, Untold DEF Terminated, vars, Telling, Broken
  <1> QED BY <1>1, <1>2, <1>3, <1>4, <1>5, <1>6, <1>7 DEF Next

\* MuxSession implements Report, for every number of outputs and every size: the
\* client is told the exit at most once, after it and behind all output; only if the
\* channel, or the wait for the program, failed is output lost or the channel told
\* to have closed (await_outcome).
THEOREM SessionIsReport == Spec => IsReport
  <1>1. Init => Promise!Init
    BY DEF Init, Promise!Init, Promise!Nothing, Broken
  <1>2. Inv /\ [Next]_vars => Promised
    BY ProgramPromised, ClientPromised, OthersPromised
  <1> QED BY <1>1, <1>2, Invariant, PTL DEF Spec, IsReport, Promise!Spec, Promised
=============================================================================
